---------------------------- MODULE AuthInductive ----------------------------
(***************************************************************************)
(* The inductive invariant of Auth: while the connection is open and the   *)
(* server makes no fault, at most one frame or answer is under way, it is  *)
(* that of the holder of the control slot, and it decides what the client  *)
(* and the server may disagree about.                                      *)
(***************************************************************************)
EXTENDS Auth

Notes == Logins \cup {NoOp} \cup Nat

Frames ==
  {f \in [from : Ops, carries : Notes, kind : {"logout", "request", "submit"}] :
     f.kind = "logout" <=> f.from \in Logouts}

Answers ==
  {a \in [kind : {"challenge", "accept", "refuse", "error", "garbled"},
          to : {"any", "login", "logout"}, of : Ops \cup {NoOp}, fields : Seq(Nat)] :
     /\ a.kind = "challenge" => a.fields[3] \in Nat
     /\ a.kind = "accept" => a.to = IF a.of \in Logins THEN "login" ELSE "logout"}

QueueTypeOK ==
  /\ note \in [Ops -> Notes] /\ outbox \in Seq(Frames) /\ inbox \in Seq(Answers)
  /\ entry \in Answers \cup {NoAnswer}
  /\ slot \in Logins /\ entry.kind = "accept" => entry.of \in Logins
  /\ challenge \in [of : Logins \cup {NoOp}, id : Nat] /\ rounds \in Nat /\ faults \in Nat
  /\ \A o \in Logouts : pc[o] # "challenged"
  /\ \A o \in Logins :
       pc[o] # "clearing" /\ (pc[o] \in {"idle", "queueing"} => note[o] = NoOp)

\* The server has made no fault, and the client can still hear it.
Sound == faults = 0 /\ open

\* The holder of the control slot waits for an answer; the one that is there.
Waiting == slot # NoOp /\ pc[slot] = "asking"
Reached == IF inbox # <<>> THEN Head(inbox) ELSE entry

\* What an answer on its way to the holder of the slot says of the server.
Replies(a) ==
  /\ a.of = slot /\ a.to \in {"any", IF slot \in Logins THEN "login" ELSE "logout"}
  /\ a.kind \in {"challenge", "accept", "refuse", "error"}
  /\ a.kind = "challenge" => slot \in Logins /\ challenge.of = slot
  /\ a.kind = "challenge" /\ "newDevice" \notin Kinds => ChallengeID(a.fields) = challenge.id
  /\ a.kind = "accept" /\ slot \in Logins => served = slot

\* One frame or answer is under way for the exchange that waits, none otherwise.
FlightInv ==
  Sound =>
    /\ ~Waiting => outbox = <<>> /\ inbox = <<>> /\ entry = NoAnswer
    /\ Waiting =>
         \/ /\ Len(outbox) = 1 /\ Head(outbox) = Frame(slot)
            /\ inbox = <<>> /\ entry = NoAnswer
         \/ /\ outbox = <<>> /\ Replies(Reached)
            /\ (Len(inbox) = 1 /\ entry = NoAnswer) \/ inbox = <<>>

\* A login that has a code to submit, or has submitted it.
Due(o) ==
  \/ pc[o] = "challenged"
  \/ note[o] # NoOp /\ pc[o] = "sending"
  \/ note[o] # NoOp /\ pc[o] = "asking" /\ outbox # <<>>

\* A login that goes on to submit holds the challenge the server waits for.
ChallengeInv ==
  Sound /\ "newDevice" \notin Kinds =>
    \A o \in Logins :
      Due(o) => challenge = [of |-> o, id |-> note[o]]

\* An acceptance that is decided at the server and not yet at the client.
Accepting == Waiting /\ Reached.kind = "accept"

\* The client's view is the server's, save while an acceptance or its effect is due.
ViewInv ==
  Sound /\ authenticated =>
    session = served \/ Accepting \/ \E o \in Logouts : pc[o] = "clearing"

\* An open client that has a session says so.
TokenInv == open /\ session # NoOp => authenticated

\* The server serves nobody but whom the client names, and whom a logout under way
\* names; a logout that is decided leaves it serving nobody.
Agreed ==
  /\ served \in {session, NoOp}
  /\ \A l \in Logouts :
       /\ Running(l) => served \in {note[l], NoOp}
       /\ (pc[l] = "clearing" \/ (Accepting /\ slot = l)) => served = NoOp

\* They agree until a login succeeds while a logout runs, or is about to succeed.
KeptInv == Sound /\ overlapped = {} => Agreed \/ (Accepting /\ slot \in Logins)

AInv ==
  TypeOK /\ QueueTypeOK /\ FlightInv /\ ChallengeInv /\ ViewInv /\ TokenInv /\ KeptInv
=============================================================================
