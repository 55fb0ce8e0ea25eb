-------------------------------- MODULE Auth --------------------------------
(***************************************************************************)
(* Sessions (auth.go): logins with their challenge rounds, and logouts, in *)
(* goroutines of their own on one Client, and the server they talk to.     *)
(* Authenticate holds the control slot over all its rounds.  Logout reads  *)
(* the token before it has the slot and clears the state of the client     *)
(* after it has given the slot back.  A token and its user are named by    *)
(* the login the server gave them to; Client models the transport below.   *)
(***************************************************************************)
EXTENDS Naturals, Sequences

CONSTANTS Logins, Logouts,
          Kinds,       \* the challenges of this server: "mfa", "newDevice"
          NoOp,        \* no login, no token, a free control slot
          MaxRounds,   \* bound on the challenges the server issues
          MaxFaults    \* bound on Errors nobody asked for and garbled answers

Ops == Logins \cup Logouts

ASSUME AuthAssumption ==
  /\ Logins \cap Logouts = {} /\ NoOp \notin Ops
  /\ Kinds \subseteq {"mfa", "newDevice"}
  /\ MaxRounds \in Nat /\ MaxFaults \in Nat

VARIABLES
  pc,             \* [Ops -> where Authenticate or Logout is]
  ctxDone,        \* operations whose context has ended
  slot,           \* Client.controlLock
  entry,          \* the channel in Client.control
  note,           \* [Logins -> challenge ID to submit], [Logouts -> Token()]
  authenticated, session,   \* the fields of Client, token and userID as one
  open,
  outbox, inbox,  \* frames to the server and from it
  served,         \* the session the server holds for the connection
  challenge,      \* the challenge it waits for
  rounds, faults, \* challenges issued, faults made
  overlapped      \* logouts during which a login has succeeded

clientVars == <<pc, ctxDone, slot, entry, note, authenticated, session, open, overlapped>>
serverVars == <<served, challenge, rounds, faults>>
vars == <<pc, ctxDone, slot, entry, note, authenticated, session, open,
          outbox, inbox, served, challenge, rounds, faults, overlapped>>

NoAnswer == [kind |-> "none", to |-> "none", of |-> NoOp, fields |-> <<>>]
NoChallenge == [of |-> NoOp, id |-> 0]

Init ==
  /\ pc = [o \in Ops |-> "idle"] /\ ctxDone = {}
  /\ slot = NoOp /\ entry = NoAnswer /\ note = [o \in Ops |-> NoOp]
  /\ authenticated = FALSE /\ session = NoOp /\ open = TRUE
  /\ outbox = <<>> /\ inbox = <<>>
  /\ served = NoOp /\ challenge = NoChallenge
  /\ rounds = 0 /\ faults = 0 /\ overlapped = {}

-----------------------------------------------------------------------------
(* Authenticate and Logout. *)

Goto(o, label) == pc' = [pc EXCEPT ![o] = label]

\* Return, with the deferred release of the control slot and of its channel.
Return(o) ==
  /\ Goto(o, "done")
  /\ slot' = NoOp /\ entry' = NoAnswer

Shutdown == open' = FALSE /\ authenticated' = FALSE

Begin(o) ==
  /\ pc[o] = "idle"
  /\ Goto(o, "queueing")
  /\ note' = IF o \in Logouts THEN [note EXCEPT ![o] = session] ELSE note
  /\ UNCHANGED <<ctxDone, slot, entry, authenticated, session, open, overlapped,
                 outbox, inbox, serverVars>>

\* select may take a free slot even when the context has ended.
TakeSlot(o) ==
  /\ pc[o] = "queueing" /\ slot = NoOp
  /\ slot' = o /\ entry' = NoAnswer
  /\ Goto(o, "sending")
  /\ UNCHANGED <<ctxDone, note, authenticated, session, open, overlapped,
                 outbox, inbox, serverVars>>

Refuse(o) ==
  /\ pc[o] = "queueing" /\ (o \in ctxDone \/ ~open)
  /\ Goto(o, "done")
  /\ UNCHANGED <<ctxDone, slot, entry, note, authenticated, session, open, overlapped,
                 outbox, inbox, serverVars>>

Frame(o) ==
  [from |-> o, carries |-> note[o],
   kind |-> IF o \in Logouts THEN "logout" ELSE IF note[o] = NoOp THEN "request" ELSE "submit"]

Ask(o) ==
  /\ pc[o] = "sending" /\ open /\ o \notin ctxDone
  /\ outbox' = Append(outbox, Frame(o))
  /\ Goto(o, "asking")
  /\ UNCHANGED <<ctxDone, slot, entry, note, authenticated, session, open, overlapped,
                 inbox, serverVars>>

AskFails(o) ==
  /\ pc[o] = "sending" /\ (o \in ctxDone \/ ~open)
  /\ Return(o)
  /\ UNCHANGED <<ctxDone, note, authenticated, session, open, overlapped,
                 outbox, inbox, serverVars>>

\* The third string of either challenge is taken for its ID.
ChallengeID(fields) == fields[3]

\* Mutant of Challenged: the slot is free while the user is asked.
ChallengedFree(o) ==
  /\ pc[o] = "asking" /\ o \in Logins /\ entry.kind = "challenge"
  /\ note' = [note EXCEPT ![o] = ChallengeID(entry.fields)]
  /\ entry' = NoAnswer /\ slot' = NoOp
  /\ Goto(o, "challenged")
  /\ UNCHANGED <<ctxDone, authenticated, session, open, overlapped, outbox, inbox, serverVars>>

Challenged(o) ==
  /\ pc[o] = "asking" /\ o \in Logins /\ entry.kind = "challenge"
  /\ note' = [note EXCEPT ![o] = ChallengeID(entry.fields)]
  /\ entry' = NoAnswer
  /\ Goto(o, "challenged")
  /\ UNCHANGED <<ctxDone, slot, authenticated, session, open, overlapped, outbox, inbox, serverVars>>

\* The callback has a code: the next round.
Submit(o) ==
  /\ pc[o] = "challenged"
  /\ Goto(o, "sending")
  /\ UNCHANGED <<ctxDone, slot, entry, note, authenticated, session, open, overlapped,
                 outbox, inbox, serverVars>>

\* Mutant of Decline: an early return without the release.
DeclineHeld(o) ==
  /\ pc[o] = "challenged"
  /\ Goto(o, "done")
  /\ UNCHANGED <<ctxDone, slot, entry, note, authenticated, session, open, overlapped,
                 outbox, inbox, serverVars>>

\* There is no callback, or it fails.
Decline(o) ==
  /\ pc[o] = "challenged"
  /\ Return(o)
  /\ UNCHANGED <<ctxDone, note, authenticated, session, open, overlapped,
                 outbox, inbox, serverVars>>

Running(o) == pc[o] \in {"queueing", "sending", "asking", "clearing"}

\* Authenticate does not look whether the client is still open.
LoggedIn(o) ==
  /\ pc[o] = "asking" /\ o \in Logins /\ entry.kind = "accept"
  /\ authenticated' = TRUE /\ session' = entry.of
  /\ overlapped' = overlapped \cup {l \in Logouts : Running(l)}
  /\ Return(o)
  /\ UNCHANGED <<ctxDone, note, open, outbox, inbox, serverVars>>

LoggedOut(o) ==
  /\ pc[o] = "asking" /\ o \in Logouts /\ entry.kind = "accept"
  /\ slot' = NoOp /\ entry' = NoAnswer
  /\ Goto(o, "clearing")
  /\ UNCHANGED <<ctxDone, note, authenticated, session, open, overlapped,
                 outbox, inbox, serverVars>>

\* Mutant of Fails: a logout that is refused clears the client too.
FailsCleared(o) ==
  /\ pc[o] = "asking" /\ entry.kind \in {"refuse", "error", "garbled"}
  /\ slot' = NoOp /\ entry' = NoAnswer
  /\ Goto(o, IF o \in Logouts THEN "clearing" ELSE "done")
  /\ UNCHANGED <<ctxDone, note, authenticated, session, open, overlapped,
                 outbox, inbox, serverVars>>

\* Success is false, an Error came instead, or the answer does not decode.
Fails(o) ==
  /\ pc[o] = "asking" /\ entry.kind \in {"refuse", "error", "garbled"}
  /\ Return(o)
  /\ UNCHANGED <<ctxDone, note, authenticated, session, open, overlapped,
                 outbox, inbox, serverVars>>

Clear(o) ==
  /\ pc[o] = "clearing"
  /\ authenticated' = FALSE /\ session' = NoOp
  /\ Goto(o, "done")
  /\ UNCHANGED <<ctxDone, slot, entry, note, open, overlapped, outbox, inbox, serverVars>>

\* Mutant of Expire: the connection stays open.
ExpireOpen(o) ==
  /\ pc[o] = "asking" /\ o \in ctxDone
  /\ Return(o)
  /\ UNCHANGED <<ctxDone, note, authenticated, session, open, overlapped,
                 outbox, inbox, serverVars>>

\* The context ends while the answer is awaited: the connection is given up.
Expire(o) ==
  /\ pc[o] = "asking" /\ o \in ctxDone
  /\ Shutdown
  /\ Return(o)
  /\ UNCHANGED <<ctxDone, note, session, overlapped, outbox, inbox, serverVars>>

SeeClosed(o) ==
  /\ pc[o] = "asking" /\ ~open
  /\ Return(o)
  /\ UNCHANGED <<ctxDone, note, authenticated, session, open, overlapped,
                 outbox, inbox, serverVars>>

EndContext(o) ==
  /\ pc[o] # "done"
  /\ ctxDone' = ctxDone \cup {o}
  /\ UNCHANGED <<pc, slot, entry, note, authenticated, session, open, overlapped,
                 outbox, inbox, serverVars>>

Close ==
  /\ open
  /\ Shutdown
  /\ UNCHANGED <<pc, ctxDone, slot, entry, note, session, overlapped, outbox, inbox, serverVars>>

-----------------------------------------------------------------------------
(* readLoop: an answer goes to the exchange under way if that one accepts   *)
(* its type and its channel is empty; an Error goes to any exchange.        *)

Accepts(a) ==
  /\ slot # NoOp /\ pc[slot] \in {"sending", "asking"} /\ entry = NoAnswer
  /\ a.to \in {"any", IF slot \in Logins THEN "login" ELSE "logout"}

Deliver ==
  /\ inbox # <<>>
  /\ inbox' = Tail(inbox)
  /\ entry' = IF Accepts(Head(inbox)) THEN Head(inbox) ELSE entry
  /\ UNCHANGED <<pc, ctxDone, slot, note, authenticated, session, open, overlapped,
                 outbox, serverVars>>

-----------------------------------------------------------------------------
(* The server. *)

Answer(kind, to, of, fields) ==
  inbox' = Append(inbox, [kind |-> kind, to |-> to, of |-> of, fields |-> fields])

Text == 0   \* any text that is no ID: a type, a hint, an address, a device

\* The strings of the two challenges in the order of their Marshal.
Fields(kind, id) ==
  IF kind = "mfa" THEN <<Text, Text, id>> ELSE <<Text, id, Text>>

Consume(f) == outbox # <<>> /\ f = Head(outbox) /\ outbox' = Tail(outbox)

ServeChallenge(f) ==
  /\ rounds < MaxRounds
  /\ rounds' = rounds + 1
  /\ challenge' = [of |-> f.from, id |-> rounds']
  /\ \E k \in Kinds : Answer("challenge", "login", f.from, Fields(k, rounds'))
  /\ UNCHANGED <<served, faults>>

ServeAccept(f) ==
  /\ served' = f.from /\ challenge' = NoChallenge
  /\ Answer("accept", "login", f.from, <<>>)
  /\ UNCHANGED <<rounds, faults>>

ServeRefuse(f) ==
  /\ challenge' = NoChallenge
  /\ \/ Answer("refuse", IF f.from \in Logins THEN "login" ELSE "logout", f.from, <<>>)
     \/ Answer("error", "any", f.from, <<>>)
  /\ UNCHANGED <<served, rounds, faults>>

ServeLogin(f) ==
  /\ f.kind = "request"
  /\ ServeChallenge(f) \/ ServeAccept(f) \/ ServeRefuse(f)

ServeSubmit(f) ==
  /\ f.kind = "submit"
  /\ \/ ServeRefuse(f)
     \/ /\ f.carries = challenge.id /\ f.from = challenge.of
        /\ ServeChallenge(f) \/ ServeAccept(f)

\* The session the token names ends, if it is the one of this connection.
ServeEnd(f) ==
  /\ served' = IF served = f.carries THEN NoOp ELSE served
  /\ Answer("accept", "logout", f.from, <<>>)
  /\ UNCHANGED <<challenge, rounds, faults>>

ServeLogout(f) ==
  /\ f.kind = "logout"
  /\ ServeRefuse(f) \/ ServeEnd(f)

\* A fault of the server: it acts, and its answer does not decode.
ServeGarbled(f) ==
  /\ faults < MaxFaults /\ faults' = faults + 1
  /\ served' \in {served, IF f.kind = "logout" THEN NoOp ELSE f.from}
  /\ Answer("garbled", IF f.from \in Logins THEN "login" ELSE "logout", f.from, <<>>)
  /\ UNCHANGED <<challenge, rounds>>

Serve ==
  /\ \E f \in {Head(outbox) : i \in DOMAIN outbox} :
       /\ Consume(f)
       /\ ServeLogin(f) \/ ServeSubmit(f) \/ ServeLogout(f) \/ ServeGarbled(f)
  /\ UNCHANGED clientVars

\* An Error caused by a call or a post of the client.
Stray ==
  /\ faults < MaxFaults /\ faults' = faults + 1 /\ open
  /\ Answer("error", "any", NoOp, <<>>)
  /\ UNCHANGED <<clientVars, outbox, served, challenge, rounds>>

-----------------------------------------------------------------------------

Step(o) ==
  \/ Refuse(o) \/ TakeSlot(o) \/ Ask(o) \/ AskFails(o)
  \/ Challenged(o) \/ LoggedIn(o) \/ LoggedOut(o) \/ Fails(o)
  \/ Clear(o) \/ Expire(o) \/ SeeClosed(o)

Callback(o) == Submit(o) \/ Decline(o)

Next ==
  \/ \E o \in Ops : Begin(o) \/ Step(o) \/ Callback(o) \/ EndContext(o)
  \/ Close \/ Deliver \/ Serve \/ Stray

Spec == Init /\ [][Next]_vars

\* Goroutines run and callbacks return; the server owes nothing.
FairSpec == Spec /\ \A o \in Ops : WF_vars(Step(o)) /\ WF_vars(Callback(o))

-----------------------------------------------------------------------------
(* Properties.  Those on the server hold while every Error answers the      *)
(* exchange it meets and every answer decodes: Listing_stale shows why.      *)

\* Every variable has its type, and the control slot is held by whoever is in
\* an exchange or between two rounds of one.
TypeOK ==
  /\ pc \in [Ops -> {"idle", "queueing", "sending", "asking", "challenged", "clearing", "done"}]
  /\ ctxDone \subseteq Ops /\ overlapped \subseteq Logouts
  /\ slot \in Ops \cup {NoOp} /\ session \in Logins \cup {NoOp} /\ served \in Logins \cup {NoOp}
  /\ authenticated \in BOOLEAN /\ open \in BOOLEAN
  /\ \A o \in Ops : pc[o] \in {"sending", "asking", "challenged"} <=> slot = o

\* A code is submitted with the ID of the challenge the server waits for,
\* whatever other logins and logouts run (auth.go:38-51).
SubmitNamesChallenge ==
  faults = 0 /\ open =>
    \A i \in DOMAIN outbox : outbox[i].kind = "submit" =>
      outbox[i].carries = challenge.id /\ outbox[i].from = challenge.of

\* An open client that says it is authenticated holds the token of the session
\* the server serves, until a logout or another login is decided there.
ViewIsServed ==
  faults = 0 /\ open /\ authenticated =>
    \/ session = served
    \/ \E o \in Ops : pc[o] \in {"asking", "clearing"}

\* The control slot and the session, with every variable of its type.
SessionInv == TypeOK /\ ViewIsServed

\* When the operations are over, the server serves no session that an open
\* client has forgotten, unless a login succeeded while a logout was running.
SessionKept ==
  faults = 0 /\ open /\ served # NoOp /\ overlapped = {} =>
    \/ authenticated /\ session = served
    \/ \E o \in Ops : pc[o] \in {"asking", "clearing"}

\* The control slot comes back from an exchange whose context has ended.
SlotReturns == \A o \in Ops : (slot = o /\ o \in ctxDone) ~> slot # o
=============================================================================
