------------------------------ MODULE Exchange ------------------------------
(***************************************************************************)
(* What the connection engine promises its callers, without locks,         *)
(* goroutines or channels.  An operation goes on the wire at most once,    *)
(* never on a closed connection nor behind part of another frame; it       *)
(* returns exactly once; what it returns as an answer is an answer of the  *)
(* peer to something that was sent, no answer is returned twice, and a     *)
(* correlated call returns its own.                                        *)
(***************************************************************************)
CONSTANTS Calls, Controls, Posts, CtlType, NoOp

Ops == Calls \cup Controls \cup Posts

VARIABLES open,     \* the connection takes frames
          torn,     \* the stream ends in part of a frame
          sent,     \* operations on the wire
          outcome,  \* [Ops -> how the operation returned]
          answer    \* [Ops -> the operation whose answer it returned]

vars == <<open, torn, sent, outcome, answer>>

Failures == {"unauthenticated", "error", "ctx", "closed", "io"}

Init ==
  /\ open = TRUE /\ torn = FALSE /\ sent = {}
  /\ outcome = [o \in Ops |-> "none"]
  /\ answer = [o \in Ops |-> NoOp]

Transmit(o) ==
  /\ open /\ ~torn /\ o \notin sent /\ outcome[o] = "none"
  /\ sent' = sent \cup {o}
  /\ UNCHANGED <<open, torn, outcome, answer>>

Tear == torn' = TRUE /\ UNCHANGED <<open, sent, outcome, answer>>

Close == open' = FALSE /\ UNCHANGED <<torn, sent, outcome, answer>>

\* The answers an operation may return.
Eligible(o) ==
  { d \in sent :
      /\ \A p \in Ops : answer[p] # d
      /\ \/ o \in Calls /\ d = o
         \/ o \in Controls /\ d \in Controls /\ CtlType[d] = CtlType[o] }

Return(o) ==
  /\ outcome[o] = "none" /\ o \in sent
  /\ outcome' = [outcome EXCEPT ![o] = "answer"]
  /\ \E d \in Eligible(o) : answer' = [answer EXCEPT ![o] = d]
  /\ UNCHANGED <<open, torn, sent>>

ReturnPosted(o) ==
  /\ outcome[o] = "none" /\ o \in sent \cap Posts
  /\ outcome' = [outcome EXCEPT ![o] = "posted"]
  /\ UNCHANGED <<open, torn, sent, answer>>

ReturnFailure(o) ==
  /\ outcome[o] = "none"
  /\ \E why \in Failures : outcome' = [outcome EXCEPT ![o] = why]
  /\ UNCHANGED <<open, torn, sent, answer>>

Next ==
  \/ Tear \/ Close
  \/ \E o \in Ops : Transmit(o) \/ Return(o) \/ ReturnPosted(o) \/ ReturnFailure(o)

Spec == Init /\ [][Next]_vars
=============================================================================
