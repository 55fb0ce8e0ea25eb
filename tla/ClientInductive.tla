-------------------------- MODULE ClientInductive --------------------------
(***************************************************************************)
(* The inductive invariant of Client, in named parts: who holds which      *)
(* slot, where the answer of an operation can be, and what a control can   *)
(* find in its channel.  TLC checks it on small instances (MCClient) and   *)
(* ClientProofs proves it.                                                 *)
(***************************************************************************)
EXTENDS Client

Early == {"idle", "admitted", "queueing"}
WriteWindow == {"locked", "writing", "written", "broken", "failing"}
Asking == {"written", "waiting"}

\* Which API passes through which label, and when an outcome is fixed.
LabelInv ==
  /\ \A c \in Calls : pc[c] \notin {"queueing", "expiring"}
  /\ \A k \in Controls : pc[k] # "admitted"
  /\ \A p \in Posts : pc[p] \notin {"admitted", "queueing", "waiting", "expiring"}
  /\ \A o \in Ops : outcome[o] = "none" <=> pc[o] \notin {"leaving", "done"}
  /\ \A o \in Ops : answer[o] # NoOp <=> outcome[o] = "answer"
  /\ \A o \in Ops : outcome[o] = "posted" => o \in Posts
  /\ \A o \in Ops : outcome[o] = "unauthenticated" => o \in Calls

\* A slot is held exactly by the operation that is between taking and leaving it.
SlotInv ==
  /\ \A o \in Ops : pc[o] \in WriteWindow <=> writeLock = o
  /\ \A k \in Controls : pc[k] \notin Early \cup {"done"} <=> controlLock = k
  /\ control = controlLock
  /\ \A c \in Calls : c \in pending <=> pc[c] \notin Early \cup {"done"}

\* Behind part of a frame the write slot stays taken until the connection is closed.
TornInv == torn => Severed \/ \E o \in Ops : pc[o] \in {"broken", "failing"}

\* Frames are sent by the operations that got through their write.
SentInv ==
  /\ owed \subseteq sent
  /\ \A o \in Ops : pc[o] \in Asking => o \in sent
  /\ \A o \in sent : pc[o] \in Asking \cup {"expiring", "leaving", "done"}

\* What a goroutine told its caller about the connection is still so.
EndInv ==
  \A o \in Ops :
    /\ outcome[o] \in {"closed", "io"} => Closed
    /\ outcome[o] = "ctx" /\ o \in Controls => o \notin sent \/ Closed
    /\ outcome[o] \in {"answer", "posted"} => o \in sent

\* The answer of an operation is in one place: owed, held, one channel or one result.
PlaceInv ==
  /\ held.answer # NoOp => held.answer \in sent \ owed
  /\ \A o \in Ops : chan[o] \in Ops =>
       /\ chan[o] \in sent \ owed /\ held.answer # chan[o]
       /\ \A p \in Ops : chan[p] = chan[o] => p = o
  /\ \A o \in Ops : answer[o] # NoOp =>
       /\ answer[o] \in sent \ owed /\ held.answer # answer[o]
       /\ \A p \in Ops : chan[p] # answer[o] /\ (answer[p] = answer[o] => p = o)

\* d is an answer for o: its own, or for a control one of the type it awaits.
Suits(d, o) ==
  \/ o \in Calls /\ d = o
  \/ o \in Controls /\ d \in Controls /\ CtlType[d] = CtlType[o]

RouteInv ==
  /\ reader = "delivering" <=> held.answer # NoOp
  /\ reader = "delivering" => Suits(held.answer, held.to) /\ pc[held.to] \notin Early
  /\ \A o \in Ops :
       /\ chan[o] \in Ops => Suits(chan[o], o)
       /\ answer[o] # NoOp => Suits(answer[o], o)
       /\ pc[o] \in Early \/ o \in Posts => chan[o] = NoOp
       /\ pc[o] \in Asking /\ held.answer = o => held.to = o

\* An answer that the control of the slot could still be given.
InFlight(d) ==
  \/ d \in owed
  \/ d = held.answer
  \/ controlLock # NoOp /\ chan[controlLock] = d

\* While no control was failed by an Error, what is in flight belongs to the
\* control of the slot, unless the connection is down and nobody awaits it.
FreshInv ==
  (\A k \in Controls : outcome[k] # "error") =>
    /\ \A k \in Controls : answer[k] \in {NoOp, k}
    /\ \A d \in Controls : InFlight(d) =>
         \/ controlLock = d
         \/ Closed /\ (controlLock = NoOp \/ pc[controlLock] \notin Asking)

ControlFlow == LabelInv /\ SlotInv /\ TornInv /\ SentInv /\ EndInv
Answers == PlaceInv /\ RouteInv

IInv == TypeOK /\ ControlFlow /\ Answers /\ FreshInv /\ NoAnswerLost
=============================================================================
