------------------------------- MODULE Client -------------------------------
(***************************************************************************)
(* The connection engine of the SDK (client.go): the goroutines that share *)
(* one RDGProto connection.  An operation is one call of the API running   *)
(* in a goroutine of its own with a context of its own:                    *)
(*                                                                         *)
(*   Calls     Client.call      correlated by a random message ID          *)
(*   Controls  Client.Request   uncorrelated, one at a time (controlLock)  *)
(*   Posts     Client.send      nothing is awaited                         *)
(*                                                                         *)
(* readLoop is the only reader; shutdown runs once, whoever calls it.  The *)
(* peer is abstract: it may answer an operation whose frame it received    *)
(* once, in any order, with the answer or with an (uncorrelated) Error.    *)
(* An operation stands for its request, its channel and its answer; which  *)
(* operation a request handler or a login belongs to is left to the other  *)
(* modules of the project.                                                 *)
(***************************************************************************)
CONSTANTS Calls, Controls, Posts,   \* the operations, by API
          CtlType,                  \* message type of the answer to a control
          NoOp,                     \* no operation: empty channel, free lock
          Failure                   \* a channel entry made from an Error

Ops == Calls \cup Controls \cup Posts
Askers == Calls \cup Controls

ASSUME OpsAssumption ==
  /\ Calls \cap Controls = {} /\ Calls \cap Posts = {} /\ Controls \cap Posts = {}
  /\ NoOp \notin Ops /\ Failure \notin Ops /\ NoOp # Failure

VARIABLES
  pc,             \* [Ops -> where the goroutine of the operation is]
  ctxDone,        \* [Ops -> its context is canceled or past its deadline]
  after,          \* [Ops -> the context.AfterFunc of its write window]
  chan,           \* [Ops -> content of its reply channel, of capacity 1]
  outcome,        \* [Ops -> how the operation returned]
  answer,         \* [Ops -> whose answer it returned]
  pending,        \* the calls in Client.pending
  control,        \* the operation whose channel Client.control is
  controlLock,    \* the holder of the control slot
  writeLock,      \* the holder of the write slot
  shut,           \* progress of the one shutdown
  authenticated,  \* Client.authenticated
  sent,           \* operations whose frame was written whole
  owed,           \* answers of the peer that readLoop has not read yet
  torn,           \* the stream ends in part of a frame
  reader,         \* where readLoop is
  held            \* the answer readLoop is delivering, and its channel

opVars == <<pc, ctxDone, after, chan, outcome, answer>>
lockVars == <<pending, control, controlLock, writeLock>>
shutVars == <<shut, authenticated>>
wireVars == <<sent, owed, torn>>
readVars == <<reader, held>>
vars == <<pc, ctxDone, after, chan, outcome, answer, pending, control,
          controlLock, writeLock, shut, authenticated, sent, owed, torn,
          reader, held>>

Nothing == [answer |-> NoOp, to |-> NoOp]

Init ==
  /\ pc = [o \in Ops |-> "idle"]
  /\ ctxDone = [o \in Ops |-> FALSE]
  /\ after = [o \in Ops |-> "none"]
  /\ chan = [o \in Ops |-> NoOp]
  /\ outcome = [o \in Ops |-> "none"]
  /\ answer = [o \in Ops |-> NoOp]
  /\ pending = {} /\ control = NoOp /\ controlLock = NoOp /\ writeLock = NoOp
  /\ shut = "open" /\ authenticated = TRUE
  /\ sent = {} /\ owed = {} /\ torn = FALSE
  /\ reader = "reading" /\ held = Nothing

Severed == shut \in {"severed", "done"}   \* conn.Close has returned
Closed == shut = "done"                   \* Client.done is closed

-----------------------------------------------------------------------------
(* Steps of an operation. *)

Goto(o, label) == pc' = [pc EXCEPT ![o] = label]

\* The operation fails with `why' and unwinds from `label'.
Fail(o, why, label) ==
  /\ outcome' = [outcome EXCEPT ![o] = why]
  /\ Goto(o, label)

\* shutdown up to its critical section.  sync.Once: only the first caller runs
\* it, the others wait until it is over.  The recorded cause is left out.
BeginShutdown ==
  IF shut = "open"
  THEN shut' = "closing" /\ authenticated' = FALSE
  ELSE UNCHANGED shutVars

\* call reads `authenticated' once, before it marshals its input.
AdmitCall(o) ==
  /\ o \in Calls /\ pc[o] = "idle" /\ authenticated
  /\ Goto(o, "admitted")
  /\ UNCHANGED <<ctxDone, after, chan, outcome, answer, lockVars, shutVars, wireVars, readVars>>

RejectCall(o) ==
  /\ o \in Calls /\ pc[o] = "idle" /\ ~authenticated
  /\ Fail(o, "unauthenticated", "done")
  /\ UNCHANGED <<ctxDone, after, chan, answer, lockVars, shutVars, wireVars, readVars>>

RegisterCall(o) ==
  /\ o \in Calls /\ pc[o] = "admitted"
  /\ pending' = pending \cup {o}
  /\ Goto(o, "locking")
  /\ UNCHANGED <<ctxDone, after, chan, outcome, answer, control, controlLock, writeLock,
                 shutVars, wireVars, readVars>>

BeginRequest(o) ==
  /\ o \in Controls /\ pc[o] = "idle"
  /\ Goto(o, "queueing")
  /\ UNCHANGED <<ctxDone, after, chan, outcome, answer, lockVars, shutVars, wireVars, readVars>>

\* Request takes the control slot, even after done if select picks it, and
\* request publishes its channel and the response types it accepts.
RegisterControl(o) ==
  /\ o \in Controls /\ pc[o] = "queueing" /\ controlLock = NoOp
  /\ controlLock' = o /\ control' = o
  /\ Goto(o, "locking")
  /\ UNCHANGED <<ctxDone, after, chan, outcome, answer, pending, writeLock,
                 shutVars, wireVars, readVars>>

RefuseRequest(o) ==
  /\ pc[o] = "queueing"
  /\ \/ ctxDone[o] /\ Fail(o, "ctx", "done")
     \/ Closed /\ Fail(o, "closed", "done")
  /\ UNCHANGED <<ctxDone, after, chan, answer, lockVars, shutVars, wireVars, readVars>>

BeginPost(o) ==
  /\ o \in Posts /\ pc[o] = "idle"
  /\ Goto(o, "locking")
  /\ UNCHANGED <<ctxDone, after, chan, outcome, answer, lockVars, shutVars, wireVars, readVars>>

(* send *)

AcquireWrite(o) ==
  /\ pc[o] = "locking" /\ writeLock = NoOp
  /\ writeLock' = o
  /\ Goto(o, "locked")
  /\ UNCHANGED <<ctxDone, after, chan, outcome, answer, pending, control, controlLock,
                 shutVars, wireVars, readVars>>

RefuseSend(o) ==
  /\ pc[o] = "locking"
  /\ \/ ctxDone[o] /\ Fail(o, "ctx", "leaving")
     \/ Closed /\ Fail(o, "closed", "leaving")
  /\ UNCHANGED <<ctxDone, after, chan, answer, lockVars, shutVars, wireVars, readVars>>

CancelLocked(o) ==
  /\ pc[o] = "locked" /\ ctxDone[o]
  /\ writeLock' = NoOp
  /\ Fail(o, "ctx", "leaving")
  /\ UNCHANGED <<ctxDone, after, chan, answer, pending, control, controlLock,
                 shutVars, wireVars, readVars>>
\* Mutant of Arm: the write window without its AfterFunc.
ArmNothing(o) ==
  /\ pc[o] = "locked" /\ ~ctxDone[o]
  /\ Goto(o, "writing")
  /\ UNCHANGED <<ctxDone, after, chan, outcome, answer, lockVars, shutVars, wireVars, readVars>>

Arm(o) ==
  /\ pc[o] = "locked" /\ ~ctxDone[o]
  /\ after' = [after EXCEPT ![o] = "armed"]
  /\ Goto(o, "writing")
  /\ UNCHANGED <<ctxDone, chan, outcome, answer, lockVars, shutVars, wireVars, readVars>>

\* proto.Send returns nil: the peer can read the frame and may answer it.
WriteFrame(o) ==
  /\ pc[o] = "writing" /\ ~Severed
  /\ sent' = sent \cup {o}
  /\ owed' = owed \cup {o}
  /\ Goto(o, "written")
  /\ UNCHANGED <<ctxDone, after, chan, outcome, answer, lockVars, shutVars, torn, readVars>>

\* proto.Send returns an error, with any part of the frame on the stream.
BreakWrite(o) ==
  /\ pc[o] = "writing"
  /\ torn' \in {torn, TRUE}
  /\ Goto(o, "broken")
  /\ UNCHANGED <<ctxDone, after, chan, outcome, answer, lockVars, shutVars, sent, owed, readVars>>

\* The same once the connection is closed under the blocked write.
RefuseWrite(o) == Severed /\ BreakWrite(o)
\* Mutant of CloseBroken: the write slot is released before shutdown.
CloseBrokenLate(o) ==
  /\ pc[o] = "broken"
  /\ BeginShutdown
  /\ Goto(o, "failing")
  /\ writeLock' = NoOp
  /\ UNCHANGED <<ctxDone, after, chan, outcome, answer, pending, control, controlLock,
                 wireVars, readVars>>

CloseBroken(o) ==
  /\ pc[o] = "broken"
  /\ BeginShutdown
  /\ Goto(o, "failing")
  /\ UNCHANGED <<ctxDone, after, chan, outcome, answer, lockVars, wireVars, readVars>>

\* shutdown has returned: the deferred stop, then the release of the slot.
ReturnBroken(o) ==
  /\ pc[o] = "failing" /\ Closed
  /\ after' = [after EXCEPT ![o] = IF @ = "armed" THEN "stopped" ELSE @]
  /\ writeLock' = NoOp
  /\ Fail(o, "io", "leaving")
  /\ UNCHANGED <<ctxDone, chan, answer, pending, control, controlLock,
                 shutVars, wireVars, readVars>>

ReturnSent(o) ==
  /\ pc[o] = "written"
  /\ after' = [after EXCEPT ![o] = IF @ = "armed" THEN "stopped" ELSE @]
  /\ writeLock' = NoOp
  /\ IF o \in Posts THEN Fail(o, "posted", "leaving")
                    ELSE Goto(o, "waiting") /\ UNCHANGED outcome
  /\ UNCHANGED <<ctxDone, chan, answer, pending, control, controlLock,
                 shutVars, wireVars, readVars>>

(* The final select of call and request. *)
\* Mutant of Receive: the error of the entry is not looked at.
ReceiveUnchecked(o) ==
  /\ pc[o] = "waiting" /\ chan[o] # NoOp
  /\ Fail(o, "answer", "leaving") /\ answer' = [answer EXCEPT ![o] = chan[o]]
  /\ chan' = [chan EXCEPT ![o] = NoOp]
  /\ UNCHANGED <<ctxDone, after, lockVars, shutVars, wireVars, readVars>>

Receive(o) ==
  /\ pc[o] = "waiting" /\ chan[o] # NoOp
  /\ IF chan[o] = Failure
     THEN Fail(o, "error", "leaving") /\ UNCHANGED answer
     ELSE Fail(o, "answer", "leaving") /\ answer' = [answer EXCEPT ![o] = chan[o]]
  /\ chan' = [chan EXCEPT ![o] = NoOp]
  /\ UNCHANGED <<ctxDone, after, lockVars, shutVars, wireVars, readVars>>
\* Mutant of WaitClosed: the select waits for the reply and the context only.
WaitWithoutDone(o) ==
  /\ pc[o] = "waiting" /\ Closed /\ ctxDone[o]
  /\ Fail(o, "closed", "leaving")
  /\ UNCHANGED <<ctxDone, after, chan, answer, lockVars, shutVars, wireVars, readVars>>

WaitClosed(o) ==
  /\ pc[o] = "waiting" /\ Closed
  /\ Fail(o, "closed", "leaving")
  /\ UNCHANGED <<ctxDone, after, chan, answer, lockVars, shutVars, wireVars, readVars>>

AbandonCall(o) ==
  /\ o \in Calls /\ pc[o] = "waiting" /\ ctxDone[o]
  /\ Fail(o, "ctx", "leaving")
  /\ UNCHANGED <<ctxDone, after, chan, answer, lockVars, shutVars, wireVars, readVars>>
\* Mutant of ExpireControl: a control that times out leaves the connection open.
ExpireQuietly(o) ==
  /\ o \in Controls /\ pc[o] = "waiting" /\ ctxDone[o]
  /\ Fail(o, "ctx", "leaving")
  /\ UNCHANGED <<ctxDone, after, chan, answer, lockVars, shutVars, wireVars, readVars>>

ExpireControl(o) ==
  /\ o \in Controls /\ pc[o] = "waiting" /\ ctxDone[o]
  /\ BeginShutdown
  /\ Goto(o, "expiring")
  /\ UNCHANGED <<ctxDone, after, chan, outcome, answer, lockVars, wireVars, readVars>>

ReturnExpired(o) ==
  /\ pc[o] = "expiring" /\ Closed
  /\ Fail(o, "ctx", "leaving")
  /\ UNCHANGED <<ctxDone, after, chan, answer, lockVars, shutVars, wireVars, readVars>>
\* Mutant of Leave: the channel of the control stays published.
LeavePublished(o) ==
  /\ pc[o] = "leaving"
  /\ pending' = pending \ {o}
  /\ controlLock' = IF o \in Controls THEN NoOp ELSE controlLock
  /\ Goto(o, "done")
  /\ UNCHANGED <<ctxDone, after, chan, outcome, answer, control, writeLock,
                 shutVars, wireVars, readVars>>

\* The deferred functions: leave `pending', or clear `control' and its slot.
Leave(o) ==
  /\ pc[o] = "leaving"
  /\ pending' = pending \ {o}
  /\ IF o \in Controls
     THEN control' = NoOp /\ controlLock' = NoOp
     ELSE UNCHANGED <<control, controlLock>>
  /\ Goto(o, "done")
  /\ UNCHANGED <<ctxDone, after, chan, outcome, answer, writeLock,
                 shutVars, wireVars, readVars>>

-----------------------------------------------------------------------------
(* Contexts.  A context may end at any time, its AfterFunc runs in a       *)
(* goroutine of its own, and stop does not recall one that has started.    *)

Cancel(o) ==
  /\ ~ctxDone[o] /\ pc[o] \notin {"idle", "done"}
  /\ ctxDone' = [ctxDone EXCEPT ![o] = TRUE]
  /\ UNCHANGED <<pc, after, chan, outcome, answer, lockVars, shutVars, wireVars, readVars>>

FireAfter(o) ==
  /\ after[o] = "armed" /\ ctxDone[o]
  /\ after' = [after EXCEPT ![o] = "fired"]
  /\ UNCHANGED <<pc, ctxDone, chan, outcome, answer, lockVars, shutVars, wireVars, readVars>>

RunAfter(o) ==
  /\ after[o] = "fired"
  /\ after' = [after EXCEPT ![o] = "ran"]
  /\ BeginShutdown
  /\ UNCHANGED <<pc, ctxDone, chan, outcome, answer, lockVars, wireVars, readVars>>

-----------------------------------------------------------------------------
(* shutdown: the critical section, then conn.Close, then close(done). *)

Close ==
  /\ shut = "open"
  /\ BeginShutdown
  /\ UNCHANGED <<opVars, lockVars, wireVars, readVars>>

Sever ==
  /\ shut = "closing" /\ shut' = "severed"
  /\ UNCHANGED <<opVars, lockVars, authenticated, wireVars, readVars>>

CloseDone ==
  /\ shut = "severed" /\ shut' = "done"
  /\ UNCHANGED <<opVars, lockVars, authenticated, wireVars, readVars>>

-----------------------------------------------------------------------------
(* readLoop.  What the connection had buffered can still be read after     *)
(* conn.Close.  The channel is looked up under mu and filled without it.   *)
\* Mutant of Target: whatever is pending takes the answer.
TargetUncorrelated(o) ==
  IF pending # {} THEN CHOOSE c \in pending : TRUE
  ELSE IF o \in Controls /\ control # NoOp /\ CtlType[o] = CtlType[control]
  THEN control ELSE NoOp

\* The channel an answer of the peer goes to; NoOp when it is dropped.
Target(o) ==
  IF o \in pending THEN o
  ELSE IF o \in Controls /\ control # NoOp /\ CtlType[o] = CtlType[control]
  THEN control ELSE NoOp

ReadAnswer(o) ==
  /\ reader = "reading" /\ o \in owed \cap Askers
  /\ owed' = owed \ {o}
  /\ IF Target(o) = NoOp
     THEN UNCHANGED readVars
     ELSE reader' = "delivering" /\ held' = [answer |-> o, to |-> Target(o)]
  /\ UNCHANGED <<opVars, lockVars, shutVars, sent, torn>>
\* Mutant of Deliver: channels without a buffer.
DeliverUnbuffered ==
  /\ reader = "delivering"
  /\ chan' = [chan EXCEPT ![held.to] =
                IF @ = NoOp /\ pc[held.to] = "waiting" THEN held.answer ELSE @]
  /\ reader' = "reading" /\ held' = Nothing
  /\ UNCHANGED <<pc, ctxDone, after, outcome, answer, lockVars, shutVars, wireVars>>

Deliver ==
  /\ reader = "delivering"
  /\ chan' = [chan EXCEPT ![held.to] = IF @ = NoOp THEN held.answer ELSE @]
  /\ reader' = "reading" /\ held' = Nothing
  /\ UNCHANGED <<pc, ctxDone, after, outcome, answer, lockVars, shutVars, wireVars>>

\* An Error names no request: it fails the control and every pending call.
ReadError(o) ==
  /\ reader = "reading" /\ o \in owed
  /\ owed' = owed \ {o}
  /\ chan' = [p \in Ops |-> IF p \in pending \cup {control} /\ chan[p] = NoOp
                            THEN Failure ELSE chan[p]]
  /\ UNCHANGED <<pc, ctxDone, after, outcome, answer, lockVars, shutVars, sent, torn, readVars>>

\* An I/O error or a message that does not decode.
FailRead ==
  /\ reader = "reading"
  /\ BeginShutdown
  /\ reader' = "stopped"
  /\ UNCHANGED <<opVars, lockVars, wireVars, held>>

-----------------------------------------------------------------------------

OpStep(o) ==
  \/ AdmitCall(o) \/ RejectCall(o) \/ RegisterCall(o)
  \/ BeginRequest(o) \/ RegisterControl(o) \/ RefuseRequest(o)
  \/ BeginPost(o)
  \/ AcquireWrite(o) \/ RefuseSend(o) \/ CancelLocked(o) \/ Arm(o)
  \/ WriteFrame(o) \/ BreakWrite(o) \/ CloseBroken(o) \/ ReturnBroken(o) \/ ReturnSent(o)
  \/ Receive(o) \/ WaitClosed(o) \/ AbandonCall(o)
  \/ ExpireControl(o) \/ ReturnExpired(o) \/ Leave(o)
  \/ Cancel(o) \/ FireAfter(o) \/ RunAfter(o)
  \/ ReadAnswer(o) \/ ReadError(o)

\* Every operation returned and the reader ended: nothing runs any more.
Finished ==
  /\ \A o \in Ops : pc[o] = "done"
  /\ reader = "stopped" /\ Closed
  /\ UNCHANGED vars

Next ==
  \/ \E o \in Ops : OpStep(o)
  \/ Close \/ Sever \/ CloseDone \/ Deliver \/ FailRead \/ Finished

\* Go runs every runnable goroutine.  Nothing forces a caller to start, a
\* context to end, a blocked write to succeed or the peer to answer.
Progress(o) ==
  \/ RegisterCall(o) \/ RegisterControl(o) \/ RefuseRequest(o)
  \/ AcquireWrite(o) \/ RefuseSend(o) \/ CancelLocked(o) \/ Arm(o)
  \/ RefuseWrite(o) \/ CloseBroken(o) \/ ReturnBroken(o) \/ ReturnSent(o)
  \/ Receive(o) \/ WaitClosed(o) \/ AbandonCall(o)
  \/ ExpireControl(o) \/ ReturnExpired(o) \/ Leave(o)

Spec == Init /\ [][Next]_vars

FairSpec ==
  /\ Spec
  /\ \A o \in Ops : WF_vars(Progress(o)) /\ WF_vars(FireAfter(o)) /\ WF_vars(RunAfter(o))
  /\ WF_vars(Sever) /\ WF_vars(CloseDone) /\ WF_vars(Deliver)
  /\ WF_vars(Severed /\ FailRead)

-----------------------------------------------------------------------------
(* Properties. *)

Labels == {"idle", "admitted", "queueing", "locking", "locked", "writing", "written",
           "broken", "failing", "waiting", "expiring", "leaving", "done"}
Outcomes == {"none", "unauthenticated", "answer", "posted", "error", "ctx", "closed", "io"}

\* Every variable has its type.
TypeOK ==
  /\ pc \in [Ops -> Labels]
  /\ ctxDone \in [Ops -> BOOLEAN]
  /\ after \in [Ops -> {"none", "armed", "stopped", "fired", "ran"}]
  /\ chan \in [Ops -> Askers \cup {NoOp, Failure}]
  /\ outcome \in [Ops -> Outcomes]
  /\ answer \in [Ops -> Askers \cup {NoOp}]
  /\ pending \subseteq Calls
  /\ control \in Controls \cup {NoOp} /\ controlLock \in Controls \cup {NoOp}
  /\ writeLock \in Ops \cup {NoOp}
  /\ shut \in {"open", "closing", "severed", "done"}
  /\ authenticated \in BOOLEAN
  /\ sent \subseteq Ops /\ owed \subseteq Ops /\ torn \in BOOLEAN
  /\ reader \in {"reading", "delivering", "stopped"}
  /\ held \in [answer : Askers \cup {NoOp}, to : Askers \cup {NoOp}]

\* client.go:164: a canceled or failed write never leaves a connection on
\* which a later frame follows a partial one.
TornIsFinal == [][torn => sent' = sent]_vars

\* A call returns the answer to its own message ID or no answer, whatever
\* else is in flight (client.go:258-266, 333-348).
CallsCorrelate == \A c \in Calls : answer[c] \in {NoOp, c}

\* Request is serialized so that a control never takes the answer of an
\* earlier one; within the engine only an uncorrelated Error, which fails a
\* control without closing the connection, lets that happen (client.go:179-244).
StaleNeedsError ==
  (\E k \in Controls : answer[k] \notin {NoOp, k}) => \E k \in Controls : outcome[k] = "error"

\* An answer read while its operation still waits is not lost between the
\* lookup, the full channel that drops it and the select: something is in
\* the channel the operation will wake on (client.go:229-281).
NoAnswerLost ==
  \A o \in Askers :
    (/\ pc[o] \in {"written", "waiting"} /\ o \notin owed /\ held.answer # o)
      => chan[o] # NoOp

\* Whatever it is doing, an operation whose context ends returns, although
\* the peer may never read or answer (client.go:152-213, 346-353).
CancelUnblocks ==
  \A o \in Ops : (pc[o] # "idle" /\ ctxDone[o]) ~> pc[o] = "done"

\* When the connection is down, every operation under way returns, with no
\* help of its context.
DisconnectUnblocks ==
  \A o \in Ops : (pc[o] # "idle" /\ Closed) ~> pc[o] = "done"

\* The engine implements the promise of Exchange: shutdown closes it at conn.Close.
Promise == INSTANCE Exchange WITH open <- ~Severed
PromiseSpec == Promise!Spec
=============================================================================
