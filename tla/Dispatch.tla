------------------------------ MODULE Dispatch ------------------------------
(***************************************************************************)
(* What a Client does with the messages the server sends unasked           *)
(* (service.go dispatch and respond, auth.go event): readLoop decodes them *)
(* and hands them to a bounded pool of workers; handlers may call          *)
(* capabilities themselves, and their answers come in by the same          *)
(* readLoop; responses and calls share the write slot of the connection.   *)
(***************************************************************************)
EXTENDS Naturals, FiniteSets

CONSTANTS Requests,   \* ServiceMessages with a JSON payload
          Nesting,    \* those whose handler calls a capability
          Unparsed,   \* ServiceMessages whose payload is not JSON
          Malformed,  \* ServiceMessages that do not decode
          Events,     \* messages with a callback that sends nothing
          Pings,      \* messages whose callback sends a Pong first
          NoMsg,      \* nobody
          Capacity    \* Config.MaxConcurrentHandlers

Msgs == Requests \cup Unparsed \cup Malformed \cup Events \cup Pings

ASSUME DispatchAssumption ==
  /\ Nesting \subseteq Requests
  /\ Msgs \cap {NoMsg, "reading", "stopped"} = {} /\ NoMsg \notin {"reading", "stopped"}
  /\ Capacity \in Nat \ {0}
  /\ Requests \cap (Unparsed \cup Malformed \cup Events \cup Pings) = {}
  /\ Unparsed \cap (Malformed \cup Events \cup Pings) = {}
  /\ Malformed \cap (Events \cup Pings) = {}
  /\ Events \cap Pings = {}

VARIABLES
  stage,    \* [Msgs -> how far the message is]
  workers,  \* messages whose goroutine holds a slot of the pool
  reader,   \* "reading", "stopped", or the message readLoop answers itself
  writer,   \* the message whose goroutine holds the write slot
  called,   \* messages whose handler has made its call
  coming,   \* messages whose nested answer was sent by the server
  replies,  \* [Msgs -> responses written for it]
  dropped,  \* messages whose response was given up in the wait for the slot
  open      \* the connection is not shut down

vars == <<stage, workers, reader, writer, called, coming, replies, dropped, open>>

Init ==
  /\ stage = [m \in Msgs |-> "unread"]
  /\ workers = {} /\ reader = "reading" /\ writer = NoMsg
  /\ called = {} /\ coming = {} /\ dropped = {}
  /\ replies = [m \in Msgs |-> 0]
  /\ open = TRUE

To(m, s) == stage' = [stage EXCEPT ![m] = s]

\* The goroutine of a message ends: a worker returns its slot, readLoop reads on.
Release(m) ==
  /\ workers' = workers \ {m}
  /\ reader' = IF reader = m THEN "reading" ELSE reader

-----------------------------------------------------------------------------
(* readLoop.  What it has buffered it may still read after the close. *)

ReadMalformed(m) ==
  /\ reader = "reading" /\ m \in Malformed /\ stage[m] = "unread"
  /\ open' = FALSE
  /\ To(m, "finished")
  /\ UNCHANGED <<workers, reader, writer, called, coming, replies, dropped>>

\* "invalid JSON payload", answered by readLoop itself.
ReadUnparsed(m) ==
  /\ reader = "reading" /\ m \in Unparsed /\ stage[m] = "unread"
  /\ reader' = m
  /\ To(m, "replying")
  /\ UNCHANGED <<workers, writer, called, coming, replies, dropped, open>>

ReadToWorker(m) ==
  /\ reader = "reading" /\ stage[m] = "unread" /\ Cardinality(workers) < Capacity
  /\ m \in Requests \cup Events \cup Pings
  /\ workers' = workers \cup {m}
  /\ To(m, IF m \in Pings THEN "ponging" ELSE "running")
  /\ UNCHANGED <<reader, writer, called, coming, replies, dropped, open>>

\* Mutant of ReadOverflow: readLoop waits for a slot instead.
OverflowWait(m) ==
  /\ reader = "reading" /\ stage[m] = "unread" /\ Cardinality(workers) >= Capacity
  /\ m \in Requests
  /\ reader' = m
  /\ To(m, "queued")
  /\ UNCHANGED <<workers, writer, called, coming, replies, dropped, open>>

\* "handler capacity exceeded", answered by readLoop itself.
ReadOverflow(m) ==
  /\ reader = "reading" /\ stage[m] = "unread" /\ Cardinality(workers) >= Capacity
  /\ m \in Requests
  /\ reader' = m
  /\ To(m, "replying")
  /\ UNCHANGED <<workers, writer, called, coming, replies, dropped, open>>

\* Mutant of EventOverflow: the event is dropped and the connection goes on.
EventDropped(m) ==
  /\ reader = "reading" /\ stage[m] = "unread" /\ Cardinality(workers) >= Capacity
  /\ m \in Events \cup Pings
  /\ To(m, "finished")
  /\ UNCHANGED <<workers, reader, writer, called, coming, replies, dropped, open>>

\* "event handler capacity exhausted" shuts the client down.
EventOverflow(m) ==
  /\ reader = "reading" /\ stage[m] = "unread" /\ Cardinality(workers) >= Capacity
  /\ m \in Events \cup Pings
  /\ open' = FALSE
  /\ To(m, "finished")
  /\ UNCHANGED <<workers, reader, writer, called, coming, replies, dropped>>

\* The answer to the call a handler made; late ones are dropped.
ReadAnswer(m) ==
  /\ reader = "reading" /\ m \in coming
  /\ coming' = coming \ {m}
  /\ IF stage[m] = "awaiting" THEN To(m, "running") ELSE UNCHANGED stage
  /\ UNCHANGED <<workers, reader, writer, called, replies, dropped, open>>

StopReading ==
  /\ reader = "reading" /\ reader' = "stopped" /\ open' = FALSE
  /\ UNCHANGED <<stage, workers, writer, called, coming, replies, dropped>>

-----------------------------------------------------------------------------
(* The goroutine of a message. *)

\* The handler calls a capability: its frame needs the write slot.
NestedCall(m) ==
  /\ stage[m] = "running" /\ m \in Nesting \ called
  /\ called' = called \cup {m}
  /\ To(m, "calling")
  /\ UNCHANGED <<workers, reader, writer, coming, replies, dropped, open>>

\* Its context ends, or the connection does: the call returns an error.
NestedFails(m) ==
  /\ stage[m] = "awaiting"
  /\ To(m, "running")
  /\ UNCHANGED <<workers, reader, writer, called, coming, replies, dropped, open>>

\* Mutants of HandlerReturns: a callback that panics keeps its slot; a handler
\* that panics ends its goroutine.
HandlerLeaks(m) ==
  /\ stage[m] = "running"
  /\ To(m, IF m \in Requests THEN "replying" ELSE "finished")
  /\ UNCHANGED <<workers, reader, writer, called, coming, replies, dropped, open>>

HandlerPanics(m) ==
  /\ stage[m] = "running"
  /\ \/ m \in Requests /\ To(m, "replying") /\ UNCHANGED <<workers, reader>>
     \/ To(m, "finished") /\ Release(m)
  /\ UNCHANGED <<writer, called, coming, replies, dropped, open>>

\* The handler returns, returns nil or panics: dispatch responds in each case.
\* An event callback returns or panics, and releases its slot.
HandlerReturns(m) ==
  /\ stage[m] = "running"
  /\ IF m \in Requests
     THEN To(m, "replying") /\ UNCHANGED <<workers, reader>>
     ELSE To(m, "finished") /\ Release(m)
  /\ UNCHANGED <<writer, called, coming, replies, dropped, open>>

-----------------------------------------------------------------------------
(* send, from a worker or from readLoop, bounded by Config.Timeout. *)

Sending == {"replying", "calling", "ponging"}

\* What follows the send: the rest of the handler, or nothing.
AfterSend(m) ==
  \/ stage[m] = "replying" /\ To(m, "finished") /\ Release(m)
  \/ stage[m] \in {"ponging", "calling"} /\ To(m, "running") /\ UNCHANGED <<workers, reader>>

TakeSlot(m) ==
  /\ stage[m] \in Sending /\ writer = NoMsg
  /\ writer' = m
  /\ UNCHANGED <<stage, workers, reader, called, coming, replies, dropped, open>>

\* The peer takes the frame; it may answer a nested call.
Write(m) ==
  /\ writer = m /\ open
  /\ writer' = NoMsg
  /\ IF stage[m] = "calling"
     THEN To(m, "awaiting") /\ coming' = coming \cup {m} /\ UNCHANGED <<workers, reader, replies>>
     ELSE /\ AfterSend(m) /\ UNCHANGED coming
          /\ replies' = [replies EXCEPT ![m] = @ + 1]
  /\ UNCHANGED <<called, dropped, open>>

\* The timeout ends a blocked write, which closes the connection; or the
\* connection was closed under it.
BreakWrite(m) ==
  /\ writer = m
  /\ open' = FALSE
  /\ writer' = NoMsg
  /\ AfterSend(m)
  /\ UNCHANGED <<called, coming, replies, dropped>>

\* Mutant of GiveUp: readLoop sends without a timeout.
GiveUpWorker(m) ==
  /\ stage[m] \in Sending /\ writer # m /\ reader # m
  /\ AfterSend(m)
  /\ dropped' = IF stage[m] = "replying" THEN dropped \cup {m} ELSE dropped
  /\ UNCHANGED <<writer, called, coming, replies, open>>

\* The timeout, or the close, ends the wait for the slot; nothing is written
\* and an open connection stays open.
GiveUp(m) ==
  /\ stage[m] \in Sending /\ writer # m
  /\ AfterSend(m)
  /\ dropped' = IF stage[m] = "replying" THEN dropped \cup {m} ELSE dropped
  /\ UNCHANGED <<writer, called, coming, replies, open>>

-----------------------------------------------------------------------------

ReadStep ==
  \/ \E m \in Msgs : \/ ReadMalformed(m) \/ ReadUnparsed(m) \/ ReadToWorker(m)
                     \/ ReadOverflow(m) \/ EventOverflow(m) \/ ReadAnswer(m)
  \/ ~open /\ StopReading

\* The send of m, up to a write that the peer takes.
SendStep(m) == TakeSlot(m) \/ BreakWrite(m) \/ GiveUp(m)

Next ==
  \/ \E m \in Msgs :
       \/ NestedCall(m) \/ NestedFails(m) \/ HandlerReturns(m)
       \/ SendStep(m) \/ Write(m)
  \/ ReadStep \/ StopReading

Spec == Init /\ [][Next]_vars

\* The goroutines run.  respond and the Pong are bounded by Config.Timeout; the
\* call of a handler is only by the context the handler gave it, and the peer
\* need not take any frame.
ReaderSpec ==
  Spec /\ WF_vars(ReadStep) /\ \A m \in Msgs : WF_vars(stage[m] # "calling" /\ SendStep(m))

\* Handlers and callbacks return and cancel their own work, as README.md:102-103
\* asks of them.  Each does so once, hence one fairness condition for all.
HandlersReturn ==
  WF_vars(\E m \in Msgs : SendStep(m) \/ HandlerReturns(m) \/ NestedFails(m))

-----------------------------------------------------------------------------
(* Properties. *)

\* Every variable has its type.
TypeOK ==
  /\ stage \in [Msgs -> Sending \cup {"unread", "running", "awaiting", "finished"}]
  /\ workers \subseteq Msgs /\ called \subseteq Nesting /\ coming \subseteq Nesting
  /\ dropped \subseteq Msgs /\ writer \in Msgs \cup {NoMsg}
  /\ reader \in Msgs \cup {"reading", "stopped"}
  /\ replies \in [Msgs -> Nat] /\ open \in BOOLEAN

\* The slots of the pool are those of the goroutines that run, whatever way
\* their handler took: none is leaked and none is given back twice.
SlotsMatch ==
  /\ workers = {m \in Msgs : stage[m] \in Sending \cup {"running", "awaiting"} /\ reader # m}
  /\ Cardinality(workers) <= Capacity

\* The pool and the reader, with every variable of its type (service.go:340-390).
PoolInv == TypeOK /\ SlotsMatch

\* A request is answered once: by its handler, or by the error that stands for
\* a panic, a full pool or a bad payload, unless the response had to be given
\* up or the connection is gone (service.go:321-390).
AnsweredOnce ==
  \A m \in Requests \cup Unparsed :
    /\ replies[m] <= 1
    /\ stage[m] = "finished" /\ open /\ m \notin dropped => replies[m] = 1

\* A full pool never drops an event in silence: an event is finished without
\* having run only on a client that is shut down (auth.go:216-222).
EventsRunOrClose ==
  [][\A m \in Events \cup Pings :
       stage[m] = "unread" /\ stage'[m] = "finished" => ~open']_vars

\* readLoop comes back from whatever it answers itself, so it can read the
\* answers that the handlers occupying the pool are waiting for.
ReaderReturns == reader \in Msgs ~> reader \in {"reading", "stopped"}

\* An answer a handler waits for is read, even while the pool is full of
\* handlers that wait, or the wait ends with the connection.
NestedAnswered ==
  \A m \in Nesting : (m \in coming /\ stage[m] = "awaiting") ~> (stage[m] # "awaiting" \/ ~open)

\* If handlers and callbacks return, every slot of the pool becomes free again.
SlotsReturn == HandlersReturn => \A m \in Msgs : m \in workers ~> m \notin workers
=============================================================================
