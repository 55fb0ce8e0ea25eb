--------------------------- MODULE DispatchProofs ---------------------------
(***************************************************************************)
(* TLAPS proofs about Dispatch, for any messages and any capacity of the   *)
(* pool.                                                                   *)
(***************************************************************************)
EXTENDS DispatchInductive, FiniteSetTheorems, TLAPS

\* A pool that only lost slots is still finite and within its capacity.
LEMMA SubsetStays ==
  ASSUME IsFiniteSet(workers), Cardinality(workers) <= Capacity, workers' \subseteq workers
  PROVE  IsFiniteSet(workers') /\ Cardinality(workers') <= Capacity
BY FS_Subset, FS_CardinalityType, DispatchAssumption

\* Every step keeps the types.
LEMMA TypeStep ==
  ASSUME TypeOK, StageInv, [Next]_vars
  PROVE  TypeOK'
<1> USE DispatchAssumption DEF vars, Msgs, To, Release, AfterSend, Sending, TypeOK, StageInv
<1>1. ASSUME NEW m \in Msgs,
            ReadMalformed(m) \/ ReadUnparsed(m) \/ ReadToWorker(m) \/ ReadOverflow(m) \/ EventOverflow(m) \/ ReadAnswer(m) \/
            NestedCall(m) \/ NestedFails(m) \/ HandlerReturns(m) \/ TakeSlot(m) \/ BreakWrite(m) \/
            GiveUp(m) \/ Write(m)
     PROVE  TypeOK'
  <2>1. CASE ReadMalformed(m)
    BY <2>1 DEF ReadMalformed
  <2>2. CASE ReadUnparsed(m)
    BY <2>2 DEF ReadUnparsed
  <2>3. CASE ReadToWorker(m)
    BY <2>3 DEF ReadToWorker
  <2>4. CASE ReadOverflow(m)
    BY <2>4 DEF ReadOverflow
  <2>5. CASE EventOverflow(m)
    BY <2>5 DEF EventOverflow
  <2>6. CASE ReadAnswer(m)
    BY <2>6 DEF ReadAnswer
  <2>7. CASE NestedCall(m)
    BY <2>7 DEF NestedCall
  <2>8. CASE NestedFails(m)
    BY <2>8 DEF NestedFails
  <2>9. CASE HandlerReturns(m)
    BY <2>9 DEF HandlerReturns
  <2>10. CASE TakeSlot(m)
    BY <2>10 DEF TakeSlot
  <2>11. CASE BreakWrite(m)
    BY <2>11 DEF BreakWrite
  <2>12. CASE GiveUp(m)
    BY <2>12 DEF GiveUp
  <2>13. CASE Write(m)
    BY <2>13 DEF Write
  <2> QED
    BY <1>1, <2>1, <2>2, <2>3, <2>4, <2>5, <2>6, <2>7, <2>8, <2>9, <2>10, <2>11, <2>12, <2>13
<1>2. CASE StopReading
  BY <1>2 DEF StopReading
<1>3. CASE UNCHANGED vars
  BY <1>3
<1> QED
  BY <1>1, <1>2, <1>3 DEF Next, ReadStep, SendStep

\* Every step keeps each kind of message to its stages.
LEMMA StageStep ==
  ASSUME TypeOK, StageInv, [Next]_vars
  PROVE  StageInv'
<1> USE DispatchAssumption DEF vars, Msgs, To, Release, AfterSend, Sending, TypeOK, StageInv
<1>1. ASSUME NEW m \in Msgs,
            ReadMalformed(m) \/ ReadUnparsed(m) \/ ReadToWorker(m) \/ ReadOverflow(m) \/ EventOverflow(m) \/ ReadAnswer(m) \/
            NestedCall(m) \/ NestedFails(m) \/ HandlerReturns(m) \/ TakeSlot(m) \/ BreakWrite(m) \/
            GiveUp(m) \/ Write(m)
     PROVE  StageInv'
  <2>1. CASE ReadMalformed(m)
    BY <2>1 DEF ReadMalformed
  <2>2. CASE ReadUnparsed(m)
    BY <2>2 DEF ReadUnparsed
  <2>3. CASE ReadToWorker(m)
    BY <2>3 DEF ReadToWorker
  <2>4. CASE ReadOverflow(m)
    BY <2>4 DEF ReadOverflow
  <2>5. CASE EventOverflow(m)
    BY <2>5 DEF EventOverflow
  <2>6. CASE ReadAnswer(m)
    BY <2>6 DEF ReadAnswer
  <2>7. CASE NestedCall(m)
    BY <2>7 DEF NestedCall
  <2>8. CASE NestedFails(m)
    BY <2>8 DEF NestedFails
  <2>9. CASE HandlerReturns(m)
    BY <2>9 DEF HandlerReturns
  <2>10. CASE TakeSlot(m)
    BY <2>10 DEF TakeSlot
  <2>11. CASE BreakWrite(m)
    BY <2>11 DEF BreakWrite
  <2>12. CASE GiveUp(m)
    BY <2>12 DEF GiveUp
  <2>13. CASE Write(m)
    BY <2>13 DEF Write
  <2> QED
    BY <1>1, <2>1, <2>2, <2>3, <2>4, <2>5, <2>6, <2>7, <2>8, <2>9, <2>10, <2>11, <2>12, <2>13
<1>2. CASE StopReading
  BY <1>2 DEF StopReading
<1>3. CASE UNCHANGED vars
  BY <1>3
<1> QED
  BY <1>1, <1>2, <1>3 DEF Next, ReadStep, SendStep

\* Every step takes and gives back the slots of the goroutines that start and end.
LEMMA PoolStep ==
  ASSUME TypeOK, StageInv, IsFiniteSet(workers), SlotsMatch, [Next]_vars
  PROVE  (IsFiniteSet(workers) /\ SlotsMatch)'
<1> USE DispatchAssumption DEF vars, Msgs, To, Release, AfterSend, Sending, TypeOK, StageInv, SlotsMatch
<1>1. ASSUME NEW m \in Msgs,
            ReadMalformed(m) \/ ReadUnparsed(m) \/ ReadToWorker(m) \/ ReadOverflow(m) \/ EventOverflow(m) \/ ReadAnswer(m) \/
            NestedCall(m) \/ NestedFails(m) \/ HandlerReturns(m) \/ TakeSlot(m) \/ BreakWrite(m) \/
            GiveUp(m) \/ Write(m)
     PROVE  (IsFiniteSet(workers) /\ SlotsMatch)'
  <2>1. CASE ReadMalformed(m)
    BY <2>1 DEF ReadMalformed
  <2>2. CASE ReadUnparsed(m)
    BY <2>2 DEF ReadUnparsed
  <2>3. CASE ReadToWorker(m)
    <3>1. workers' = workers \cup {m} /\ m \notin workers /\ Cardinality(workers) < Capacity
      BY <2>3 DEF ReadToWorker
    <3>2. /\ IsFiniteSet(workers')
          /\ Cardinality(workers') = Cardinality(workers) + 1 /\ Cardinality(workers) \in Nat
      BY <3>1, FS_AddElement, FS_CardinalityType
    <3>3. Cardinality(workers') <= Capacity
      BY <3>1, <3>2
    <3>4. workers' = {n \in Msgs : stage'[n] \in Sending \cup {"running", "awaiting"} /\ reader' # n}
      BY <2>3 DEF ReadToWorker
    <3> QED
      BY <3>2, <3>3, <3>4
  <2>4. CASE ReadOverflow(m)
    BY <2>4 DEF ReadOverflow
  <2>5. CASE EventOverflow(m)
    BY <2>5 DEF EventOverflow
  <2>6. CASE ReadAnswer(m)
    BY <2>6 DEF ReadAnswer
  <2>7. CASE NestedCall(m)
    BY <2>7 DEF NestedCall
  <2>8. CASE NestedFails(m)
    BY <2>8 DEF NestedFails
  <2>9. CASE HandlerReturns(m)
    <3>1. workers' \subseteq workers
      BY <2>9 DEF HandlerReturns
    <3>2. workers' = {n \in Msgs : stage'[n] \in Sending \cup {"running", "awaiting"} /\ reader' # n}
      BY <2>9 DEF HandlerReturns
    <3> QED
      BY <3>1, <3>2, SubsetStays
  <2>10. CASE TakeSlot(m)
    BY <2>10 DEF TakeSlot
  <2>11. CASE BreakWrite(m)
    <3>1. workers' \subseteq workers
      BY <2>11 DEF BreakWrite
    <3>2. workers' = {n \in Msgs : stage'[n] \in Sending \cup {"running", "awaiting"} /\ reader' # n}
      BY <2>11 DEF BreakWrite
    <3> QED
      BY <3>1, <3>2, SubsetStays
  <2>12. CASE GiveUp(m)
    <3>1. workers' \subseteq workers
      BY <2>12 DEF GiveUp
    <3>2. workers' = {n \in Msgs : stage'[n] \in Sending \cup {"running", "awaiting"} /\ reader' # n}
      BY <2>12 DEF GiveUp
    <3> QED
      BY <3>1, <3>2, SubsetStays
  <2>13. CASE Write(m)
    <3>1. workers' \subseteq workers
      BY <2>13 DEF Write
    <3>2. workers' = {n \in Msgs : stage'[n] \in Sending \cup {"running", "awaiting"} /\ reader' # n}
      BY <2>13 DEF Write
    <3> QED
      BY <3>1, <3>2, SubsetStays
  <2> QED
    BY <1>1, <2>1, <2>2, <2>3, <2>4, <2>5, <2>6, <2>7, <2>8, <2>9, <2>10, <2>11, <2>12, <2>13
<1>2. CASE StopReading
  BY <1>2 DEF StopReading
<1>3. CASE UNCHANGED vars
  BY <1>3
<1> QED
  BY <1>1, <1>2, <1>3 DEF Next, ReadStep, SendStep

\* Every step writes the response that finishes a message, and no other.
LEMMA AnswerStep ==
  ASSUME TypeOK, StageInv, AnswerInv, [Next]_vars
  PROVE  AnswerInv'
<1> USE DispatchAssumption DEF vars, Msgs, To, Release, AfterSend, Sending, TypeOK, StageInv, AnswerInv
<1>1. ASSUME NEW m \in Msgs,
            ReadMalformed(m) \/ ReadUnparsed(m) \/ ReadToWorker(m) \/ ReadOverflow(m) \/ EventOverflow(m) \/ ReadAnswer(m) \/
            NestedCall(m) \/ NestedFails(m) \/ HandlerReturns(m) \/ TakeSlot(m) \/ BreakWrite(m) \/
            GiveUp(m) \/ Write(m)
     PROVE  AnswerInv'
  <2>1. CASE ReadMalformed(m)
    BY <2>1 DEF ReadMalformed
  <2>2. CASE ReadUnparsed(m)
    BY <2>2 DEF ReadUnparsed
  <2>3. CASE ReadToWorker(m)
    BY <2>3 DEF ReadToWorker
  <2>4. CASE ReadOverflow(m)
    BY <2>4 DEF ReadOverflow
  <2>5. CASE EventOverflow(m)
    BY <2>5 DEF EventOverflow
  <2>6. CASE ReadAnswer(m)
    BY <2>6 DEF ReadAnswer
  <2>7. CASE NestedCall(m)
    BY <2>7 DEF NestedCall
  <2>8. CASE NestedFails(m)
    BY <2>8 DEF NestedFails
  <2>9. CASE HandlerReturns(m)
    BY <2>9 DEF HandlerReturns
  <2>10. CASE TakeSlot(m)
    BY <2>10 DEF TakeSlot
  <2>11. CASE BreakWrite(m)
    BY <2>11 DEF BreakWrite
  <2>12. CASE GiveUp(m)
    BY <2>12 DEF GiveUp
  <2>13. CASE Write(m)
    BY <2>13 DEF Write
  <2> QED
    BY <1>1, <2>1, <2>2, <2>3, <2>4, <2>5, <2>6, <2>7, <2>8, <2>9, <2>10, <2>11, <2>12, <2>13
<1>2. CASE StopReading
  BY <1>2 DEF StopReading
<1>3. CASE UNCHANGED vars
  BY <1>3
<1> QED
  BY <1>1, <1>2, <1>3 DEF Next, ReadStep, SendStep

-----------------------------------------------------------------------------

\* Nothing is read, and the pool is empty, when the Client is made.
LEMMA InitDInv == Init => DInv
<1> SUFFICES ASSUME Init PROVE DInv
  OBVIOUS
<1> USE DispatchAssumption DEF Init, Msgs, Sending
<1>1. TypeOK
  BY DEF TypeOK
<1>2. IsFiniteSet(workers) /\ Cardinality(workers) = 0
  BY FS_EmptySet
<1>3. SlotsMatch
  BY <1>2 DEF SlotsMatch
<1>4. StageInv /\ AnswerInv
  BY DEF StageInv, AnswerInv
<1> QED
  BY <1>1, <1>2, <1>3, <1>4 DEF DInv

\* Every step, and a stutter, keeps the inductive invariant.
LEMMA NextDInv == DInv /\ [Next]_vars => DInv'
BY TypeStep, StageStep, PoolStep, AnswerStep DEF DInv

\* The inductive invariant holds in every behaviour of the dispatch.
THEOREM DispatchInvariance == Spec => []DInv
BY InitDInv, NextDInv, PTL DEF Spec

\* The slots of the pool are those of the goroutines that run, whatever way
\* their handler took, and never more than the capacity.
THEOREM PoolHolds == Spec => []PoolInv
<1>1. DInv => PoolInv
  BY DEF DInv, PoolInv
<1> QED BY DispatchInvariance, <1>1, PTL

\* A request is answered at most once, and is finished unanswered only when its
\* response was given up or the connection is gone.
THEOREM OneAnswer == Spec => []AnsweredOnce
<1>1. DInv => AnsweredOnce
  <2> SUFFICES ASSUME DInv, NEW m \in Requests \cup Unparsed
               PROVE  /\ replies[m] <= 1
                      /\ stage[m] = "finished" /\ open /\ m \notin dropped => replies[m] = 1
    BY DEF AnsweredOnce
  <2> QED
    BY DEF DInv, AnswerInv
<1> QED BY DispatchInvariance, <1>1, PTL

\* An event that finds the pool full is finished without having run only by the
\* step that shuts the client down.
THEOREM NoEventLost == Spec => EventsRunOrClose
<1> DEFINE RunsOrCloses == \A m \in Events \cup Pings :
             stage[m] = "unread" /\ stage'[m] = "finished" => ~open'
<1>1. DInv /\ [Next]_vars => [RunsOrCloses]_vars
  <2> SUFFICES ASSUME DInv, [Next]_vars, NEW e \in Events \cup Pings,
                      stage[e] = "unread", stage'[e] = "finished"
               PROVE  ~open'
    OBVIOUS
  <2> USE DispatchAssumption DEF Msgs, To, Release, AfterSend, Sending, DInv, TypeOK
  <2>1. ASSUME NEW m \in Msgs, ReadMalformed(m) \/ EventOverflow(m) PROVE ~open'
    BY <2>1 DEF ReadMalformed, EventOverflow
  <2>2. ASSUME NEW m \in Msgs,
               ReadUnparsed(m) \/ ReadToWorker(m) \/ ReadOverflow(m) \/ ReadAnswer(m) \/
               NestedCall(m) \/ NestedFails(m) \/ HandlerReturns(m)
        PROVE  FALSE
    BY <2>2 DEF ReadUnparsed, ReadToWorker, ReadOverflow, ReadAnswer, NestedCall, NestedFails,
                HandlerReturns
  <2>3. ASSUME NEW m \in Msgs, SendStep(m) \/ Write(m) PROVE FALSE
    BY <2>3 DEF SendStep, TakeSlot, BreakWrite, GiveUp, Write, StageInv
  <2>4. StopReading => ~open'
    BY DEF StopReading
  <2>5. ~ UNCHANGED vars
    BY DEF vars
  <2> QED
    BY <2>1, <2>2, <2>3, <2>4, <2>5 DEF Next, ReadStep
<1> QED BY DispatchInvariance, <1>1, PTL DEF Spec, EventsRunOrClose
=============================================================================
