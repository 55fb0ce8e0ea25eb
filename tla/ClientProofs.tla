---------------------------- MODULE ClientProofs ----------------------------
(***************************************************************************)
(* TLAPS proofs about Client, for any sets of operations: IInv is          *)
(* inductive, and from it the properties and the refinement of Exchange.   *)
(***************************************************************************)
EXTENDS ClientInductive, TLAPS

-----------------------------------------------------------------------------
(* Type correctness *)

\* The first step of shutdown keeps the types of what it assigns.
LEMMA ShutdownType ==
  ASSUME TypeOK, BeginShutdown
  PROVE  shut' \in {"open", "closing", "severed", "done"} /\ authenticated' \in BOOLEAN
BY Zenon DEF TypeOK, BeginShutdown, shutVars

\* A write that breaks may or may not leave part of a frame.
LEMMA TornType ==
  ASSUME TypeOK, torn' \in {torn, TRUE}
  PROVE  torn' \in BOOLEAN
BY Zenon DEF TypeOK

\* Every step of the client keeps the types.
LEMMA TypeStep ==
  ASSUME TypeOK, [Next]_vars
  PROVE  TypeOK'
<1> USE OpsAssumption DEF TypeOK, Ops, Askers, Labels, Outcomes, Severed, Closed, Nothing, Target,
   vars, opVars, lockVars, shutVars, wireVars, readVars, Goto, Fail
<1>1. ASSUME NEW o \in Ops, OpStep(o) PROVE TypeOK'
  <2>1. CASE AdmitCall(o)
    BY <2>1 DEF AdmitCall
  <2>2. CASE RejectCall(o)
    BY <2>2 DEF RejectCall
  <2>3. CASE RegisterCall(o)
    BY <2>3 DEF RegisterCall
  <2>4. CASE BeginRequest(o)
    BY <2>4 DEF BeginRequest
  <2>5. CASE RegisterControl(o)
    BY <2>5 DEF RegisterControl
  <2>6. CASE RefuseRequest(o)
    BY <2>6 DEF RefuseRequest
  <2>7. CASE BeginPost(o)
    BY <2>7 DEF BeginPost
  <2>8. CASE AcquireWrite(o)
    BY <2>8 DEF AcquireWrite
  <2>9. CASE RefuseSend(o)
    BY <2>9 DEF RefuseSend
  <2>10. CASE CancelLocked(o)
    BY <2>10 DEF CancelLocked
  <2>11. CASE Arm(o)
    BY <2>11 DEF Arm
  <2>12. CASE WriteFrame(o)
    BY <2>12 DEF WriteFrame
  <2>13. CASE BreakWrite(o)
    <3>1. torn' \in BOOLEAN
      BY <2>13, TornType DEF BreakWrite
    <3> QED
      BY <2>13, <3>1 DEF BreakWrite
  <2>14. CASE CloseBroken(o)
    BY <2>14, ShutdownType DEF CloseBroken
  <2>15. CASE ReturnBroken(o)
    BY <2>15 DEF ReturnBroken
  <2>16. CASE ReturnSent(o)
    BY <2>16 DEF ReturnSent
  <2>17. CASE Receive(o)
    BY <2>17 DEF Receive
  <2>18. CASE WaitClosed(o)
    BY <2>18 DEF WaitClosed
  <2>19. CASE AbandonCall(o)
    BY <2>19 DEF AbandonCall
  <2>20. CASE ExpireControl(o)
    BY <2>20, ShutdownType DEF ExpireControl
  <2>21. CASE ReturnExpired(o)
    BY <2>21 DEF ReturnExpired
  <2>22. CASE Leave(o)
    BY <2>22 DEF Leave
  <2>23. CASE Cancel(o)
    BY <2>23 DEF Cancel
  <2>24. CASE FireAfter(o)
    BY <2>24 DEF FireAfter
  <2>25. CASE RunAfter(o)
    BY <2>25, ShutdownType DEF RunAfter
  <2>26. CASE ReadAnswer(o)
    BY <2>26 DEF ReadAnswer
  <2>27. CASE ReadError(o)
    BY <2>27 DEF ReadError
  <2> QED
    BY <1>1, <2>1, <2>2, <2>3, <2>4, <2>5, <2>6, <2>7, <2>8, <2>9, <2>10, <2>11, <2>12, <2>13,
       <2>14, <2>15, <2>16, <2>17, <2>18, <2>19, <2>20, <2>21, <2>22, <2>23, <2>24, <2>25, <2>26,
       <2>27 DEF OpStep
<1>2. CASE Close
  BY <1>2, ShutdownType DEF Close
<1>3. CASE Sever
  BY <1>3 DEF Sever
<1>4. CASE CloseDone
  BY <1>4 DEF CloseDone
<1>5. CASE Deliver
  BY <1>5 DEF Deliver
<1>6. CASE FailRead
  BY <1>6, ShutdownType DEF FailRead
<1>7. CASE UNCHANGED vars
  BY <1>7
<1> QED BY <1>1, <1>2, <1>3, <1>4, <1>5, <1>6, <1>7 DEF Next, Finished

-----------------------------------------------------------------------------
(* Slots, frames and outcomes *)

\* Every step keeps the labels, the slots, the frames and the outcomes consistent.
LEMMA FlowStep ==
  ASSUME TypeOK, TypeOK', ControlFlow, [Next]_vars
  PROVE  ControlFlow'
<1> USE OpsAssumption DEF TypeOK, ControlFlow, LabelInv, SlotInv, SentInv, EndInv, Ops, Askers,
   Labels, Outcomes, Early, WriteWindow, Asking,   Nothing, Severed, Closed, BeginShutdown, TornInv,
   vars, opVars, lockVars, shutVars, wireVars, readVars, Goto, Fail
<1>1. ASSUME NEW o \in Ops, OpStep(o) PROVE ControlFlow'
  <2>1. CASE AdmitCall(o)
    BY <2>1 DEF AdmitCall
  <2>2. CASE RejectCall(o)
    BY <2>2 DEF RejectCall
  <2>3. CASE RegisterCall(o)
    BY <2>3 DEF RegisterCall
  <2>4. CASE BeginRequest(o)
    BY <2>4 DEF BeginRequest
  <2>5. CASE RegisterControl(o)
    BY <2>5 DEF RegisterControl
  <2>6. CASE RefuseRequest(o)
    BY <2>6 DEF RefuseRequest
  <2>7. CASE BeginPost(o)
    BY <2>7 DEF BeginPost
  <2>8. CASE AcquireWrite(o)
    BY <2>8 DEF AcquireWrite
  <2>9. CASE RefuseSend(o)
    BY <2>9 DEF RefuseSend
  <2>10. CASE CancelLocked(o)
    BY <2>10 DEF CancelLocked
  <2>11. CASE Arm(o)
    BY <2>11 DEF Arm
  <2>12. CASE WriteFrame(o)
    BY <2>12 DEF WriteFrame
  <2>13. CASE BreakWrite(o)
    BY <2>13 DEF BreakWrite
  <2>14. CASE CloseBroken(o)
    BY <2>14 DEF CloseBroken
  <2>15. CASE ReturnBroken(o)
    BY <2>15 DEF ReturnBroken
  <2>16. CASE ReturnSent(o)
    BY <2>16 DEF ReturnSent
  <2>17. CASE Receive(o)
    BY <2>17 DEF Receive
  <2>18. CASE WaitClosed(o)
    BY <2>18 DEF WaitClosed
  <2>19. CASE AbandonCall(o)
    BY <2>19 DEF AbandonCall
  <2>20. CASE ExpireControl(o)
    BY <2>20 DEF ExpireControl
  <2>21. CASE ReturnExpired(o)
    BY <2>21 DEF ReturnExpired
  <2>22. CASE Leave(o)
    BY <2>22 DEF Leave
  <2>23. CASE Cancel(o)
    BY <2>23 DEF Cancel
  <2>24. CASE FireAfter(o)
    BY <2>24 DEF FireAfter
  <2>25. CASE RunAfter(o)
    BY <2>25 DEF RunAfter
  <2>26. CASE ReadAnswer(o)
    BY <2>26 DEF ReadAnswer
  <2>27. CASE ReadError(o)
    BY <2>27 DEF ReadError
  <2> QED
    BY <1>1, <2>1, <2>2, <2>3, <2>4, <2>5, <2>6, <2>7, <2>8, <2>9, <2>10, <2>11, <2>12, <2>13,
       <2>14, <2>15, <2>16, <2>17, <2>18, <2>19, <2>20, <2>21, <2>22, <2>23, <2>24, <2>25, <2>26,
       <2>27 DEF OpStep
<1>2. CASE Close
  BY <1>2 DEF Close
<1>3. CASE Sever
  BY <1>3 DEF Sever
<1>4. CASE CloseDone
  BY <1>4 DEF CloseDone
<1>5. CASE Deliver
  BY <1>5 DEF Deliver
<1>6. CASE FailRead
  BY <1>6 DEF FailRead
<1>7. CASE UNCHANGED vars
  BY <1>7
<1> QED BY <1>1, <1>2, <1>3, <1>4, <1>5, <1>6, <1>7 DEF Next, Finished

-----------------------------------------------------------------------------
(* Where answers are *)

\* Every step keeps each answer in one place, on its way to whom it suits.
LEMMA AnswersStep ==
  ASSUME TypeOK, TypeOK', ControlFlow, Answers, [Next]_vars
  PROVE  Answers'
<1> USE OpsAssumption DEF TypeOK, ControlFlow, LabelInv, SlotInv, SentInv, EndInv, Ops, Askers,
   Labels, Outcomes, Early, WriteWindow, Asking,   Nothing, Severed, Closed, BeginShutdown, Target,
   vars, opVars, lockVars, shutVars, wireVars, readVars, Goto, Fail, Answers, PlaceInv, RouteInv,
   Suits
<1>1. ASSUME NEW o \in Ops, OpStep(o) PROVE Answers'
  <2>1. CASE AdmitCall(o)
    BY <2>1 DEF AdmitCall
  <2>2. CASE RejectCall(o)
    BY <2>2 DEF RejectCall
  <2>3. CASE RegisterCall(o)
    BY <2>3 DEF RegisterCall
  <2>4. CASE BeginRequest(o)
    BY <2>4 DEF BeginRequest
  <2>5. CASE RegisterControl(o)
    BY <2>5 DEF RegisterControl
  <2>6. CASE RefuseRequest(o)
    BY <2>6 DEF RefuseRequest
  <2>7. CASE BeginPost(o)
    BY <2>7 DEF BeginPost
  <2>8. CASE AcquireWrite(o)
    BY <2>8 DEF AcquireWrite
  <2>9. CASE RefuseSend(o)
    BY <2>9 DEF RefuseSend
  <2>10. CASE CancelLocked(o)
    BY <2>10 DEF CancelLocked
  <2>11. CASE Arm(o)
    BY <2>11 DEF Arm
  <2>12. CASE WriteFrame(o)
    BY <2>12 DEF WriteFrame
  <2>13. CASE BreakWrite(o)
    BY <2>13 DEF BreakWrite
  <2>14. CASE CloseBroken(o)
    BY <2>14 DEF CloseBroken
  <2>15. CASE ReturnBroken(o)
    BY <2>15 DEF ReturnBroken
  <2>16. CASE ReturnSent(o)
    BY <2>16 DEF ReturnSent
  <2>17. CASE Receive(o)
    BY <2>17 DEF Receive
  <2>18. CASE WaitClosed(o)
    BY <2>18 DEF WaitClosed
  <2>19. CASE AbandonCall(o)
    BY <2>19 DEF AbandonCall
  <2>20. CASE ExpireControl(o)
    BY <2>20 DEF ExpireControl
  <2>21. CASE ReturnExpired(o)
    BY <2>21 DEF ReturnExpired
  <2>22. CASE Leave(o)
    BY <2>22 DEF Leave
  <2>23. CASE Cancel(o)
    BY <2>23 DEF Cancel
  <2>24. CASE FireAfter(o)
    BY <2>24 DEF FireAfter
  <2>25. CASE RunAfter(o)
    BY <2>25 DEF RunAfter
  <2>26. CASE ReadAnswer(o)
    BY <2>26 DEF ReadAnswer
  <2>27. CASE ReadError(o)
    BY <2>27 DEF ReadError
  <2> QED
    BY <1>1, <2>1, <2>2, <2>3, <2>4, <2>5, <2>6, <2>7, <2>8, <2>9, <2>10, <2>11, <2>12, <2>13,
       <2>14, <2>15, <2>16, <2>17, <2>18, <2>19, <2>20, <2>21, <2>22, <2>23, <2>24, <2>25, <2>26,
       <2>27 DEF OpStep
<1>2. CASE Close
  BY <1>2 DEF Close
<1>3. CASE Sever
  BY <1>3 DEF Sever
<1>4. CASE CloseDone
  BY <1>4 DEF CloseDone
<1>5. CASE Deliver
  BY <1>5 DEF Deliver
<1>6. CASE FailRead
  BY <1>6 DEF FailRead
<1>7. CASE UNCHANGED vars
  BY <1>7
<1> QED BY <1>1, <1>2, <1>3, <1>4, <1>5, <1>6, <1>7 DEF Next, Finished

\* A control that leaves an open connection takes its answer with it.
LEMMA LeaveFresh ==
  ASSUME TypeOK, ControlFlow, Answers, FreshInv, NEW o \in Ops, Leave(o)
  PROVE  FreshInv'
<1> USE OpsAssumption DEF Leave, Goto, shutVars, wireVars, readVars, ControlFlow, Answers
<1>1. CASE o \notin Controls
  BY <1>1 DEF TypeOK, Ops, SlotInv, FreshInv, InFlight, Closed, Asking
<1>2. CASE o \in Controls
  <2> SUFFICES ASSUME \A k \in Controls : outcome[k] # "error",
                      NEW d \in Controls, InFlight(d)', ~Closed
               PROVE  FALSE
    BY <1>2 DEF TypeOK, FreshInv, Closed
  <2>1. controlLock = o /\ outcome[o] # "none"
    BY <1>2 DEF SlotInv, LabelInv, Early, Ops
  <2>2. d \in owed \/ d = held.answer
    BY <1>2 DEF InFlight
  <2>3. d = o
    BY <2>1, <2>2 DEF FreshInv, InFlight
  <2>4. d \in sent
    BY <2>2 DEF SentInv, PlaceInv, Ops
  <2>5. outcome[o] = "answer"
    BY <1>2, <2>1, <2>3, <2>4 DEF EndInv, LabelInv, TypeOK, Outcomes, Ops
  <2>6. answer[o] = o
    BY <1>2, <2>5 DEF FreshInv, LabelInv
  <2> QED
    BY <2>2, <2>3, <2>6 DEF PlaceInv, Ops
<1> QED BY <1>1, <1>2

\* Every step keeps what is in flight the answer of the control of the slot.
LEMMA FreshStep ==
  ASSUME TypeOK, TypeOK', ControlFlow, Answers, FreshInv, [Next]_vars
  PROVE  FreshInv'
<1> USE OpsAssumption DEF TypeOK, ControlFlow, LabelInv, SlotInv, SentInv, EndInv, Ops, Askers,
   Labels, Outcomes, Early, WriteWindow, Asking,   Nothing, Severed, Closed, BeginShutdown, Target,
   vars, opVars, lockVars, shutVars, wireVars, readVars, Goto, Fail, Answers, PlaceInv, RouteInv,
   Suits, FreshInv, InFlight
<1>1. ASSUME NEW o \in Ops, OpStep(o) PROVE FreshInv'
  <2>1. CASE AdmitCall(o)
    BY <2>1 DEF AdmitCall
  <2>2. CASE RejectCall(o)
    BY <2>2 DEF RejectCall
  <2>3. CASE RegisterCall(o)
    BY <2>3 DEF RegisterCall
  <2>4. CASE BeginRequest(o)
    BY <2>4 DEF BeginRequest
  <2>5. CASE RegisterControl(o)
    BY <2>5 DEF RegisterControl
  <2>6. CASE RefuseRequest(o)
    BY <2>6 DEF RefuseRequest
  <2>7. CASE BeginPost(o)
    BY <2>7 DEF BeginPost
  <2>8. CASE AcquireWrite(o)
    BY <2>8 DEF AcquireWrite
  <2>9. CASE RefuseSend(o)
    BY <2>9 DEF RefuseSend
  <2>10. CASE CancelLocked(o)
    BY <2>10 DEF CancelLocked
  <2>11. CASE Arm(o)
    BY <2>11 DEF Arm
  <2>12. CASE WriteFrame(o)
    BY <2>12 DEF WriteFrame
  <2>13. CASE BreakWrite(o)
    BY <2>13 DEF BreakWrite
  <2>14. CASE CloseBroken(o)
    BY <2>14 DEF CloseBroken
  <2>15. CASE ReturnBroken(o)
    BY <2>15 DEF ReturnBroken
  <2>16. CASE ReturnSent(o)
    BY <2>16 DEF ReturnSent
  <2>17. CASE Receive(o)
    BY <2>17 DEF Receive
  <2>18. CASE WaitClosed(o)
    BY <2>18 DEF WaitClosed
  <2>19. CASE AbandonCall(o)
    BY <2>19 DEF AbandonCall
  <2>20. CASE ExpireControl(o)
    BY <2>20 DEF ExpireControl
  <2>21. CASE ReturnExpired(o)
    BY <2>21 DEF ReturnExpired
  <2>22. CASE Leave(o)
    BY <2>22, LeaveFresh
  <2>23. CASE Cancel(o)
    BY <2>23 DEF Cancel
  <2>24. CASE FireAfter(o)
    BY <2>24 DEF FireAfter
  <2>25. CASE RunAfter(o)
    BY <2>25 DEF RunAfter
  <2>26. CASE ReadAnswer(o)
    BY <2>26 DEF ReadAnswer
  <2>27. CASE ReadError(o)
    BY <2>27 DEF ReadError
  <2> QED
    BY <1>1, <2>1, <2>2, <2>3, <2>4, <2>5, <2>6, <2>7, <2>8, <2>9, <2>10, <2>11, <2>12, <2>13,
       <2>14, <2>15, <2>16, <2>17, <2>18, <2>19, <2>20, <2>21, <2>22, <2>23, <2>24, <2>25, <2>26,
       <2>27 DEF OpStep
<1>2. CASE Close
  BY <1>2 DEF Close
<1>3. CASE Sever
  BY <1>3 DEF Sever
<1>4. CASE CloseDone
  BY <1>4 DEF CloseDone
<1>5. CASE Deliver
  BY <1>5 DEF Deliver
<1>6. CASE FailRead
  BY <1>6 DEF FailRead
<1>7. CASE UNCHANGED vars
  BY <1>7
<1> QED BY <1>1, <1>2, <1>3, <1>4, <1>5, <1>6, <1>7 DEF Next, Finished

\* Every step keeps an answer that is awaited.
LEMMA LostStep ==
  ASSUME TypeOK, TypeOK', ControlFlow, Answers, NoAnswerLost, [Next]_vars
  PROVE  NoAnswerLost'
<1> USE OpsAssumption DEF TypeOK, ControlFlow, LabelInv, SlotInv, SentInv, EndInv, Ops, Askers,
   Labels, Outcomes, Early, WriteWindow, Asking,   Nothing, Severed, Closed, BeginShutdown, Target,
   vars, opVars, lockVars, shutVars, wireVars, readVars, Goto, Fail, RouteInv, Answers, NoAnswerLost
<1>1. ASSUME NEW o \in Ops, OpStep(o) PROVE NoAnswerLost'
  <2>1. CASE AdmitCall(o)
    BY <2>1 DEF AdmitCall
  <2>2. CASE RejectCall(o)
    BY <2>2 DEF RejectCall
  <2>3. CASE RegisterCall(o)
    BY <2>3 DEF RegisterCall
  <2>4. CASE BeginRequest(o)
    BY <2>4 DEF BeginRequest
  <2>5. CASE RegisterControl(o)
    BY <2>5 DEF RegisterControl
  <2>6. CASE RefuseRequest(o)
    BY <2>6 DEF RefuseRequest
  <2>7. CASE BeginPost(o)
    BY <2>7 DEF BeginPost
  <2>8. CASE AcquireWrite(o)
    BY <2>8 DEF AcquireWrite
  <2>9. CASE RefuseSend(o)
    BY <2>9 DEF RefuseSend
  <2>10. CASE CancelLocked(o)
    BY <2>10 DEF CancelLocked
  <2>11. CASE Arm(o)
    BY <2>11 DEF Arm
  <2>12. CASE WriteFrame(o)
    BY <2>12 DEF WriteFrame
  <2>13. CASE BreakWrite(o)
    BY <2>13 DEF BreakWrite
  <2>14. CASE CloseBroken(o)
    BY <2>14 DEF CloseBroken
  <2>15. CASE ReturnBroken(o)
    BY <2>15 DEF ReturnBroken
  <2>16. CASE ReturnSent(o)
    BY <2>16 DEF ReturnSent
  <2>17. CASE Receive(o)
    BY <2>17 DEF Receive
  <2>18. CASE WaitClosed(o)
    BY <2>18 DEF WaitClosed
  <2>19. CASE AbandonCall(o)
    BY <2>19 DEF AbandonCall
  <2>20. CASE ExpireControl(o)
    BY <2>20 DEF ExpireControl
  <2>21. CASE ReturnExpired(o)
    BY <2>21 DEF ReturnExpired
  <2>22. CASE Leave(o)
    BY <2>22 DEF Leave
  <2>23. CASE Cancel(o)
    BY <2>23 DEF Cancel
  <2>24. CASE FireAfter(o)
    BY <2>24 DEF FireAfter
  <2>25. CASE RunAfter(o)
    BY <2>25 DEF RunAfter
  <2>26. CASE ReadAnswer(o)
    BY <2>26 DEF ReadAnswer
  <2>27. CASE ReadError(o)
    BY <2>27 DEF ReadError
  <2> QED
    BY <1>1, <2>1, <2>2, <2>3, <2>4, <2>5, <2>6, <2>7, <2>8, <2>9, <2>10, <2>11, <2>12, <2>13,
       <2>14, <2>15, <2>16, <2>17, <2>18, <2>19, <2>20, <2>21, <2>22, <2>23, <2>24, <2>25, <2>26,
       <2>27 DEF OpStep
<1>2. CASE Close
  BY <1>2 DEF Close
<1>3. CASE Sever
  BY <1>3 DEF Sever
<1>4. CASE CloseDone
  BY <1>4 DEF CloseDone
<1>5. CASE Deliver
  BY <1>5 DEF Deliver
<1>6. CASE FailRead
  BY <1>6 DEF FailRead
<1>7. CASE UNCHANGED vars
  BY <1>7
<1> QED BY <1>1, <1>2, <1>3, <1>4, <1>5, <1>6, <1>7 DEF Next, Finished

-----------------------------------------------------------------------------
(* The inductive invariant and the properties it implies *)

\* Client.Init establishes the inductive invariant.
LEMMA InitIInv == Init => IInv
<1> SUFFICES ASSUME Init PROVE IInv
  OBVIOUS
<1> USE OpsAssumption DEF Init, Nothing, Ops, Askers
<1>1. TypeOK
  BY DEF TypeOK, Labels, Outcomes
<1>2. ControlFlow
  BY DEF ControlFlow, LabelInv, SlotInv, TornInv, SentInv, EndInv, Early, WriteWindow, Asking
<1>3. Answers
  BY DEF Answers, PlaceInv, RouteInv, Early, Asking
<1>4. FreshInv
  BY DEF FreshInv, InFlight
<1>5. NoAnswerLost
  BY DEF NoAnswerLost
<1> QED
  BY <1>1, <1>2, <1>3, <1>4, <1>5 DEF IInv

\* Every step of the client, and a stutter, keeps the inductive invariant.
LEMMA NextIInv == IInv /\ [Next]_vars => IInv'
<1> SUFFICES ASSUME IInv, [Next]_vars PROVE IInv'
  OBVIOUS
<1>1. TypeOK'
  BY TypeStep DEF IInv
<1>2. ControlFlow'
  BY <1>1, FlowStep DEF IInv
<1>3. Answers'
  BY <1>1, AnswersStep DEF IInv
<1>4. FreshInv'
  BY <1>1, FreshStep DEF IInv
<1>5. NoAnswerLost'
  BY <1>1, LostStep DEF IInv
<1> QED
  BY <1>1, <1>2, <1>3, <1>4, <1>5 DEF IInv

\* The inductive invariant holds in every behaviour of the client.
THEOREM Invariance == Spec => []IInv
BY InitIInv, NextIInv, PTL DEF Spec

\* The variables keep their types.
THEOREM TypeCorrect == Spec => []TypeOK
BY Invariance, PTL DEF IInv

\* A call never returns the answer of another operation.
THEOREM Correlation == Spec => []CallsCorrelate
<1>1. IInv => CallsCorrelate
  BY OpsAssumption DEF IInv, Answers, RouteInv, Suits, CallsCorrelate, Ops
<1> QED BY Invariance, <1>1, PTL

\* Without an Error to a control, no control returns the answer of another.
THEOREM ControlFreshness == Spec => []StaleNeedsError
<1>1. IInv => StaleNeedsError
  BY DEF IInv, FreshInv, StaleNeedsError
<1> QED BY Invariance, <1>1, PTL

\* An answer that was read while it is awaited reaches the channel.
THEOREM AnswersKept == Spec => []NoAnswerLost
BY Invariance, PTL DEF IInv

\* Nothing is sent behind part of a frame.
THEOREM FrameBoundaries == Spec => TornIsFinal
<1>1. IInv /\ [Next]_vars => [torn => sent' = sent]_vars
  <2> SUFFICES ASSUME IInv, Next, torn PROVE sent' = sent
    BY DEF vars
  <2>1. ASSUME NEW o \in Ops, WriteFrame(o) PROVE FALSE
    BY <2>1 DEF IInv, ControlFlow, TornInv, SlotInv, WriteWindow, WriteFrame
  <2> QED
    BY <2>1 DEF Next, OpStep, Finished, vars, opVars, lockVars, shutVars, wireVars, readVars,
       AdmitCall, RejectCall, RegisterCall, BeginRequest, RegisterControl, RefuseRequest, BeginPost,
       AcquireWrite, RefuseSend, CancelLocked, Arm, BreakWrite, CloseBroken, ReturnBroken, ReturnSent,
       Receive, WaitClosed, AbandonCall, ExpireControl, ReturnExpired, Leave, Cancel, FireAfter,
       RunAfter, ReadAnswer, ReadError, Close, Sever, CloseDone, Deliver, FailRead
<1> QED BY Invariance, <1>1, PTL DEF Spec, TornIsFinal

-----------------------------------------------------------------------------
(* Refinement of Exchange *)

\* A step of the operation o is a step of Exchange or a stutter.
LEMMA OpRefines ==
  ASSUME IInv, NEW o \in Ops, OpStep(o)
  PROVE  [Promise!Next]_(Promise!vars)
<1> USE DEF Promise!vars, Promise!Next, Promise!Ops, Ops, opVars, lockVars, shutVars, wireVars, readVars,
            Goto, Fail, Severed, BeginShutdown
<1>1. TypeOK /\ LabelInv /\ SentInv /\ TornInv /\ SlotInv
  BY DEF IInv, ControlFlow
<1>2. CASE WriteFrame(o)
  <2>1. ~torn
    BY <1>1, <1>2 DEF WriteFrame, TornInv, SlotInv, WriteWindow
  <2>2. o \notin sent /\ outcome[o] = "none"
    BY <1>1, <1>2 DEF WriteFrame, SentInv, LabelInv, Asking
  <2> QED
    BY <1>2, <2>1, <2>2 DEF WriteFrame, Promise!Transmit
<1>3. CASE BreakWrite(o)
  <2>1. CASE torn' = torn
    BY <1>3, <2>1 DEF BreakWrite
  <2>2. CASE torn' = TRUE
    BY <1>3, <2>2 DEF BreakWrite, Promise!Tear
  <2> QED
    BY <1>3, <2>1, <2>2 DEF BreakWrite
<1>4. CASE Receive(o)
  <2>1. outcome[o] = "none" /\ o \in Askers /\ o \in sent
    BY <1>1, <1>4 DEF Receive, LabelInv, SentInv, Asking, Askers
  <2>2. CASE chan[o] = Failure
    BY <1>4, <2>1, <2>2 DEF Receive, Promise!ReturnFailure, Promise!Failures
  <2>3. CASE chan[o] # Failure
    <3>1. chan[o] \in Ops
      BY <1>1, <1>4, <2>3 DEF Receive, TypeOK, Askers
    <3>2. chan[o] \in Promise!Eligible(o)
      BY <3>1, OpsAssumption DEF IInv, Answers, PlaceInv, RouteInv, Suits, Promise!Eligible
    <3> QED
      BY <1>4, <2>1, <2>3, <3>2 DEF Receive, Promise!Return
  <2> QED
    BY <2>2, <2>3
<1>5. CASE ReturnSent(o)
  <2>1. outcome[o] = "none" /\ o \in sent
    BY <1>1, <1>5 DEF ReturnSent, LabelInv, SentInv, Asking
  <2> QED
    BY <1>5, <2>1 DEF ReturnSent, Promise!ReturnPosted
<1>6. CASE \/ RejectCall(o) \/ RefuseRequest(o) \/ RefuseSend(o) \/ CancelLocked(o)
           \/ ReturnBroken(o) \/ WaitClosed(o) \/ AbandonCall(o) \/ ReturnExpired(o)
  <2>1. outcome[o] = "none" /\ UNCHANGED <<shut, torn, sent, answer>>
    BY <1>1, <1>6 DEF LabelInv, RejectCall, RefuseRequest, RefuseSend, CancelLocked, ReturnBroken,
       WaitClosed, AbandonCall, ReturnExpired
  <2>2. \E why \in Promise!Failures : outcome' = [outcome EXCEPT ![o] = why]
    BY <1>6 DEF Promise!Failures, RejectCall, RefuseRequest, RefuseSend, CancelLocked, ReturnBroken,
       WaitClosed, AbandonCall, ReturnExpired
  <2> QED
    BY <2>1, <2>2 DEF Promise!ReturnFailure
<1>7. CASE \/ AdmitCall(o) \/ RegisterCall(o) \/ BeginRequest(o) \/ RegisterControl(o) \/ BeginPost(o)
           \/ AcquireWrite(o) \/ Arm(o) \/ CloseBroken(o) \/ ExpireControl(o) \/ Leave(o) \/ Cancel(o)
           \/ FireAfter(o) \/ RunAfter(o) \/ ReadAnswer(o) \/ ReadError(o)
  BY <1>7 DEF AdmitCall, RegisterCall, BeginRequest, RegisterControl, BeginPost, AcquireWrite, Arm,
     CloseBroken, ExpireControl, Leave, Cancel, FireAfter, RunAfter, ReadAnswer, ReadError
<1> QED
  BY <1>2, <1>3, <1>4, <1>5, <1>6, <1>7 DEF OpStep

\* The client implements the promise of Exchange, with conn.Close as its Close.
THEOREM PromiseKept == Spec => PromiseSpec
<1>1. Init => Promise!Init
  BY DEF Init, Promise!Init, Promise!Ops, Ops, Severed
<1>2. IInv /\ [Next]_vars => [Promise!Next]_(Promise!vars)
  <2> SUFFICES ASSUME IInv, [Next]_vars PROVE [Promise!Next]_(Promise!vars)
    OBVIOUS
  <2>1. CASE \E o \in Ops : OpStep(o)
    BY <2>1, OpRefines
  <2>2. CASE Close \/ Sever \/ CloseDone \/ Deliver \/ FailRead \/ UNCHANGED vars
    BY <2>2 DEF Close, Sever, CloseDone, Deliver, FailRead, vars, opVars, lockVars, shutVars, wireVars,
       readVars, BeginShutdown, Severed, Promise!Next, Promise!Close, Promise!vars
  <2> QED
    BY <2>1, <2>2 DEF Next, Finished
<1> QED
  BY Invariance, <1>1, <1>2, PTL DEF Spec, PromiseSpec, Promise!Spec
=============================================================================
