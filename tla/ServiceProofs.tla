---------------------------- MODULE ServiceProofs ----------------------------
(***************************************************************************)
(* TLAPS proofs about Service, for any number of goroutines that connect,  *)
(* run persistently and close, and of connections.                         *)
(***************************************************************************)
EXTENDS ServiceInductive, TLAPS

\* Every step of the service keeps the types.
LEMMA TypeStep ==
  ASSUME TypeOK, LabelInv, [Next]_vars
  PROVE  TypeOK'
<1> USE ServiceAssumption DEF vars, connVars, runVars, Dialers, Critical, Fresh, Open, Upto, Shut,
   Goto, AfterConnect, TypeOK, LabelInv
<1>1. ASSUME NEW p \in Dialers,
            Connect(p) \/ Lock(p) \/ Check(p) \/ RefuseConnected(p) \/ FailDial(p) \/
            InstallHandler(p) \/ Refuse(p) \/ Authenticate(p) \/ Publish(p) \/ OpenGate(p)
            \/ StartHeartbeat(p) \/ (\E c \in Conns : Dial(p, c))
     PROVE  TypeOK'
  <2>1. CASE Connect(p)
    BY <2>1 DEF Connect
  <2>2. CASE Lock(p)
    BY <2>2 DEF Lock
  <2>3. CASE Check(p)
    BY <2>3 DEF Check
  <2>4. CASE RefuseConnected(p)
    BY <2>4 DEF RefuseConnected
  <2>5. CASE FailDial(p)
    BY <2>5 DEF FailDial
  <2>6. CASE InstallHandler(p)
    BY <2>6 DEF InstallHandler
  <2>7. CASE Refuse(p)
    BY <2>7 DEF Refuse
  <2>8. CASE Authenticate(p)
    BY <2>8 DEF Authenticate
  <2>9. CASE Publish(p)
    BY <2>9 DEF Publish
  <2>10. CASE OpenGate(p)
    BY <2>10 DEF OpenGate
  <2>11. CASE StartHeartbeat(p)
    BY <2>11 DEF StartHeartbeat
  <2>12. ASSUME NEW c \in Conns, Dial(p, c) PROVE TypeOK'
    BY <2>12 DEF Dial
  <2> QED
    BY <1>1, <2>1, <2>2, <2>3, <2>4, <2>5, <2>6, <2>7, <2>8, <2>9, <2>10, <2>11, <2>12
<1>2. ASSUME NEW r \in Runners,
            RunPersistent(r) \/ Top(r) \/ Watch(r) \/ Abort(r) \/ Notice(r) \/ BackOff(r) \/
            WakeUp(r) \/ Cancel(r)
     PROVE  TypeOK'
  <2>1. CASE RunPersistent(r)
    BY <2>1 DEF RunPersistent
  <2>2. CASE Top(r)
    BY <2>2 DEF Top
  <2>3. CASE Watch(r)
    BY <2>3 DEF Watch
  <2>4. CASE Abort(r)
    BY <2>4 DEF Abort
  <2>5. CASE Notice(r)
    BY <2>5 DEF Notice
  <2>6. CASE BackOff(r)
    BY <2>6 DEF BackOff
  <2>7. CASE WakeUp(r)
    BY <2>7 DEF WakeUp
  <2>8. CASE Cancel(r)
    BY <2>8 DEF Cancel
  <2> QED
    BY <1>2, <2>1, <2>2, <2>3, <2>4, <2>5, <2>6, <2>7, <2>8
<1>3. ASSUME NEW c \in Conns,
            Disconnect(c) \/ Accept(c) \/ Arrive(c) \/ PassGate(c) \/ Handled(c) \/ Tick(c)
            \/ Beat(c) \/ MissBeat(c) \/ StopHeartbeat(c)
     PROVE  TypeOK'
  <2>1. CASE Disconnect(c)
    BY <2>1 DEF Disconnect
  <2>2. CASE Accept(c)
    BY <2>2 DEF Accept
  <2>3. CASE Arrive(c)
    BY <2>3 DEF Arrive
  <2>4. CASE PassGate(c)
    BY <2>4 DEF PassGate
  <2>5. CASE Handled(c)
    BY <2>5 DEF Handled
  <2>6. CASE Tick(c)
    BY <2>6 DEF Tick
  <2>7. CASE Beat(c)
    BY <2>7 DEF Beat
  <2>8. CASE MissBeat(c)
    BY <2>8 DEF MissBeat
  <2>9. CASE StopHeartbeat(c)
    BY <2>9 DEF StopHeartbeat
  <2> QED
    BY <1>3, <2>1, <2>2, <2>3, <2>4, <2>5, <2>6, <2>7, <2>8, <2>9
<1>4. ASSUME NEW x \in Closers,
            BeginClose(x) \/ EndClose(x)
     PROVE  TypeOK'
  <2>1. CASE BeginClose(x)
    BY <2>1 DEF BeginClose
  <2>2. CASE EndClose(x)
    BY <2>2 DEF EndClose
  <2> QED
    BY <1>4, <2>1, <2>2
<1>5. CASE UNCHANGED vars
  BY <1>5
<1> QED
  BY <1>1, <1>2, <1>3, <1>4, <1>5 DEF Next, ConnectStep, RunStep, ConnStep

\* Every step keeps the lock, the labels and the references to connections consistent.
LEMMA LockStep ==
  ASSUME TypeOK, TypeOK', LockInv, LabelInv, UsedInv, AloneInv, [Next]_vars
  PROVE  (LockInv /\ LabelInv /\ UsedInv)'
<1> USE ServiceAssumption DEF vars, connVars, runVars, Dialers, Critical, Fresh, Open, Upto, Shut,
   Goto, AfterConnect, TypeOK, LockInv, LabelInv, UsedInv, AloneInv
<1>1. ASSUME NEW p \in Dialers,
            Connect(p) \/ Lock(p) \/ Check(p) \/ RefuseConnected(p) \/ FailDial(p) \/
            InstallHandler(p) \/ Refuse(p) \/ Authenticate(p) \/ Publish(p) \/ OpenGate(p)
            \/ StartHeartbeat(p) \/ (\E c \in Conns : Dial(p, c))
     PROVE  (LockInv /\ LabelInv /\ UsedInv)'
  <2>1. CASE Connect(p)
    BY <2>1 DEF Connect
  <2>2. CASE Lock(p)
    BY <2>2 DEF Lock
  <2>3. CASE Check(p)
    BY <2>3 DEF Check
  <2>4. CASE RefuseConnected(p)
    BY <2>4 DEF RefuseConnected
  <2>5. CASE FailDial(p)
    BY <2>5 DEF FailDial
  <2>6. CASE InstallHandler(p)
    BY <2>6 DEF InstallHandler
  <2>7. CASE Refuse(p)
    BY <2>7 DEF Refuse
  <2>8. CASE Authenticate(p)
    BY <2>8 DEF Authenticate
  <2>9. CASE Publish(p)
    BY <2>9 DEF Publish
  <2>10. CASE OpenGate(p)
    BY <2>10 DEF OpenGate
  <2>11. CASE StartHeartbeat(p)
    BY <2>11 DEF StartHeartbeat
  <2>12. ASSUME NEW c \in Conns, Dial(p, c) PROVE (LockInv /\ LabelInv /\ UsedInv)'
    BY <2>12 DEF Dial
  <2> QED
    BY <1>1, <2>1, <2>2, <2>3, <2>4, <2>5, <2>6, <2>7, <2>8, <2>9, <2>10, <2>11, <2>12
<1>2. ASSUME NEW r \in Runners,
            RunPersistent(r) \/ Top(r) \/ Watch(r) \/ Abort(r) \/ Notice(r) \/ BackOff(r) \/
            WakeUp(r) \/ Cancel(r)
     PROVE  (LockInv /\ LabelInv /\ UsedInv)'
  <2>1. CASE RunPersistent(r)
    BY <2>1 DEF RunPersistent
  <2>2. CASE Top(r)
    BY <2>2 DEF Top
  <2>3. CASE Watch(r)
    BY <2>3 DEF Watch
  <2>4. CASE Abort(r)
    BY <2>4 DEF Abort
  <2>5. CASE Notice(r)
    BY <2>5 DEF Notice
  <2>6. CASE BackOff(r)
    BY <2>6 DEF BackOff
  <2>7. CASE WakeUp(r)
    BY <2>7 DEF WakeUp
  <2>8. CASE Cancel(r)
    BY <2>8 DEF Cancel
  <2> QED
    BY <1>2, <2>1, <2>2, <2>3, <2>4, <2>5, <2>6, <2>7, <2>8
<1>3. ASSUME NEW c \in Conns,
            Disconnect(c) \/ Accept(c) \/ Arrive(c) \/ PassGate(c) \/ Handled(c) \/ Tick(c)
            \/ Beat(c) \/ MissBeat(c) \/ StopHeartbeat(c)
     PROVE  (LockInv /\ LabelInv /\ UsedInv)'
  <2>1. CASE Disconnect(c)
    BY <2>1 DEF Disconnect
  <2>2. CASE Accept(c)
    BY <2>2 DEF Accept
  <2>3. CASE Arrive(c)
    BY <2>3 DEF Arrive
  <2>4. CASE PassGate(c)
    BY <2>4 DEF PassGate
  <2>5. CASE Handled(c)
    BY <2>5 DEF Handled
  <2>6. CASE Tick(c)
    BY <2>6 DEF Tick
  <2>7. CASE Beat(c)
    BY <2>7 DEF Beat
  <2>8. CASE MissBeat(c)
    BY <2>8 DEF MissBeat
  <2>9. CASE StopHeartbeat(c)
    BY <2>9 DEF StopHeartbeat
  <2> QED
    BY <1>3, <2>1, <2>2, <2>3, <2>4, <2>5, <2>6, <2>7, <2>8, <2>9
<1>4. ASSUME NEW x \in Closers,
            BeginClose(x) \/ EndClose(x)
     PROVE  (LockInv /\ LabelInv /\ UsedInv)'
  <2>1. CASE BeginClose(x)
    BY <2>1 DEF BeginClose
  <2>2. CASE EndClose(x)
    BY <2>2 DEF EndClose
  <2> QED
    BY <1>4, <2>1, <2>2
<1>5. CASE UNCHANGED vars
  BY <1>5
<1> QED
  BY <1>1, <1>2, <1>3, <1>4, <1>5 DEF Next, ConnectStep, RunStep, ConnStep

\* Every step keeps a connection that is set up alone, and none is lost.
LEMMA LeakStep ==
  ASSUME TypeOK, TypeOK', LockInv, LabelInv, UsedInv, AloneInv, NoLeak, [Next]_vars
  PROVE  (AloneInv /\ NoLeak)'
<1> USE ServiceAssumption DEF vars, connVars, runVars, Dialers, Critical, Fresh, Open, Upto, Shut,
   Goto, AfterConnect, TypeOK, LockInv, LabelInv, UsedInv, AloneInv, NoLeak
<1>1. ASSUME NEW p \in Dialers,
            Connect(p) \/ Lock(p) \/ Check(p) \/ RefuseConnected(p) \/ FailDial(p) \/
            InstallHandler(p) \/ Refuse(p) \/ Authenticate(p) \/ Publish(p) \/ OpenGate(p)
            \/ StartHeartbeat(p) \/ (\E c \in Conns : Dial(p, c))
     PROVE  (AloneInv /\ NoLeak)'
  <2>1. CASE Connect(p)
    BY <2>1 DEF Connect
  <2>2. CASE Lock(p)
    BY <2>2 DEF Lock
  <2>3. CASE Check(p)
    BY <2>3 DEF Check
  <2>4. CASE RefuseConnected(p)
    BY <2>4 DEF RefuseConnected
  <2>5. CASE FailDial(p)
    BY <2>5 DEF FailDial
  <2>6. CASE InstallHandler(p)
    BY <2>6 DEF InstallHandler
  <2>7. CASE Refuse(p)
    BY <2>7 DEF Refuse
  <2>8. CASE Authenticate(p)
    BY <2>8 DEF Authenticate
  <2>9. CASE Publish(p)
    BY <2>9 DEF Publish
  <2>10. CASE OpenGate(p)
    BY <2>10 DEF OpenGate
  <2>11. CASE StartHeartbeat(p)
    BY <2>11 DEF StartHeartbeat
  <2>12. ASSUME NEW c \in Conns, Dial(p, c) PROVE (AloneInv /\ NoLeak)'
    BY <2>12 DEF Dial
  <2> QED
    BY <1>1, <2>1, <2>2, <2>3, <2>4, <2>5, <2>6, <2>7, <2>8, <2>9, <2>10, <2>11, <2>12
<1>2. ASSUME NEW r \in Runners,
            RunPersistent(r) \/ Top(r) \/ Watch(r) \/ Abort(r) \/ Notice(r) \/ BackOff(r) \/
            WakeUp(r) \/ Cancel(r)
     PROVE  (AloneInv /\ NoLeak)'
  <2>1. CASE RunPersistent(r)
    BY <2>1 DEF RunPersistent
  <2>2. CASE Top(r)
    BY <2>2 DEF Top
  <2>3. CASE Watch(r)
    BY <2>3 DEF Watch
  <2>4. CASE Abort(r)
    BY <2>4 DEF Abort
  <2>5. CASE Notice(r)
    BY <2>5 DEF Notice
  <2>6. CASE BackOff(r)
    BY <2>6 DEF BackOff
  <2>7. CASE WakeUp(r)
    BY <2>7 DEF WakeUp
  <2>8. CASE Cancel(r)
    BY <2>8 DEF Cancel
  <2> QED
    BY <1>2, <2>1, <2>2, <2>3, <2>4, <2>5, <2>6, <2>7, <2>8
<1>3. ASSUME NEW c \in Conns,
            Disconnect(c) \/ Accept(c) \/ Arrive(c) \/ PassGate(c) \/ Handled(c) \/ Tick(c)
            \/ Beat(c) \/ MissBeat(c) \/ StopHeartbeat(c)
     PROVE  (AloneInv /\ NoLeak)'
  <2>1. CASE Disconnect(c)
    BY <2>1 DEF Disconnect
  <2>2. CASE Accept(c)
    BY <2>2 DEF Accept
  <2>3. CASE Arrive(c)
    BY <2>3 DEF Arrive
  <2>4. CASE PassGate(c)
    BY <2>4 DEF PassGate
  <2>5. CASE Handled(c)
    BY <2>5 DEF Handled
  <2>6. CASE Tick(c)
    BY <2>6 DEF Tick
  <2>7. CASE Beat(c)
    BY <2>7 DEF Beat
  <2>8. CASE MissBeat(c)
    BY <2>8 DEF MissBeat
  <2>9. CASE StopHeartbeat(c)
    BY <2>9 DEF StopHeartbeat
  <2> QED
    BY <1>3, <2>1, <2>2, <2>3, <2>4, <2>5, <2>6, <2>7, <2>8, <2>9
<1>4. ASSUME NEW x \in Closers,
            BeginClose(x) \/ EndClose(x)
     PROVE  (AloneInv /\ NoLeak)'
  <2>1. CASE BeginClose(x)
    BY <2>1 DEF BeginClose
  <2>2. CASE EndClose(x)
    BY <2>2 DEF EndClose
  <2> QED
    BY <1>4, <2>1, <2>2
<1>5. CASE UNCHANGED vars
  BY <1>5
<1> QED
  BY <1>1, <1>2, <1>3, <1>4, <1>5 DEF Next, ConnectStep, RunStep, ConnStep

\* Every step keeps what a runner has left closed.
LEMMA RunnerStep ==
  ASSUME TypeOK, TypeOK', LockInv, LabelInv, UsedInv, AloneInv, RunnerInv, NoLeak, [Next]_vars
  PROVE  RunnerInv'
<1> USE ServiceAssumption DEF vars, connVars, runVars, Dialers, Critical, Fresh, Open, Upto, Shut,
   Goto, AfterConnect, TypeOK, LockInv, LabelInv, UsedInv, AloneInv, RunnerInv, NoLeak
<1>1. ASSUME NEW p \in Dialers,
            Connect(p) \/ Lock(p) \/ Check(p) \/ RefuseConnected(p) \/ FailDial(p) \/
            InstallHandler(p) \/ Refuse(p) \/ Authenticate(p) \/ Publish(p) \/ OpenGate(p)
            \/ StartHeartbeat(p) \/ (\E c \in Conns : Dial(p, c))
     PROVE  RunnerInv'
  <2>1. CASE Connect(p)
    BY <2>1 DEF Connect
  <2>2. CASE Lock(p)
    BY <2>2 DEF Lock
  <2>3. CASE Check(p)
    BY <2>3 DEF Check
  <2>4. CASE RefuseConnected(p)
    BY <2>4 DEF RefuseConnected
  <2>5. CASE FailDial(p)
    BY <2>5 DEF FailDial
  <2>6. CASE InstallHandler(p)
    BY <2>6 DEF InstallHandler
  <2>7. CASE Refuse(p)
    BY <2>7 DEF Refuse
  <2>8. CASE Authenticate(p)
    BY <2>8 DEF Authenticate
  <2>9. CASE Publish(p)
    BY <2>9 DEF Publish
  <2>10. CASE OpenGate(p)
    BY <2>10 DEF OpenGate
  <2>11. CASE StartHeartbeat(p)
    BY <2>11 DEF StartHeartbeat
  <2>12. ASSUME NEW c \in Conns, Dial(p, c) PROVE RunnerInv'
    BY <2>12 DEF Dial
  <2> QED
    BY <1>1, <2>1, <2>2, <2>3, <2>4, <2>5, <2>6, <2>7, <2>8, <2>9, <2>10, <2>11, <2>12
<1>2. ASSUME NEW r \in Runners,
            RunPersistent(r) \/ Top(r) \/ Watch(r) \/ Abort(r) \/ Notice(r) \/ BackOff(r) \/
            WakeUp(r) \/ Cancel(r)
     PROVE  RunnerInv'
  <2>1. CASE RunPersistent(r)
    BY <2>1 DEF RunPersistent
  <2>2. CASE Top(r)
    BY <2>2 DEF Top
  <2>3. CASE Watch(r)
    BY <2>3 DEF Watch
  <2>4. CASE Abort(r)
    BY <2>4 DEF Abort
  <2>5. CASE Notice(r)
    BY <2>5 DEF Notice
  <2>6. CASE BackOff(r)
    BY <2>6 DEF BackOff
  <2>7. CASE WakeUp(r)
    BY <2>7 DEF WakeUp
  <2>8. CASE Cancel(r)
    BY <2>8 DEF Cancel
  <2> QED
    BY <1>2, <2>1, <2>2, <2>3, <2>4, <2>5, <2>6, <2>7, <2>8
<1>3. ASSUME NEW c \in Conns,
            Disconnect(c) \/ Accept(c) \/ Arrive(c) \/ PassGate(c) \/ Handled(c) \/ Tick(c)
            \/ Beat(c) \/ MissBeat(c) \/ StopHeartbeat(c)
     PROVE  RunnerInv'
  <2>1. CASE Disconnect(c)
    BY <2>1 DEF Disconnect
  <2>2. CASE Accept(c)
    BY <2>2 DEF Accept
  <2>3. CASE Arrive(c)
    BY <2>3 DEF Arrive
  <2>4. CASE PassGate(c)
    BY <2>4 DEF PassGate
  <2>5. CASE Handled(c)
    BY <2>5 DEF Handled
  <2>6. CASE Tick(c)
    BY <2>6 DEF Tick
  <2>7. CASE Beat(c)
    BY <2>7 DEF Beat
  <2>8. CASE MissBeat(c)
    BY <2>8 DEF MissBeat
  <2>9. CASE StopHeartbeat(c)
    BY <2>9 DEF StopHeartbeat
  <2> QED
    BY <1>3, <2>1, <2>2, <2>3, <2>4, <2>5, <2>6, <2>7, <2>8, <2>9
<1>4. ASSUME NEW x \in Closers,
            BeginClose(x) \/ EndClose(x)
     PROVE  RunnerInv'
  <2>1. CASE BeginClose(x)
    BY <2>1 DEF BeginClose
  <2>2. CASE EndClose(x)
    BY <2>2 DEF EndClose
  <2> QED
    BY <1>4, <2>1, <2>2
<1>5. CASE UNCHANGED vars
  BY <1>5
<1> QED
  BY <1>1, <1>2, <1>3, <1>4, <1>5 DEF Next, ConnectStep, RunStep, ConnStep

\* Every step keeps the order of hooking, authentication, publication and gate.
LEMMA GateStep ==
  ASSUME TypeOK, TypeOK', LockInv, LabelInv, UsedInv, AloneInv, GateInv, GateOrder, [Next]_vars
  PROVE  (GateInv /\ GateOrder)'
<1> USE ServiceAssumption DEF vars, connVars, runVars, Dialers, Critical, Fresh, Open, Upto, Shut,
   Goto, AfterConnect, TypeOK, LockInv, LabelInv, UsedInv, AloneInv, GateInv, GateOrder
<1>1. ASSUME NEW p \in Dialers,
            Connect(p) \/ Lock(p) \/ Check(p) \/ RefuseConnected(p) \/ FailDial(p) \/
            InstallHandler(p) \/ Refuse(p) \/ Authenticate(p) \/ Publish(p) \/ OpenGate(p)
            \/ StartHeartbeat(p) \/ (\E c \in Conns : Dial(p, c))
     PROVE  (GateInv /\ GateOrder)'
  <2>1. CASE Connect(p)
    BY <2>1 DEF Connect
  <2>2. CASE Lock(p)
    BY <2>2 DEF Lock
  <2>3. CASE Check(p)
    BY <2>3 DEF Check
  <2>4. CASE RefuseConnected(p)
    BY <2>4 DEF RefuseConnected
  <2>5. CASE FailDial(p)
    BY <2>5 DEF FailDial
  <2>6. CASE InstallHandler(p)
    BY <2>6 DEF InstallHandler
  <2>7. CASE Refuse(p)
    BY <2>7 DEF Refuse
  <2>8. CASE Authenticate(p)
    BY <2>8 DEF Authenticate
  <2>9. CASE Publish(p)
    BY <2>9 DEF Publish
  <2>10. CASE OpenGate(p)
    BY <2>10 DEF OpenGate
  <2>11. CASE StartHeartbeat(p)
    BY <2>11 DEF StartHeartbeat
  <2>12. ASSUME NEW c \in Conns, Dial(p, c) PROVE (GateInv /\ GateOrder)'
    BY <2>12 DEF Dial
  <2> QED
    BY <1>1, <2>1, <2>2, <2>3, <2>4, <2>5, <2>6, <2>7, <2>8, <2>9, <2>10, <2>11, <2>12
<1>2. ASSUME NEW r \in Runners,
            RunPersistent(r) \/ Top(r) \/ Watch(r) \/ Abort(r) \/ Notice(r) \/ BackOff(r) \/
            WakeUp(r) \/ Cancel(r)
     PROVE  (GateInv /\ GateOrder)'
  <2>1. CASE RunPersistent(r)
    BY <2>1 DEF RunPersistent
  <2>2. CASE Top(r)
    BY <2>2 DEF Top
  <2>3. CASE Watch(r)
    BY <2>3 DEF Watch
  <2>4. CASE Abort(r)
    BY <2>4 DEF Abort
  <2>5. CASE Notice(r)
    BY <2>5 DEF Notice
  <2>6. CASE BackOff(r)
    BY <2>6 DEF BackOff
  <2>7. CASE WakeUp(r)
    BY <2>7 DEF WakeUp
  <2>8. CASE Cancel(r)
    BY <2>8 DEF Cancel
  <2> QED
    BY <1>2, <2>1, <2>2, <2>3, <2>4, <2>5, <2>6, <2>7, <2>8
<1>3. ASSUME NEW c \in Conns,
            Disconnect(c) \/ Accept(c) \/ Arrive(c) \/ PassGate(c) \/ Handled(c) \/ Tick(c)
            \/ Beat(c) \/ MissBeat(c) \/ StopHeartbeat(c)
     PROVE  (GateInv /\ GateOrder)'
  <2>1. CASE Disconnect(c)
    BY <2>1 DEF Disconnect
  <2>2. CASE Accept(c)
    BY <2>2 DEF Accept
  <2>3. CASE Arrive(c)
    BY <2>3 DEF Arrive
  <2>4. CASE PassGate(c)
    BY <2>4 DEF PassGate
  <2>5. CASE Handled(c)
    BY <2>5 DEF Handled
  <2>6. CASE Tick(c)
    BY <2>6 DEF Tick
  <2>7. CASE Beat(c)
    BY <2>7 DEF Beat
  <2>8. CASE MissBeat(c)
    BY <2>8 DEF MissBeat
  <2>9. CASE StopHeartbeat(c)
    BY <2>9 DEF StopHeartbeat
  <2> QED
    BY <1>3, <2>1, <2>2, <2>3, <2>4, <2>5, <2>6, <2>7, <2>8, <2>9
<1>4. ASSUME NEW x \in Closers,
            BeginClose(x) \/ EndClose(x)
     PROVE  (GateInv /\ GateOrder)'
  <2>1. CASE BeginClose(x)
    BY <2>1 DEF BeginClose
  <2>2. CASE EndClose(x)
    BY <2>2 DEF EndClose
  <2> QED
    BY <1>4, <2>1, <2>2
<1>5. CASE UNCHANGED vars
  BY <1>5
<1> QED
  BY <1>1, <1>2, <1>3, <1>4, <1>5 DEF Next, ConnectStep, RunStep, ConnStep

\* Every step keeps a runner's attempt in step with the ends it has counted.
LEMMA ScheduleStep ==
  ASSUME TypeOK, TypeOK', LabelInv, ScheduleInv, [Next]_vars
  PROVE  ScheduleInv'
<1> USE ServiceAssumption DEF vars, connVars, runVars, Dialers, Critical, Fresh, Open, Upto, Shut,
   Goto, AfterConnect, TypeOK, LabelInv, ScheduleInv
<1>1. ASSUME NEW p \in Dialers,
            Connect(p) \/ Lock(p) \/ Check(p) \/ RefuseConnected(p) \/ FailDial(p) \/
            InstallHandler(p) \/ Refuse(p) \/ Authenticate(p) \/ Publish(p) \/ OpenGate(p)
            \/ StartHeartbeat(p) \/ (\E c \in Conns : Dial(p, c))
     PROVE  ScheduleInv'
  <2>1. CASE Connect(p)
    BY <2>1 DEF Connect
  <2>2. CASE Lock(p)
    BY <2>2 DEF Lock
  <2>3. CASE Check(p)
    BY <2>3 DEF Check
  <2>4. CASE RefuseConnected(p)
    BY <2>4 DEF RefuseConnected
  <2>5. CASE FailDial(p)
    BY <2>5 DEF FailDial
  <2>6. CASE InstallHandler(p)
    BY <2>6 DEF InstallHandler
  <2>7. CASE Refuse(p)
    BY <2>7 DEF Refuse
  <2>8. CASE Authenticate(p)
    BY <2>8 DEF Authenticate
  <2>9. CASE Publish(p)
    BY <2>9 DEF Publish
  <2>10. CASE OpenGate(p)
    BY <2>10 DEF OpenGate
  <2>11. CASE StartHeartbeat(p)
    BY <2>11 DEF StartHeartbeat
  <2>12. ASSUME NEW c \in Conns, Dial(p, c) PROVE ScheduleInv'
    BY <2>12 DEF Dial
  <2> QED
    BY <1>1, <2>1, <2>2, <2>3, <2>4, <2>5, <2>6, <2>7, <2>8, <2>9, <2>10, <2>11, <2>12
<1>2. ASSUME NEW r \in Runners,
            RunPersistent(r) \/ Top(r) \/ Watch(r) \/ Abort(r) \/ Notice(r) \/ BackOff(r) \/
            WakeUp(r) \/ Cancel(r)
     PROVE  ScheduleInv'
  <2>1. CASE RunPersistent(r)
    BY <2>1 DEF RunPersistent
  <2>2. CASE Top(r)
    BY <2>2 DEF Top
  <2>3. CASE Watch(r)
    BY <2>3 DEF Watch
  <2>4. CASE Abort(r)
    BY <2>4 DEF Abort
  <2>5. CASE Notice(r)
    BY <2>5 DEF Notice
  <2>6. CASE BackOff(r)
    BY <2>6 DEF BackOff
  <2>7. CASE WakeUp(r)
    BY <2>7 DEF WakeUp
  <2>8. CASE Cancel(r)
    BY <2>8 DEF Cancel
  <2> QED
    BY <1>2, <2>1, <2>2, <2>3, <2>4, <2>5, <2>6, <2>7, <2>8
<1>3. ASSUME NEW c \in Conns,
            Disconnect(c) \/ Accept(c) \/ Arrive(c) \/ PassGate(c) \/ Handled(c) \/ Tick(c)
            \/ Beat(c) \/ MissBeat(c) \/ StopHeartbeat(c)
     PROVE  ScheduleInv'
  <2>1. CASE Disconnect(c)
    BY <2>1 DEF Disconnect
  <2>2. CASE Accept(c)
    BY <2>2 DEF Accept
  <2>3. CASE Arrive(c)
    BY <2>3 DEF Arrive
  <2>4. CASE PassGate(c)
    BY <2>4 DEF PassGate
  <2>5. CASE Handled(c)
    BY <2>5 DEF Handled
  <2>6. CASE Tick(c)
    BY <2>6 DEF Tick
  <2>7. CASE Beat(c)
    BY <2>7 DEF Beat
  <2>8. CASE MissBeat(c)
    BY <2>8 DEF MissBeat
  <2>9. CASE StopHeartbeat(c)
    BY <2>9 DEF StopHeartbeat
  <2> QED
    BY <1>3, <2>1, <2>2, <2>3, <2>4, <2>5, <2>6, <2>7, <2>8, <2>9
<1>4. ASSUME NEW x \in Closers,
            BeginClose(x) \/ EndClose(x)
     PROVE  ScheduleInv'
  <2>1. CASE BeginClose(x)
    BY <2>1 DEF BeginClose
  <2>2. CASE EndClose(x)
    BY <2>2 DEF EndClose
  <2> QED
    BY <1>4, <2>1, <2>2
<1>5. CASE UNCHANGED vars
  BY <1>5
<1> QED
  BY <1>1, <1>2, <1>3, <1>4, <1>5 DEF Next, ConnectStep, RunStep, ConnStep

-----------------------------------------------------------------------------

\* Service.Init establishes the inductive invariant.
LEMMA InitSInv == Init => SInv
<1> SUFFICES ASSUME Init PROVE SInv
  OBVIOUS
<1> USE ServiceAssumption DEF Init, Dialers, Critical, Fresh, Open
<1>1. TypeOK
  BY DEF TypeOK
<1>2. LockInv /\ LabelInv
  BY DEF LockInv, LabelInv
<1>3. UsedInv
  BY DEF UsedInv
<1>4. AloneInv /\ RunnerInv /\ NoLeak
  BY DEF AloneInv, RunnerInv, NoLeak
<1>5. GateInv /\ GateOrder
  BY DEF GateInv, GateOrder
<1>6. ScheduleInv
  BY DEF ScheduleInv
<1> QED
  BY <1>1, <1>2, <1>3, <1>4, <1>5, <1>6 DEF SInv

\* Every step, and a stutter, keeps it.
LEMMA NextSInv == SInv /\ [Next]_vars => SInv'
BY TypeStep, LockStep, LeakStep, RunnerStep, GateStep, ScheduleStep DEF SInv

\* The inductive invariant holds in every behaviour of the service.
THEOREM ServiceInvariance == Spec => []SInv
BY InitSInv, NextSInv, PTL DEF Spec

\* The variables keep their types.
THEOREM ServiceTypes == Spec => []TypeOK
BY ServiceInvariance, PTL DEF SInv

\* No connection is open that Close could not find and nobody sets up.
THEOREM Leakless == Spec => []NoLeak
BY ServiceInvariance, PTL DEF SInv

\* The service never has two connections open.
THEOREM AtMostOne == Spec => []OneConnection
<1>1. SInv => OneConnection
  <2> SUFFICES ASSUME SInv, NEW c \in Conns, NEW d \in Conns, Open(c), Open(d) PROVE c = d
    BY DEF OneConnection
  <2> QED
    BY DEF SInv, NoLeak, AloneInv, LockInv, Open
<1> QED BY ServiceInvariance, <1>1, PTL

\* A runner that returned left no connection of its own open.
THEOREM NothingLeft == Spec => []RunnerLeavesNothing
<1>1. SInv => RunnerLeavesNothing
  BY DEF SInv, RunnerInv, RunnerLeavesNothing, Critical
<1> QED BY ServiceInvariance, <1>1, PTL

\* No request is answered "no request handler", and a handler runs only when
\* the service is the authenticated connection the request came by, or when
\* that connection is gone.
THEOREM GateHolds == Spec => []GateOrder
BY ServiceInvariance, PTL DEF SInv

\* The n-th end of an attempt since a connection was up is followed by the n-th
\* delay of the schedule, and by the last one once the schedule is used up.
THEOREM BackoffOnSchedule == Spec => []BackoffFollowsSchedule
<1>1. SInv => BackoffFollowsSchedule
  <2> SUFFICES ASSUME SInv, NEW r \in Runners, pc[r] = "backoff"
               PROVE  DelayIndex(r) = ended[r] - 1
    BY DEF BackoffFollowsSchedule
  <2>1. attempt[r] \in 0..Delays /\ ended[r] = Upto(attempt[r])
    BY DEF SInv, TypeOK, ScheduleInv
  <2>2. CASE attempt[r] < Delays
    BY <2>1, <2>2, ServiceAssumption DEF Upto, DelayIndex
  <2>3. CASE attempt[r] = Delays
    BY <2>1, <2>3, ServiceAssumption DEF Upto, DelayIndex
  <2> QED
    BY <2>1, <2>2, <2>3, ServiceAssumption
<1> QED BY ServiceInvariance, <1>1, PTL

==============================================================================
