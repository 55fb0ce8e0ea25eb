------------------------------ MODULE Service ------------------------------
(***************************************************************************)
(* The life of a provider's connections (service.go): ConnectContext under *)
(* connectMu, the gate that holds requests back until the service is       *)
(* published, the heartbeat of each connection, Close, and the loop of     *)
(* RunPersistent.  A connection is one Client; here it is open until its   *)
(* done channel is closed.  The server is abstract: it accepts a           *)
(* connection it was asked to, and sends requests to those it accepted.    *)
(***************************************************************************)
EXTENDS Naturals, FiniteSets

CONSTANTS Connectors,   \* goroutines that call Connect
          Runners,      \* goroutines that call RunPersistent
          Closers,      \* goroutines that call Close
          Conns,        \* the connections that can ever be dialed (a bound)
          NoConn,       \* nil
          Nobody,       \* connectMu is free
          Delays        \* length of ReconnectSchedule

Dialers == Connectors \cup Runners

ASSUME ServiceAssumption ==
  /\ Connectors \cap Runners = {}
  /\ Conns \cap {NoConn, "idle", "done"} = {} /\ Nobody \notin Dialers
  /\ Delays \in Nat \ {0}

VARIABLES
  pc,         \* [Dialers -> where the goroutine is]
  mine,       \* [Dialers -> the connection its ConnectContext dialed last]
  connectMu,  \* holder of Service.connectMu
  client,     \* Service.client
  conn,       \* [Conns -> "unused", "open", "closed"]
  hooked,     \* connections whose handler is installed
  accepted,   \* connections the server has accepted
  authed,     \* connections with Client.authenticated set
  ready,      \* connections whose gate is open
  beat,       \* [Conns -> heartbeat goroutine]
  request,    \* [Conns -> a request the server sent on it]
  ctxDone,    \* runners whose context is canceled
  watch,      \* [Runners -> the connection RunPersistent waits on]
  attempt,    \* [Runners -> attempt, up to Delays]
  ended,      \* [Runners -> attempts ended since a connection was up, up to Delays]
  closing     \* [Closers -> "idle", the connection to close, or "done"]

connVars == <<conn, hooked, accepted, authed, ready, beat, request>>
runVars == <<ctxDone, watch, attempt, ended>>
vars == <<pc, mine, connectMu, client, conn, hooked, accepted, authed, ready, beat,
          request, ctxDone, watch, attempt, ended, closing>>

Init ==
  /\ pc = [p \in Dialers |-> "idle"]
  /\ mine = [p \in Dialers |-> NoConn]
  /\ connectMu = Nobody /\ client = NoConn
  /\ conn = [c \in Conns |-> "unused"]
  /\ hooked = {} /\ accepted = {} /\ authed = {} /\ ready = {}
  /\ beat = [c \in Conns |-> "none"]
  /\ request = [c \in Conns |-> "none"]
  /\ ctxDone = {}
  /\ watch = [r \in Runners |-> NoConn]
  /\ attempt = [r \in Runners |-> 0]
  /\ ended = [r \in Runners |-> 0]
  /\ closing = [x \in Closers |-> "idle"]

Goto(p, label) == pc' = [pc EXCEPT ![p] = label]
Open(c) == c \in Conns /\ conn[c] = "open"
Upto(n) == IF n < Delays THEN n + 1 ELSE n

\* Client.shutdown, whoever calls it; a second call does nothing.
Shut(c) ==
  /\ conn' = [conn EXCEPT ![c] = "closed"]
  /\ authed' = authed \ {c}

-----------------------------------------------------------------------------
(* ConnectContext *)

\* Its caller: Connect returns, RunPersistent goes on.
AfterConnect(p, up) ==
  /\ connectMu' = Nobody
  /\ Goto(p, IF p \in Connectors THEN "done" ELSE IF up THEN "up" ELSE "down")

Connect(p) ==
  /\ p \in Connectors /\ pc[p] = "idle"
  /\ Goto(p, "locking")
  /\ UNCHANGED <<mine, connectMu, client, connVars, runVars, closing>>

Lock(p) ==
  /\ pc[p] = "locking" /\ connectMu = Nobody
  /\ connectMu' = p
  /\ Goto(p, "checking")
  /\ UNCHANGED <<mine, client, connVars, runVars, closing>>

\* Mutant of Check: the state of the current connection is not looked at.
CheckAlways(p) ==
  /\ pc[p] = "checking"
  /\ Goto(p, "dialing")
  /\ UNCHANGED <<mine, connectMu, client, connVars, runVars, closing>>

Check(p) ==
  /\ pc[p] = "checking" /\ ~Open(client)
  /\ Goto(p, "dialing")
  /\ UNCHANGED <<mine, connectMu, client, connVars, runVars, closing>>

\* "service is already connected"
RefuseConnected(p) ==
  /\ pc[p] = "checking" /\ Open(client)
  /\ AfterConnect(p, FALSE)
  /\ UNCHANGED <<mine, client, connVars, runVars, closing>>

Dial(p, c) ==
  /\ pc[p] = "dialing" /\ conn[c] = "unused"
  /\ conn' = [conn EXCEPT ![c] = "open"]
  /\ mine' = [mine EXCEPT ![p] = c]
  /\ Goto(p, "hooking")
  /\ UNCHANGED <<connectMu, client, hooked, accepted, authed, ready, beat, request,
                 runVars, closing>>

\* The dial fails, at the latest when its context ends.
FailDial(p) ==
  /\ pc[p] = "dialing"
  /\ AfterConnect(p, FALSE)
  /\ UNCHANGED <<mine, client, connVars, runVars, closing>>

InstallHandler(p) ==
  /\ pc[p] = "hooking"
  /\ hooked' = hooked \cup {mine[p]}
  /\ Goto(p, "authing")
  /\ UNCHANGED <<mine, connectMu, client, conn, accepted, authed, ready, beat, request,
                 runVars, closing>>

\* Mutant of Refuse: an error return that forgets Close.
RefuseOpen(p) ==
  /\ pc[p] = "authing"
  /\ AfterConnect(p, FALSE)
  /\ UNCHANGED <<mine, client, connVars, runVars, closing>>

\* No key file, an error of Request (its context ends, the connection goes
\* down), an undecodable or negative reply: the connection is closed.
Refuse(p) ==
  /\ pc[p] = "authing"
  /\ Shut(mine[p])
  /\ AfterConnect(p, FALSE)
  /\ UNCHANGED <<mine, client, hooked, accepted, ready, beat, request, runVars, closing>>

\* Request returned the acceptance, perhaps of a connection that is gone.
Authenticate(p) ==
  /\ pc[p] = "authing" /\ mine[p] \in accepted
  /\ authed' = authed \cup {mine[p]}
  /\ Goto(p, "publishing")
  /\ UNCHANGED <<mine, connectMu, client, conn, hooked, accepted, ready, beat, request,
                 runVars, closing>>

\* Mutant of Publish: the gate is opened before s.client is set.
PublishLate(p) ==
  /\ pc[p] = "publishing"
  /\ ready' = ready \cup {mine[p]}
  /\ Goto(p, "opening")
  /\ UNCHANGED <<mine, connectMu, client, conn, hooked, accepted, authed, beat, request,
                 runVars, closing>>

Publish(p) ==
  /\ pc[p] = "publishing"
  /\ client' = mine[p]
  /\ Goto(p, "opening")
  /\ UNCHANGED <<mine, connectMu, connVars, runVars, closing>>

OpenGate(p) ==
  /\ pc[p] = "opening"
  /\ ready' = ready \cup {mine[p]}
  /\ Goto(p, "starting")
  /\ UNCHANGED <<mine, connectMu, client, conn, hooked, accepted, authed, beat, request,
                 runVars, closing>>

\* The heartbeat goroutine is started and ConnectContext returns nil.
StartHeartbeat(p) ==
  /\ pc[p] = "starting"
  /\ beat' = [beat EXCEPT ![mine[p]] = "waiting"]
  /\ AfterConnect(p, TRUE)
  /\ UNCHANGED <<mine, client, conn, hooked, accepted, authed, ready, request,
                 runVars, closing>>

-----------------------------------------------------------------------------
(* What else happens to a connection. *)

\* The peer or the network ends it, or a write on it broke.
Disconnect(c) ==
  /\ conn[c] = "open"
  /\ Shut(c)
  /\ UNCHANGED <<pc, mine, connectMu, client, hooked, accepted, ready, beat, request,
                 runVars, closing>>

\* The server accepts the authentication that was asked on c.
Accept(c) ==
  /\ conn[c] = "open" /\ c \notin accepted
  /\ \E p \in Dialers : pc[p] = "authing" /\ mine[p] = c
  /\ accepted' = accepted \cup {c}
  /\ UNCHANGED <<pc, mine, connectMu, client, conn, hooked, authed, ready, beat, request,
                 runVars, closing>>

\* readLoop dispatches a request to a worker, which calls the handler if any.
Arrive(c) ==
  /\ conn[c] = "open" /\ c \in accepted /\ request[c] = "none"
  /\ request' = [request EXCEPT ![c] = IF c \in hooked THEN "gated" ELSE "unhandled"]
  /\ UNCHANGED <<pc, mine, connectMu, client, conn, hooked, accepted, authed, ready, beat,
                 runVars, closing>>

\* Mutant of PassGate: the gate does not watch the connection.
PassReady(c) ==
  /\ request[c] = "gated" /\ c \in ready
  /\ request' = [request EXCEPT ![c] = "running"]
  /\ UNCHANGED <<pc, mine, connectMu, client, conn, hooked, accepted, authed, ready, beat,
                 runVars, closing>>

\* The select of the handler: ready, or the connection is done.
PassGate(c) ==
  /\ request[c] = "gated"
  /\ \/ c \in ready /\ request' = [request EXCEPT ![c] = "running"]
     \/ conn[c] = "closed" /\ request' = [request EXCEPT ![c] = "refused"]
  /\ UNCHANGED <<pc, mine, connectMu, client, conn, hooked, accepted, authed, ready, beat,
                 runVars, closing>>

Handled(c) ==
  /\ request[c] = "running"
  /\ request' = [request EXCEPT ![c] = "returned"]
  /\ UNCHANGED <<pc, mine, connectMu, client, conn, hooked, accepted, authed, ready, beat,
                 runVars, closing>>

Tick(c) ==
  /\ beat[c] = "waiting"
  /\ beat' = [beat EXCEPT ![c] = "sending"]
  /\ UNCHANGED <<pc, mine, connectMu, client, conn, hooked, accepted, authed, ready, request,
                 runVars, closing>>

\* send returned nil.
Beat(c) ==
  /\ beat[c] = "sending" /\ conn[c] = "open"
  /\ beat' = [beat EXCEPT ![c] = "waiting"]
  /\ UNCHANGED <<pc, mine, connectMu, client, conn, hooked, accepted, authed, ready, request,
                 runVars, closing>>

\* send failed and the goroutine returns.  When the timeout ends its wait for
\* the write slot, send does not close the connection.
MissBeat(c) ==
  /\ beat[c] = "sending"
  /\ beat' = [beat EXCEPT ![c] = "stopped"]
  /\ UNCHANGED <<pc, mine, connectMu, client, conn, hooked, accepted, authed, ready, request,
                 runVars, closing>>

StopHeartbeat(c) ==
  /\ beat[c] = "waiting" /\ conn[c] = "closed"
  /\ beat' = [beat EXCEPT ![c] = "stopped"]
  /\ UNCHANGED <<pc, mine, connectMu, client, conn, hooked, accepted, authed, ready, request,
                 runVars, closing>>

-----------------------------------------------------------------------------
(* Close reads s.client, and closes what it read. *)

\* Mutant of BeginClose: the absence of a connection is not looked at.
BeginCloseNil(x) ==
  /\ closing[x] = "idle"
  /\ closing' = [closing EXCEPT ![x] = client]
  /\ UNCHANGED <<pc, mine, connectMu, client, connVars, runVars>>

BeginClose(x) ==
  /\ closing[x] = "idle"
  /\ closing' = [closing EXCEPT ![x] = IF client = NoConn THEN "done" ELSE client]
  /\ UNCHANGED <<pc, mine, connectMu, client, connVars, runVars>>

EndClose(x) ==
  /\ closing[x] \in Conns
  /\ Shut(closing[x])
  /\ closing' = [closing EXCEPT ![x] = "done"]
  /\ UNCHANGED <<pc, mine, connectMu, client, hooked, accepted, ready, beat, request, runVars>>

-----------------------------------------------------------------------------
(* RunPersistent *)

RunPersistent(r) ==
  /\ r \in Runners /\ pc[r] = "idle"
  /\ Goto(r, "top")
  /\ UNCHANGED <<mine, connectMu, client, connVars, runVars, closing>>

Top(r) ==
  /\ pc[r] = "top"
  /\ Goto(r, IF r \in ctxDone THEN "done" ELSE "locking")
  /\ UNCHANGED <<mine, connectMu, client, connVars, runVars, closing>>

\* Mutant of Watch: the attempt is not reset.
WatchOn(r) ==
  /\ pc[r] = "up"
  /\ watch' = [watch EXCEPT ![r] = client]
  /\ ended' = [ended EXCEPT ![r] = 0]
  /\ Goto(r, "watching")
  /\ UNCHANGED <<mine, connectMu, client, connVars, ctxDone, attempt, closing>>

\* It watches the connection of the service, which may be a later one.
Watch(r) ==
  /\ pc[r] = "up"
  /\ attempt' = [attempt EXCEPT ![r] = 0]
  /\ watch' = [watch EXCEPT ![r] = client]
  /\ ended' = [ended EXCEPT ![r] = 0]
  /\ Goto(r, "watching")
  /\ UNCHANGED <<mine, connectMu, client, connVars, ctxDone, closing>>

\* Mutants of Abort: the connection is left open; the select waits for it alone.
AbortOpen(r) ==
  /\ pc[r] = "watching" /\ r \in ctxDone
  /\ Goto(r, "done")
  /\ UNCHANGED <<mine, connectMu, client, connVars, runVars, closing>>

AbortDown(r) == AbortOpen(r) /\ conn[watch[r]] = "closed"

Abort(r) ==
  /\ pc[r] = "watching" /\ r \in ctxDone
  /\ Shut(watch[r])
  /\ Goto(r, "done")
  /\ UNCHANGED <<mine, connectMu, client, hooked, accepted, ready, beat, request, runVars, closing>>

\* Mutant of Notice: RunPersistent returns the cause of the disconnection.
NoticeReturn(r) ==
  /\ pc[r] = "watching" /\ conn[watch[r]] = "closed"
  /\ Goto(r, "done")
  /\ UNCHANGED <<mine, connectMu, client, connVars, runVars, closing>>

Notice(r) ==
  /\ pc[r] = "watching" /\ conn[watch[r]] = "closed"
  /\ Goto(r, "down")
  /\ UNCHANGED <<mine, connectMu, client, connVars, runVars, closing>>

\* The attempt, or the connection, has ended.
BackOff(r) ==
  /\ pc[r] = "down"
  /\ Goto(r, IF r \in ctxDone THEN "done" ELSE "backoff")
  /\ ended' = [ended EXCEPT ![r] = Upto(@)]
  /\ UNCHANGED <<mine, connectMu, client, connVars, ctxDone, watch, attempt, closing>>

\* The element of the schedule RunPersistent sleeps for.
DelayIndex(r) == IF attempt[r] >= Delays THEN Delays - 1 ELSE attempt[r]

WakeUp(r) ==
  /\ pc[r] = "backoff"
  /\ \/ Goto(r, "top") /\ attempt' = [attempt EXCEPT ![r] = Upto(@)]
     \/ r \in ctxDone /\ Goto(r, "done") /\ UNCHANGED attempt
  /\ UNCHANGED <<mine, connectMu, client, connVars, ctxDone, watch, ended, closing>>

Cancel(r) ==
  /\ r \in Runners \ ctxDone /\ pc[r] # "done"
  /\ ctxDone' = ctxDone \cup {r}
  /\ UNCHANGED <<pc, mine, connectMu, client, connVars, watch, attempt, ended, closing>>

-----------------------------------------------------------------------------

ConnectStep(p) ==
  \/ Lock(p) \/ Check(p) \/ RefuseConnected(p) \/ (\E c \in Conns : Dial(p, c)) \/ FailDial(p)
  \/ InstallHandler(p) \/ Refuse(p) \/ Authenticate(p)
  \/ Publish(p) \/ OpenGate(p) \/ StartHeartbeat(p)

RunStep(r) ==
  \/ Top(r) \/ Watch(r) \/ Abort(r) \/ Notice(r) \/ BackOff(r) \/ WakeUp(r)

ConnStep(c) ==
  \/ Disconnect(c) \/ Accept(c) \/ Arrive(c) \/ PassGate(c) \/ Handled(c)
  \/ Tick(c) \/ Beat(c) \/ MissBeat(c) \/ StopHeartbeat(c)

Next ==
  \/ \E p \in Dialers : Connect(p) \/ ConnectStep(p)
  \/ \E r \in Runners : RunPersistent(r) \/ RunStep(r) \/ Cancel(r)
  \/ \E c \in Conns : ConnStep(c)
  \/ \E x \in Closers : BeginClose(x) \/ EndClose(x)

Spec == Init /\ [][Next]_vars

\* Goroutines and timers run.  ConnectContext is bounded by its context (30 s
\* in Connect and RunPersistent), so a dial or an authentication under way
\* ends, one way or the other.  Nothing forces the connection to end.
Fairness ==
  /\ \A p \in Dialers : WF_vars(ConnectStep(p))
  /\ \A r \in Runners : WF_vars(RunStep(r))
  /\ \A c \in Conns : WF_vars(PassGate(c))

FairSpec == Spec /\ Fairness

-----------------------------------------------------------------------------
(* Properties. *)

\* ConnectContext holds connectMu from its check to its return.
Critical == {"checking", "dialing", "hooking", "authing", "publishing", "opening", "starting"}
Fresh == {"hooking", "authing", "publishing"}   \* dialed, not in s.client yet

\* Every variable has its type.
TypeOK ==
  /\ pc \in [Dialers -> Critical \cup {"idle", "locking", "top", "up", "watching", "down",
                                       "backoff", "done"}]
  /\ mine \in [Dialers -> Conns \cup {NoConn}]
  /\ connectMu \in Dialers \cup {Nobody}
  /\ client \in Conns \cup {NoConn}
  /\ conn \in [Conns -> {"unused", "open", "closed"}]
  /\ hooked \subseteq Conns /\ accepted \subseteq Conns
  /\ authed \subseteq Conns /\ ready \subseteq Conns
  /\ beat \in [Conns -> {"none", "waiting", "sending", "stopped"}]
  /\ request \in [Conns -> {"none", "unhandled", "gated", "running", "refused", "returned"}]
  /\ ctxDone \subseteq Runners
  /\ watch \in [Runners -> Conns \cup {NoConn}]
  /\ attempt \in [Runners -> 0..Delays] /\ ended \in [Runners -> 0..Delays]
  /\ closing \in [Closers -> Conns \cup {"idle", "done"}]

\* However many goroutines connect, reconnect and close, the service never has
\* two connections open at once (service.go:130-189).
OneConnection == \A c, d \in Conns : Open(c) /\ Open(d) => c = d

\* No failed or abandoned attempt leaks a connection: what is open is in
\* s.client, where Close finds it, or is being set up under connectMu.
NoLeak ==
  \A c \in Conns : Open(c) =>
    client = c \/ \E p \in Dialers : connectMu = p /\ mine[p] = c /\ pc[p] \in Fresh

\* No request is answered "no request handler", and a handler runs only when
\* the service it may call is, authenticated, the connection the request came
\* by, or when that connection is already gone (service.go:140-190).
GateOrder ==
  \A c \in Conns :
    /\ request[c] # "unhandled"
    /\ request[c] = "running" => conn[c] = "closed" \/ (client = c /\ c \in authed)

\* RunPersistent returns with the connections it made and watched closed.
RunnerLeavesNothing ==
  \A r \in Runners : pc[r] = "done" => ~Open(mine[r]) /\ ~Open(watch[r])

\* The n-th end of an attempt since a connection was up is followed by the
\* n-th delay of the schedule, then by the last one for ever (service.go:235-261).
BackoffFollowsSchedule ==
  \A r \in Runners : pc[r] = "backoff" => DelayIndex(r) = ended[r] - 1

\* README.md:76-80: RunPersistent sends heartbeats, as long as it is connected.
HeartbeatsGoOn ==
  \A r \in Runners : pc[r] = "watching" /\ Open(watch[r]) => beat[watch[r]] # "stopped"

\* A request held at the gate is let through or refused.
GateOpens == \A c \in Conns : request[c] = "gated" ~> request[c] # "gated"

\* Canceled, RunPersistent returns, wherever it is.
RunnerStops == \A r \in Runners : (r \in ctxDone /\ pc[r] # "idle") ~> pc[r] = "done"

\* A runner whose connection ended attempts another one, unless it is canceled.
RunnerReconnects ==
  \A r \in Runners :
    (pc[r] = "watching" /\ ~Open(watch[r])) ~> (pc[r] = "locking" \/ r \in ctxDone)
=============================================================================
