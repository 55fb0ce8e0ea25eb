-------------------------- MODULE ServiceInductive --------------------------
(***************************************************************************)
(* The inductive invariant of Service: connectMu is a lock, a connection   *)
(* being set up is nobody else's, what a runner leaves is closed, a        *)
(* connection is hooked, authenticated and published before its gate opens *)
(* and a runner's attempt counts the ends since a connection was up.       *)
(***************************************************************************)
EXTENDS Service

\* connectMu is held exactly inside ConnectContext.
LockInv == \A p \in Dialers : pc[p] \in Critical <=> connectMu = p

\* Which goroutine passes through which label.
LabelInv ==
  /\ \A p \in Dialers : pc[p] \in {"top", "up", "watching", "down", "backoff"} => p \in Runners
  /\ \A p \in Dialers : pc[p] \in Fresh \cup {"opening", "starting", "up"} => mine[p] \in Conns
  /\ \A r \in Runners : pc[r] = "up" => client \in Conns
  /\ \A r \in Runners : pc[r] = "watching" => watch[r] \in Conns

\* Nothing refers to a connection that was not dialed yet.
UsedInv ==
  \A c \in Conns : conn[c] = "unused" =>
    /\ client # c
    /\ \A p \in Dialers : mine[p] # c
    /\ \A r \in Runners : watch[r] # c
    /\ \A x \in Closers : closing[x] # c

\* Between its check and its publication the holder of connectMu is alone.
AloneInv ==
  /\ \A p \in Dialers : pc[p] \in Fresh \cup {"dialing"} => ~Open(client)
  /\ \A p \in Dialers : pc[p] \in {"opening", "starting"} => client = mine[p]

\* Where a runner can still have a connection open.
RunnerInv ==
  \A r \in Runners :
    /\ pc[r] \notin Critical \cup {"up", "watching"} => ~Open(mine[r])
    /\ pc[r] \in {"checking", "dialing"} => ~Open(mine[r])
    /\ pc[r] # "watching" => ~Open(watch[r])
    /\ pc[r] = "up" /\ Open(mine[r]) => client = mine[r]
    /\ pc[r] = "watching" /\ Open(mine[r]) => watch[r] = mine[r]

\* What a goroutine in ConnectContext has done to the connection it dialed, and
\* what is therefore true of a connection whose gate is open.
GateInv ==
  /\ accepted \subseteq hooked
  /\ \A p \in Dialers :
       /\ pc[p] \in {"authing", "publishing", "opening", "starting"} => mine[p] \in hooked
       /\ pc[p] \in {"publishing", "opening", "starting"} =>
            conn[mine[p]] = "closed" \/ mine[p] \in authed
  /\ \A c \in ready : conn[c] = "closed" \/ (client = c /\ c \in authed)

\* A runner counts an end before it sleeps, and its attempt after it has slept.
ScheduleInv ==
  \A r \in Runners :
    /\ pc[r] \notin {"backoff", "done"} => attempt[r] = ended[r]
    /\ pc[r] = "backoff" => ended[r] = Upto(attempt[r])

SInv ==
  /\ TypeOK /\ LockInv /\ LabelInv /\ UsedInv /\ AloneInv /\ RunnerInv /\ NoLeak
  /\ GateInv /\ GateOrder /\ ScheduleInv
=============================================================================
