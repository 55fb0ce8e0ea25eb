-------------------------- MODULE DispatchInductive --------------------------
(***************************************************************************)
(* The inductive invariant of Dispatch: which messages pass through which  *)
(* stage, who answers them, and how often they were answered so far.       *)
(***************************************************************************)
EXTENDS Dispatch

\* The stages a message of each kind can be in, and who it is answered by:
\* readLoop while it is the reader, the goroutine of a slot otherwise.
StageInv ==
  \A m \in Msgs :
    /\ m \in Malformed => stage[m] \in {"unread", "finished"}
    /\ m \in Unparsed =>
         /\ stage[m] \in {"unread", "replying", "finished"}
         /\ stage[m] = "replying" => reader = m
    /\ stage[m] = "replying" => m \in Requests \cup Unparsed
    /\ stage[m] = "ponging" => m \in Pings
    /\ stage[m] \in {"calling", "awaiting"} => m \in Nesting
    /\ reader = m => stage[m] = "replying"
    /\ writer = m => stage[m] \in Sending

\* No response is written before the one that finishes the message.
AnswerInv ==
  \A m \in Requests \cup Unparsed :
    /\ stage[m] # "finished" => replies[m] = 0
    /\ stage[m] = "finished" =>
         replies[m] = 1 \/ (replies[m] = 0 /\ (~open \/ m \in dropped))

DInv == TypeOK /\ IsFiniteSet(workers) /\ SlotsMatch /\ StageInv /\ AnswerInv
=============================================================================
