------------------------------ MODULE MCClient ------------------------------
(* Instances of Client for TLC. *)
EXTENDS ClientInductive, TLC

\* Every control waits for the same message type, the case in which the type
\* does not tell their answers apart.
OneType == [k \in Controls |-> "Auth"]

Symmetric == Permutations(Calls) \cup Permutations(Controls)
=============================================================================
