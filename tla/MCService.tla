----------------------------- MODULE MCService -----------------------------
(* Instances of Service for TLC. *)
EXTENDS ServiceInductive, TLC

Symmetric == Permutations(Conns) \cup Permutations(Closers)
=============================================================================
