--------------------------- MODULE MCIdentityList ---------------------------
(* Instances of IdentityList for TLC. *)
EXTENDS IdentityList
=============================================================================
