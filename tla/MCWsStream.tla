----------------------------- MODULE MCWsStream -----------------------------
(* Instances of WsStream for TLC. *)
EXTENDS WsStreamInductive
=============================================================================
