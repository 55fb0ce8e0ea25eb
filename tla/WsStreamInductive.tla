-------------------------- MODULE WsStreamInductive --------------------------
(***************************************************************************)
(* The inductive invariants of WsStream: who may still write behind a torn *)
(* frame, and where Read stands in the one frame the server has sent.      *)
(***************************************************************************)
EXTENDS WsStream

-----------------------------------------------------------------------------
(* The writers. *)

OutFrames == [op : {2, 8, 10}, by : {"reader", "writer"}, state : {"partial", "whole", "torn"}]

\* A goroutine whose frame is torn has failed, or the connection is closed.
TornInv ==
  /\ out \in Seq(OutFrames) /\ open \in BOOLEAN
  /\ mu # "free" => out # <<>> /\ out[Len(out)].by = mu
  /\ \A i \in DOMAIN out : out[i].state = "torn" =>
       \/ ~open
       \/ out[i].by = "writer" /\ writer = "failed"
       \/ out[i].by = "reader" /\ reader = "failed"

-----------------------------------------------------------------------------
(* The reader. *)

Headers == [code : Nat, ext : Nat]
Frames == [op : {0, 1, 2} \cup Control, fin : BOOLEAN, bad : BOOLEAN,
           n : 0..(Limit + 1), head : Headers]

\* The three ways the server can code the length of f.
Coded(f) ==
  /\ f.head \in {Header(f.n), [code |-> Code16, ext |-> f.n], [code |-> Code64, ext |-> f.n]}
  /\ f.head.code = Code16 => f.n < Long

StreamTypeOK ==
  /\ stream \in Seq(Frames \cup Nat) /\ delivered \in Seq(Nat)
  /\ bytes \in Nat /\ total \in Nat
  /\ inMessage \in BOOLEAN /\ conforming \in BOOLEAN

\* Read has taken the header of the last frame, and what is left of it are data.
Taken == stream = <<>> \/ remaining > 0

\* The payload that is left continues the stream, and Read knows of the message
\* what the server does.
TakenInv ==
  Taken =>
    /\ Len(stream) = remaining
    /\ \A i \in 1..remaining : stream[i] = Len(delivered) + i
    /\ conforming /\ fragmented = inMessage /\ messageBytes = total
    /\ bytes = Len(delivered) + remaining

\* The frame f at the head of the stream is whole, and refused exactly if it is
\* the one that the server was not allowed to send.
PendingInv ==
  ~Taken =>
    LET f == stream[1] IN
    /\ f \in Frames /\ Coded(f) /\ Len(stream) = f.n + 1
    /\ conforming <=> ~Refused(f)
    /\ f.op \in Control =>
         inMessage = fragmented /\ total = messageBytes /\ bytes = Len(delivered)
    /\ f.op \notin Control =>
         /\ inMessage = ~f.fin /\ total = (IF f.op = 2 THEN 0 ELSE messageBytes) + f.n
         /\ bytes = Len(delivered) + f.n
         /\ \A i \in 1..f.n : stream[i + 1] = Len(delivered) + i

ReadInv ==
  /\ StreamTypeOK /\ TakenInv /\ PendingInv
  /\ \A i \in DOMAIN delivered : delivered[i] = i
  /\ reader = "protocol" => ~conforming

WsInv == TypeOK /\ SenderStops /\ TornInv /\ ReadInv
=============================================================================
