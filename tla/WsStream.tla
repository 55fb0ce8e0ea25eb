------------------------------ MODULE WsStream ------------------------------
(***************************************************************************)
(* The WebSocket adapter (transport.go websocketStream): the byte stream   *)
(* Read makes of the server's frames, and the frames that Write and the    *)
(* answers to control frames put on one connection.  The reader is         *)
(* readLoop, the writer whoever holds Client.writeLock.  Lengths keep      *)
(* their three codings with smaller boundaries; a data byte is its place   *)
(* in the stream, a control byte is 0.                                     *)
(***************************************************************************)
EXTENDS Integers, Sequences

CONSTANTS Short,      \* the largest length in the header itself, 125
          Long,       \* the least length of the longest coding, 65536
          Limit,      \* maxFrameBytes
          MaxFrames,  \* bound on the frames of the server
          MaxWrites   \* bound on the frames of the writer

Code16 == Short + 1
Code64 == Short + 2

ASSUME WsAssumption ==
  /\ Short \in Nat \ {0} /\ Long \in Nat /\ Limit \in Nat
  /\ Short < Long /\ Long <= Limit /\ MaxFrames \in Nat /\ MaxWrites \in Nat

VARIABLES
  stream,      \* what the server sent and Read has not taken
  frames, bytes,              \* counts of frames and of data bytes sent
  inMessage, total,           \* the message the server is in the middle of
  conforming,                 \* every frame so far was allowed
  remaining, fragmented, messageBytes,   \* the fields of websocketStream
  delivered,   \* the bytes Read returned
  reader,      \* "reading", the control frame it answers, or how it stopped
  writer,      \* "idle", "writing" or "failed"
  mu,          \* the holder of writeMu
  out,         \* frames put on the connection, whole or torn
  writes,      \* frames the writer has begun
  open

serverVars == <<frames, bytes, inMessage, total, conforming>>
readVars == <<remaining, fragmented, messageBytes, delivered>>
writeVars == <<writer, mu, out, writes>>
vars == <<stream, serverVars, readVars, reader, writeVars, open>>

Init ==
  /\ stream = <<>> /\ frames = 0 /\ bytes = 0
  /\ inMessage = FALSE /\ total = 0 /\ conforming = TRUE
  /\ remaining = 0 /\ fragmented = FALSE /\ messageBytes = 0
  /\ delivered = <<>> /\ reader = "reading" /\ writer = "idle"
  /\ mu = "free" /\ out = <<>> /\ writes = 0 /\ open = TRUE

-----------------------------------------------------------------------------
(* Length coding. *)

Header(n) ==
  IF n <= Short THEN [code |-> n, ext |-> 0]
                ELSE [code |-> IF n < Long THEN Code16 ELSE Code64, ext |-> n]

Invalid == -1

SizeOf(h) ==
  IF h.code \notin {Code16, Code64} THEN h.code
  ELSE IF h.ext < (IF h.code = Code16 THEN Code16 ELSE Long) THEN Invalid ELSE h.ext

-----------------------------------------------------------------------------
(* The server.  Nothing is sent ahead of the reader, who is its only        *)
(* consumer.  `bad' stands for reserved bits, a mask, or a close body with  *)
(* half a code, an invalid code or text that is not UTF-8.                  *)

Control == {8, 9, 10, 11}

Allowed(f) ==
  /\ ~f.bad /\ f.n <= Limit /\ f.head = Header(f.n)
  /\ \/ f.op \in {8, 9, 10} /\ f.fin /\ f.n <= Short
     \/ f.op = 2 /\ ~inMessage
     \/ f.op = 0 /\ inMessage /\ total + f.n <= Limit

Payload(f) ==
  [i \in 1..f.n |-> IF f.op \in Control THEN 0 ELSE bytes + i]

Send(f) ==
  /\ open /\ stream = <<>> /\ frames < MaxFrames /\ conforming
  /\ frames' = frames + 1
  /\ conforming' = Allowed(f)
  /\ stream' = <<f>> \o Payload(f)
  /\ IF f.op \in Control
     THEN UNCHANGED <<bytes, inMessage, total>>
     ELSE /\ bytes' = bytes + f.n
          /\ inMessage' = ~f.fin
          /\ total' = (IF f.op = 2 THEN 0 ELSE total) + f.n
  /\ UNCHANGED <<readVars, reader, writeVars, open>>

ServerSend ==
  \E op \in {0, 1, 2} \cup Control, fin, bad \in BOOLEAN, n \in 0..(Limit + 1) :
  \E head \in {Header(n), [code |-> Code16, ext |-> n], [code |-> Code64, ext |-> n]} :
    /\ head.code = Code16 => n < Long
    /\ Send([op |-> op, fin |-> fin, bad |-> bad, n |-> n, head |-> head])

-----------------------------------------------------------------------------
(* Read. *)

\* Mutant of Take: what does not fit the buffer is discarded with its frame.
TakeSome(room) ==
  /\ reader = "reading" /\ remaining > 0 /\ stream # <<>>
  /\ delivered' = delivered \o SubSeq(stream, 1, IF room < remaining THEN room ELSE remaining)
  /\ stream' = SubSeq(stream, remaining + 1, Len(stream))
  /\ remaining' = 0
  /\ UNCHANGED <<serverVars, fragmented, messageBytes, reader, writeVars, open>>

Take(room) ==
  /\ reader = "reading" /\ remaining > 0 /\ stream # <<>>
  /\ LET n == IF room < remaining THEN room ELSE remaining
     IN /\ delivered' = delivered \o SubSeq(stream, 1, n)
        /\ stream' = SubSeq(stream, n + 1, Len(stream))
        /\ remaining' = remaining - n
  /\ UNCHANGED <<serverVars, fragmented, messageBytes, reader, writeVars, open>>

\* The checks of Read on the header of a frame, in their order.
Refused(f) ==
  \/ f.bad
  \/ SizeOf(f.head) = Invalid \/ SizeOf(f.head) > Limit
  \/ f.op \in Control /\ (~f.fin \/ SizeOf(f.head) > Short \/ f.op = 11)
  \/ f.op = 2 /\ fragmented
  \/ f.op = 0 /\ (~fragmented \/ messageBytes + SizeOf(f.head) > Limit)
  \/ f.op = 1

AtHead == reader = "reading" /\ remaining = 0 /\ stream # <<>>

\* protocolError: the connection is closed and the read loop ends.
Reject ==
  /\ AtHead /\ Refused(Head(stream))
  /\ reader' = "protocol" /\ open' = FALSE
  /\ UNCHANGED <<stream, serverVars, readVars, writeVars>>

\* The payload of a control frame is read with it.
TakeControl ==
  /\ AtHead /\ Head(stream).op \in Control /\ ~Refused(Head(stream))
  /\ stream' = SubSeq(stream, SizeOf(Head(stream).head) + 2, Len(stream))
  /\ reader' = IF Head(stream).op = 8 THEN "echo"
               ELSE IF Head(stream).op = 9 THEN "pong" ELSE "reading"
  /\ UNCHANGED <<serverVars, readVars, writeVars, open>>

\* Mutant of TakeData: messageBytes is not reset.
TakeDataSum ==
  /\ AtHead /\ Head(stream).op \in {0, 2} /\ ~Refused(Head(stream))
  /\ stream' = Tail(stream)
  /\ messageBytes' = messageBytes + SizeOf(Head(stream).head)
  /\ fragmented' = ~Head(stream).fin
  /\ remaining' = SizeOf(Head(stream).head)
  /\ UNCHANGED <<serverVars, delivered, reader, writeVars, open>>

TakeData ==
  /\ AtHead /\ Head(stream).op \in {0, 2} /\ ~Refused(Head(stream))
  /\ stream' = Tail(stream)
  /\ messageBytes' =
       (IF Head(stream).op = 2 THEN 0 ELSE messageBytes) + SizeOf(Head(stream).head)
  /\ fragmented' = ~Head(stream).fin
  /\ remaining' = SizeOf(Head(stream).head)
  /\ UNCHANGED <<serverVars, delivered, reader, writeVars, open>>

\* The connection ends: EOF, or closed by the client.
ReadFails ==
  /\ reader = "reading" /\ ~open
  /\ reader' = "io"
  /\ UNCHANGED <<stream, serverVars, readVars, writeVars, open>>

-----------------------------------------------------------------------------
(* frame: under writeMu the header, then the payload in pieces.  A write    *)
(* that times out, or that finds the connection closed, ends part way.      *)

Lock(who, op) ==
  /\ mu = "free" /\ mu' = who
  /\ out' = Append(out, [op |-> op, by |-> who, state |-> "partial"])

EndFrame(state) ==
  /\ mu' = "free"
  /\ out' = [out EXCEPT ![Len(out)] = [op |-> @.op, by |-> @.by, state |-> state]]

BeginWrite ==
  /\ writer = "idle" /\ writes < MaxWrites /\ writes' = writes + 1
  /\ writer' = "writing"
  /\ UNCHANGED <<stream, serverVars, readVars, reader, mu, out, open>>

\* Nothing is put on a closed connection.
LockWrite == writer = "writing" /\ open /\ Lock("writer", 2)
  /\ UNCHANGED <<stream, serverVars, readVars, reader, writer, writes, open>>

EndWrite ==
  /\ mu = "writer" /\ open
  /\ EndFrame("whole")
  /\ writer' = "idle"
  /\ UNCHANGED <<stream, serverVars, readVars, reader, writes, open>>

\* Mutant of FailWrite: the error is not reported to send.
FailWriteOn ==
  /\ mu = "writer" /\ EndFrame("torn")
  /\ writer' = "idle"
  /\ UNCHANGED <<stream, serverVars, readVars, reader, writes, open>>

FailWrite ==
  /\ writer = "writing"
  /\ \/ mu = "writer" /\ EndFrame("torn")
     \/ mu = "free" /\ ~open /\ UNCHANGED <<mu, out>>
  /\ writer' = "failed"
  /\ UNCHANGED <<stream, serverVars, readVars, reader, writes, open>>

\* send shuts the client down before it gives Client.writeLock back.
Shutdown ==
  /\ writer = "failed" /\ writer' = "idle"
  /\ open' = FALSE
  /\ UNCHANGED <<stream, serverVars, readVars, reader, mu, out, writes>>

Answering == reader \in {"pong", "echo"}

\* Mutant of LockAnswer: a control frame does not wait for writeMu.
AnswerAtOnce ==
  /\ Answering /\ open /\ mu' = "reader"
  /\ out' = Append(out, [op |-> 10, by |-> "reader", state |-> "partial"])
  /\ UNCHANGED <<stream, serverVars, readVars, reader, writer, writes, open>>

LockAnswer ==
  /\ Answering /\ open /\ Lock("reader", IF reader = "pong" THEN 10 ELSE 8)
  /\ UNCHANGED <<stream, serverVars, readVars, reader, writer, writes, open>>

\* After the echo of a close frame the connection is closed, and Read is at EOF.
EndAnswer ==
  /\ mu = "reader" /\ open
  /\ EndFrame("whole")
  /\ IF reader = "pong" THEN reader' = "reading" /\ UNCHANGED open
                        ELSE reader' = "eof" /\ open' = FALSE
  /\ UNCHANGED <<stream, serverVars, readVars, writer, writes>>

\* A Pong that fails ends the read loop; its shutdown follows.
FailAnswer ==
  /\ Answering
  /\ \/ mu = "reader" /\ EndFrame("torn")
     \/ mu = "free" /\ ~open /\ UNCHANGED <<mu, out>>
  /\ IF reader = "pong" THEN reader' = "failed" /\ UNCHANGED open
                        ELSE reader' = "eof" /\ open' = FALSE
  /\ UNCHANGED <<stream, serverVars, readVars, writer, writes>>

ReaderShutdown ==
  /\ reader = "failed" /\ reader' = "io"
  /\ open' = FALSE
  /\ UNCHANGED <<stream, serverVars, readVars, writeVars>>

Close ==
  /\ open /\ open' = FALSE
  /\ UNCHANGED <<stream, serverVars, readVars, reader, writeVars>>

-----------------------------------------------------------------------------

Rooms == 1..2   \* lengths of the buffers RDGProto reads into, as bounded here

Next ==
  \/ ServerSend \/ Close
  \/ \E room \in Rooms : Take(room)
  \/ Reject \/ TakeControl \/ TakeData \/ ReadFails
  \/ BeginWrite \/ LockWrite \/ EndWrite \/ FailWrite \/ Shutdown
  \/ LockAnswer \/ EndAnswer \/ FailAnswer \/ ReaderShutdown

Spec == Init /\ [][Next]_vars

-----------------------------------------------------------------------------
(* Properties. *)

\* Every variable has its type; writeMu is held by a goroutine inside frame,
\* and its frame is the last on the connection and the only unfinished one.
TypeOK ==
  /\ remaining \in 0..Limit /\ messageBytes \in 0..Limit /\ fragmented \in BOOLEAN
  /\ reader \in {"reading", "pong", "echo", "protocol", "eof", "io", "failed"}
  /\ writer \in {"idle", "writing", "failed"} /\ mu \in {"free", "reader", "writer"}
  /\ mu = "writer" => writer = "writing"
  /\ mu = "reader" => Answering
  /\ \A i \in DOMAIN out :
       out[i].state = "partial" <=> (i = Len(out) /\ mu # "free" /\ out[i].by = mu)

\* Read returns the payloads of the data frames, whole and in order, and
\* nothing else, however fragments, control frames and buffers fall
\* (transport.go:158-250).
InOrder ==
  /\ \A i \in DOMAIN delivered : delivered[i] = i
  /\ conforming /\ stream = <<>> => Len(delivered) = bytes

\* Read accepts what RFC 6455 and maxFrameBytes allow a server to send, and
\* nothing else: a frame is refused exactly when it is the first not allowed.
RejectsExactly ==
  /\ reader = "protocol" => ~conforming
  /\ ~conforming /\ stream = <<>> => reader = "protocol"

\* A goroutine puts no frame behind one of its own that is torn.
SenderStops ==
  \A i, j \in DOMAIN out :
    i < j /\ out[i].state = "torn" => out[i].by # out[j].by

\* writeMu keeps the frames of the two writers apart, and a torn frame is the last
\* of its writer (transport.go:252-300).
WritersInv == TypeOK /\ SenderStops

\* Every frame that something follows is whole: "websocketStream implements
\* RFC 6455 binary framing" (transport.go:146).
FramesWhole == \A i \in 1..(Len(out) - 1) : out[i].state = "whole"
=============================================================================
