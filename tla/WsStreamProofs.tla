--------------------------- MODULE WsStreamProofs ---------------------------
(***************************************************************************)
(* TLAPS proofs about WsStream, for any boundaries of the length codings,  *)
(* any limit of a message and any number of frames in both directions.     *)
(***************************************************************************)
EXTENDS WsStreamInductive, SequenceTheorems, TLAPS

\* Read decodes the length of a frame to what it is, or finds it invalid,
\* exactly when it was not coded the shortest way.
LEMMA SizeDecoded ==
  ASSUME NEW f \in Frames, Coded(f)
  PROVE  IF f.head = Header(f.n) THEN SizeOf(f.head) = f.n ELSE SizeOf(f.head) = Invalid
BY WsAssumption DEF Frames, Headers, Coded, Header, SizeOf, Invalid, Code16, Code64

\* The checks of Read on a header are what a server must keep to, while Read
\* knows of the message under way what the server does.
LEMMA RefusedExactly ==
  ASSUME NEW f \in Frames, Coded(f), fragmented = inMessage, messageBytes = total,
         total \in Nat
  PROVE  Allowed(f) <=> ~Refused(f)
<1> USE WsAssumption DEF Frames, Control
<1>1. CASE f.head = Header(f.n)
  <2>1. SizeOf(f.head) = f.n /\ f.n \in Nat /\ f.n # Invalid
    BY <1>1, SizeDecoded DEF Invalid
  <2> QED
    BY <1>1, <2>1 DEF Allowed, Refused
<1>2. CASE f.head # Header(f.n)
  BY <1>2, SizeDecoded DEF Allowed, Refused
<1> QED
  BY <1>1, <1>2

-----------------------------------------------------------------------------

\* What the end of a frame does to the frames on the connection.
LEMMA FrameEnds ==
  ASSUME TornInv, mu # "free", NEW state \in {"whole", "torn"}, EndFrame(state)
  PROVE  /\ out' \in Seq(OutFrames) /\ DOMAIN out' = DOMAIN out
         /\ Len(out') = Len(out) /\ Len(out) \in DOMAIN out
         /\ out'[Len(out)].state = state
         /\ out[Len(out)].by = mu
         /\ \A i \in DOMAIN out : out'[i].by = out[i].by
         /\ \A i \in DOMAIN out : i # Len(out) => out'[i] = out[i]
<1> DEFINE last == Len(out)
           ended == [op |-> out[last].op, by |-> out[last].by, state |-> state]
<1>1. out \in Seq(OutFrames) /\ last \in Nat /\ last \in 1..last /\ DOMAIN out = 1..last
  BY DEF TornInv
<1>2. out[last] \in OutFrames
  BY <1>1
<1>3. ended \in OutFrames /\ ended.by = out[last].by /\ ended.state = state
  BY <1>2 DEF OutFrames
<1>4. out' = [out EXCEPT ![last] = ended]
  BY DEF EndFrame
<1> HIDE DEF ended
<1>5. out' \in Seq(OutFrames) /\ Len(out') = last /\ DOMAIN out' = DOMAIN out
  BY <1>1, <1>3, <1>4, ExceptSeq
<1> QED
  BY <1>1, <1>3, <1>4, <1>5 DEF TornInv

\* What the begin of a frame does to them.
LEMMA FrameBegins ==
  ASSUME TornInv, NEW who \in {"reader", "writer"}, NEW op \in {2, 8, 10}, Lock(who, op)
  PROVE  /\ mu = "free" /\ mu' = who
         /\ out' \in Seq(OutFrames) /\ Len(out) \in Nat /\ Len(out') = Len(out) + 1
         /\ DOMAIN out' = DOMAIN out \cup {Len(out) + 1} /\ DOMAIN out = 1..Len(out)
         /\ out'[Len(out')] = [op |-> op, by |-> who, state |-> "partial"]
         /\ \A i \in DOMAIN out : out'[i] = out[i]
<1>1. out \in Seq(OutFrames) /\ [op |-> op, by |-> who, state |-> "partial"] \in OutFrames
  BY DEF TornInv, OutFrames
<1> QED
  BY <1>1, AppendProperties DEF Lock

\* Every step leaves a torn frame the last one of a goroutine that goes on writing.
LEMMA TornStep ==
  ASSUME TypeOK, TornInv, SenderStops, [Next]_vars
  PROVE  (TornInv /\ SenderStops)'
<1> USE WsAssumption DEF vars, serverVars, readVars, writeVars, AtHead, Lock, EndFrame, Answering, TypeOK, TornInv, SenderStops, OutFrames
<1>1. CASE ServerSend
  BY <1>1 DEF ServerSend, Send
<1>2. ASSUME NEW room \in Rooms, Take(room) PROVE (TornInv /\ SenderStops)'
  BY <1>2 DEF Take
<1>3. CASE Reject
  BY <1>3 DEF Reject
<1>4. CASE TakeControl
  <2>1. reader = "reading" /\ UNCHANGED <<out, mu, writer, open>>
    BY <1>4 DEF TakeControl
  <2>2. reader' # "failed"
    BY <1>4 DEF TakeControl
  <2> QED
    BY <2>1, <2>2
<1>5. CASE TakeData
  BY <1>5 DEF TakeData
<1>6. CASE ReadFails
  BY <1>6 DEF ReadFails
<1>7. CASE BeginWrite
  BY <1>7 DEF BeginWrite
<1>8. CASE LockWrite
  BY <1>8 DEF LockWrite
<1>9. CASE EndWrite
  <2> USE FrameEnds
  <2> QED
    BY <1>9 DEF EndWrite
<1>10. CASE FailWrite
  <2>1. CASE mu = "writer" /\ EndFrame("torn")
    <3>1. writer = "writing" /\ writer' = "failed" /\ mu' = "free" /\ UNCHANGED <<reader, open>>
      BY <1>10, <2>1 DEF FailWrite
    <3>2. out' \in Seq(OutFrames)
      BY <2>1, FrameEnds
    <3> QED
      BY <2>1, <3>1, <3>2, FrameEnds
  <2>2. CASE UNCHANGED <<mu, out>>
    BY <1>10, <2>2 DEF FailWrite
  <2> QED
    BY <1>10, <2>1, <2>2 DEF FailWrite
<1>11. CASE Shutdown
  BY <1>11 DEF Shutdown
<1>12. CASE LockAnswer
  BY <1>12 DEF LockAnswer
<1>13. CASE EndAnswer
  <2> USE FrameEnds
  <2> QED
    BY <1>13 DEF EndAnswer
<1>14. CASE FailAnswer
  <2>1. CASE mu = "reader" /\ EndFrame("torn")
    <3>1. Answering /\ (reader' = "failed" \/ ~open') /\ mu' = "free" /\ UNCHANGED writer /\ open' \in BOOLEAN
      BY <1>14, <2>1 DEF FailAnswer
    <3>2. out' \in Seq(OutFrames)
      BY <2>1, FrameEnds
    <3>3. ~open => ~open'
      BY <1>14 DEF FailAnswer
    <3> QED
      BY <2>1, <3>1, <3>2, <3>3, FrameEnds
  <2>2. CASE UNCHANGED <<mu, out>>
    BY <1>14, <2>2 DEF FailAnswer
  <2> QED
    BY <1>14, <2>1, <2>2 DEF FailAnswer
<1>15. CASE ReaderShutdown
  BY <1>15 DEF ReaderShutdown
<1>16. CASE Close
  BY <1>16 DEF Close
<1>17. CASE UNCHANGED vars
  BY <1>17
<1> QED
  BY <1>1, <1>2, <1>3, <1>4, <1>5, <1>6, <1>7, <1>8, <1>9,
     <1>10, <1>11, <1>12, <1>13, <1>14, <1>15, <1>16, <1>17 DEF Next

-----------------------------------------------------------------------------

\* A frame and its payload on the stream.
LEMMA FrameOnStream ==
  ASSUME NEW f \in Frames, bytes \in Nat
  PROVE  LET s == <<f>> \o Payload(f) IN
         /\ s \in Seq(Frames \cup Nat) /\ s # <<>> /\ Len(s) = f.n + 1 /\ s[1] = f
         /\ f.op \notin Control => \A i \in 1..f.n : s[i + 1] = bytes + i
<1> DEFINE S == Frames \cup Nat
<1>1. f.n \in Nat
  BY WsAssumption DEF Frames
<1>2. Payload(f) \in Seq(S) /\ Len(Payload(f)) = f.n
  BY <1>1 DEF Payload
<1>3. f.op \notin Control => \A i \in 1..f.n : Payload(f)[i] = bytes + i
  BY <1>1 DEF Payload
<1>4. <<f>> \in Seq(S) /\ Len(<<f>>) = 1 /\ <<f>>[1] = f
  OBVIOUS
<1> HIDE DEF S
<1> DEFINE s == <<f>> \o Payload(f)
<1>5. s \in Seq(S) /\ Len(s) = f.n + 1 /\
      \A i \in 1..(f.n + 1) : s[i] = IF i <= 1 THEN <<f>>[i] ELSE Payload(f)[i - 1]
  BY <1>1, <1>2, <1>4, ConcatProperties
<1> HIDE DEF s
<1>6. s[1] = f /\ s # <<>>
  BY <1>1, <1>4, <1>5
<1>7. f.op \notin Control => \A i \in 1..f.n : s[i + 1] = bytes + i
  BY <1>1, <1>3, <1>5
<1> QED
  BY <1>5, <1>6, <1>7 DEF s, S

\* The server sends a frame: it is whole, and refused exactly if not allowed.
LEMMA SendStep ==
  ASSUME TypeOK, ReadInv, ServerSend
  PROVE  ReadInv'
<1> USE WsAssumption
<1>1. PICK f \in Frames : Coded(f) /\ Send(f)
  BY DEF ServerSend, Frames, Headers, Coded, Header, Code16, Code64
<1>2. /\ f.n \in Nat /\ f.fin \in BOOLEAN
      /\ bytes \in Nat /\ total \in Nat /\ fragmented \in BOOLEAN /\ delivered \in Seq(Nat)
  BY DEF Frames, ReadInv, StreamTypeOK, TypeOK
<1>3. /\ stream = <<>> /\ remaining = 0 /\ conforming
      /\ fragmented = inMessage /\ messageBytes = total /\ bytes = Len(delivered)
  BY <1>1, <1>2 DEF Send, ReadInv, TakenInv, Taken
<1>4. UNCHANGED <<readVars, reader>>
  BY <1>1 DEF Send
<1>5. /\ stream' \in Seq(Frames \cup Nat) /\ stream' # <<>> /\ Len(stream') = f.n + 1
      /\ stream'[1] = f
      /\ f.op \notin Control => \A i \in 1..f.n : stream'[i + 1] = bytes + i
  BY <1>1, <1>2, FrameOnStream DEF Send
<1>6. conforming' = ~Refused(f)
  <2>1. conforming' = Allowed(f)
    BY <1>1 DEF Send
  <2> QED
    BY <2>1, <1>1, <1>2, <1>3, RefusedExactly DEF Allowed, Refused
<1>7. StreamTypeOK'
  <2>1. conforming' \in BOOLEAN /\ inMessage' \in BOOLEAN
    BY <1>1, <1>2, <1>3 DEF Send, Allowed
  <2>2. bytes' \in Nat /\ total' \in Nat
    BY <1>1, <1>2, <1>3 DEF Send
  <2> QED
    BY <1>2, <1>4, <1>5, <2>1, <2>2 DEF StreamTypeOK, readVars
<1>8. ~Taken'
  BY <1>3, <1>4, <1>5 DEF Taken, readVars
<1>9. PendingInv'
  <2>1. (Refused(f))' <=> Refused(f)
    BY <1>4 DEF Refused, readVars
  <2>2. f.op \in Control => UNCHANGED <<bytes, inMessage, total>>
    BY <1>1 DEF Send
  <2>3. f.op \notin Control =>
          /\ bytes' = bytes + f.n /\ inMessage' = ~f.fin
          /\ total' = (IF f.op = 2 THEN 0 ELSE total) + f.n
    BY <1>1 DEF Send
  <2> QED
    BY <1>1, <1>3, <1>4, <1>5, <1>6, <2>1, <2>2, <2>3 DEF PendingInv, readVars
<1> QED
  BY <1>3, <1>4, <1>6, <1>7, <1>8, <1>9 DEF ReadInv, TakenInv, readVars

\* Read takes data: what it returns continues what it has returned.
LEMMA TakeStep ==
  ASSUME TypeOK, ReadInv, NEW room \in Rooms, Take(room)
  PROVE  ReadInv'
<1> DEFINE n == IF room < remaining THEN room ELSE remaining
           S == Frames \cup Nat
<1>1. /\ remaining \in Nat /\ remaining > 0 /\ n \in 1..remaining
      /\ stream \in Seq(S) /\ delivered \in Seq(Nat)
  BY WsAssumption DEF Take, Rooms, TypeOK, ReadInv, StreamTypeOK
<1>2. /\ delivered' = delivered \o SubSeq(stream, 1, n)
      /\ stream' = SubSeq(stream, n + 1, Len(stream))
      /\ remaining' = remaining - n
      /\ UNCHANGED <<serverVars, fragmented, messageBytes, reader>>
  BY DEF Take
<1>3. /\ Len(stream) = remaining
      /\ \A i \in 1..remaining : stream[i] = Len(delivered) + i
      /\ conforming /\ fragmented = inMessage /\ messageBytes = total
      /\ bytes = Len(delivered) + remaining
  BY <1>1 DEF ReadInv, TakenInv, Taken
<1> HIDE DEF n
<1>4. /\ Len(SubSeq(stream, 1, n)) = n
      /\ \A i \in 1..n : SubSeq(stream, 1, n)[i] = Len(delivered) + i
  <2>1. \A i \in 1..n : stream[i] \in S
    BY <1>1, <1>3, ElementOfSeq
  <2> HIDE DEF S
  <2>2. /\ Len(SubSeq(stream, 1, n)) = n
        /\ \A i \in 1..n : SubSeq(stream, 1, n)[i] = stream[i]
    BY <1>1, <2>1, SubSeqProperties
  <2> QED
    BY <1>1, <1>3, <2>2
<1>5. SubSeq(stream, 1, n) \in Seq(Nat)
  <2>1. \A i \in 1..n : stream[i] \in Nat
    BY <1>1, <1>3
  <2> QED
    BY <1>1, <2>1, SubSeqProperties
<1>6. /\ delivered' \in Seq(Nat) /\ Len(delivered') = Len(delivered) + n
      /\ \A i \in 1..(Len(delivered) + n) :
           delivered'[i] = IF i <= Len(delivered) THEN delivered[i]
                           ELSE SubSeq(stream, 1, n)[i - Len(delivered)]
  BY <1>1, <1>2, <1>4, <1>5, ConcatProperties
<1>7. \A i \in DOMAIN delivered' : delivered'[i] = i
  <2>1. \A i \in DOMAIN delivered : delivered[i] = i
    BY DEF ReadInv
  <2>2. Len(delivered) \in Nat /\ DOMAIN delivered = 1..Len(delivered)
        /\ DOMAIN delivered' = 1..(Len(delivered) + n)
    BY <1>1, <1>6, LenProperties
  <2> SUFFICES ASSUME NEW i \in 1..(Len(delivered) + n) PROVE delivered'[i] = i
    BY <2>2
  <2>3. CASE i <= Len(delivered)
    BY <1>6, <2>1, <2>2, <2>3
  <2>4. CASE i > Len(delivered)
    <3> DEFINE j == i - Len(delivered)
    <3>1. j \in 1..n /\ Len(delivered) + j = i
      BY <1>1, <2>2, <2>4
    <3>2. delivered'[i] = SubSeq(stream, 1, n)[j]
      BY <1>1, <1>6, <2>2, <2>4
    <3> HIDE DEF j
    <3> QED
      BY <1>4, <3>1, <3>2
  <2> QED
    BY <2>2, <2>3, <2>4
<1>8. /\ stream' \in Seq(S) /\ Len(stream') = remaining - n
      /\ \A i \in 1..(remaining - n) : stream'[i] = stream[n + i]
  <2>1. \A i \in (n + 1)..remaining : stream[i] \in S
    BY <1>1, <1>3, ElementOfSeq
  <2> HIDE DEF S
  <2>2. n + 1 \in Int /\ remaining \in Int /\ stream' = SubSeq(stream, n + 1, remaining)
    BY <1>1, <1>2, <1>3
  <2>3. /\ stream' \in Seq(S)
        /\ Len(stream') = IF n + 1 <= remaining THEN remaining - (n + 1) + 1 ELSE 0
        /\ \A i \in 1..(remaining - (n + 1) + 1) : stream'[i] = stream[n + 1 + i - 1]
    BY <2>1, <2>2, SubSeqProperties
  <2> QED
    BY <1>1, <2>3
<1>9. Taken' /\ TakenInv' /\ StreamTypeOK'
  <2>1. Len(delivered) \in Nat
    BY <1>1, LenProperties
  <2>2. Taken'
    BY <1>1, <1>2, <1>8 DEF Taken
  <2>3. TakenInv'
    BY <1>1, <1>2, <1>3, <1>6, <1>8, <2>1 DEF TakenInv, serverVars
  <2> QED
    BY <1>2, <1>6, <1>8, <2>2, <2>3 DEF StreamTypeOK, ReadInv, serverVars
<1> QED
  BY <1>2, <1>3, <1>7, <1>9 DEF ReadInv, PendingInv, serverVars

\* What Read knows of a frame that it does not refuse.
LEMMA FrameAtHead ==
  ASSUME TypeOK, ReadInv, AtHead, ~Refused(Head(stream))
  PROVE  LET f == Head(stream) IN
         /\ f = stream[1] /\ f \in Frames /\ f.n \in Nat /\ f.n <= Limit /\ SizeOf(f.head) = f.n
         /\ Len(stream) = f.n + 1 /\ conforming /\ ~Taken
         /\ f.op \in {0, 2} => f.op \notin Control
         /\ f.op = 0 => messageBytes + f.n <= Limit
<1>1. stream \in Seq(Frames \cup Nat) /\ stream # <<>> /\ ~Taken
  BY WsAssumption DEF AtHead, Taken, ReadInv, StreamTypeOK
<1>2. Head(stream) = stream[1]
  BY <1>1
<1>3. /\ stream[1] \in Frames /\ Coded(stream[1]) /\ Len(stream) = stream[1].n + 1
      /\ conforming
  BY <1>1, <1>2 DEF ReadInv, PendingInv
<1>4. SizeOf(stream[1].head) = stream[1].n /\ stream[1].n \in Nat /\ stream[1].n <= Limit
  <2>1. SizeOf(stream[1].head) # Invalid /\ ~(SizeOf(stream[1].head) > Limit)
    BY <1>2 DEF Refused
  <2>2. SizeOf(stream[1].head) = stream[1].n
    BY <1>3, <2>1, SizeDecoded
  <2>3. stream[1].n \in Nat
    BY <1>3, WsAssumption DEF Frames
  <2> QED
    BY <2>1, <2>2, <2>3, WsAssumption
<1>5. stream[1].op = 0 => messageBytes + stream[1].n <= Limit
  <2>1. stream[1].op = 0 => ~(messageBytes + SizeOf(stream[1].head) > Limit)
    BY <1>2 DEF Refused
  <2> QED
    BY <1>4, <2>1, WsAssumption DEF TypeOK
<1> QED
  BY <1>1, <1>2, <1>3, <1>4, <1>5, WsAssumption DEF Frames, Control

\* Read takes a control frame with its payload.
LEMMA ControlStep ==
  ASSUME TypeOK, ReadInv, TakeControl
  PROVE  ReadInv'
<1> DEFINE f == Head(stream)
<1>1. /\ f = stream[1] /\ f.n \in Nat /\ SizeOf(f.head) = f.n /\ Len(stream) = f.n + 1
      /\ conforming /\ ~Taken /\ f.op \in Control
  BY FrameAtHead DEF TakeControl
<1>2. stream' = <<>>
  <2>1. stream' = SubSeq(stream, f.n + 2, f.n + 1)
    BY <1>1 DEF TakeControl
  <2>2. f.n + 2 \in Int /\ f.n + 1 \in Int /\ f.n + 1 < f.n + 2
    BY <1>1
  <2> QED
    BY <2>1, <2>2, SubSeqEmpty
<1>3. remaining = 0 /\ UNCHANGED <<serverVars, readVars>> /\ reader' # "protocol"
  BY DEF TakeControl, AtHead
<1>4. inMessage = fragmented /\ total = messageBytes /\ bytes = Len(delivered)
  BY <1>1 DEF ReadInv, PendingInv
<1>5. Len(delivered) \in Nat
  BY LenProperties DEF ReadInv, StreamTypeOK
<1>6. TakenInv' /\ StreamTypeOK'
  BY <1>1, <1>2, <1>3, <1>4, <1>5 DEF TakenInv, StreamTypeOK, ReadInv, readVars, serverVars
<1> QED
  BY <1>2, <1>3, <1>6 DEF ReadInv, PendingInv, Taken, readVars

\* Read takes the header of a data frame.
LEMMA DataStep ==
  ASSUME TypeOK, ReadInv, TakeData
  PROVE  ReadInv'
<1> DEFINE f == Head(stream)
<1>1. /\ f = stream[1] /\ f \in Frames /\ f.n \in Nat /\ SizeOf(f.head) = f.n
      /\ Len(stream) = f.n + 1 /\ conforming /\ ~Taken /\ f.op \notin Control
  BY FrameAtHead DEF TakeData
<1>2. /\ stream' = Tail(stream) /\ remaining' = f.n /\ fragmented' = ~f.fin
      /\ messageBytes' = (IF f.op = 2 THEN 0 ELSE messageBytes) + f.n
      /\ UNCHANGED <<serverVars, delivered, reader>>
  BY <1>1 DEF TakeData
<1>3. /\ inMessage = ~f.fin /\ total = (IF f.op = 2 THEN 0 ELSE messageBytes) + f.n
      /\ bytes = Len(delivered) + f.n
      /\ \A i \in 1..f.n : stream[i + 1] = Len(delivered) + i
  BY <1>1 DEF ReadInv, PendingInv
<1> HIDE DEF f
<1>4. /\ stream' \in Seq(Frames \cup Nat) /\ Len(stream') = f.n
      /\ \A i \in 1..f.n : stream'[i] = stream[i + 1]
  <2>1. stream \in Seq(Frames \cup Nat) /\ stream # <<>>
    BY DEF TakeData, AtHead, ReadInv, StreamTypeOK
  <2> QED
    BY <1>1, <1>2, <2>1, HeadTailProperties
<1>5. Taken'
  BY <1>1, <1>2, <1>4 DEF Taken
<1>6. TakenInv' /\ StreamTypeOK'
  <2>1. Len(delivered) \in Nat
    BY LenProperties DEF ReadInv, StreamTypeOK
  <2> QED
    BY <1>1, <1>2, <1>3, <1>4, <2>1 DEF TakenInv, StreamTypeOK, ReadInv, serverVars
<1>7. reader' # "protocol"
  BY <1>2 DEF TakeData, AtHead
<1> QED
  BY <1>2, <1>5, <1>6, <1>7 DEF ReadInv, PendingInv

\* Read refuses a frame: it was not allowed.
LEMMA RejectStep ==
  ASSUME TypeOK, ReadInv, Reject
  PROVE  ReadInv'
<1>1. UNCHANGED <<stream, serverVars, readVars>> /\ Refused(Head(stream)) /\ AtHead
  BY DEF Reject
<1>2. ~Taken /\ Head(stream) = stream[1]
  BY <1>1, WsAssumption DEF AtHead, Taken, ReadInv, StreamTypeOK
<1>3. ~conforming
  BY <1>1, <1>2 DEF ReadInv, PendingInv
<1> QED
  BY <1>1, <1>3 DEF ReadInv, StreamTypeOK, TakenInv, PendingInv, Taken, Refused, serverVars, readVars

\* Every step keeps Read where it stands in the frame of the server.
LEMMA ReadStep ==
  ASSUME TypeOK, ReadInv, [Next]_vars
  PROVE  ReadInv'
<1>1. CASE ServerSend
  BY <1>1, SendStep
<1>2. ASSUME NEW room \in Rooms, Take(room) PROVE ReadInv'
  BY <1>2, TakeStep
<1>3. CASE Reject
  BY <1>3, RejectStep
<1>4. CASE TakeControl
  BY <1>4, ControlStep
<1>5. CASE TakeData
  BY <1>5, DataStep
<1>6. ASSUME UNCHANGED <<stream, serverVars, readVars>>, reader' # "protocol" \/ reader' = reader
      PROVE  ReadInv'
  BY <1>6 DEF ReadInv, StreamTypeOK, TakenInv, PendingInv, Taken, Refused, serverVars, readVars
<1>7. CASE ReadFails \/ BeginWrite \/ LockWrite \/ EndWrite \/ FailWrite \/ Shutdown
  BY <1>6, <1>7 DEF ReadFails, BeginWrite, LockWrite, EndWrite, FailWrite, Shutdown
<1>8. CASE LockAnswer \/ EndAnswer \/ FailAnswer \/ ReaderShutdown \/ Close
  BY <1>6, <1>8 DEF LockAnswer, EndAnswer, FailAnswer, ReaderShutdown, Close
<1>9. CASE UNCHANGED vars
  BY <1>6, <1>9 DEF vars
<1> QED
  BY <1>1, <1>2, <1>3, <1>4, <1>5, <1>7, <1>8, <1>9 DEF Next

\* Every step keeps the types and the bounds of what Read has still to take.
LEMMA TypeStep ==
  ASSUME TypeOK, TornInv, ReadInv, [Next]_vars
  PROVE  TypeOK'
<1> USE WsAssumption DEF vars, serverVars, readVars, writeVars, AtHead, Lock, EndFrame, Answering, TypeOK
<1>1. CASE ServerSend
  BY <1>1 DEF ServerSend, Send
<1>2. ASSUME NEW room \in Rooms, Take(room) PROVE TypeOK'
  <2>1. remaining' \in 0..Limit
    BY <1>2 DEF Take, Rooms
  <2> QED
    BY <1>2, <2>1 DEF Take
<1>3. CASE Reject
  BY <1>3 DEF Reject
<1>4. CASE TakeControl
  <2>1. /\ UNCHANGED <<readVars, writeVars>> /\ reader = "reading"
        /\ reader' \in {"reading", "echo", "pong"}
    BY <1>4 DEF TakeControl
  <2> QED
    BY <2>1
<1>5. CASE TakeData
  <2> DEFINE f == Head(stream)
  <2>1. /\ f.n \in Nat /\ f.n <= Limit /\ SizeOf(f.head) = f.n /\ f \in Frames
        /\ f.op = 0 => messageBytes + f.n <= Limit
    BY <1>5, FrameAtHead DEF TakeData
  <2>2. /\ remaining' = f.n /\ fragmented' = ~f.fin
        /\ messageBytes' = (IF f.op = 2 THEN 0 ELSE messageBytes) + f.n
        /\ f.op \in {0, 2} /\ reader = "reading"
        /\ UNCHANGED <<reader, writeVars>>
    BY <1>5, <2>1 DEF TakeData
  <2> HIDE DEF f
  <2>3. fragmented' \in BOOLEAN
    BY <2>2
  <2>4. remaining' \in 0..Limit /\ messageBytes' \in 0..Limit
    BY <2>1, <2>2
  <2> QED
    BY <2>2, <2>3, <2>4
<1>6. CASE ReadFails
  BY <1>6 DEF ReadFails
<1>7. CASE BeginWrite
  BY <1>7 DEF BeginWrite
<1>8. CASE LockWrite
  <2>1. Lock("writer", 2) /\ writer = "writing" /\ UNCHANGED <<writer, readVars, reader>>
    BY <1>8 DEF LockWrite
  <2> QED
    BY <2>1, FrameBegins
<1>9. CASE EndWrite
  <2>1. mu = "writer" /\ EndFrame("whole") /\ writer' = "idle" /\ UNCHANGED <<readVars, reader>>
    BY <1>9 DEF EndWrite
  <2> QED
    BY <2>1, FrameEnds
<1>10. CASE FailWrite
  <2>1. writer = "writing" /\ writer' = "failed" /\ UNCHANGED <<readVars, reader>>
    BY <1>10 DEF FailWrite
  <2>2. CASE mu = "writer" /\ EndFrame("torn")
    BY <2>1, <2>2, FrameEnds
  <2>3. CASE mu = "free" /\ UNCHANGED <<mu, out>>
    BY <2>1, <2>3
  <2> QED
    BY <1>10, <2>2, <2>3 DEF FailWrite
<1>11. CASE Shutdown
  BY <1>11 DEF Shutdown
<1>12. CASE LockAnswer
  <2>1. /\ \E op \in {8, 10} : Lock("reader", op)
        /\ Answering /\ UNCHANGED <<writer, readVars, reader>>
    BY <1>12 DEF LockAnswer
  <2> QED
    BY <2>1, FrameBegins
<1>13. CASE EndAnswer
  <2>1. /\ mu = "reader" /\ EndFrame("whole") /\ reader' \in {"reading", "eof"}
        /\ UNCHANGED <<readVars, writer>>
    BY <1>13 DEF EndAnswer
  <2> QED
    BY <2>1, FrameEnds
<1>14. CASE FailAnswer
  <2>1. reader' \in {"failed", "eof"} /\ UNCHANGED <<readVars, writer>>
    BY <1>14 DEF FailAnswer
  <2>2. CASE mu = "reader" /\ EndFrame("torn")
    BY <2>1, <2>2, FrameEnds
  <2>3. CASE mu = "free" /\ UNCHANGED <<mu, out>>
    BY <2>1, <2>3
  <2> QED
    BY <1>14, <2>2, <2>3 DEF FailAnswer
<1>15. CASE ReaderShutdown
  BY <1>15 DEF ReaderShutdown
<1>16. CASE Close
  BY <1>16 DEF Close
<1>17. CASE UNCHANGED vars
  BY <1>17
<1> QED
  BY <1>1, <1>2, <1>3, <1>4, <1>5, <1>6, <1>7, <1>8, <1>9,
     <1>10, <1>11, <1>12, <1>13, <1>14, <1>15, <1>16, <1>17 DEF Next

-----------------------------------------------------------------------------

\* Nothing was sent, taken or written at first.
LEMMA InitWsInv == Init => WsInv
<1> SUFFICES ASSUME Init PROVE WsInv
  OBVIOUS
<1>1. /\ stream = <<>> /\ delivered = <<>> /\ out = <<>> /\ Len(stream) = 0
      /\ bytes = 0 /\ total = 0 /\ remaining = 0 /\ messageBytes = 0
      /\ reader = "reading" /\ writer = "idle" /\ mu = "free"
  BY DEF Init
<1>2. /\ inMessage \in BOOLEAN /\ conforming \in BOOLEAN /\ fragmented \in BOOLEAN
      /\ open \in BOOLEAN /\ fragmented = inMessage /\ conforming
  BY Zenon DEF Init
<1>3. TypeOK /\ SenderStops /\ TornInv
  BY <1>1, <1>2, WsAssumption DEF TypeOK, SenderStops, TornInv
<1>4. StreamTypeOK
  BY <1>1, <1>2 DEF StreamTypeOK
<1>5. Taken /\ TakenInv /\ PendingInv
  BY <1>1, <1>2 DEF Taken, TakenInv, PendingInv
<1> QED
  BY <1>1, <1>3, <1>4, <1>5 DEF WsInv, ReadInv

\* Every step, and a stutter, keeps the inductive invariant.
LEMMA NextWsInv == WsInv /\ [Next]_vars => WsInv'
BY TypeStep, TornStep, ReadStep DEF WsInv

\* The inductive invariant holds in every behaviour of the adapter.
THEOREM WsInvariance == Spec => []WsInv
BY InitWsInv, NextWsInv, PTL DEF Spec

\* writeMu keeps the frames of the two writers apart, and a torn frame is the
\* last of its writer.
THEOREM WritersApart == Spec => []WritersInv
<1>1. WsInv => WritersInv
  BY DEF WsInv, WritersInv
<1> QED BY WsInvariance, <1>1, PTL

\* Read returns the payloads of the data frames whole and in order, and nothing
\* else, however fragments, control frames and buffers fall.
THEOREM StreamInOrder == Spec => []InOrder
<1>1. WsInv => InOrder
  <2> SUFFICES ASSUME WsInv PROVE InOrder
    OBVIOUS
  <2>1. \A i \in DOMAIN delivered : delivered[i] = i
    BY DEF WsInv, ReadInv
  <2>2. ASSUME stream = <<>> PROVE Len(delivered) = bytes
    <3>1. Len(stream) = remaining /\ bytes = Len(delivered) + remaining
      BY <2>2 DEF WsInv, ReadInv, TakenInv, Taken
    <3>2. Len(delivered) \in Nat
      BY LenProperties DEF WsInv, ReadInv, StreamTypeOK
    <3> QED
      BY <2>2, <3>1, <3>2
  <2> QED
    BY <2>1, <2>2 DEF InOrder
<1> QED BY WsInvariance, <1>1, PTL

\* Read refuses a frame exactly when it is the first that RFC 6455 and the limit
\* do not allow a server to send.
THEOREM RefusesExactly == Spec => []RejectsExactly
<1>1. WsInv => RejectsExactly
  BY DEF WsInv, ReadInv, TakenInv, Taken, RejectsExactly
<1> QED BY WsInvariance, <1>1, PTL
=============================================================================
