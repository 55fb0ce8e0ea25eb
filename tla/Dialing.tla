------------------------------ MODULE Dialing ------------------------------
(***************************************************************************)
(* Client.Dial and DialTransport (client.go 110-120, transport.go 37-136): *)
(* a socket, the WebSocket handshake on it under a deadline and a context, *)
(* and the stream that is left to the client.  A byte of the server is its *)
(* position: the response, then what follows it at once.                   *)
(***************************************************************************)
EXTENDS Naturals, Sequences

CONSTANTS HeaderLimit,   \* 64 KiB in the code
          Behind         \* bound on the bytes the server sends behind its response

ASSUME DialingAssumption == {HeaderLimit, Behind} \subseteq Nat \ {0}

VARIABLES
  dial,       \* where Dial is, or how it ended
  response,   \* the server's: its length (0 for tcp and tls), whether it is right
  socket,     \* "none", "open" or "closed"
  watcher,    \* the AfterFunc: "none", "armed", "fired", "ran" or "stopped"
  deadline,   \* whether the socket has one
  ctxEnded, elapsed,   \* the context has ended, the 30 seconds are over
  supplied, hungUp,    \* bytes the server has sent, whether it has closed
  taken,      \* bytes bufio has taken from the socket
  allowance,  \* LimitedReader.N
  next,       \* position of the next byte out of bufio
  heard,      \* bytes the client has read
  endedInTime \* whether the context had ended when DialTransport returned

dialVars == <<dial, response, socket, watcher, deadline, ctxEnded, elapsed,
              supplied, hungUp, taken, allowance, next, heard, endedInTime>>
serverSide == <<supplied, hungUp>>
readerSide == <<taken, allowance, next, heard>>
timeSide == <<ctxEnded, elapsed>>

Unlimited == HeaderLimit + Behind + 1   \* math.MaxInt64
Ended == {"failed", "stream", "client", "broken"}

DialInit ==
  /\ dial = "uncalled" /\ response = [length |-> 0, right |-> TRUE]
  /\ socket = "none" /\ watcher = "none" /\ deadline = FALSE
  /\ ctxEnded = FALSE /\ elapsed = FALSE
  /\ supplied = 0 /\ hungUp = FALSE
  /\ taken = 0 /\ allowance = Unlimited /\ next = 1 /\ heard = <<>>
  /\ endedInTime = FALSE

\* I/O on the socket fails at once.
Dead == socket = "closed" \/ (deadline /\ elapsed)

-----------------------------------------------------------------------------
(* DialTransport. *)

\* stop: an AfterFunc that has started is not stopped.
Stop == watcher' = IF watcher = "armed" THEN "stopped" ELSE watcher

\* Mutant of FailDialing: success is set before the response is checked.
FailDialingOpen == dial' = "failed" /\ Stop /\ UNCHANGED <<socket, response, deadline, endedInTime>>

\* An error return and its deferred calls.
FailDialing ==
  /\ dial' = "failed" /\ Stop
  /\ socket' = IF socket = "open" THEN "closed" ELSE socket
  /\ UNCHANGED <<response, deadline, endedInTime>>

\* The address is ws or wss (a response of some length) or tcp or tls, or wrong.
CallDial ==
  /\ dial = "uncalled"
  /\ \/ dial' = "failed" /\ UNCHANGED response
     \/ /\ dial' = "connecting"
        /\ response' \in [length : 0..(HeaderLimit + 1), right : BOOLEAN]
  /\ UNCHANGED <<socket, watcher, deadline, endedInTime, timeSide, serverSide, readerSide>>

\* A raw stream is returned as it is.
OpenSocket ==
  /\ dial = "connecting"
  /\ socket' = "open" /\ dial' = IF response.length = 0 THEN "stream" ELSE "connected"
  /\ UNCHANGED <<response, watcher, deadline, endedInTime, timeSide, serverSide, readerSide>>

FailConnect ==
  /\ dial = "connecting" /\ FailDialing
  /\ UNCHANGED <<timeSide, serverSide, readerSide>>

\* Mutant of Guard: only the context bounds the handshake.
GuardUnbounded ==
  /\ dial = "connected" /\ dial' = "guarded"
  /\ watcher' = IF ctxEnded THEN "fired" ELSE "armed"
  /\ UNCHANGED <<response, socket, deadline, endedInTime, timeSide, serverSide, readerSide>>

\* AfterFunc, which fires at once if the context has ended, and SetDeadline.
Guard ==
  /\ dial = "connected" /\ dial' = "guarded"
  /\ watcher' = IF ctxEnded THEN "fired" ELSE "armed"
  /\ deadline' = TRUE
  /\ UNCHANGED <<response, socket, endedInTime, timeSide, serverSide, readerSide>>

WriteRequest ==
  /\ dial = "guarded" /\ ~Dead
  /\ dial' = "requested" /\ allowance' = HeaderLimit
  /\ UNCHANGED <<response, socket, watcher, deadline, endedInTime, timeSide, serverSide,
                 taken, next, heard>>

\* The nonce, the caller's headers, or the socket at any time.
FailHandshake ==
  /\ dial \in {"guarded", "requested"} /\ FailDialing
  /\ UNCHANGED <<timeSide, serverSide, readerSide>>

\* bufio takes what is there, through the LimitedReader.
Fill ==
  /\ ~Dead
  /\ \E n \in 1..allowance :
       taken + n <= supplied /\ taken' = taken + n /\ allowance' = allowance - n
  /\ UNCHANGED <<dial, response, socket, watcher, deadline, endedInTime, timeSide, serverSide,
                 next, heard>>

ReadHandshake == dial = "requested" /\ taken < response.length /\ Fill

\* Mutant of ReadResponse: the stream is read without the reader of the handshake.
ReadResponseAnew ==
  /\ dial = "requested" /\ taken >= response.length
  /\ IF response.right
     THEN /\ dial' = "accepted" /\ allowance' = Unlimited /\ next' = taken + 1
          /\ UNCHANGED <<response, socket, watcher, deadline, endedInTime>>
     ELSE FailDialing /\ UNCHANGED <<allowance, next>>
  /\ UNCHANGED <<taken, heard, timeSide, serverSide>>

\* Mutant of ReadResponse: the limit of the handshake stays.
ReadResponseLimited ==
  /\ dial = "requested" /\ taken >= response.length
  /\ IF response.right
     THEN /\ dial' = "accepted" /\ next' = response.length + 1
          /\ UNCHANGED <<response, socket, watcher, deadline, endedInTime>>
     ELSE FailDialing /\ UNCHANGED next
  /\ UNCHANGED <<taken, allowance, heard, timeSide, serverSide>>

\* ReadResponse, the checks of its status and headers, and limited.N.
ReadResponse ==
  /\ dial = "requested" /\ taken >= response.length
  /\ IF response.right
     THEN /\ dial' = "accepted" /\ allowance' = Unlimited /\ next' = response.length + 1
          /\ UNCHANGED <<response, socket, watcher, deadline, endedInTime>>
     ELSE FailDialing /\ UNCHANGED <<allowance, next>>
  /\ UNCHANGED <<taken, heard, timeSide, serverSide>>

\* The response is too long, or the server is gone.
MissResponse ==
  /\ dial = "requested" /\ taken < response.length
  /\ allowance = 0 \/ (hungUp /\ taken = supplied)
  /\ FailDialing /\ UNCHANGED <<timeSide, serverSide, readerSide>>

CheckContext ==
  /\ dial = "accepted"
  /\ IF ctxEnded THEN FailDialing
     ELSE /\ dial' = "returning" /\ deadline' = FALSE
          /\ UNCHANGED <<response, socket, watcher, endedInTime>>
  /\ UNCHANGED <<timeSide, serverSide, readerSide>>

ReturnStream ==
  /\ dial = "returning" /\ dial' = "stream" /\ Stop
  /\ endedInTime' = ctxEnded
  /\ UNCHANGED <<response, socket, deadline, timeSide, serverSide, readerSide>>

\* Client.Dial.
NewClient ==
  /\ dial = "stream"
  /\ \/ dial' = "client" /\ UNCHANGED socket
     \/ dial' = "failed" /\ socket' = "closed"
  /\ UNCHANGED <<response, watcher, deadline, endedInTime, timeSide, serverSide, readerSide>>

RunWatcher ==
  /\ watcher = "fired" /\ watcher' = "ran" /\ socket' = "closed"
  /\ UNCHANGED <<dial, response, deadline, endedInTime, timeSide, serverSide, readerSide>>

-----------------------------------------------------------------------------
(* The stream, the server, the context and the clock. *)

ReadStream ==
  /\ dial = "client"
  /\ \/ /\ next <= taken /\ heard' = Append(heard, next) /\ next' = next + 1
        /\ UNCHANGED <<dial, taken, allowance>>
     \/ /\ next > taken /\ (Dead \/ allowance = 0 \/ (hungUp /\ taken = supplied))
        /\ dial' = "broken" /\ UNCHANGED readerSide
  /\ UNCHANGED <<response, socket, watcher, deadline, endedInTime, timeSide, serverSide>>

FillStream == dial = "client" /\ next > taken /\ Fill

Supply ==
  /\ dial \in {"requested", "accepted", "returning", "stream", "client"} /\ ~hungUp
  /\ \/ supplied < response.length + Behind /\ supplied' = supplied + 1 /\ UNCHANGED hungUp
     \/ hungUp' = TRUE /\ UNCHANGED supplied
  /\ UNCHANGED <<dial, response, socket, watcher, deadline, endedInTime, timeSide, readerSide>>

EndContext ==
  /\ dial # "uncalled" /\ ~ctxEnded /\ ctxEnded' = TRUE
  /\ watcher' = IF watcher = "armed" THEN "fired" ELSE watcher
  /\ UNCHANGED <<dial, response, socket, deadline, endedInTime, elapsed, serverSide, readerSide>>

Elapse ==
  /\ dial # "uncalled" /\ ~elapsed /\ elapsed' = TRUE
  /\ UNCHANGED <<dial, response, socket, watcher, deadline, endedInTime, ctxEnded,
                 serverSide, readerSide>>

DialNext ==
  \/ CallDial \/ OpenSocket \/ FailConnect \/ Guard \/ WriteRequest \/ FailHandshake
  \/ ReadHandshake \/ ReadResponse \/ MissResponse \/ CheckContext \/ ReturnStream
  \/ NewClient \/ RunWatcher \/ ReadStream \/ FillStream
  \/ Supply \/ EndContext \/ Elapse

DialSpec == DialInit /\ [][DialNext]_dialVars

\* What the goroutines of the client do without the server: connecting ends
\* with the context or the dialer's timeout, I/O when the socket is dead.
DialFairness ==
  /\ WF_dialVars(\/ FailConnect /\ (ctxEnded \/ elapsed)
                 \/ FailHandshake /\ Dead
                 \/ Guard \/ ReadResponse \/ CheckContext \/ ReturnStream)
  /\ WF_dialVars(RunWatcher)

-----------------------------------------------------------------------------
(* Properties. *)

\* A dial that fails, wherever it does, leaves no socket open (transport.go:80-85,
\* client.go:116-118), and one that is over leaves no AfterFunc to close it later.
NothingLeftBehind ==
  /\ dial = "failed" => socket # "open"
  /\ dial \in Ended => watcher # "armed"

\* The bytes behind the response, which bufio may have taken along with it, are
\* the first ones of the stream, and none is missing.
StreamBegins == \A i \in DOMAIN heard : heard[i] = response.length + i

\* The deadline, the limit and the context of the handshake do not outlive it: a
\* stream breaks only by the server, or if its context ended before Dial returned.
StreamLives ==
  dial = "broken" \/ (dial = "client" /\ Dead) => endedInTime \/ hungUp

\* The stream that Dial hands over is whole, and the handshake is over for it.
StreamIntact == StreamBegins /\ StreamLives

\* The end of the context and the end of the 30 seconds each end a dial, though
\* the server neither answers nor closes.
DialEnds == (ctxEnded \/ elapsed) ~> dial \in Ended
=============================================================================
