-------------------------- MODULE DialingInductive --------------------------
(***************************************************************************)
(* The inductive invariant of Dialing: who can still close the socket at   *)
(* each point of the dial, and where the reader stands in what the server  *)
(* sent.                                                                   *)
(***************************************************************************)
EXTENDS Dialing

DialTypeOK ==
  /\ dial \in Ended \cup {"uncalled", "connecting", "connected", "guarded", "requested",
                          "accepted", "returning"}
  /\ response \in [length : 0..(HeaderLimit + 1), right : BOOLEAN]
  /\ socket \in {"none", "open", "closed"}
  /\ watcher \in {"none", "armed", "fired", "ran", "stopped"}
  /\ deadline \in BOOLEAN /\ ctxEnded \in BOOLEAN /\ elapsed \in BOOLEAN
  /\ hungUp \in BOOLEAN /\ endedInTime \in BOOLEAN
  /\ supplied \in Nat /\ taken \in Nat /\ allowance \in Nat /\ next \in Nat
  /\ heard \in Seq(Nat)

Untouched == {"uncalled", "connecting"}           \* no socket yet
Shaking == {"guarded", "requested", "accepted"}   \* under deadline and AfterFunc
Handed == {"stream", "client", "broken"}          \* DialTransport has returned it

\* The AfterFunc exists from Guard on, is not left armed, and fires only when
\* the context has ended; the deadline is that of the handshake alone.
WatcherInv ==
  /\ dial \in Untouched \cup {"connected"} => watcher = "none"
  /\ dial \in Ended => watcher # "armed"
  /\ watcher \in {"fired", "ran"} => ctxEnded
  /\ watcher \in {"fired", "ran"} /\ dial \in Handed => endedInTime
  /\ deadline => dial \in Shaking \cup {"failed"}

\* Once made, and unless the dial failed, only the AfterFunc closes the socket.
SocketInv ==
  /\ dial \in Untouched => socket = "none"
  /\ dial = "failed" => socket # "open"
  /\ dial \notin Untouched \cup {"failed"} => socket = "open" \/ watcher = "ran"

\* Where the reader stands: the response is behind it before the stream begins,
\* and what is left of the limit covers all that the server may still send.
ReaderInv ==
  /\ taken <= supplied /\ supplied <= response.length + Behind
  /\ dial \in Untouched \cup {"connected", "guarded"} =>
       supplied = 0 /\ next = 1 /\ allowance = Unlimited
  /\ dial \notin {"client", "broken"} => heard = <<>>
  /\ dial \in {"accepted", "returning"} \cup Handed =>
       /\ allowance + taken >= Unlimited + response.length
       /\ next = response.length + 1 + Len(heard)

DialInv ==
  /\ DialTypeOK /\ WatcherInv /\ SocketInv /\ ReaderInv
  /\ StreamBegins /\ (dial = "broken" => endedInTime \/ hungUp)
=============================================================================
