--------------------------- MODULE DialingProofs ---------------------------
(***************************************************************************)
(* TLAPS proofs about Dialing, for any limit of the handshake and any      *)
(* number of bytes behind the response.                                    *)
(***************************************************************************)
EXTENDS DialingInductive, TLAPS

\* What Append does to the bytes the client has heard.
LEMMA AppendToHeard ==
  ASSUME DialTypeOK
  PROVE  /\ Append(heard, next) \in Seq(Nat)
         /\ Len(heard) \in Nat /\ Len(Append(heard, next)) = Len(heard) + 1
         /\ DOMAIN Append(heard, next) = DOMAIN heard \cup {Len(heard) + 1}
         /\ Append(heard, next)[Len(heard) + 1] = next
         /\ \A i \in DOMAIN heard : Append(heard, next)[i] = heard[i]
<1> heard \in Seq(Nat) /\ next \in Nat
  BY DEF DialTypeOK
<1> QED
  OBVIOUS

\* Every step keeps the types.
LEMMA TypeStep ==
  ASSUME DialTypeOK, [DialNext]_dialVars
  PROVE  DialTypeOK'
<1> USE DialingAssumption DEF dialVars, serverSide, readerSide, timeSide, Ended, Untouched, Shaking, Handed,
       Unlimited, Dead, Stop, FailDialing, Fill, DialTypeOK
<1>1. CASE CallDial
  BY <1>1 DEF CallDial
<1>2. CASE OpenSocket
  BY <1>2 DEF OpenSocket
<1>3. CASE FailConnect
  BY <1>3 DEF FailConnect
<1>4. CASE Guard
  BY <1>4 DEF Guard
<1>5. CASE WriteRequest
  BY <1>5 DEF WriteRequest
<1>6. CASE FailHandshake
  BY <1>6 DEF FailHandshake
<1>7. CASE ReadHandshake
  BY <1>7 DEF ReadHandshake
<1>8. CASE ReadResponse
  BY <1>8 DEF ReadResponse
<1>9. CASE MissResponse
  BY <1>9 DEF MissResponse
<1>10. CASE CheckContext
  BY <1>10 DEF CheckContext
<1>11. CASE ReturnStream
  BY <1>11 DEF ReturnStream
<1>12. CASE NewClient
  BY <1>12 DEF NewClient
<1>13. CASE RunWatcher
  BY <1>13 DEF RunWatcher
<1>14. CASE ReadStream
  <2>1. heard' = Append(heard, next) \/ heard' = heard
    BY <1>14 DEF ReadStream
  <2>2. heard' \in Seq(Nat)
    BY <2>1, AppendToHeard
  <2>3. next' \in Nat
    BY <1>14 DEF ReadStream
  <2> QED
    BY <1>14, <2>2, <2>3 DEF ReadStream
<1>15. CASE FillStream
  BY <1>15 DEF FillStream
<1>16. CASE Supply
  <2>1. hungUp' \in BOOLEAN
    BY <1>16, Zenon DEF Supply
  <2>2. supplied' \in Nat
    BY <1>16 DEF Supply
  <2> QED
    BY <1>16, <2>1, <2>2 DEF Supply
<1>17. CASE EndContext
  BY <1>17 DEF EndContext
<1>18. CASE Elapse
  BY <1>18 DEF Elapse
<1>19. CASE UNCHANGED dialVars
  BY <1>19
<1> QED
  BY <1>1, <1>2, <1>3, <1>4, <1>5, <1>6, <1>7, <1>8, <1>9, <1>10,
     <1>11, <1>12, <1>13, <1>14, <1>15, <1>16, <1>17, <1>18, <1>19 DEF DialNext

\* Every step keeps the AfterFunc and the deadline to the handshake.
LEMMA WatcherStep ==
  ASSUME DialTypeOK, WatcherInv, [DialNext]_dialVars
  PROVE  WatcherInv'
<1> USE DialingAssumption DEF dialVars, serverSide, readerSide, timeSide, Ended, Untouched, Shaking, Handed,
       Unlimited, Dead, Stop, FailDialing, Fill, DialTypeOK, WatcherInv
<1>1. CASE CallDial
  BY <1>1 DEF CallDial
<1>2. CASE OpenSocket
  BY <1>2 DEF OpenSocket
<1>3. CASE FailConnect
  BY <1>3 DEF FailConnect
<1>4. CASE Guard
  BY <1>4 DEF Guard
<1>5. CASE WriteRequest
  BY <1>5 DEF WriteRequest
<1>6. CASE FailHandshake
  BY <1>6 DEF FailHandshake
<1>7. CASE ReadHandshake
  BY <1>7 DEF ReadHandshake
<1>8. CASE ReadResponse
  BY <1>8 DEF ReadResponse
<1>9. CASE MissResponse
  BY <1>9 DEF MissResponse
<1>10. CASE CheckContext
  BY <1>10 DEF CheckContext
<1>11. CASE ReturnStream
  BY <1>11 DEF ReturnStream
<1>12. CASE NewClient
  BY <1>12 DEF NewClient
<1>13. CASE RunWatcher
  BY <1>13 DEF RunWatcher
<1>14. CASE ReadStream
  BY <1>14 DEF ReadStream
<1>15. CASE FillStream
  BY <1>15 DEF FillStream
<1>16. CASE Supply
  BY <1>16 DEF Supply
<1>17. CASE EndContext
  BY <1>17 DEF EndContext
<1>18. CASE Elapse
  BY <1>18 DEF Elapse
<1>19. CASE UNCHANGED dialVars
  BY <1>19
<1> QED
  BY <1>1, <1>2, <1>3, <1>4, <1>5, <1>6, <1>7, <1>8, <1>9, <1>10,
     <1>11, <1>12, <1>13, <1>14, <1>15, <1>16, <1>17, <1>18, <1>19 DEF DialNext

\* Every step keeps a socket that nobody else closes.
LEMMA SocketStep ==
  ASSUME DialTypeOK, WatcherInv, SocketInv, [DialNext]_dialVars
  PROVE  SocketInv'
<1> USE DialingAssumption DEF dialVars, serverSide, readerSide, timeSide, Ended, Untouched, Shaking, Handed,
       Unlimited, Dead, Stop, FailDialing, Fill, DialTypeOK, WatcherInv, SocketInv
<1>1. CASE CallDial
  BY <1>1 DEF CallDial
<1>2. CASE OpenSocket
  BY <1>2 DEF OpenSocket
<1>3. CASE FailConnect
  BY <1>3 DEF FailConnect
<1>4. CASE Guard
  BY <1>4 DEF Guard
<1>5. CASE WriteRequest
  BY <1>5 DEF WriteRequest
<1>6. CASE FailHandshake
  BY <1>6 DEF FailHandshake
<1>7. CASE ReadHandshake
  BY <1>7 DEF ReadHandshake
<1>8. CASE ReadResponse
  BY <1>8 DEF ReadResponse
<1>9. CASE MissResponse
  BY <1>9 DEF MissResponse
<1>10. CASE CheckContext
  BY <1>10 DEF CheckContext
<1>11. CASE ReturnStream
  BY <1>11 DEF ReturnStream
<1>12. CASE NewClient
  BY <1>12 DEF NewClient
<1>13. CASE RunWatcher
  BY <1>13 DEF RunWatcher
<1>14. CASE ReadStream
  BY <1>14 DEF ReadStream
<1>15. CASE FillStream
  BY <1>15 DEF FillStream
<1>16. CASE Supply
  BY <1>16 DEF Supply
<1>17. CASE EndContext
  BY <1>17 DEF EndContext
<1>18. CASE Elapse
  BY <1>18 DEF Elapse
<1>19. CASE UNCHANGED dialVars
  BY <1>19
<1> QED
  BY <1>1, <1>2, <1>3, <1>4, <1>5, <1>6, <1>7, <1>8, <1>9, <1>10,
     <1>11, <1>12, <1>13, <1>14, <1>15, <1>16, <1>17, <1>18, <1>19 DEF DialNext

\* Every step keeps the reader where the stream goes on.
LEMMA ReaderStep ==
  ASSUME DialTypeOK, ReaderInv, [DialNext]_dialVars
  PROVE  ReaderInv'
<1> USE DialingAssumption DEF dialVars, serverSide, readerSide, timeSide, Ended, Untouched, Shaking, Handed,
       Unlimited, Dead, Stop, FailDialing, Fill, DialTypeOK, ReaderInv
<1>1. CASE CallDial
  BY <1>1 DEF CallDial
<1>2. CASE OpenSocket
  BY <1>2 DEF OpenSocket
<1>3. CASE FailConnect
  BY <1>3 DEF FailConnect
<1>4. CASE Guard
  BY <1>4 DEF Guard
<1>5. CASE WriteRequest
  BY <1>5 DEF WriteRequest
<1>6. CASE FailHandshake
  BY <1>6 DEF FailHandshake
<1>7. CASE ReadHandshake
  BY <1>7 DEF ReadHandshake
<1>8. CASE ReadResponse
  BY <1>8 DEF ReadResponse
<1>9. CASE MissResponse
  BY <1>9 DEF MissResponse
<1>10. CASE CheckContext
  BY <1>10 DEF CheckContext
<1>11. CASE ReturnStream
  BY <1>11 DEF ReturnStream
<1>12. CASE NewClient
  BY <1>12 DEF NewClient
<1>13. CASE RunWatcher
  BY <1>13 DEF RunWatcher
<1>14. CASE ReadStream
  <2>1. CASE next <= taken
    <3>1. heard' = Append(heard, next) /\ next' = next + 1
      BY <1>14, <2>1 DEF ReadStream
    <3>2. Len(heard') = Len(heard) + 1 /\ Len(heard) \in Nat
      BY <3>1, AppendToHeard
    <3>3. /\ dial = "client" /\ dial' = dial /\ heard' # <<>>
          /\ UNCHANGED <<taken, allowance, supplied, response>>
      BY <1>14, <2>1, <3>2 DEF ReadStream
    <3> QED
      BY <3>1, <3>2, <3>3
  <2>2. CASE ~(next <= taken)
    BY <1>14, <2>2 DEF ReadStream
  <2> QED
    BY <2>1, <2>2
<1>15. CASE FillStream
  BY <1>15 DEF FillStream
<1>16. CASE Supply
  BY <1>16 DEF Supply
<1>17. CASE EndContext
  BY <1>17 DEF EndContext
<1>18. CASE Elapse
  BY <1>18 DEF Elapse
<1>19. CASE UNCHANGED dialVars
  BY <1>19
<1> QED
  BY <1>1, <1>2, <1>3, <1>4, <1>5, <1>6, <1>7, <1>8, <1>9, <1>10,
     <1>11, <1>12, <1>13, <1>14, <1>15, <1>16, <1>17, <1>18, <1>19 DEF DialNext

\* Every step appends to what was heard the byte of the stream that follows.
LEMMA BeginsStep ==
  ASSUME DialTypeOK, ReaderInv, StreamBegins, [DialNext]_dialVars
  PROVE  StreamBegins'
<1> USE DialingAssumption DEF dialVars, serverSide, readerSide, timeSide, Ended, Untouched, Shaking, Handed,
       Unlimited, Dead, Stop, FailDialing, Fill, DialTypeOK, ReaderInv, StreamBegins
<1>1. CASE CallDial
  BY <1>1 DEF CallDial
<1>2. CASE OpenSocket
  BY <1>2 DEF OpenSocket
<1>3. CASE FailConnect
  BY <1>3 DEF FailConnect
<1>4. CASE Guard
  BY <1>4 DEF Guard
<1>5. CASE WriteRequest
  BY <1>5 DEF WriteRequest
<1>6. CASE FailHandshake
  BY <1>6 DEF FailHandshake
<1>7. CASE ReadHandshake
  BY <1>7 DEF ReadHandshake
<1>8. CASE ReadResponse
  BY <1>8 DEF ReadResponse
<1>9. CASE MissResponse
  BY <1>9 DEF MissResponse
<1>10. CASE CheckContext
  BY <1>10 DEF CheckContext
<1>11. CASE ReturnStream
  BY <1>11 DEF ReturnStream
<1>12. CASE NewClient
  BY <1>12 DEF NewClient
<1>13. CASE RunWatcher
  BY <1>13 DEF RunWatcher
<1>14. CASE ReadStream
  <2>1. CASE next <= taken
    <3>1. heard' = Append(heard, next) /\ response' = response /\ next = response.length + 1 + Len(heard)
      BY <1>14, <2>1 DEF ReadStream
    <3>2. SUFFICES ASSUME NEW i \in DOMAIN heard' PROVE heard'[i] = response.length + i
      BY <3>1
    <3>3. CASE i \in DOMAIN heard
      BY <3>1, <3>3, AppendToHeard
    <3>4. CASE i = Len(heard) + 1
      BY <3>1, <3>4, AppendToHeard
    <3> QED
      BY <3>1, <3>2, <3>3, <3>4, AppendToHeard
  <2>2. CASE ~(next <= taken)
    BY <1>14, <2>2 DEF ReadStream
  <2> QED
    BY <2>1, <2>2
<1>15. CASE FillStream
  BY <1>15 DEF FillStream
<1>16. CASE Supply
  BY <1>16 DEF Supply
<1>17. CASE EndContext
  BY <1>17 DEF EndContext
<1>18. CASE Elapse
  BY <1>18 DEF Elapse
<1>19. CASE UNCHANGED dialVars
  BY <1>19
<1> QED
  BY <1>1, <1>2, <1>3, <1>4, <1>5, <1>6, <1>7, <1>8, <1>9, <1>10,
     <1>11, <1>12, <1>13, <1>14, <1>15, <1>16, <1>17, <1>18, <1>19 DEF DialNext

\* Every step that breaks the stream has the server or the context to blame.
LEMMA BreakStep ==
  ASSUME DialTypeOK, WatcherInv, SocketInv, ReaderInv, (dial = "broken" => endedInTime \/ hungUp), [DialNext]_dialVars
  PROVE  (dial = "broken" => endedInTime \/ hungUp)'
<1> USE DialingAssumption DEF dialVars, serverSide, readerSide, timeSide, Ended, Untouched, Shaking, Handed,
       Unlimited, Dead, Stop, FailDialing, Fill, DialTypeOK, WatcherInv, SocketInv, ReaderInv
<1>1. CASE CallDial
  BY <1>1 DEF CallDial
<1>2. CASE OpenSocket
  BY <1>2 DEF OpenSocket
<1>3. CASE FailConnect
  BY <1>3 DEF FailConnect
<1>4. CASE Guard
  BY <1>4 DEF Guard
<1>5. CASE WriteRequest
  BY <1>5 DEF WriteRequest
<1>6. CASE FailHandshake
  BY <1>6 DEF FailHandshake
<1>7. CASE ReadHandshake
  BY <1>7 DEF ReadHandshake
<1>8. CASE ReadResponse
  BY <1>8 DEF ReadResponse
<1>9. CASE MissResponse
  BY <1>9 DEF MissResponse
<1>10. CASE CheckContext
  BY <1>10 DEF CheckContext
<1>11. CASE ReturnStream
  BY <1>11 DEF ReturnStream
<1>12. CASE NewClient
  BY <1>12 DEF NewClient
<1>13. CASE RunWatcher
  BY <1>13 DEF RunWatcher
<1>14. CASE ReadStream
  BY <1>14 DEF ReadStream
<1>15. CASE FillStream
  BY <1>15 DEF FillStream
<1>16. CASE Supply
  BY <1>16 DEF Supply
<1>17. CASE EndContext
  BY <1>17 DEF EndContext
<1>18. CASE Elapse
  BY <1>18 DEF Elapse
<1>19. CASE UNCHANGED dialVars
  BY <1>19
<1> QED
  BY <1>1, <1>2, <1>3, <1>4, <1>5, <1>6, <1>7, <1>8, <1>9, <1>10,
     <1>11, <1>12, <1>13, <1>14, <1>15, <1>16, <1>17, <1>18, <1>19 DEF DialNext

-----------------------------------------------------------------------------

\* Before Dial is called there is no socket.
LEMMA InitDialInv == DialInit => DialInv
<1> SUFFICES ASSUME DialInit PROVE DialInv
  OBVIOUS
<1> USE DialingAssumption DEF DialInit, Ended, Untouched, Shaking, Handed, Unlimited
<1>1. DialTypeOK
  <2>1. /\ deadline \in BOOLEAN /\ ctxEnded \in BOOLEAN /\ elapsed \in BOOLEAN
        /\ hungUp \in BOOLEAN /\ endedInTime \in BOOLEAN
    BY Zenon
  <2>2. response \in [length : 0..(HeaderLimit + 1), right : BOOLEAN]
    OBVIOUS
  <2>3. heard \in Seq(Nat) /\ allowance \in Nat
    OBVIOUS
  <2> QED
    BY <2>1, <2>2, <2>3 DEF DialTypeOK
<1>2. WatcherInv /\ SocketInv /\ ReaderInv
  BY DEF WatcherInv, SocketInv, ReaderInv
<1>3. StreamBegins
  BY DEF StreamBegins
<1> QED
  BY <1>1, <1>2, <1>3 DEF DialInv

\* Every step, and a stutter, keeps the inductive invariant.
LEMMA NextDialInv == DialInv /\ [DialNext]_dialVars => DialInv'
BY TypeStep, WatcherStep, SocketStep, ReaderStep, BeginsStep, BreakStep DEF DialInv

\* The inductive invariant holds in every behaviour of a dial.
THEOREM DialInvariance == DialSpec => []DialInv
BY InitDialInv, NextDialInv, PTL DEF DialSpec

\* A dial that fails leaves no socket open, and one that is over leaves no
\* AfterFunc that could close it later.
THEOREM FailedDialLeavesNothing == DialSpec => []NothingLeftBehind
<1>1. DialInv => NothingLeftBehind
  BY DEF DialInv, SocketInv, WatcherInv, NothingLeftBehind
<1> QED BY DialInvariance, <1>1, PTL

\* The stream begins with the byte behind the response, misses none, and breaks
\* only by the server or if its context had ended when Dial returned.
THEOREM StreamHandedOver == DialSpec => []StreamIntact
<1>1. DialInv => StreamBegins
  BY DEF DialInv
<1>2. DialInv => StreamLives
  BY DEF DialInv, DialTypeOK, SocketInv, WatcherInv, StreamLives, Dead, Untouched, Shaking, Handed
<1> QED BY DialInvariance, <1>1, <1>2, PTL DEF StreamIntact
=============================================================================
