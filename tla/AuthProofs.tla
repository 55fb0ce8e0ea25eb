----------------------------- MODULE AuthProofs -----------------------------
(***************************************************************************)
(* TLAPS proofs about the sessions of Auth, for any number of logins and   *)
(* logouts, challenge rounds and faults of the server.                     *)
(***************************************************************************)
EXTENDS AuthInductive, SequenceTheorems, TLAPS

\* A queue of one has nothing after its head.
LEMMA TailOfOne ==
  ASSUME NEW S, NEW s \in Seq(S), Len(s) = 1
  PROVE  Tail(s) = <<>>
<1>1. s # <<>>
  OBVIOUS
<1>2. Tail(s) \in Seq(S) /\ Len(Tail(s)) = 0
  BY <1>1, HeadTailProperties
<1> QED
  BY <1>2, EmptySeq

\* What comes into an empty queue is all that is in it.
LEMMA OneInNone ==
  ASSUME NEW S, NEW x \in S, NEW s \in Seq(S), s = <<>>
  PROVE  /\ Append(s, x) \in Seq(S) /\ Append(s, x) # <<>>
         /\ Len(Append(s, x)) = 1 /\ Head(Append(s, x)) = x
<1>1. Append(s, x) \in Seq(S) /\ Append(s, x) # <<>> /\ Len(Append(s, x)) = 1
  BY AppendProperties
<1>2. Append(s, x)[1] = x
  BY AppendProperties
<1> QED
  BY <1>1, <1>2

\* What the server does with a frame and the answer it makes of it.
Issues(f, a) ==
  /\ f.from \in Logins /\ a.kind = "challenge" /\ a.to = "login"
  /\ rounds' = rounds + 1 /\ challenge' = [of |-> f.from, id |-> rounds']
  /\ "newDevice" \notin Kinds => ChallengeID(a.fields) = rounds'
  /\ UNCHANGED <<served, faults>>

Grants(f, a) ==
  /\ f.from \in Logins /\ a.kind = "accept" /\ a.to = "login"
  /\ served' = f.from /\ challenge' = NoChallenge
  /\ UNCHANGED <<rounds, faults>>

Rejects(f, a) ==
  /\ a.kind \in {"refuse", "error"}
  /\ a.to \in {"any", IF f.from \in Logins THEN "login" ELSE "logout"}
  /\ challenge' = NoChallenge
  /\ UNCHANGED <<served, rounds, faults>>

Ends(f, a) ==
  /\ f.from \in Logouts /\ a.kind = "accept" /\ a.to = "logout"
  /\ served' = IF served = f.carries THEN NoOp ELSE served
  /\ UNCHANGED <<challenge, rounds, faults>>

Errs(f, a) ==
  /\ a.kind = "garbled" /\ faults' = faults + 1
  /\ served' \in {served, IF f.kind = "logout" THEN NoOp ELSE f.from}
  /\ UNCHANGED <<challenge, rounds>>

\* The server's queue loses its head and the client's gets the answer to it.
Answered(f, a) ==
  /\ outbox # <<>> /\ f = Head(outbox) /\ outbox' = Tail(outbox) /\ outbox' \in Seq(Frames)
  /\ inbox' = Append(inbox, a) /\ inbox' \in Seq(Answers) /\ a.of = f.from
  /\ UNCHANGED clientVars
  /\ Issues(f, a) \/ Grants(f, a) \/ Rejects(f, a) \/ Ends(f, a) \/ Errs(f, a)

\* An answer joins the answers under way.
LEMMA AnswerMade ==
  ASSUME NEW a \in Answers, inbox \in Seq(Answers), inbox' = Append(inbox, a)
  PROVE  inbox' \in Seq(Answers)
BY AppendProperties

\* No strings are strings, and so are the three of a challenge.
LEMMA FieldsTyped ==
  /\ <<>> \in Seq(Nat)
  /\ \A k \in {"mfa", "newDevice"}, id \in Nat :
       /\ Fields(k, id) \in Seq(Nat) /\ Fields(k, id)[3] \in Nat
       /\ k = "mfa" => Fields(k, id)[3] = id
BY DEF Fields, Text

\* The server takes the frame at the head of its queue and answers it.
LEMMA ServeCases ==
  ASSUME QueueTypeOK, Serve
  PROVE  \E f \in Frames, a \in Answers : Answered(f, a)
<1> USE AuthAssumption
<1>1. outbox # <<>> /\ outbox' = Tail(outbox) /\ UNCHANGED clientVars
  BY DEF Serve, Consume
<1>2. Head(outbox) \in Frames /\ outbox' \in Seq(Frames)
  BY <1>1, HeadTailProperties DEF QueueTypeOK
<1> DEFINE f == Head(outbox)
<1>3. /\ f.kind = "logout" <=> f.from \in Logouts
      /\ f.from \in Ops /\ f.from \in Logins \cup Logouts
  BY <1>2 DEF Frames, Ops
<1>4. \/ f.from \in Logins /\ ServeChallenge(f)
      \/ f.from \in Logins /\ ServeAccept(f)
      \/ ServeRefuse(f)
      \/ f.from \in Logouts /\ ServeEnd(f)
      \/ ServeGarbled(f)
  BY <1>3 DEF Serve, Consume, ServeLogin, ServeSubmit, ServeLogout
<1> SUFFICES \E a \in Answers :
               /\ inbox' = Append(inbox, a) /\ inbox' \in Seq(Answers) /\ a.of = f.from
               /\ Issues(f, a) \/ Grants(f, a) \/ Rejects(f, a) \/ Ends(f, a) \/ Errs(f, a)
  BY <1>1, <1>2 DEF Answered
<1> HIDE DEF f
<1>q. inbox \in Seq(Answers) /\ rounds + 1 \in Nat
  BY DEF QueueTypeOK
<1>5. CASE f.from \in Logins /\ ServeChallenge(f)
  <2>p. PICK k \in Kinds : Answer("challenge", "login", f.from, Fields(k, rounds'))
    BY <1>5 DEF ServeChallenge
  <2>q. rounds' \in Nat /\ k \in {"mfa", "newDevice"} /\ ("newDevice" \notin Kinds => k = "mfa")
    BY <1>5, <1>q DEF ServeChallenge
  <2> DEFINE a == [kind |-> "challenge", to |-> "login", of |-> f.from, fields |-> Fields(k, rounds')]
  <2>1. a \in Answers
    BY <1>3, FieldsTyped, <2>q DEF Answers
  <2>2. inbox' = Append(inbox, a)
    BY <2>p DEF Answer
  <2>3. inbox' \in Seq(Answers)
    BY <2>1, <2>2, <1>q, AnswerMade
  <2>4. Issues(f, a)
    BY <1>3, <1>5, <2>q, FieldsTyped DEF ServeChallenge, Issues, ChallengeID
  <2> QED
    BY <2>1, <2>2, <2>3, <2>4
<1>6. CASE f.from \in Logins /\ ServeAccept(f)
  <2> DEFINE a == [kind |-> "accept", to |-> "login", of |-> f.from, fields |-> <<>>]
  <2>1. a \in Answers
    BY <1>3, FieldsTyped, <1>6 DEF Answers
  <2>2. inbox' = Append(inbox, a)
    BY <1>6 DEF ServeAccept, Answer
  <2>3. inbox' \in Seq(Answers)
    BY <2>1, <2>2, <1>q, AnswerMade
  <2>4. Grants(f, a)
    BY <1>3, <1>6 DEF ServeAccept, Grants
  <2> QED
    BY <2>1, <2>2, <2>3, <2>4
<1>7. CASE ServeRefuse(f)
  <2>1. CASE Answer("refuse", IF f.from \in Logins THEN "login" ELSE "logout", f.from, <<>>)
    <3> DEFINE a == [kind |-> "refuse", to |-> IF f.from \in Logins THEN "login" ELSE "logout", of |-> f.from, fields |-> <<>>]
    <3>1. a \in Answers
      BY <1>3, FieldsTyped DEF Answers
    <3>2. inbox' = Append(inbox, a)
      BY <2>1 DEF Answer
    <3>3. inbox' \in Seq(Answers)
      BY <3>1, <3>2, <1>q, AnswerMade
    <3>4. Rejects(f, a)
      BY <1>3, <1>7 DEF ServeRefuse, Rejects
    <3> QED
      BY <3>1, <3>2, <3>3, <3>4
  <2>2. CASE Answer("error", "any", f.from, <<>>)
    <3> DEFINE a == [kind |-> "error", to |-> "any", of |-> f.from, fields |-> <<>>]
    <3>1. a \in Answers
      BY <1>3, FieldsTyped DEF Answers
    <3>2. inbox' = Append(inbox, a)
      BY <2>2 DEF Answer
    <3>3. inbox' \in Seq(Answers)
      BY <3>1, <3>2, <1>q, AnswerMade
    <3>4. Rejects(f, a)
      BY <1>3, <1>7 DEF ServeRefuse, Rejects
    <3> QED
      BY <3>1, <3>2, <3>3, <3>4
  <2> QED
    BY <1>7, <2>1, <2>2 DEF ServeRefuse
<1>8. CASE f.from \in Logouts /\ ServeEnd(f)
  <2> DEFINE a == [kind |-> "accept", to |-> "logout", of |-> f.from, fields |-> <<>>]
  <2>1. a \in Answers
    BY <1>3, FieldsTyped, <1>8 DEF Answers
  <2>2. inbox' = Append(inbox, a)
    BY <1>8 DEF ServeEnd, Answer
  <2>3. inbox' \in Seq(Answers)
    BY <2>1, <2>2, <1>q, AnswerMade
  <2>4. Ends(f, a)
    BY <1>3, <1>8 DEF ServeEnd, Ends
  <2> QED
    BY <2>1, <2>2, <2>3, <2>4
<1>9. CASE ServeGarbled(f)
  <2> DEFINE a == [kind |-> "garbled", to |-> IF f.from \in Logins THEN "login" ELSE "logout", of |-> f.from, fields |-> <<>>]
  <2>1. a \in Answers
    BY <1>3, FieldsTyped DEF Answers
  <2>2. inbox' = Append(inbox, a)
    BY <1>9 DEF ServeGarbled, Answer
  <2>3. inbox' \in Seq(Answers)
    BY <2>1, <2>2, <1>q, AnswerMade
  <2>4. Errs(f, a)
    BY <1>3, <1>9 DEF ServeGarbled, Errs
  <2> QED
    BY <2>1, <2>2, <2>3, <2>4
<1> QED
  BY <1>4, <1>5, <1>6, <1>7, <1>8, <1>9

-----------------------------------------------------------------------------
\* Every step keeps the types and the holder of the control slot.
LEMMA TypeStep ==
  ASSUME TypeOK, QueueTypeOK, [Next]_vars
  PROVE  TypeOK'
<1> USE AuthAssumption DEF vars, clientVars, serverVars, TypeOK, Ops
<1>1. ASSUME NEW o \in Ops, Begin(o) PROVE TypeOK'
  BY <1>1 DEF Begin, Goto
<1>2. ASSUME NEW o \in Ops, TakeSlot(o) PROVE TypeOK'
  BY <1>2 DEF TakeSlot, Goto
<1>3. ASSUME NEW o \in Ops, Refuse(o) PROVE TypeOK'
  BY <1>3 DEF Refuse, Goto
<1>4. ASSUME NEW o \in Ops, Ask(o) PROVE TypeOK'
  BY <1>4 DEF Ask, Goto
<1>5. ASSUME NEW o \in Ops, AskFails(o) PROVE TypeOK'
  BY <1>5 DEF AskFails, Return, Goto
<1>6. ASSUME NEW o \in Ops, Challenged(o) PROVE TypeOK'
  BY <1>6 DEF Challenged, Goto
<1>7. ASSUME NEW o \in Ops, Submit(o) PROVE TypeOK'
  BY <1>7 DEF Submit, Goto
<1>8. ASSUME NEW o \in Ops, Decline(o) PROVE TypeOK'
  BY <1>8 DEF Decline, Return, Goto
<1>9. ASSUME NEW o \in Ops, LoggedIn(o) PROVE TypeOK'
  <2>1. entry.of \in Logins /\ session' = entry.of
    BY <1>9 DEF LoggedIn, QueueTypeOK
  <2>2. authenticated' \in BOOLEAN
    BY <1>9, Zenon DEF LoggedIn
  <2> QED
    BY <1>9, <2>1, <2>2 DEF LoggedIn, Return, Goto
<1>10. ASSUME NEW o \in Ops, LoggedOut(o) PROVE TypeOK'
  BY <1>10 DEF LoggedOut, Goto
<1>11. ASSUME NEW o \in Ops, Fails(o) PROVE TypeOK'
  BY <1>11 DEF Fails, Return, Goto
<1>12. ASSUME NEW o \in Ops, Clear(o) PROVE TypeOK'
  BY <1>12 DEF Clear, Goto
<1>13. ASSUME NEW o \in Ops, Expire(o) PROVE TypeOK'
  BY <1>13 DEF Expire, Return, Goto, Shutdown
<1>14. ASSUME NEW o \in Ops, SeeClosed(o) PROVE TypeOK'
  BY <1>14 DEF SeeClosed, Return, Goto
<1>15. ASSUME NEW o \in Ops, EndContext(o) PROVE TypeOK'
  BY <1>15 DEF EndContext
<1>16. ASSUME Close PROVE TypeOK'
  BY <1>16 DEF Close, Shutdown
<1>17. ASSUME Deliver PROVE TypeOK'
  BY <1>17 DEF Deliver, Accepts
<1>18. ASSUME Serve PROVE TypeOK'
  <2>1. PICK f \in Frames, a \in Answers : Answered(f, a)
    BY <1>18, ServeCases
  <2>2. CASE Issues(f, a)
    BY <2>1, <2>2 DEF Answered, Issues, Frames
  <2>3. CASE Grants(f, a)
    BY <2>1, <2>3 DEF Answered, Grants, Frames
  <2>4. CASE Rejects(f, a)
    BY <2>1, <2>4 DEF Answered, Rejects, Frames
  <2>5. CASE Ends(f, a)
    BY <2>1, <2>5 DEF Answered, Ends, Frames
  <2>6. CASE Errs(f, a)
    BY <2>1, <2>6 DEF Answered, Errs, Frames
  <2> QED
    BY <2>1, <2>2, <2>3, <2>4, <2>5, <2>6 DEF Answered
<1>19. ASSUME Stray PROVE TypeOK'
  BY <1>19 DEF Stray, Answer
<1>20. CASE UNCHANGED vars
  BY <1>20
<1> QED
  BY <1>1, <1>2, <1>3, <1>4, <1>5, <1>6, <1>7, <1>8, <1>9, <1>10, <1>11, <1>12, <1>13, <1>14, <1>15, <1>16, <1>17, <1>18, <1>19, <1>20 DEF Next, Step, Callback

\* Every step keeps the types of the queues and of what they hold.
LEMMA QueueStep ==
  ASSUME TypeOK, QueueTypeOK, [Next]_vars
  PROVE  QueueTypeOK'
<1> USE AuthAssumption DEF vars, clientVars, serverVars, TypeOK, Ops, QueueTypeOK, NoAnswer
<1>1. ASSUME NEW o \in Ops, Begin(o) PROVE QueueTypeOK'
  <2>1. session \in Notes /\ note' \in [Ops -> Notes]
    BY <1>1 DEF Begin, Notes
  <2> QED
    BY <1>1, <2>1 DEF Begin, Goto
<1>2. ASSUME NEW o \in Ops, TakeSlot(o) PROVE QueueTypeOK'
  BY <1>2 DEF TakeSlot, Goto
<1>3. ASSUME NEW o \in Ops, Refuse(o) PROVE QueueTypeOK'
  BY <1>3 DEF Refuse, Goto
<1>4. ASSUME NEW o \in Ops, Ask(o) PROVE QueueTypeOK'
  <2>1. Frame(o) \in Frames
    BY <1>4 DEF Ask, Frame, Frames
  <2>2. outbox' \in Seq(Frames)
    BY <1>4, <2>1, AppendProperties DEF Ask
  <2> QED
    BY <1>4, <2>2 DEF Ask, Goto
<1>5. ASSUME NEW o \in Ops, AskFails(o) PROVE QueueTypeOK'
  BY <1>5 DEF AskFails, Return, Goto
<1>6. ASSUME NEW o \in Ops, Challenged(o) PROVE QueueTypeOK'
  <2>1. ChallengeID(entry.fields) \in Notes
    BY <1>6 DEF Challenged, ChallengeID, Answers, Notes
  <2>2. note' \in [Ops -> Notes]
    BY <1>6, <2>1 DEF Challenged
  <2> QED
    BY <1>6, <2>2 DEF Challenged, Goto
<1>7. ASSUME NEW o \in Ops, Submit(o) PROVE QueueTypeOK'
  BY <1>7 DEF Submit, Goto
<1>8. ASSUME NEW o \in Ops, Decline(o) PROVE QueueTypeOK'
  BY <1>8 DEF Decline, Return, Goto
<1>9. ASSUME NEW o \in Ops, LoggedIn(o) PROVE QueueTypeOK'
  BY <1>9 DEF LoggedIn, Return, Goto
<1>10. ASSUME NEW o \in Ops, LoggedOut(o) PROVE QueueTypeOK'
  BY <1>10 DEF LoggedOut, Goto
<1>11. ASSUME NEW o \in Ops, Fails(o) PROVE QueueTypeOK'
  BY <1>11 DEF Fails, Return, Goto
<1>12. ASSUME NEW o \in Ops, Clear(o) PROVE QueueTypeOK'
  BY <1>12 DEF Clear, Goto
<1>13. ASSUME NEW o \in Ops, Expire(o) PROVE QueueTypeOK'
  BY <1>13 DEF Expire, Return, Goto, Shutdown
<1>14. ASSUME NEW o \in Ops, SeeClosed(o) PROVE QueueTypeOK'
  BY <1>14 DEF SeeClosed, Return, Goto
<1>15. ASSUME NEW o \in Ops, EndContext(o) PROVE QueueTypeOK'
  BY <1>15 DEF EndContext
<1>16. ASSUME Close PROVE QueueTypeOK'
  BY <1>16 DEF Close, Shutdown
<1>17. ASSUME Deliver PROVE QueueTypeOK'
  <2>1. Head(inbox) \in Answers /\ inbox' \in Seq(Answers)
    BY <1>17, HeadTailProperties DEF Deliver
  <2>2. slot \in Logins /\ entry'.kind = "accept" => entry'.of \in Logins
    BY <1>17, <2>1 DEF Deliver, Accepts, Answers
  <2>3. entry' \in Answers \cup {NoAnswer}
    BY <1>17, <2>1 DEF Deliver
  <2> QED
    BY <1>17, <2>1, <2>2, <2>3 DEF Deliver
<1>18. ASSUME Serve PROVE QueueTypeOK'
  <2>1. PICK f \in Frames, a \in Answers : Answered(f, a)
    BY <1>18, ServeCases
  <2>2. CASE Issues(f, a)
    BY <2>1, <2>2 DEF Answered, Issues, NoChallenge
  <2>3. CASE Grants(f, a)
    BY <2>1, <2>3 DEF Answered, Grants, NoChallenge
  <2>4. CASE Rejects(f, a)
    BY <2>1, <2>4 DEF Answered, Rejects, NoChallenge
  <2>5. CASE Ends(f, a)
    BY <2>1, <2>5 DEF Answered, Ends, NoChallenge
  <2>6. CASE Errs(f, a)
    BY <2>1, <2>6 DEF Answered, Errs, NoChallenge
  <2> QED
    BY <2>1, <2>2, <2>3, <2>4, <2>5, <2>6 DEF Answered
<1>19. ASSUME Stray PROVE QueueTypeOK'
  <2> DEFINE a == [kind |-> "error", to |-> "any", of |-> NoOp, fields |-> <<>>]
  <2>1. a \in Answers
    BY FieldsTyped DEF Answers
  <2>2. inbox' = Append(inbox, a)
    BY <1>19 DEF Stray, Answer
  <2>3. inbox' \in Seq(Answers)
    BY <2>1, <2>2, AnswerMade
  <2> QED
    BY <1>19, <2>3 DEF Stray
<1>20. CASE UNCHANGED vars
  BY <1>20
<1> QED
  BY <1>1, <1>2, <1>3, <1>4, <1>5, <1>6, <1>7, <1>8, <1>9, <1>10, <1>11, <1>12, <1>13, <1>14, <1>15, <1>16, <1>17, <1>18, <1>19, <1>20 DEF Next, Step, Callback

\* Every step keeps it to one frame or answer, that of the holder of the slot.
LEMMA FlightStep ==
  ASSUME TypeOK, QueueTypeOK, FlightInv, [Next]_vars
  PROVE  FlightInv'
<1> USE AuthAssumption DEF vars, clientVars, serverVars, TypeOK, Ops, Sound, Waiting, Reached, FlightInv
<1>1. ASSUME NEW o \in Ops, Begin(o) PROVE FlightInv'
  <2>1. (o # slot /\ note'[slot] = note[slot]) \/ slot = NoOp
    BY <1>1 DEF Begin, QueueTypeOK
  <2>2. slot # NoOp => Frame(slot)' = Frame(slot)
    BY <1>1, <2>1 DEF Begin, Frame
  <2> QED
    BY <1>1, <2>1, <2>2 DEF Begin, Goto, Replies
<1>2. ASSUME NEW o \in Ops, TakeSlot(o) PROVE FlightInv'
  BY <1>2 DEF TakeSlot, Goto
<1>3. ASSUME NEW o \in Ops, Refuse(o) PROVE FlightInv'
  BY <1>3 DEF Refuse, Goto, Replies, Frame
<1>4. ASSUME NEW o \in Ops, Ask(o) PROVE FlightInv'
  <2>1. CASE Sound
    <3>1. slot = o /\ ~Waiting /\ outbox = <<>> /\ inbox = <<>> /\ entry = NoAnswer
      BY <1>4, <2>1 DEF Ask
    <3>2. Frame(o) \in Frames
      BY <1>4 DEF Ask, Frame, Frames, QueueTypeOK
    <3>3. Len(outbox') = 1 /\ Head(outbox') = Frame(o)
      BY <1>4, <3>1, <3>2, OneInNone DEF Ask, QueueTypeOK
    <3>4. Frame(slot)' = Frame(o)
      BY <1>4, <3>1 DEF Ask, Frame
    <3> QED
      BY <1>4, <3>1, <3>3, <3>4 DEF Ask, Goto
  <2> QED
    BY <1>4, <2>1 DEF Ask
<1>5. ASSUME NEW o \in Ops, AskFails(o) PROVE FlightInv'
  BY <1>5 DEF NoAnswer, AskFails, Return, Goto
<1>6. ASSUME NEW o \in Ops, Challenged(o) PROVE FlightInv'
  BY <1>6 DEF NoAnswer, Challenged, Goto
<1>7. ASSUME NEW o \in Ops, Submit(o) PROVE FlightInv'
  BY <1>7 DEF Submit, Goto, Replies, Frame
<1>8. ASSUME NEW o \in Ops, Decline(o) PROVE FlightInv'
  BY <1>8 DEF NoAnswer, Decline, Return, Goto
<1>9. ASSUME NEW o \in Ops, LoggedIn(o) PROVE FlightInv'
  BY <1>9 DEF NoAnswer, LoggedIn, Return, Goto
<1>10. ASSUME NEW o \in Ops, LoggedOut(o) PROVE FlightInv'
  BY <1>10 DEF NoAnswer, LoggedOut, Goto
<1>11. ASSUME NEW o \in Ops, Fails(o) PROVE FlightInv'
  BY <1>11 DEF NoAnswer, Fails, Return, Goto
<1>12. ASSUME NEW o \in Ops, Clear(o) PROVE FlightInv'
  BY <1>12 DEF Clear, Goto, Replies, Frame
<1>13. ASSUME NEW o \in Ops, Expire(o) PROVE FlightInv'
  BY <1>13 DEF NoAnswer, Expire, Return, Goto, Shutdown
<1>14. ASSUME NEW o \in Ops, SeeClosed(o) PROVE FlightInv'
  BY <1>14 DEF NoAnswer, SeeClosed, Return, Goto
<1>15. ASSUME NEW o \in Ops, EndContext(o) PROVE FlightInv'
  BY <1>15 DEF EndContext, Goto, Replies, Frame
<1>16. ASSUME Close PROVE FlightInv'
  BY <1>16 DEF Close, Shutdown
<1>17. ASSUME Deliver PROVE FlightInv'
  <2>1. CASE Sound
    <3>1. Waiting /\ outbox = <<>> /\ Replies(Head(inbox)) /\ Len(inbox) = 1 /\ entry = NoAnswer
      BY <1>17, <2>1 DEF Deliver
    <3>2. inbox' = <<>> /\ entry' = Head(inbox)
      BY <1>17, <3>1, TailOfOne DEF Deliver, QueueTypeOK, Accepts, Replies
    <3> QED
      BY <1>17, <3>1, <3>2 DEF Deliver, Replies
  <2> QED
    BY <1>17, <2>1 DEF Deliver
<1>18. ASSUME Serve PROVE FlightInv'
  <2>1. PICK f \in Frames, a \in Answers : Answered(f, a)
    BY <1>18, ServeCases
  <2>2. CASE Issues(f, a)
    <3>1. CASE Sound'
      <4>1. Sound /\ Waiting /\ f = Frame(slot) /\ f.from = slot
        BY <2>1, <3>1, <2>2 DEF Answered, Issues, clientVars, QueueTypeOK, Frame
      <4>2. outbox' = <<>> /\ inbox = <<>> /\ entry' = NoAnswer
        BY <2>1, <4>1, TailOfOne DEF Answered, clientVars, QueueTypeOK
      <4>3. Len(inbox') = 1 /\ Head(inbox') = a /\ inbox' # <<>>
        BY <2>1, <4>2, OneInNone DEF Answered, QueueTypeOK
      <4>4. Replies(a)'
        BY <2>1, <4>1, <2>2 DEF Answered, Issues, clientVars, Replies, ChallengeID
      <4>5. Waiting' /\ Reached' = a
        BY <2>1, <4>1, <4>3 DEF Answered, clientVars
      <4> QED
        BY <4>2, <4>3, <4>4, <4>5
    <3> QED
      BY <3>1
  <2>3. CASE Grants(f, a)
    <3>1. CASE Sound'
      <4>1. Sound /\ Waiting /\ f = Frame(slot) /\ f.from = slot
        BY <2>1, <3>1, <2>3 DEF Answered, Grants, clientVars, QueueTypeOK, Frame
      <4>2. outbox' = <<>> /\ inbox = <<>> /\ entry' = NoAnswer
        BY <2>1, <4>1, TailOfOne DEF Answered, clientVars, QueueTypeOK
      <4>3. Len(inbox') = 1 /\ Head(inbox') = a /\ inbox' # <<>>
        BY <2>1, <4>2, OneInNone DEF Answered, QueueTypeOK
      <4>4. Replies(a)'
        BY <2>1, <4>1, <2>3 DEF Answered, Grants, clientVars, Replies, ChallengeID
      <4>5. Waiting' /\ Reached' = a
        BY <2>1, <4>1, <4>3 DEF Answered, clientVars
      <4> QED
        BY <4>2, <4>3, <4>4, <4>5
    <3> QED
      BY <3>1
  <2>4. CASE Rejects(f, a)
    <3>1. CASE Sound'
      <4>1. Sound /\ Waiting /\ f = Frame(slot) /\ f.from = slot
        BY <2>1, <3>1, <2>4 DEF Answered, Rejects, clientVars, QueueTypeOK, Frame
      <4>2. outbox' = <<>> /\ inbox = <<>> /\ entry' = NoAnswer
        BY <2>1, <4>1, TailOfOne DEF Answered, clientVars, QueueTypeOK
      <4>3. Len(inbox') = 1 /\ Head(inbox') = a /\ inbox' # <<>>
        BY <2>1, <4>2, OneInNone DEF Answered, QueueTypeOK
      <4>4. Replies(a)'
        BY <2>1, <4>1, <2>4 DEF Answered, Rejects, clientVars, Replies, ChallengeID
      <4>5. Waiting' /\ Reached' = a
        BY <2>1, <4>1, <4>3 DEF Answered, clientVars
      <4> QED
        BY <4>2, <4>3, <4>4, <4>5
    <3> QED
      BY <3>1
  <2>5. CASE Ends(f, a)
    <3>1. CASE Sound'
      <4>1. Sound /\ Waiting /\ f = Frame(slot) /\ f.from = slot
        BY <2>1, <3>1, <2>5 DEF Answered, Ends, clientVars, QueueTypeOK, Frame
      <4>2. outbox' = <<>> /\ inbox = <<>> /\ entry' = NoAnswer
        BY <2>1, <4>1, TailOfOne DEF Answered, clientVars, QueueTypeOK
      <4>3. Len(inbox') = 1 /\ Head(inbox') = a /\ inbox' # <<>>
        BY <2>1, <4>2, OneInNone DEF Answered, QueueTypeOK
      <4>4. Replies(a)'
        BY <2>1, <4>1, <2>5 DEF Answered, Ends, clientVars, Replies, ChallengeID
      <4>5. Waiting' /\ Reached' = a
        BY <2>1, <4>1, <4>3 DEF Answered, clientVars
      <4> QED
        BY <4>2, <4>3, <4>4, <4>5
    <3> QED
      BY <3>1
  <2>6. CASE Errs(f, a)
    BY <2>1, <2>6 DEF Answered, Errs, QueueTypeOK
  <2> QED
    BY <2>1, <2>2, <2>3, <2>4, <2>5, <2>6 DEF Answered
<1>19. ASSUME Stray PROVE FlightInv'
  BY <1>19 DEF Stray, QueueTypeOK
<1>20. CASE UNCHANGED vars
  BY <1>20 DEF Replies, Frame
<1> QED
  BY <1>1, <1>2, <1>3, <1>4, <1>5, <1>6, <1>7, <1>8, <1>9, <1>10, <1>11, <1>12, <1>13, <1>14, <1>15, <1>16, <1>17, <1>18, <1>19, <1>20 DEF Next, Step, Callback

\* Every step keeps a login that has a code to the challenge of the server.
LEMMA ChallengeStep ==
  ASSUME TypeOK, QueueTypeOK, FlightInv, ChallengeInv, [Next]_vars
  PROVE  ChallengeInv'
<1> USE AuthAssumption DEF vars, clientVars, serverVars, TypeOK, Ops, Sound, ChallengeInv, Due
<1>1. ASSUME NEW o \in Ops, Begin(o) PROVE ChallengeInv'
  BY <1>1 DEF Begin, Goto, QueueTypeOK
<1>2. ASSUME NEW o \in Ops, TakeSlot(o) PROVE ChallengeInv'
  BY <1>2 DEF TakeSlot, Goto, QueueTypeOK
<1>3. ASSUME NEW o \in Ops, Refuse(o) PROVE ChallengeInv'
  BY <1>3 DEF Refuse, Goto
<1>4. ASSUME NEW o \in Ops, Ask(o) PROVE ChallengeInv'
  BY <1>4 DEF Ask, Goto
<1>5. ASSUME NEW o \in Ops, AskFails(o) PROVE ChallengeInv'
  BY <1>5 DEF AskFails, Return, Goto
<1>6. ASSUME NEW o \in Ops, Challenged(o) PROVE ChallengeInv'
  <2>1. CASE Sound /\ "newDevice" \notin Kinds
    <3>1. slot = o /\ entry # NoAnswer
      BY <1>6 DEF Challenged, NoAnswer
    <3>2. Replies(entry)
      BY <1>6, <2>1, <3>1 DEF Challenged, FlightInv, Waiting, Reached
    <3>3. challenge.of = o /\ challenge.id = ChallengeID(entry.fields)
      BY <1>6, <2>1, <3>1, <3>2 DEF Challenged, Replies
    <3>4. challenge = [of |-> o, id |-> note'[o]]
      BY <1>6, <3>3 DEF Challenged, QueueTypeOK
    <3> QED
      BY <1>6, <3>1, <3>4 DEF Challenged, Goto
  <2> QED
    BY <1>6, <2>1 DEF Challenged
<1>7. ASSUME NEW o \in Ops, Submit(o) PROVE ChallengeInv'
  BY <1>7 DEF Submit, Goto
<1>8. ASSUME NEW o \in Ops, Decline(o) PROVE ChallengeInv'
  BY <1>8 DEF Decline, Return, Goto
<1>9. ASSUME NEW o \in Ops, LoggedIn(o) PROVE ChallengeInv'
  BY <1>9 DEF LoggedIn, Return, Goto
<1>10. ASSUME NEW o \in Ops, LoggedOut(o) PROVE ChallengeInv'
  BY <1>10 DEF LoggedOut, Goto
<1>11. ASSUME NEW o \in Ops, Fails(o) PROVE ChallengeInv'
  BY <1>11 DEF Fails, Return, Goto
<1>12. ASSUME NEW o \in Ops, Clear(o) PROVE ChallengeInv'
  BY <1>12 DEF Clear, Goto
<1>13. ASSUME NEW o \in Ops, Expire(o) PROVE ChallengeInv'
  BY <1>13 DEF Expire, Return, Goto, Shutdown
<1>14. ASSUME NEW o \in Ops, SeeClosed(o) PROVE ChallengeInv'
  BY <1>14 DEF SeeClosed, Return, Goto
<1>15. ASSUME NEW o \in Ops, EndContext(o) PROVE ChallengeInv'
  BY <1>15 DEF EndContext
<1>16. ASSUME Close PROVE ChallengeInv'
  BY <1>16 DEF Close, Shutdown
<1>17. ASSUME Deliver PROVE ChallengeInv'
  BY <1>17 DEF Deliver, Accepts
<1>18. ASSUME Serve PROVE ChallengeInv'
  <2>1. PICK f \in Frames, a \in Answers : Answered(f, a)
    BY <1>18, ServeCases
  <2>2. CASE Issues(f, a)
    <3>1. CASE Sound'
      <4>1. Sound /\ Waiting
        BY <2>1, <3>1, <2>2 DEF Answered, Issues, clientVars, QueueTypeOK, Waiting, FlightInv
      <4>2. outbox' = <<>>
        BY <2>1, <4>1, TailOfOne DEF Answered, clientVars, QueueTypeOK, FlightInv
      <4> QED
        BY <2>1, <4>1, <4>2 DEF Answered, clientVars, Waiting
    <3> QED
      BY <3>1
  <2>3. CASE Grants(f, a)
    <3>1. CASE Sound'
      <4>1. Sound /\ Waiting
        BY <2>1, <3>1, <2>3 DEF Answered, Grants, clientVars, QueueTypeOK, Waiting, FlightInv
      <4>2. outbox' = <<>>
        BY <2>1, <4>1, TailOfOne DEF Answered, clientVars, QueueTypeOK, FlightInv
      <4> QED
        BY <2>1, <4>1, <4>2 DEF Answered, clientVars, Waiting
    <3> QED
      BY <3>1
  <2>4. CASE Rejects(f, a)
    <3>1. CASE Sound'
      <4>1. Sound /\ Waiting
        BY <2>1, <3>1, <2>4 DEF Answered, Rejects, clientVars, QueueTypeOK, Waiting, FlightInv
      <4>2. outbox' = <<>>
        BY <2>1, <4>1, TailOfOne DEF Answered, clientVars, QueueTypeOK, FlightInv
      <4> QED
        BY <2>1, <4>1, <4>2 DEF Answered, clientVars, Waiting
    <3> QED
      BY <3>1
  <2>5. CASE Ends(f, a)
    <3>1. CASE Sound'
      <4>1. Sound /\ Waiting
        BY <2>1, <3>1, <2>5 DEF Answered, Ends, clientVars, QueueTypeOK, Waiting, FlightInv
      <4>2. outbox' = <<>>
        BY <2>1, <4>1, TailOfOne DEF Answered, clientVars, QueueTypeOK, FlightInv
      <4> QED
        BY <2>1, <4>1, <4>2 DEF Answered, clientVars, Waiting
    <3> QED
      BY <3>1
  <2>6. CASE Errs(f, a)
    BY <2>1, <2>6 DEF Answered, Errs, QueueTypeOK
  <2> QED
    BY <2>1, <2>2, <2>3, <2>4, <2>5, <2>6 DEF Answered
<1>19. ASSUME Stray PROVE ChallengeInv'
  BY <1>19 DEF Stray, QueueTypeOK
<1>20. CASE UNCHANGED vars
  BY <1>20
<1> QED
  BY <1>1, <1>2, <1>3, <1>4, <1>5, <1>6, <1>7, <1>8, <1>9, <1>10, <1>11, <1>12, <1>13, <1>14, <1>15, <1>16, <1>17, <1>18, <1>19, <1>20 DEF Next, Step, Callback

\* Every step keeps the client's view of the session to what the server serves.
LEMMA ViewStep ==
  ASSUME TypeOK, QueueTypeOK, FlightInv, ViewInv, [Next]_vars
  PROVE  ViewInv'
<1> USE AuthAssumption DEF vars, clientVars, serverVars, TypeOK, Ops, Sound, ViewInv
<1>1. ASSUME NEW o \in Ops, Begin(o) PROVE ViewInv'
  BY <1>1 DEF Begin, Goto, Accepting, Waiting, Reached
<1>2. ASSUME NEW o \in Ops, TakeSlot(o) PROVE ViewInv'
  BY <1>2 DEF TakeSlot, Goto, Accepting, Waiting, Reached
<1>3. ASSUME NEW o \in Ops, Refuse(o) PROVE ViewInv'
  BY <1>3 DEF Refuse, Goto, Accepting, Waiting, Reached
<1>4. ASSUME NEW o \in Ops, Ask(o) PROVE ViewInv'
  BY <1>4 DEF Ask, Goto, Accepting, Waiting, Reached
<1>5. ASSUME NEW o \in Ops, AskFails(o) PROVE ViewInv'
  BY <1>5 DEF AskFails, Return, Goto, Accepting, Waiting, Reached
<1>6. ASSUME NEW o \in Ops, Challenged(o) PROVE ViewInv'
  <2>1. ~Accepting \/ ~Sound
    BY <1>6 DEF Challenged, FlightInv, Accepting, Waiting, Reached, NoAnswer
  <2> QED
    BY <1>6, <2>1 DEF Challenged, Return, Goto
<1>7. ASSUME NEW o \in Ops, Submit(o) PROVE ViewInv'
  BY <1>7 DEF Submit, Goto, Accepting, Waiting, Reached
<1>8. ASSUME NEW o \in Ops, Decline(o) PROVE ViewInv'
  BY <1>8 DEF Decline, Return, Goto, Accepting, Waiting, Reached
<1>9. ASSUME NEW o \in Ops, LoggedIn(o) PROVE ViewInv'
  <2>1. CASE Sound
    <3>1. slot = o /\ entry # NoAnswer
      BY <1>9 DEF LoggedIn, NoAnswer
    <3>2. Replies(entry)
      BY <1>9, <2>1, <3>1 DEF LoggedIn, FlightInv, Waiting, Reached
    <3>3. session' = served
      BY <1>9, <3>1, <3>2 DEF LoggedIn, Replies
    <3> QED
      BY <1>9, <3>3 DEF LoggedIn
  <2> QED
    BY <1>9, <2>1 DEF LoggedIn
<1>10. ASSUME NEW o \in Ops, LoggedOut(o) PROVE ViewInv'
  BY <1>10 DEF LoggedOut, Goto
<1>11. ASSUME NEW o \in Ops, Fails(o) PROVE ViewInv'
  <2>1. ~Accepting \/ ~Sound
    BY <1>11 DEF Fails, FlightInv, Accepting, Waiting, Reached, NoAnswer
  <2> QED
    BY <1>11, <2>1 DEF Fails, Return, Goto
<1>12. ASSUME NEW o \in Ops, Clear(o) PROVE ViewInv'
  BY <1>12 DEF Clear, Goto, Accepting, Waiting, Reached
<1>13. ASSUME NEW o \in Ops, Expire(o) PROVE ViewInv'
  BY <1>13 DEF Expire, Return, Goto, Shutdown
<1>14. ASSUME NEW o \in Ops, SeeClosed(o) PROVE ViewInv'
  BY <1>14 DEF SeeClosed, Return, Goto
<1>15. ASSUME NEW o \in Ops, EndContext(o) PROVE ViewInv'
  BY <1>15 DEF EndContext, Accepting, Waiting, Reached
<1>16. ASSUME Close PROVE ViewInv'
  BY <1>16 DEF Close, Shutdown
<1>17. ASSUME Deliver PROVE ViewInv'
  <2>1. CASE Sound
    <3>1. Waiting /\ Replies(Head(inbox)) /\ Len(inbox) = 1 /\ entry = NoAnswer
      BY <1>17, <2>1 DEF Deliver, FlightInv, Waiting, Reached
    <3>2. inbox' = <<>> /\ entry' = Head(inbox)
      BY <1>17, <3>1, TailOfOne DEF Deliver, QueueTypeOK, Accepts, Replies, Waiting
    <3>3. Waiting' /\ Reached' = Reached
      BY <1>17, <3>1, <3>2 DEF Deliver, Waiting, Reached
    <3> QED
      BY <1>17, <3>3 DEF Deliver, Accepting
  <2> QED
    BY <1>17, <2>1 DEF Deliver
<1>18. ASSUME Serve PROVE ViewInv'
  <2>1. PICK f \in Frames, a \in Answers : Answered(f, a)
    BY <1>18, ServeCases
  <2>2. CASE Issues(f, a)
    <3>1. CASE Sound'
      <4>1. Sound /\ Waiting /\ f = Frame(slot) /\ f.from = slot
        BY <2>1, <3>1, <2>2 DEF Answered, Issues, clientVars, QueueTypeOK, Frame, Waiting, FlightInv
      <4>2. inbox' # <<>> /\ Head(inbox') = a /\ inbox = <<>> /\ entry = NoAnswer
        BY <2>1, <4>1, OneInNone DEF Answered, QueueTypeOK, FlightInv
      <4>3. Waiting' /\ Reached' = a /\ Reached.kind = "none"
        BY <2>1, <4>1, <4>2 DEF Answered, clientVars, Waiting, Reached, NoAnswer
      <4> QED
        BY <2>1, <4>1, <4>3, <2>2 DEF Answered, Issues, clientVars, Accepting
    <3> QED
      BY <3>1
  <2>3. CASE Grants(f, a)
    <3>1. CASE Sound'
      <4>1. Sound /\ Waiting /\ f = Frame(slot) /\ f.from = slot
        BY <2>1, <3>1, <2>3 DEF Answered, Grants, clientVars, QueueTypeOK, Frame, Waiting, FlightInv
      <4>2. inbox' # <<>> /\ Head(inbox') = a /\ inbox = <<>> /\ entry = NoAnswer
        BY <2>1, <4>1, OneInNone DEF Answered, QueueTypeOK, FlightInv
      <4>3. Waiting' /\ Reached' = a /\ Reached.kind = "none"
        BY <2>1, <4>1, <4>2 DEF Answered, clientVars, Waiting, Reached, NoAnswer
      <4> QED
        BY <2>1, <4>1, <4>3, <2>3 DEF Answered, Grants, clientVars, Accepting
    <3> QED
      BY <3>1
  <2>4. CASE Rejects(f, a)
    <3>1. CASE Sound'
      <4>1. Sound /\ Waiting /\ f = Frame(slot) /\ f.from = slot
        BY <2>1, <3>1, <2>4 DEF Answered, Rejects, clientVars, QueueTypeOK, Frame, Waiting, FlightInv
      <4>2. inbox' # <<>> /\ Head(inbox') = a /\ inbox = <<>> /\ entry = NoAnswer
        BY <2>1, <4>1, OneInNone DEF Answered, QueueTypeOK, FlightInv
      <4>3. Waiting' /\ Reached' = a /\ Reached.kind = "none"
        BY <2>1, <4>1, <4>2 DEF Answered, clientVars, Waiting, Reached, NoAnswer
      <4> QED
        BY <2>1, <4>1, <4>3, <2>4 DEF Answered, Rejects, clientVars, Accepting
    <3> QED
      BY <3>1
  <2>5. CASE Ends(f, a)
    <3>1. CASE Sound'
      <4>1. Sound /\ Waiting /\ f = Frame(slot) /\ f.from = slot
        BY <2>1, <3>1, <2>5 DEF Answered, Ends, clientVars, QueueTypeOK, Frame, Waiting, FlightInv
      <4>2. inbox' # <<>> /\ Head(inbox') = a /\ inbox = <<>> /\ entry = NoAnswer
        BY <2>1, <4>1, OneInNone DEF Answered, QueueTypeOK, FlightInv
      <4>3. Waiting' /\ Reached' = a /\ Reached.kind = "none"
        BY <2>1, <4>1, <4>2 DEF Answered, clientVars, Waiting, Reached, NoAnswer
      <4> QED
        BY <2>1, <4>1, <4>3, <2>5 DEF Answered, Ends, clientVars, Accepting
    <3> QED
      BY <3>1
  <2>6. CASE Errs(f, a)
    BY <2>1, <2>6 DEF Answered, Errs, QueueTypeOK
  <2> QED
    BY <2>1, <2>2, <2>3, <2>4, <2>5, <2>6 DEF Answered
<1>19. ASSUME Stray PROVE ViewInv'
  BY <1>19 DEF Stray, QueueTypeOK
<1>20. CASE UNCHANGED vars
  BY <1>20 DEF Accepting, Waiting, Reached
<1> QED
  BY <1>1, <1>2, <1>3, <1>4, <1>5, <1>6, <1>7, <1>8, <1>9, <1>10, <1>11, <1>12, <1>13, <1>14, <1>15, <1>16, <1>17, <1>18, <1>19, <1>20 DEF Next, Step, Callback

\* Every step keeps a client with a session to saying so, or closes it.
LEMMA TokenStep ==
  ASSUME TypeOK, QueueTypeOK, TokenInv, [Next]_vars
  PROVE  TokenInv'
<1> USE AuthAssumption DEF vars, clientVars, serverVars, TokenInv
<1>1. ASSUME NEW o \in Ops, Begin(o) PROVE TokenInv'
  BY <1>1 DEF Begin, Goto
<1>2. ASSUME NEW o \in Ops, TakeSlot(o) PROVE TokenInv'
  BY <1>2 DEF TakeSlot, Goto
<1>3. ASSUME NEW o \in Ops, Refuse(o) PROVE TokenInv'
  BY <1>3 DEF Refuse, Goto
<1>4. ASSUME NEW o \in Ops, Ask(o) PROVE TokenInv'
  BY <1>4 DEF Ask, Goto
<1>5. ASSUME NEW o \in Ops, AskFails(o) PROVE TokenInv'
  BY <1>5 DEF AskFails, Return, Goto
<1>6. ASSUME NEW o \in Ops, Challenged(o) PROVE TokenInv'
  BY <1>6 DEF Challenged, Goto
<1>7. ASSUME NEW o \in Ops, Submit(o) PROVE TokenInv'
  BY <1>7 DEF Submit, Goto
<1>8. ASSUME NEW o \in Ops, Decline(o) PROVE TokenInv'
  BY <1>8 DEF Decline, Return, Goto
<1>9. ASSUME NEW o \in Ops, LoggedIn(o) PROVE TokenInv'
  <2>1. authenticated' = TRUE
    BY <1>9, Zenon DEF LoggedIn
  <2> QED
    BY <2>1
<1>10. ASSUME NEW o \in Ops, LoggedOut(o) PROVE TokenInv'
  BY <1>10 DEF LoggedOut, Goto
<1>11. ASSUME NEW o \in Ops, Fails(o) PROVE TokenInv'
  BY <1>11 DEF Fails, Return, Goto
<1>12. ASSUME NEW o \in Ops, Clear(o) PROVE TokenInv'
  <2>1. session' = NoOp
    BY <1>12 DEF Clear
  <2> QED
    BY <2>1
<1>13. ASSUME NEW o \in Ops, Expire(o) PROVE TokenInv'
  BY <1>13 DEF Expire, Return, Goto, Shutdown
<1>14. ASSUME NEW o \in Ops, SeeClosed(o) PROVE TokenInv'
  BY <1>14 DEF SeeClosed, Return, Goto
<1>15. ASSUME NEW o \in Ops, EndContext(o) PROVE TokenInv'
  BY <1>15 DEF EndContext
<1>16. ASSUME Close PROVE TokenInv'
  BY <1>16 DEF Close, Shutdown
<1>17. ASSUME Deliver PROVE TokenInv'
  BY <1>17 DEF Deliver, Accepts
<1>18. ASSUME Serve PROVE TokenInv'
  <2>1. PICK f \in Frames, a \in Answers : Answered(f, a)
    BY <1>18, ServeCases
  <2> QED
    BY <2>1 DEF Answered
<1>19. ASSUME Stray PROVE TokenInv'
  BY <1>19 DEF Stray, Answer
<1>20. CASE UNCHANGED vars
  BY <1>20
<1> QED
  BY <1>1, <1>2, <1>3, <1>4, <1>5, <1>6, <1>7, <1>8, <1>9, <1>10, <1>11, <1>12, <1>13, <1>14, <1>15, <1>16, <1>17, <1>18, <1>19, <1>20 DEF Next, Step, Callback

\* Every step keeps the server to a session that the client has or is about to get.
LEMMA KeptStep ==
  ASSUME TypeOK, QueueTypeOK, FlightInv, KeptInv, [Next]_vars
  PROVE  KeptInv'
<1> USE AuthAssumption DEF vars, clientVars, serverVars, TypeOK, Ops, Sound, KeptInv, Agreed
<1>1. ASSUME NEW o \in Ops, Begin(o) PROVE KeptInv'
  <2>1. Accepting' <=> Accepting
    BY <1>1 DEF Begin, Goto, Accepting, Waiting, Reached
  <2>2. CASE Agreed
    <3>1. \A l \in Logouts : Running(l)' => served' \in {note'[l], NoOp}
      BY <1>1, <2>2 DEF Begin, Goto, Running, QueueTypeOK
    <3>2. \A l \in Logouts : (pc'[l] = "clearing" \/ (Accepting' /\ slot' = l)) => served' = NoOp
      BY <1>1, <2>1, <2>2 DEF Begin, Goto
    <3> QED
      BY <1>1, <2>2, <3>1, <3>2 DEF Begin
  <2>3. CASE ~Agreed
    BY <1>1, <2>1, <2>3 DEF Begin
  <2> QED
    BY <2>2, <2>3
<1>2. ASSUME NEW o \in Ops, TakeSlot(o) PROVE KeptInv'
  <2>1. ~Accepting /\ (~Sound \/ ~Accepting')
    BY <1>2 DEF TakeSlot, Goto, FlightInv, Accepting, Waiting, Reached, NoAnswer
  <2> QED
    BY <1>2, <2>1 DEF TakeSlot, Goto, Running
<1>3. ASSUME NEW o \in Ops, Refuse(o) PROVE KeptInv'
  <2>1. Accepting' <=> Accepting
    BY <1>3 DEF Refuse, Goto, Accepting, Waiting, Reached
  <2> QED
    BY <1>3, <2>1 DEF Refuse, Goto, Running
<1>4. ASSUME NEW o \in Ops, Ask(o) PROVE KeptInv'
  <2>1. ~Accepting /\ (~Sound \/ ~Accepting')
    BY <1>4 DEF Ask, Goto, FlightInv, Accepting, Waiting, Reached, NoAnswer
  <2> QED
    BY <1>4, <2>1 DEF Ask, Goto, Running
<1>5. ASSUME NEW o \in Ops, AskFails(o) PROVE KeptInv'
  <2>1. ~Accepting /\ (~Sound \/ ~Accepting')
    BY <1>5 DEF AskFails, Return, Goto, FlightInv, Accepting, Waiting, Reached, NoAnswer
  <2> QED
    BY <1>5, <2>1 DEF AskFails, Return, Goto, Running
<1>6. ASSUME NEW o \in Ops, Challenged(o) PROVE KeptInv'
  <2>1. ~Accepting \/ ~Sound
    BY <1>6 DEF Challenged, FlightInv, Accepting, Waiting, Reached, NoAnswer
  <2>2. ~Waiting'
    BY <1>6 DEF Challenged, Goto, Waiting
  <2> QED
    BY <1>6, <2>1, <2>2 DEF Challenged, Goto, Running, Accepting
<1>7. ASSUME NEW o \in Ops, Submit(o) PROVE KeptInv'
  <2>1. ~Accepting /\ (~Sound \/ ~Accepting')
    BY <1>7 DEF Submit, Goto, FlightInv, Accepting, Waiting, Reached, NoAnswer
  <2> QED
    BY <1>7, <2>1 DEF Submit, Goto, Running, QueueTypeOK
<1>8. ASSUME NEW o \in Ops, Decline(o) PROVE KeptInv'
  <2>1. ~Accepting /\ (~Sound \/ ~Accepting')
    BY <1>8 DEF Decline, Return, Goto, FlightInv, Accepting, Waiting, Reached, NoAnswer
  <2> QED
    BY <1>8, <2>1 DEF Decline, Return, Goto, Running
<1>9. ASSUME NEW o \in Ops, LoggedIn(o) PROVE KeptInv'
  <2>1. CASE Sound
    <3>1. slot = o /\ entry # NoAnswer
      BY <1>9 DEF LoggedIn, NoAnswer
    <3>2. Replies(entry)
      BY <1>9, <2>1, <3>1 DEF LoggedIn, FlightInv, Waiting, Reached
    <3>3. session' = served
      BY <1>9, <3>1, <3>2 DEF LoggedIn, Replies
    <3> QED
      BY <1>9, <3>1, <3>3 DEF LoggedIn, Return, Goto, Running, Accepting, Waiting
  <2> QED
    BY <1>9, <2>1 DEF LoggedIn, Return
<1>10. ASSUME NEW o \in Ops, LoggedOut(o) PROVE KeptInv'
  <2>1. CASE Sound
    <3>1. slot = o /\ entry # NoAnswer
      BY <1>10 DEF LoggedOut, NoAnswer
    <3>2. Accepting
      BY <1>10, <2>1, <3>1 DEF LoggedOut, FlightInv, Accepting, Waiting, Reached
    <3>3. ~Waiting'
      BY <1>10 DEF LoggedOut, Goto, Waiting
    <3> QED
      BY <1>10, <3>1, <3>2, <3>3 DEF LoggedOut, Goto, Running, Accepting
  <2> QED
    BY <1>10, <2>1 DEF LoggedOut
<1>11. ASSUME NEW o \in Ops, Fails(o) PROVE KeptInv'
  <2>1. ~Accepting \/ ~Sound
    BY <1>11 DEF Fails, FlightInv, Accepting, Waiting, Reached, NoAnswer
  <2>2. ~Waiting'
    BY <1>11 DEF Fails, Return, Goto, Waiting
  <2> QED
    BY <1>11, <2>1, <2>2 DEF Fails, Return, Goto, Running, Accepting
<1>12. ASSUME NEW o \in Ops, Clear(o) PROVE KeptInv'
  <2>1. Accepting' <=> Accepting
    BY <1>12 DEF Clear, Goto, Accepting, Waiting, Reached
  <2>2. o \in Logouts
    BY <1>12 DEF Clear, QueueTypeOK
  <2>3. CASE Agreed
    BY <1>12, <2>1, <2>2, <2>3 DEF Clear, Goto, Running
  <2>4. CASE ~Agreed
    BY <1>12, <2>1, <2>4 DEF Clear
  <2> QED
    BY <2>3, <2>4
<1>13. ASSUME NEW o \in Ops, Expire(o) PROVE KeptInv'
  BY <1>13 DEF Expire, Return, Goto, Shutdown
<1>14. ASSUME NEW o \in Ops, SeeClosed(o) PROVE KeptInv'
  BY <1>14 DEF SeeClosed, Return, Goto
<1>15. ASSUME NEW o \in Ops, EndContext(o) PROVE KeptInv'
  <2>1. Accepting' <=> Accepting
    BY <1>15 DEF EndContext, Accepting, Waiting, Reached
  <2> QED
    BY <1>15, <2>1 DEF EndContext, Running
<1>16. ASSUME Close PROVE KeptInv'
  BY <1>16 DEF Close, Shutdown
<1>17. ASSUME Deliver PROVE KeptInv'
  <2>1. CASE Sound
    <3>1. Waiting /\ Replies(Head(inbox)) /\ Len(inbox) = 1 /\ entry = NoAnswer
      BY <1>17, <2>1 DEF Deliver, FlightInv, Waiting, Reached
    <3>2. inbox' = <<>> /\ entry' = Head(inbox)
      BY <1>17, <3>1, TailOfOne DEF Deliver, QueueTypeOK, Accepts, Replies, Waiting
    <3>3. Waiting' /\ Reached' = Reached
      BY <1>17, <3>1, <3>2 DEF Deliver, Waiting, Reached
    <3>4. Accepting' <=> Accepting
      BY <3>1, <3>3 DEF Accepting
    <3>5. Agreed' <=> Agreed
      BY <1>17, <3>4 DEF Deliver, Running
    <3> QED
      BY <1>17, <3>4, <3>5 DEF Deliver
  <2> QED
    BY <1>17, <2>1 DEF Deliver
<1>18. ASSUME Serve PROVE KeptInv'
  <2>1. PICK f \in Frames, a \in Answers : Answered(f, a)
    BY <1>18, ServeCases
  <2>2. CASE Issues(f, a)
    <3>1. CASE Sound'
      <4>1. Sound /\ Waiting /\ f = Frame(slot) /\ f.from = slot
        BY <2>1, <3>1, <2>2 DEF Answered, Issues, clientVars, QueueTypeOK, Frame, Waiting, FlightInv
      <4>2. inbox' # <<>> /\ Head(inbox') = a /\ inbox = <<>> /\ entry = NoAnswer
        BY <2>1, <4>1, OneInNone DEF Answered, QueueTypeOK, FlightInv
      <4>3. ~Accepting /\ Waiting' /\ Reached' = a
        BY <2>1, <4>1, <4>2 DEF Answered, clientVars, Waiting, Reached, Accepting, NoAnswer
      <4>4. Agreed \/ overlapped # {}
        BY <4>1, <4>3
      <4>5. Accepting' <=> a.kind = "accept"
        BY <4>3 DEF Accepting
      <4> QED
        BY <2>1, <4>1, <4>4, <4>5, <2>2 DEF Answered, Issues, clientVars, Running, Waiting, Frame
    <3> QED
      BY <3>1
  <2>3. CASE Grants(f, a)
    <3>1. CASE Sound'
      <4>1. Sound /\ Waiting /\ f = Frame(slot) /\ f.from = slot
        BY <2>1, <3>1, <2>3 DEF Answered, Grants, clientVars, QueueTypeOK, Frame, Waiting, FlightInv
      <4>2. inbox' # <<>> /\ Head(inbox') = a /\ inbox = <<>> /\ entry = NoAnswer
        BY <2>1, <4>1, OneInNone DEF Answered, QueueTypeOK, FlightInv
      <4>3. ~Accepting /\ Waiting' /\ Reached' = a
        BY <2>1, <4>1, <4>2 DEF Answered, clientVars, Waiting, Reached, Accepting, NoAnswer
      <4>4. Agreed \/ overlapped # {}
        BY <4>1, <4>3
      <4>5. Accepting' <=> a.kind = "accept"
        BY <4>3 DEF Accepting
      <4> QED
        BY <2>1, <4>1, <4>4, <4>5, <2>3 DEF Answered, Grants, clientVars, Running, Waiting, Frame
    <3> QED
      BY <3>1
  <2>4. CASE Rejects(f, a)
    <3>1. CASE Sound'
      <4>1. Sound /\ Waiting /\ f = Frame(slot) /\ f.from = slot
        BY <2>1, <3>1, <2>4 DEF Answered, Rejects, clientVars, QueueTypeOK, Frame, Waiting, FlightInv
      <4>2. inbox' # <<>> /\ Head(inbox') = a /\ inbox = <<>> /\ entry = NoAnswer
        BY <2>1, <4>1, OneInNone DEF Answered, QueueTypeOK, FlightInv
      <4>3. ~Accepting /\ Waiting' /\ Reached' = a
        BY <2>1, <4>1, <4>2 DEF Answered, clientVars, Waiting, Reached, Accepting, NoAnswer
      <4>4. Agreed \/ overlapped # {}
        BY <4>1, <4>3
      <4>5. Accepting' <=> a.kind = "accept"
        BY <4>3 DEF Accepting
      <4> QED
        BY <2>1, <4>1, <4>4, <4>5, <2>4 DEF Answered, Rejects, clientVars, Running, Waiting, Frame
    <3> QED
      BY <3>1
  <2>5. CASE Ends(f, a)
    <3>1. CASE Sound'
      <4>1. Sound /\ Waiting /\ f = Frame(slot) /\ f.from = slot
        BY <2>1, <3>1, <2>5 DEF Answered, Ends, clientVars, QueueTypeOK, Frame, Waiting, FlightInv
      <4>2. inbox' # <<>> /\ Head(inbox') = a /\ inbox = <<>> /\ entry = NoAnswer
        BY <2>1, <4>1, OneInNone DEF Answered, QueueTypeOK, FlightInv
      <4>3. ~Accepting /\ Waiting' /\ Reached' = a
        BY <2>1, <4>1, <4>2 DEF Answered, clientVars, Waiting, Reached, Accepting, NoAnswer
      <4>4. Agreed \/ overlapped # {}
        BY <4>1, <4>3
      <4>5. Accepting' <=> a.kind = "accept"
        BY <4>3 DEF Accepting
      <4> QED
        BY <2>1, <4>1, <4>4, <4>5, <2>5 DEF Answered, Ends, clientVars, Running, Waiting, Frame
    <3> QED
      BY <3>1
  <2>6. CASE Errs(f, a)
    BY <2>1, <2>6 DEF Answered, Errs, QueueTypeOK, clientVars, Sound
  <2> QED
    BY <2>1, <2>2, <2>3, <2>4, <2>5, <2>6 DEF Answered
<1>19. ASSUME Stray PROVE KeptInv'
  BY <1>19 DEF Stray, QueueTypeOK
<1>20. CASE UNCHANGED vars
  BY <1>20 DEF Accepting, Waiting, Reached, Running
<1> QED
  BY <1>1, <1>2, <1>3, <1>4, <1>5, <1>6, <1>7, <1>8, <1>9, <1>10, <1>11, <1>12, <1>13, <1>14, <1>15, <1>16, <1>17, <1>18, <1>19, <1>20 DEF Next, Step, Callback

-----------------------------------------------------------------------------

\* At first nobody has begun, the queues are empty and there is no session.
LEMMA InitAInv == Init => AInv
<1> SUFFICES ASSUME Init PROVE AInv
  OBVIOUS
<1> USE AuthAssumption DEF Init, Ops
<1>1. authenticated \in BOOLEAN /\ open \in BOOLEAN
  BY Zenon
<1>2. TypeOK
  BY <1>1 DEF TypeOK
<1>3. outbox \in Seq(Frames) /\ inbox \in Seq(Answers)
  OBVIOUS
<1>4. QueueTypeOK
  BY <1>3 DEF QueueTypeOK, Notes, NoChallenge, NoAnswer
<1>5. FlightInv
  BY DEF FlightInv, Waiting
<1>6. ChallengeInv
  BY DEF ChallengeInv, Due
<1>7. ViewInv /\ TokenInv /\ KeptInv
  BY DEF ViewInv, TokenInv, KeptInv, Agreed, Accepting, Waiting, Running
<1> QED
  BY <1>2, <1>4, <1>5, <1>6, <1>7 DEF AInv

\* Every step, and a stutter, keeps the inductive invariant.
LEMMA NextAInv == AInv /\ [Next]_vars => AInv'
BY TypeStep, QueueStep, FlightStep, ChallengeStep, ViewStep, TokenStep, KeptStep DEF AInv

\* The inductive invariant holds in every behaviour.
THEOREM AuthInvariance == Spec => []AInv
BY InitAInv, NextAInv, PTL DEF Spec

\* An open client that says it is authenticated holds the session the server
\* serves, but for an exchange that is being decided, and the control slot is
\* held by whoever is in an exchange.
THEOREM SessionHolds == Spec => []SessionInv
<1>1. AInv => SessionInv
  BY AuthAssumption
     DEF AInv, SessionInv, TypeOK, Ops, ViewInv, ViewIsServed, Sound, Accepting, Waiting
<1> QED
  BY <1>1, AuthInvariance, PTL

\* A code is submitted with the ID of the challenge the server waits for, on a
\* server that challenges nobody for a new device (Auth_device shows why).
THEOREM CodeNamesChallenge ==
  ASSUME "newDevice" \notin Kinds
  PROVE  Spec => []SubmitNamesChallenge
<1>1. AInv => SubmitNamesChallenge
  <2> SUFFICES ASSUME AInv, Sound, NEW i \in DOMAIN outbox, outbox[i].kind = "submit"
               PROVE  outbox[i].carries = challenge.id /\ outbox[i].from = challenge.of
    BY DEF SubmitNamesChallenge, Sound
  <2>1. outbox # <<>> /\ outbox \in Seq(Frames)
    BY DEF AInv, QueueTypeOK
  <2>2. Waiting /\ Len(outbox) = 1 /\ Head(outbox) = Frame(slot)
    BY <2>1 DEF AInv, FlightInv
  <2>3. i = 1 /\ outbox[i] = Frame(slot)
    BY <2>1, <2>2
  <2>4. slot \in Logins /\ note[slot] # NoOp
    BY <2>2, <2>3 DEF AInv, TypeOK, Waiting, Frame, Ops
  <2>5. challenge = [of |-> slot, id |-> note[slot]]
    BY <2>1, <2>2, <2>4 DEF AInv, ChallengeInv, Due, Waiting
  <2> QED
    BY <2>3, <2>5 DEF Frame
<1> QED
  BY <1>1, AuthInvariance, PTL

\* When the operations are over, the server serves no session that an open client
\* has forgotten, unless a login succeeded while a logout was running.
THEOREM NothingForgotten == Spec => []SessionKept
<1>1. AInv => SessionKept
  BY AuthAssumption
     DEF AInv, SessionKept, TypeOK, Ops, TokenInv, KeptInv, Agreed, Sound, Accepting, Waiting
<1> QED
  BY <1>1, AuthInvariance, PTL
=============================================================================
