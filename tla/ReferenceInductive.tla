------------------------- MODULE ReferenceInductive -------------------------
(***************************************************************************)
(* The inductive invariant of Reference: what was meant and what was sent  *)
(* are made of the text, or of a Reference that was read from it.          *)
(***************************************************************************)
EXTENDS Reference

Versions == {0, 1, 10, 11}

References ==
  [valid : {TRUE}, capability : Seq(Tokens), provider : Seq(Tokens), implementation : Seq(Tokens),
   version : Versions]

RefTypeOK ==
  /\ text \in Seq(Tokens) /\ called \in {"no", "Call", "version", "provider"}
  /\ meant \in References \cup {Invalid}

\* What CallResponse sends of a text.
Sent(value) == IF ParseReference(value).valid THEN value ELSE NoText

CallInv ==
  /\ called = "no" => meant = Invalid /\ sentText = NoText
  /\ called = "Call" => meant = ParseReference(text) /\ sentText = Sent(text)
  /\ called \in {"version", "provider"} /\ meant.valid =>
       capabilityName(meant.capability) /\ sentText = Sent(RefString(meant))

RefInv == RefTypeOK /\ CallInv
=============================================================================
