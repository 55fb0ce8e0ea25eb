----------------------------- MODULE Reference -----------------------------
(***************************************************************************)
(* Capability references (reference.go) and the calls that take one apart, *)
(* change it and put it together again (service.go 283-315).  A text is a  *)
(* sequence of tokens: "lyre.", "@", ".", " ", the letter "v", the digits  *)
(* "0" and "1", and "a" for a run of other letters.                        *)
(***************************************************************************)
EXTENDS Naturals, Sequences, SequencesExt

CONSTANTS MaxPart,     \* bound: tokens between two "@" of a text,
          MaxArgument, \* tokens of a provider or implementation given apart,
          MaxBase      \* and tokens of the text given along with them

ASSUME ReferenceAssumption == {MaxPart, MaxArgument, MaxBase} \subseteq Nat

Letters == {"a", "v"}
Digits == {"0", "1"}
Tokens == {"lyre.", "@", ".", " "} \cup Letters \cup Digits
Tail1(s, ok) == \A i \in 2..Len(s) : s[i] \in ok

\* The regular expressions, without their limit of 100 characters.
identifier(s) ==
  s # <<>> /\ Head(s) \in Letters \cup Digits /\ Tail1(s, Letters \cup Digits \cup {"."})
capabilityName(s) ==
  s \notin {<<>>, <<"v">>} /\ Head(s) \in Letters /\ Tail1(s, Letters \cup Digits \cup {"."})

-----------------------------------------------------------------------------
(* Reference.String.  A version of two digits is the largest: 32 bits.      *)

NoText == <<"none">>
Digit(n) == IF n = 0 THEN "0" ELSE "1"
FormatUint(n) == IF n < 10 THEN <<Digit(n)>> ELSE <<Digit(n \div 10), Digit(n % 10)>>

RefString(r) ==
  <<"lyre.">> \o r.capability
  \o (IF r.provider = <<>> THEN <<>> ELSE <<"@">> \o r.provider \o <<".">> \o r.implementation)
  \o (IF r.version = 0 THEN <<>> ELSE <<"@", "v">> \o FormatUint(r.version))

-----------------------------------------------------------------------------
(* ParseReference. *)

Invalid == [valid |-> FALSE]
Capability(name) ==
  [valid |-> TRUE, capability |-> name, provider |-> <<>>, implementation |-> <<>>, version |-> 0]

TrimSpace(value) ==
  LET solid == {i \in 1..Len(value) : value[i] # " "}
  IN IF solid = {} THEN <<>> ELSE SubSeq(value, Min(solid), Max(solid))

Places(s, token) == {i \in 1..Len(s) : s[i] = token}

\* strings.Index, from 1, and 0 if there is none.
Index(s, token) == IF Places(s, token) = {} THEN 0 ELSE Min(Places(s, token))

\* strings.Split at "@".  A fourth part, which is one too many, has the others in it.
Split(s) == SubSeq(s, 1, Index(s, "@") - 1)
Others(s) == SubSeq(s, Index(s, "@") + 1, Len(s))
Whole(s) == Index(s, "@") = 0
Parts(s) ==
  LET t == Others(s)
      u == Others(t)
  IN IF Whole(s) THEN <<s>>
     ELSE IF Whole(t) THEN <<Split(s), t>>
     ELSE IF Whole(u) THEN <<Split(s), Split(t), u>>
     ELSE <<Split(s), Split(t), Split(u), Others(u)>>

IsVersion(part) == part # <<>> /\ Head(part) = "v" /\ "." \notin Range(part)

\* The digits behind the zeros in front.
Significant(digits) ==
  LET ones == {i \in 1..Len(digits) : digits[i] # "0"}
  IN IF ones = {} THEN <<>> ELSE SubSeq(digits, Min(ones), Len(digits))
DigitValue(d) == IF d = "1" THEN 1 ELSE 0

\* The value of the digits behind the "v", 0 if they are none or beyond 32 bits.
ParseUint(digits) ==
  LET s == Significant(digits)
  IN IF ~(Range(digits) \subseteq Digits) \/ s = <<>> \/ Len(s) > 2 THEN 0
     ELSE IF Len(s) = 1 THEN DigitValue(s[1]) ELSE 10 * DigitValue(s[1]) + DigitValue(s[2])

\* Mutant of Cut: the last dot.
CutLast(part) == IF Places(part, ".") = {} THEN 0 ELSE Max(Places(part, "."))

\* strings.Cut at ".": where the first one is, 0 if there is none.
Cut(part) == Index(part, ".")

\* Mutant of TooLate: a provider may follow the version.
TooLateAnyOrder(r) == r.provider # <<>>

\* Whether a provider part is one too many, or behind the version.
TooLate(r) == r.provider # <<>> \/ r.version # 0

\* The body of the loop over the parts behind the capability.
ParsePart(r, part) ==
  IF ~r.valid THEN Invalid
  ELSE IF IsVersion(part)
  THEN IF r.version # 0 \/ ParseUint(Tail(part)) = 0
       THEN Invalid ELSE [r EXCEPT !.version = ParseUint(Tail(part))]
  ELSE LET dot == Cut(part)
           provider == SubSeq(part, 1, dot - 1)
           implementation == SubSeq(part, dot + 1, Len(part))
       IN IF TooLate(r) \/ dot = 0 \/ ~identifier(provider) \/ ~identifier(implementation)
          THEN Invalid
          ELSE [r EXCEPT !.provider = provider, !.implementation = implementation]

\* The loop, which has three parts at most.
ParseParts(parts) ==
  LET Step(r, k) == IF k > Len(parts) THEN r ELSE ParsePart(r, parts[k])
  IN Step(Step(Capability(Head(parts)), 2), 3)

ParseReference(given) ==
  LET value == TrimSpace(given)
      parts == Parts(Tail(value))
  IN IF value = <<>> \/ Head(value) # "lyre." THEN Invalid
     ELSE IF Len(parts) > 3 \/ ~capabilityName(Head(parts)) THEN Invalid
     ELSE ParseParts(parts)

-----------------------------------------------------------------------------
(* A caller puts a text together and calls. *)

VARIABLES text,     \* the reference given
          called,   \* "no", or the kind of call
          meant,    \* the Reference the call was to name
          sentText  \* ToService of the message, NoText if the call failed

refVars == <<text, called, meant, sentText>>

Words(tokens, n) == UNION {[1..k -> tokens] : k \in 0..n}

RefStart(value) == text = value /\ called = "no" /\ meant = Invalid /\ sentText = NoText

RefInit ==
  \E value \in
    {<<"lyre.", "a">>, <<"lyre.", "a", ".", "v">>, <<"lyre.", "v">>, <<"lyre.", "v", "1">>,
     <<"lyre.", "1">>, <<"lyre.">>, <<" ", "lyre.", "a">>, <<"a">>, <<>>} :
    RefStart(value)

\* One more part behind an "@", or white space at the end.
Extend ==
  /\ called = "no"
  /\ \/ /\ Len(SelectSeq(text, LAMBDA token : token = "@")) < 2
        /\ \E part \in Words({"a", "v", "."}, MaxPart) \cup {<<"v">> \o d : d \in Words(Digits, 3)} :
             text' = text \o <<"@">> \o part
     \/ text # <<>> /\ Last(text) # " " /\ text' = Append(text, " ")
  /\ UNCHANGED <<called, meant, sentText>>

\* CallResponse checks the text and sends it as it is.
CallResponse(value) == sentText' = IF ParseReference(value).valid THEN value ELSE NoText

Call ==
  /\ called = "no" /\ called' = "Call"
  /\ meant' = ParseReference(text) /\ CallResponse(text)
  /\ UNCHANGED text

\* The calls that change parts of the reference, to one of some others, and send
\* its String.
CallWith(kind, others) ==
  /\ called = "no" /\ called' = kind
  /\ IF ParseReference(text).valid
     THEN \E changed \in others : meant' = changed /\ CallResponse(RefString(changed))
     ELSE meant' = Invalid /\ UNCHANGED sentText
  /\ UNCHANGED text

CallCapabilityVersion ==
  LET r == ParseReference(text)
  IN CallWith("version", {[r EXCEPT !.version = n] : n \in {0, 1, 11}})

\* CallProviderCapability keeps the version, CallProviderCapabilityVersion does not.
Replaced(r, p, i, n) == [r EXCEPT !.provider = p, !.implementation = i, !.version = n]
WithProvider(r) ==
  LET arguments == Words({"a", "v", "1", ".", "@"}, MaxArgument)
  IN {Replaced(r, p, i, n) : p \in arguments, i \in arguments, n \in {r.version, 10}}

CallProviderCapability ==
  Len(text) <= MaxBase /\ CallWith("provider", WithProvider(ParseReference(text)))

RefNext == Extend \/ Call \/ CallCapabilityVersion \/ CallProviderCapability

RefSpec == RefInit /\ [][RefNext]_refVars

-----------------------------------------------------------------------------
(* Properties. *)

\* s is the text without the zeros in front of its version.
WithoutZeros(s, value) ==
  \E n, zeros \in 0..Len(value) :
    /\ s = SubSeq(value, 1, n) \o SubSeq(value, n + zeros + 1, Len(value))
    /\ \A i \in (n + 1)..(n + zeros) : i <= Len(value) /\ value[i] = "0"
    /\ zeros > 0 => /\ n > 1 /\ value[n - 1] = "@" /\ value[n] = "v"
                    /\ n + zeros + 1 <= Len(value) /\ value[n + zeros + 1] = "1"

\* ParseReference takes canonical texts (reference.go:32), and others only for
\* white space around them and zeros before a version: without both, a text is
\* the String of what was made of it, so no part is dropped, moved or split elsewhere.
ParsedIsText ==
  called = "Call" /\ meant.valid => WithoutZeros(RefString(meant), TrimSpace(text))

Proper(r) ==
  \/ r.provider = <<>> /\ r.implementation = <<>>
  \/ /\ identifier(r.provider) /\ "." \notin Range(r.provider)
     /\ identifier(r.implementation)

\* The text that is sent reads as the Reference the call was to name, if its
\* provider has no dot and its parts are identifiers.  Other arguments need not
\* fail: ("a.b", "c") names ("a", "b.c"), ("a", "b@v1") adds a version, and an
\* empty provider drops the implementation (reference.go:23, 58).
SentIsMeant ==
  called # "no" /\ meant.valid /\ Proper(meant) =>
    sentText # NoText /\ ParseReference(sentText) = meant
=============================================================================
