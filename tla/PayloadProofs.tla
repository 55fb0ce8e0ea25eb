---------------------------- MODULE PayloadProofs ----------------------------
(***************************************************************************)
(* TLAPS proofs about payloads: those of Wire, for every number of rows,   *)
(* those of Custom, for every schema and all values, and the registries of *)
(* Custom, for any number of registries, types and registrations.          *)
(***************************************************************************)
EXTENDS CustomInductive, SequenceTheorems, TLAPS

-----------------------------------------------------------------------------
(* Sequences of bytes.                                                      *)

LEMMA ZerosAre ==
  ASSUME NEW n \in Nat
  PROVE  Zeros(n) \in Seq(Nat) /\ Len(Zeros(n)) = n /\ \A x \in 1..n : Zeros(n)[x] = 0
BY DEF Zeros

LEMMA DropIs ==
  ASSUME NEW s \in Seq(Nat), NEW n \in 0..Len(s)
  PROVE  /\ Drop(s, n) \in Seq(Nat) /\ Len(Drop(s, n)) = Len(s) - n
         /\ \A x \in 1..(Len(s) - n) : Drop(s, n)[x] = s[x + n]
<1>1. n + 1 \in Int /\ Len(s) \in Int /\ \A i \in (n + 1)..Len(s) : s[i] \in Nat
  BY ElementOfSeq
<1>2. /\ SubSeq(s, n + 1, Len(s)) \in Seq(Nat)
      /\ Len(SubSeq(s, n + 1, Len(s))) = IF n + 1 <= Len(s) THEN Len(s) - (n + 1) + 1 ELSE 0
      /\ \A i \in 1..(Len(s) - (n + 1) + 1) : SubSeq(s, n + 1, Len(s))[i] = s[n + 1 + i - 1]
  BY <1>1, SubSeqProperties
<1> QED
  BY <1>2 DEF Drop

LEMMA ConcatIs ==
  ASSUME NEW s \in Seq(Nat), NEW t \in Seq(Nat)
  PROVE  /\ s \o t \in Seq(Nat) /\ Len(s \o t) = Len(s) + Len(t)
         /\ \A x \in 1..Len(s) : (s \o t)[x] = s[x]
         /\ \A x \in 1..Len(t) : (s \o t)[x + Len(s)] = t[x]
<1>1. /\ s \o t \in Seq(Nat) /\ Len(s \o t) = Len(s) + Len(t)
      /\ \A x \in 1..(Len(s) + Len(t)) : (s \o t)[x] = IF x <= Len(s) THEN s[x] ELSE t[x - Len(s)]
  BY ConcatProperties
<1>2. Len(s) \in Nat /\ Len(t) \in Nat
  OBVIOUS
<1> QED
  BY <1>1, <1>2

LEMMA PrefixIs ==
  ASSUME NEW s \in Seq(Nat), NEW n \in 0..Len(s)
  PROVE  /\ SubSeq(s, 1, n) \in Seq(Nat) /\ Len(SubSeq(s, 1, n)) = n
         /\ \A x \in 1..n : SubSeq(s, 1, n)[x] = s[x]
<1>1. n \in Int /\ \A y \in 1..n : s[y] \in Nat
  BY ElementOfSeq
<1>2. /\ SubSeq(s, 1, n) \in Seq(Nat) /\ Len(SubSeq(s, 1, n)) = IF 1 <= n THEN n - 1 + 1 ELSE 0
      /\ \A x \in 1..(n - 1 + 1) : SubSeq(s, 1, n)[x] = s[1 + x - 1]
  BY <1>1, SubSeqProperties
<1> QED
  BY <1>2

LEMMA SameBytes ==
  ASSUME NEW s \in Seq(Nat), NEW t \in Seq(Nat), Len(s) = Len(t), \A x \in 1..Len(s) : s[x] = t[x]
  PROVE  s = t
BY SeqEqual

-----------------------------------------------------------------------------
(* One field on the wire.                                                   *)

LEMMA ReadTypes ==
  ASSUME NEW c, NEW d \in Seq(Nat), Readable(c, d)
  PROVE  ValueAt(c, d) \in Seq(Nat) /\ Beyond(c, d) \in Seq(Nat)
<1> DEFINE o == Offset(c)
           w == Width(c, d)
<1>1. o \in Nat /\ Len(d) \in Nat
  BY DEF Offset
<1>2. w \in Nat
  BY ElementOfSeq DEF Width
<1>3. o + w <= Len(d)
  BY DEF Readable
<1> HIDE DEF o, w
<1>4. o + 1 \in Int /\ o + w \in Int /\ o + w + 1 \in Int
  BY <1>1, <1>2
<1>5. \A y \in (o + 1)..(o + w) : d[y] \in Nat
  <2>1. \A y \in (o + 1)..(o + w) : y \in 1..Len(d)
    BY <1>1, <1>2, <1>3
  <2> QED
    BY <2>1, ElementOfSeq
<1>6. \A y \in (o + w + 1)..Len(d) : d[y] \in Nat
  <2>1. \A y \in (o + w + 1)..Len(d) : y \in 1..Len(d)
    BY <1>1, <1>2
  <2> QED
    BY <2>1, ElementOfSeq
<1>7. SubSeq(d, o + 1, o + w) \in Seq(Nat)
  BY <1>4, <1>5, SubSeqProperties
<1>8. SubSeq(d, o + w + 1, Len(d)) \in Seq(Nat)
  BY <1>1, <1>4, <1>6, SubSeqProperties
<1> QED
  BY <1>7, <1>8 DEF o, w, ValueAt, Beyond

\* A field on the wire: its value, behind its length if it has none of its own.
LEMMA EncodeForm ==
  ASSUME NEW f, NEW v \in Seq(Nat)
  PROVE  /\ Encode(f, v) \in Seq(Nat) /\ Len(Encode(f, v)) = Offset(f) + Len(v)
         /\ Prefixed(f) => Encode(f, v)[1] = Len(v) /\ \A x \in 1..Len(v) : Encode(f, v)[x + 1] = v[x]
         /\ ~Prefixed(f) => Encode(f, v) = v
<1>1. Len(v) \in Nat
  OBVIOUS
<1>2. CASE Prefixed(f)
  <2> DEFINE l == <<Len(v)>>
  <2>1. l \in Seq(Nat) /\ Len(l) = 1 /\ l[1] = Len(v)
    BY <1>1
  <2>2. Encode(f, v) = l \o v
    BY <1>2 DEF Encode
  <2> HIDE DEF l
  <2>3. /\ l \o v \in Seq(Nat) /\ Len(l \o v) = Len(l) + Len(v)
        /\ \A x \in 1..Len(l) : (l \o v)[x] = l[x]
        /\ \A x \in 1..Len(v) : (l \o v)[x + Len(l)] = v[x]
    BY <2>1, ConcatIs
  <2> QED
    BY <1>2, <2>1, <2>2, <2>3 DEF Offset
<1>3. CASE ~Prefixed(f)
  <2>1. Encode(f, v) = v
    BY <1>3, ConcatEmptySeq DEF Encode
  <2> QED
    BY <1>1, <1>3, <2>1 DEF Offset
<1> QED
  BY <1>2, <1>3

\* A field that is there whole is read as it was written, and leaves what is behind it.
LEMMA ReadsWhole ==
  ASSUME NEW f, NEW v \in Seq(Nat), Prefixed(f) \/ \A e : Width(f, e) = Len(v),
         NEW d \in Seq(Nat), Len(d) >= Len(Encode(f, v)),
         \A x \in 1..Len(Encode(f, v)) : d[x] = Encode(f, v)[x]
  PROVE  Readable(f, d) /\ ValueAt(f, d) = v /\ Beyond(f, d) = Drop(d, Len(Encode(f, v)))
<1> DEFINE w == Encode(f, v)
<1>1. /\ w \in Seq(Nat) /\ Len(w) = Offset(f) + Len(v)
      /\ Prefixed(f) => w[1] = Len(v) /\ \A x \in 1..Len(v) : w[x + 1] = v[x]
      /\ ~Prefixed(f) => w = v
  BY EncodeForm
<1>2. \A x \in 1..Len(w) : d[x] = w[x]
  OBVIOUS
<1>3. Len(d) >= Len(w) /\ Len(d) \in Nat /\ Len(v) \in Nat /\ Len(w) \in Nat
  BY <1>1
<1> HIDE DEF w
<1>4. Width(f, d) = Len(v) /\ Offset(f) \in {0, 1}
  <2>1. CASE Prefixed(f)
    <3>1. d[1] = Len(v) /\ d # <<>>
      BY <1>1, <1>2, <1>3, <2>1 DEF Offset
    <3> QED
      BY <2>1, <3>1 DEF Offset, Width
  <2>2. CASE ~Prefixed(f)
    BY <2>2 DEF Offset
  <2> QED
    BY <2>1, <2>2
<1>5. \A x \in 1..Len(v) : x + Offset(f) \in 1..Len(w) /\ d[x + Offset(f)] = v[x]
  <2>1. \A x \in 1..Len(v) : x + Offset(f) \in 1..Len(w)
    <3>1. Len(w) = Offset(f) + Len(v)
      BY <1>1
    <3> QED
      BY <1>4, <1>3, <3>1
  <2>2. \A x \in 1..Len(v) : w[x + Offset(f)] = v[x]
    <3>1. CASE Prefixed(f)
      BY <1>1, <3>1 DEF Offset
    <3>2. CASE ~Prefixed(f)
      <4>1. Offset(f) = 0 /\ w = v
        BY <1>1, <3>2 DEF Offset
      <4>2. \A x \in 1..Len(v) : x + Offset(f) = x
        BY <4>1
      <4> QED
        BY <4>1, <4>2
    <3> QED
      BY <3>1, <3>2
  <2> QED
    BY <1>2, <2>1, <2>2
<1>6. ValueAt(f, d) = v
  <2> DEFINE o == Offset(f)
             s == SubSeq(d, Offset(f) + 1, Len(w))
  <2>1. \A y \in (o + 1)..Len(w) : d[y] \in Nat
    <3>1. \A y \in (o + 1)..Len(w) : y \in 1..Len(d)
      BY <1>4, <1>3
    <3> QED
      BY <3>1, ElementOfSeq
  <2>2. /\ s \in Seq(Nat) /\ Len(s) = IF o + 1 <= Len(w) THEN Len(w) - (o + 1) + 1 ELSE 0
        /\ \A x \in 1..(Len(w) - (o + 1) + 1) : s[x] = d[o + 1 + x - 1]
    <3>1. o + 1 \in Int /\ Len(w) \in Int
      BY <1>4, <1>3
    <3> QED
      BY <2>1, <3>1, SubSeqProperties
  <2>3. o \in Nat /\ Len(w) = o + Len(v) /\ Len(v) \in Nat /\ \A x \in 1..Len(v) : d[x + o] = v[x]
    BY <1>1, <1>4, <1>5, <1>3
  <2>4. s = SubSeq(d, Offset(f) + 1, Offset(f) + Width(f, d))
    BY <1>1, <1>4
  <2> HIDE DEF o, s
  <2>5. Len(s) = Len(v) /\ \A x \in 1..Len(s) : s[x] = v[x]
    BY <2>2, <2>3
  <2>6. s = v
    BY <2>2, <2>5, SameBytes
  <2> QED
    BY <2>4, <2>6 DEF ValueAt
<1>7. Readable(f, d)
  BY <1>1, <1>4, <1>3 DEF Readable
<1>8. Beyond(f, d) = Drop(d, Len(w))
  BY <1>1, <1>4 DEF Beyond, Drop
<1> QED
  BY <1>6, <1>7, <1>8 DEF w

\* A field that is cut is not read.
LEMMA FailsCut ==
  ASSUME NEW f, NEW v \in Seq(Nat), Prefixed(f) \/ \A e : Width(f, e) = Len(v),
         NEW d \in Seq(Nat), Len(d) < Len(Encode(f, v)),
         \A x \in 1..Len(d) : d[x] = Encode(f, v)[x]
  PROVE  ~Readable(f, d)
<1> DEFINE w == Encode(f, v)
<1>1. /\ w \in Seq(Nat) /\ Len(w) = Offset(f) + Len(v) /\ (Prefixed(f) => w[1] = Len(v))
  BY EncodeForm
<1>2. Len(d) < Len(w) /\ (d # <<>> => d[1] = w[1]) /\ Len(v) \in Nat /\ Len(d) \in Nat
  OBVIOUS
<1> HIDE DEF w
<1>3. CASE Prefixed(f)
  <2>1. Offset(f) = 1 /\ Width(f, d) = (IF d = <<>> THEN 0 ELSE d[1]) /\ Len(w) = 1 + Len(v)
    BY <1>1, <1>3 DEF Offset, Width
  <2>2. CASE d = <<>>
    BY <2>1, <2>2 DEF Readable
  <2>3. CASE d # <<>>
    <3>1. d[1] = Len(v)
      BY <1>1, <1>2, <1>3, <2>3
    <3> QED
      BY <1>2, <2>1, <2>3, <3>1 DEF Readable
  <2> QED
    BY <2>2, <2>3
<1>4. CASE ~Prefixed(f)
  <2>1. Offset(f) = 0 /\ Width(f, d) = Len(v) /\ Len(w) = Len(v)
    BY <1>1, <1>2, <1>4 DEF Offset
  <2> QED
    BY <1>2, <2>1 DEF Readable
<1> QED
  BY <1>3, <1>4

-----------------------------------------------------------------------------
(* Lists of anything.                                                       *)

LEMMA SeqIsList ==
  ASSUME NEW Q, NEW s \in Seq(Q)
  PROVE  IsList(s)
<1>1. Len(s) \in Nat /\ s = [i \in 1..Len(s) |-> s[i]]
  OBVIOUS
<1> DEFINE V == {s[i] : i \in 1..Len(s)}
<1>2. \A i \in 1..Len(s) : s[i] \in V
  OBVIOUS
<1> HIDE DEF V
<1>3. [i \in 1..Len(s) |-> s[i]] \in Seq(V)
  BY <1>1, <1>2
<1> QED
  BY <1>1, <1>3 DEF V, IsList

LEMMA ListIs ==
  ASSUME NEW s, IsList(s)
  PROVE  /\ Len(s) \in Nat /\ (s = <<>> <=> Len(s) = 0)
         /\ s # <<>> => Len(s) > 0 /\ Head(s) = s[1]
BY DEF IsList

LEMMA SameList ==
  ASSUME NEW s, NEW t, IsList(s), IsList(t), Len(s) = Len(t), \A i \in 1..Len(s) : s[i] = t[i]
  PROVE  s = t
<1>1. s \in Seq({s[i] : i \in 1..Len(s)}) /\ t \in Seq({t[i] : i \in 1..Len(t)})
  BY DEF IsList
<1>2. Len(s) \in Nat /\ s = [i \in 1..Len(s) |-> s[i]] /\ t = [i \in 1..Len(t) |-> t[i]]
  BY <1>1
<1> QED
  BY <1>2

LEMMA AppendIsList ==
  ASSUME NEW s, NEW e, IsList(s)
  PROVE  /\ IsList(Append(s, e)) /\ Len(Append(s, e)) = Len(s) + 1 /\ Append(s, e)[Len(s) + 1] = e
         /\ \A i \in 1..Len(s) : Append(s, e)[i] = s[i]
<1> DEFINE P == {s[i] : i \in 1..Len(s)} \cup {e}
<1>1. s \in Seq(P) /\ e \in P
  <2>1. s \in Seq({s[i] : i \in 1..Len(s)})
    BY DEF IsList
  <2>2. \A i \in 1..Len(s) : s[i] \in P
    OBVIOUS
  <2>3. Len(s) \in Nat /\ s = [i \in 1..Len(s) |-> s[i]] /\ e \in P
    BY <2>1
  <2> HIDE DEF P
  <2> QED
    BY <2>2, <2>3
<1> HIDE DEF P
<1>2. Append(s, e) \in Seq(P)
  BY <1>1
<1>3. IsList(Append(s, e))
  BY <1>2, SeqIsList
<1>4. /\ Len(Append(s, e)) = Len(s) + 1 /\ Append(s, e)[Len(s) + 1] = e
      /\ \A i \in 1..Len(s) : Append(s, e)[i] = s[i]
  BY <1>1
<1> QED
  BY <1>3, <1>4

LEMMA ConcatIsList ==
  ASSUME NEW s, NEW t, IsList(s), IsList(t)
  PROVE  /\ IsList(s \o t) /\ Len(s \o t) = Len(s) + Len(t)
         /\ \A i \in 1..Len(s) : (s \o t)[i] = s[i]
         /\ \A i \in 1..Len(t) : (s \o t)[Len(s) + i] = t[i]
<1> DEFINE P == {s[i] : i \in 1..Len(s)} \cup {t[i] : i \in 1..Len(t)}
<1>1. s \in Seq(P) /\ t \in Seq(P)
  <2>1. s \in Seq({s[i] : i \in 1..Len(s)}) /\ t \in Seq({t[i] : i \in 1..Len(t)})
    BY DEF IsList
  <2>2. (\A i \in 1..Len(s) : s[i] \in P) /\ (\A i \in 1..Len(t) : t[i] \in P)
    OBVIOUS
  <2>3. /\ Len(s) \in Nat /\ s = [i \in 1..Len(s) |-> s[i]]
        /\ Len(t) \in Nat /\ t = [i \in 1..Len(t) |-> t[i]]
    BY <2>1
  <2> HIDE DEF P
  <2> QED
    BY <2>2, <2>3
<1> HIDE DEF P
<1>2. /\ s \o t \in Seq(P) /\ Len(s \o t) = Len(s) + Len(t) /\ Len(s) \in Nat /\ Len(t) \in Nat
      /\ \A i \in 1..(Len(s) + Len(t)) : (s \o t)[i] = IF i <= Len(s) THEN s[i] ELSE t[i - Len(s)]
  BY <1>1, ConcatProperties
<1>3. IsList(s \o t)
  BY <1>2, SeqIsList
<1>4. /\ \A i \in 1..Len(s) : (s \o t)[i] = s[i]
      /\ \A i \in 1..Len(t) : (s \o t)[Len(s) + i] = t[i]
  BY <1>2
<1> QED
  BY <1>2, <1>3, <1>4

LEMMA DropIsList ==
  ASSUME NEW s, NEW n \in Nat, IsList(s)
  PROVE  /\ IsList(Drop(s, n)) /\ Len(Drop(s, n)) = IF n <= Len(s) THEN Len(s) - n ELSE 0
         /\ \A i \in 1..(Len(s) - n) : Drop(s, n)[i] = s[i + n]
<1> DEFINE P == {s[i] : i \in 1..Len(s)}
<1>1. s \in Seq(P) /\ Len(s) \in Nat
  BY DEF IsList
<1> HIDE DEF P
<1>2. n + 1 \in Int /\ Len(s) \in Int /\ \A i \in (n + 1)..Len(s) : s[i] \in P
  BY <1>1, ElementOfSeq
<1>3. /\ SubSeq(s, n + 1, Len(s)) \in Seq(P)
      /\ Len(SubSeq(s, n + 1, Len(s))) = IF n + 1 <= Len(s) THEN Len(s) - (n + 1) + 1 ELSE 0
      /\ \A i \in 1..(Len(s) - (n + 1) + 1) : SubSeq(s, n + 1, Len(s))[i] = s[n + 1 + i - 1]
  BY <1>2, SubSeqProperties
<1>4. IsList(SubSeq(s, n + 1, Len(s)))
  BY <1>3, SeqIsList
<1> QED
  BY <1>1, <1>3, <1>4 DEF Drop

LEMMA TailIsList ==
  ASSUME NEW s, IsList(s), s # <<>>
  PROVE  /\ IsList(Tail(s)) /\ Len(Tail(s)) = Len(s) - 1
         /\ \A i \in 1..(Len(s) - 1) : Tail(s)[i] = s[i + 1]
<1> DEFINE P == {s[i] : i \in 1..Len(s)}
<1>1. s \in Seq(P) /\ Len(s) \in Nat
  BY DEF IsList
<1> HIDE DEF P
<1>2. Tail(s) \in Seq(P) /\ Len(Tail(s)) = Len(s) - 1 /\ \A i \in 1..(Len(s) - 1) : Tail(s)[i] = s[i + 1]
  BY <1>1
<1> QED
  BY <1>2, SeqIsList

\* A tuple is a list.
LEMMA TupleIsList ==
  /\ IsList(<<>>) /\ Len(<<>>) = 0
  /\ \A a, b, c :
       IsList(<<a, b, c>>) /\ Len(<<a, b, c>>) = 3
  /\ \A a, b, c, d, e :
       IsList(<<a, b, c, d, e>>) /\ Len(<<a, b, c, d, e>>) = 5
  /\ \A a, b, c, d, e, f, g :
       IsList(<<a, b, c, d, e, f, g>>) /\ Len(<<a, b, c, d, e, f, g>>) = 7
  /\ \A a, b, c, d, e, f, g, h, i :
       IsList(<<a, b, c, d, e, f, g, h, i>>) /\ Len(<<a, b, c, d, e, f, g, h, i>>) = 9
  /\ \A a, b, c, d, e, f, g, h, i, j, k, l :
       IsList(<<a, b, c, d, e, f, g, h, i, j, k, l>>) /\ Len(<<a, b, c, d, e, f, g, h, i, j, k, l>>) = 12
<1>1. IsList(<<>>) /\ Len(<<>>) = 0
  BY DEF IsList
<1>2. ASSUME NEW a, NEW b, NEW c PROVE IsList(<<a, b, c>>) /\ Len(<<a, b, c>>) = 3
  <2>1. <<a, b, c>> \in Seq({a, b, c}) /\ Len(<<a, b, c>>) = 3
    OBVIOUS
  <2> QED
    BY <2>1, SeqIsList
<1>3. ASSUME NEW a, NEW b, NEW c, NEW d, NEW e
      PROVE  /\ IsList(<<a, b, c, d, e>>)
             /\ Len(<<a, b, c, d, e>>) = 5
  <2>1. <<a, b, c, d, e>> \in Seq({a, b, c, d, e}) /\ Len(<<a, b, c, d, e>>) = 5
    OBVIOUS
  <2> QED
    BY <2>1, SeqIsList
<1>4. ASSUME NEW a, NEW b, NEW c, NEW d, NEW e, NEW f, NEW g
      PROVE  /\ IsList(<<a, b, c, d, e, f, g>>)
             /\ Len(<<a, b, c, d, e, f, g>>) = 7
  <2>1. <<a, b, c, d, e, f, g>> \in Seq({a, b, c, d, e, f, g}) /\ Len(<<a, b, c, d, e, f, g>>) = 7
    OBVIOUS
  <2> QED
    BY <2>1, SeqIsList
<1>5. ASSUME NEW a, NEW b, NEW c, NEW d, NEW e, NEW f, NEW g, NEW h, NEW i
      PROVE  /\ IsList(<<a, b, c, d, e, f, g, h, i>>)
             /\ Len(<<a, b, c, d, e, f, g, h, i>>) = 9
  <2>1. /\ <<a, b, c, d, e, f, g, h, i>> \in Seq({a, b, c, d, e, f, g, h, i})
        /\ Len(<<a, b, c, d, e, f, g, h, i>>) = 9
    OBVIOUS
  <2> QED
    BY <2>1, SeqIsList
<1>6. ASSUME NEW a, NEW b, NEW c, NEW d, NEW e, NEW f, NEW g, NEW h, NEW i, NEW j, NEW k, NEW l
      PROVE  /\ IsList(<<a, b, c, d, e, f, g, h, i, j, k, l>>)
             /\ Len(<<a, b, c, d, e, f, g, h, i, j, k, l>>) = 12
  <2>1. /\ <<a, b, c, d, e, f, g, h, i, j, k, l>> \in Seq({a, b, c, d, e, f, g, h, i, j, k, l})
        /\ Len(<<a, b, c, d, e, f, g, h, i, j, k, l>>) = 12
    OBVIOUS
  <2> QED
    BY <2>1, SeqIsList
<1> QED
  BY <1>1, <1>2, <1>3, <1>4, <1>5, <1>6

-----------------------------------------------------------------------------
(* The payloads: each reads the fields it writes.                           *)

\* A field that is written and read by the same constructor matches itself.
LEMMA FieldsFit ==
  /\ \A n : Fits(S(n), FALSE) /\ Fits(B(n), FALSE) /\ Fits(U4(n), FALSE) /\ Fits(U8(n), FALSE)
  /\ \A n : Fits(J(n), FALSE) /\ Fits(Y(n), FALSE) 
  /\ \A n : Fits(T(n), TRUE) /\ Fits(M(n), TRUE) /\ Fits(Has(n), TRUE) /\ Fits(B(n), TRUE) /\ Fits(U8(n), TRUE)
<1>1. IsList(<<>>) /\ Len(<<>>) = 0
  BY DEF IsList
<1> QED
  BY <1>1 DEF Fits, S, Y, B, U4, U8, J, T, M, Has, Field, FieldOf, Agrees, Matches, Pairs, Codings, Unlike

LEMMA SameConform ==
  ASSUME NEW Q, NEW s \in Seq(Q), \A x \in Q : Fits(x, FALSE)
  PROVE  Conforms(Codec(s, s), FALSE)
<1>1. IsList(s)
  BY SeqIsList
<1>2. \A i \in 1..Len(s) : s[i] \in Q
  OBVIOUS
<1>3. \A i \in 1..Len(s) : Fits(s[i], FALSE)
  BY <1>2, Zenon
<1> QED
  BY <1>1, <1>3 DEF Fits, MatchAll, Conforms, Codec

LEMMA ShortConform ==
  /\ \A a :
       Fits(a, FALSE) =>
         Conforms(Codec(<<a>>, <<a>>), FALSE)
  /\ \A a, b :
       Fits(a, FALSE) /\ Fits(b, FALSE) =>
         Conforms(Codec(<<a, b>>, <<a, b>>), FALSE)
  /\ \A a, b, c :
       Fits(a, FALSE) /\ Fits(b, FALSE) /\ Fits(c, FALSE) =>
         Conforms(Codec(<<a, b, c>>, <<a, b, c>>), FALSE)
  /\ \A a, b, c, d :
       Fits(a, FALSE) /\ Fits(b, FALSE) /\ Fits(c, FALSE) /\ Fits(d, FALSE) =>
         Conforms(Codec(<<a, b, c, d>>, <<a, b, c, d>>), FALSE)
  /\ \A a, b, c, d, e :
       Fits(a, FALSE) /\ Fits(b, FALSE) /\ Fits(c, FALSE) /\ Fits(d, FALSE) /\ Fits(e, FALSE) =>
         Conforms(Codec(<<a, b, c, d, e>>, <<a, b, c, d, e>>), FALSE)
  /\ \A a, b, c, d, e, f :
       Fits(a, FALSE) /\ Fits(b, FALSE) /\ Fits(c, FALSE) /\ Fits(d, FALSE) /\ Fits(e, FALSE) /\ Fits(f, FALSE) =>
         Conforms(Codec(<<a, b, c, d, e, f>>, <<a, b, c, d, e, f>>), FALSE)
<1>1. ASSUME NEW a, Fits(a, FALSE)
     PROVE  Conforms(Codec(<<a>>, <<a>>), FALSE)
  <2> DEFINE s == <<a>>
             Q == {a}
  <2>1. s \in Seq(Q)
    OBVIOUS
  <2>2. \A x \in Q : Fits(x, FALSE)
    BY <1>1, Zenon
  <2> HIDE DEF s, Q
  <2>3. Conforms(Codec(s, s), FALSE)
    BY <2>1, <2>2, SameConform
  <2> QED
    BY <2>3, Zenon DEF s
<1>2. ASSUME NEW a, NEW b, Fits(a, FALSE), Fits(b, FALSE)
     PROVE  Conforms(Codec(<<a, b>>, <<a, b>>), FALSE)
  <2> DEFINE s == <<a, b>>
             Q == {a, b}
  <2>1. s \in Seq(Q)
    OBVIOUS
  <2>2. \A x \in Q : Fits(x, FALSE)
    BY <1>2, Zenon
  <2> HIDE DEF s, Q
  <2>3. Conforms(Codec(s, s), FALSE)
    BY <2>1, <2>2, SameConform
  <2> QED
    BY <2>3, Zenon DEF s
<1>3. ASSUME NEW a, NEW b, NEW c, Fits(a, FALSE), Fits(b, FALSE), Fits(c, FALSE)
     PROVE  Conforms(Codec(<<a, b, c>>, <<a, b, c>>), FALSE)
  <2> DEFINE s == <<a, b, c>>
             Q == {a, b, c}
  <2>1. s \in Seq(Q)
    OBVIOUS
  <2>2. \A x \in Q : Fits(x, FALSE)
    BY <1>3, Zenon
  <2> HIDE DEF s, Q
  <2>3. Conforms(Codec(s, s), FALSE)
    BY <2>1, <2>2, SameConform
  <2> QED
    BY <2>3, Zenon DEF s
<1>4. ASSUME NEW a, NEW b, NEW c, NEW d,
             Fits(a, FALSE), Fits(b, FALSE), Fits(c, FALSE), Fits(d, FALSE)
     PROVE  Conforms(Codec(<<a, b, c, d>>, <<a, b, c, d>>), FALSE)
  <2> DEFINE s == <<a, b, c, d>>
             Q == {a, b, c, d}
  <2>1. s \in Seq(Q)
    OBVIOUS
  <2>2. \A x \in Q : Fits(x, FALSE)
    BY <1>4, Zenon
  <2> HIDE DEF s, Q
  <2>3. Conforms(Codec(s, s), FALSE)
    BY <2>1, <2>2, SameConform
  <2> QED
    BY <2>3, Zenon DEF s
<1>5. ASSUME NEW a, NEW b, NEW c, NEW d, NEW e,
             Fits(a, FALSE), Fits(b, FALSE), Fits(c, FALSE), Fits(d, FALSE), Fits(e, FALSE)
     PROVE  Conforms(Codec(<<a, b, c, d, e>>, <<a, b, c, d, e>>), FALSE)
  <2> DEFINE s == <<a, b, c, d, e>>
             Q == {a, b, c, d, e}
  <2>1. s \in Seq(Q)
    OBVIOUS
  <2>2. \A x \in Q : Fits(x, FALSE)
    BY <1>5, Zenon
  <2> HIDE DEF s, Q
  <2>3. Conforms(Codec(s, s), FALSE)
    BY <2>1, <2>2, SameConform
  <2> QED
    BY <2>3, Zenon DEF s
<1>6. ASSUME NEW a, NEW b, NEW c, NEW d, NEW e, NEW f,
             Fits(a, FALSE), Fits(b, FALSE), Fits(c, FALSE), Fits(d, FALSE), Fits(e, FALSE), Fits(f, FALSE)
     PROVE  Conforms(Codec(<<a, b, c, d, e, f>>, <<a, b, c, d, e, f>>), FALSE)
  <2> DEFINE s == <<a, b, c, d, e, f>>
             Q == {a, b, c, d, e, f}
  <2>1. s \in Seq(Q)
    OBVIOUS
  <2>2. \A x \in Q : Fits(x, FALSE)
    BY <1>6, Zenon
  <2> HIDE DEF s, Q
  <2>3. Conforms(Codec(s, s), FALSE)
    BY <2>1, <2>2, SameConform
  <2> QED
    BY <2>3, Zenon DEF s
<1> QED
  BY <1>1, <1>2, <1>3, <1>4, <1>5, <1>6

\* The payloads whose Unmarshal reads field by field what their Marshal writes.
LEMMA PlainConform ==
  /\ Conforms(PasswordResetRequestPayload, FALSE) /\ Conforms(LogoutPayload, FALSE)
  /\ Conforms(VerifyEmailRequestPayload, FALSE) /\ Conforms(ResendVerificationPayload, FALSE)
  /\ Conforms(ServiceListPayload, FALSE) /\ Conforms(ServiceListResponsePayload, FALSE)
  /\ Conforms(OrganizationRequestPayload, FALSE) /\ Conforms(OrganizationResponsePayload, FALSE)
  /\ Conforms(ServiceCredentialSetPayload, FALSE) /\ Conforms(PasswordResetConfirmPayload, FALSE)
  /\ Conforms(PasswordChangeRequestPayload, FALSE) /\ Conforms(PasswordChangeResponsePayload, FALSE)
  /\ Conforms(PublisherKeySetPayload, FALSE) /\ Conforms(MFASubmitPayload, FALSE)
  /\ Conforms(ErrorPayload, FALSE) /\ Conforms(LogoutResponsePayload, FALSE)
  /\ Conforms(TOTPSetupRequestPayload, FALSE) /\ Conforms(ServiceHeartbeatPayload, FALSE)
  /\ Conforms(AgentRegisterRequestPayload, FALSE) /\ Conforms(ResourceAccessResponsePayload, FALSE)
  /\ Conforms(PublisherKeyResponsePayload, FALSE) /\ Conforms(MFARequiredPayload, FALSE)
  /\ Conforms(SessionValidatePayload, FALSE) /\ Conforms(NewDeviceMFAPayload, FALSE)
  /\ Conforms(RegisterResponsePayload, FALSE) /\ Conforms(VerifyEmailResponsePayload, FALSE)
  /\ Conforms(PingPayload, FALSE) /\ Conforms(DirectMessagePayload, FALSE)
  /\ Conforms(ServiceAuthResponsePayload, FALSE)
  /\ Conforms(ServiceCredentialResponsePayload, FALSE) /\ Conforms(PongPayload, FALSE)
  /\ Conforms(ServiceResponsePayload, FALSE) /\ Conforms(ClientToServicePayload, FALSE)
  /\ Conforms(AgentRegisterResponsePayload, FALSE) /\ Conforms(ResourceAccessRequestPayload, FALSE)
  /\ Conforms(AuthResponsePayload, FALSE) /\ Conforms(RegisterRequestPayload, FALSE)
  /\ Conforms(TOTPSetupResponsePayload, FALSE)
  /\ Conforms(ServiceMessagePayload, FALSE) /\ Conforms(ServiceToClientPayload, FALSE)
<1>1. Conforms(PasswordResetRequestPayload, FALSE)
  BY FieldsFit, ShortConform DEF PasswordResetRequestPayload
<1>2. Conforms(LogoutPayload, FALSE)
  BY FieldsFit, ShortConform DEF LogoutPayload
<1>3. Conforms(VerifyEmailRequestPayload, FALSE)
  BY FieldsFit, ShortConform DEF VerifyEmailRequestPayload
<1>4. Conforms(ResendVerificationPayload, FALSE)
  BY FieldsFit, ShortConform DEF ResendVerificationPayload
<1>5. Conforms(ServiceListPayload, FALSE)
  BY FieldsFit, ShortConform DEF ServiceListPayload
<1>6. Conforms(ServiceListResponsePayload, FALSE)
  BY FieldsFit, ShortConform DEF ServiceListResponsePayload
<1>7. Conforms(OrganizationRequestPayload, FALSE)
  BY FieldsFit, ShortConform DEF OrganizationRequestPayload
<1>8. Conforms(OrganizationResponsePayload, FALSE)
  BY FieldsFit, ShortConform DEF OrganizationResponsePayload
<1>9. Conforms(ServiceCredentialSetPayload, FALSE)
  BY FieldsFit, ShortConform DEF ServiceCredentialSetPayload
<1>10. Conforms(PasswordResetConfirmPayload, FALSE)
  BY FieldsFit, ShortConform DEF PasswordResetConfirmPayload
<1>11. Conforms(PasswordChangeRequestPayload, FALSE)
  BY FieldsFit, ShortConform DEF PasswordChangeRequestPayload
<1>12. Conforms(PasswordChangeResponsePayload, FALSE)
  BY FieldsFit, ShortConform DEF PasswordChangeResponsePayload
<1>13. Conforms(PublisherKeySetPayload, FALSE)
  BY FieldsFit, ShortConform DEF PublisherKeySetPayload
<1>14. Conforms(MFASubmitPayload, FALSE)
  BY FieldsFit, ShortConform DEF MFASubmitPayload
<1>15. Conforms(ErrorPayload, FALSE)
  BY FieldsFit, ShortConform DEF ErrorPayload
<1>16. Conforms(LogoutResponsePayload, FALSE)
  BY FieldsFit, ShortConform DEF LogoutResponsePayload
<1>17. Conforms(TOTPSetupRequestPayload, FALSE)
  BY FieldsFit, ShortConform DEF TOTPSetupRequestPayload
<1>18. Conforms(ServiceHeartbeatPayload, FALSE)
  BY FieldsFit, ShortConform DEF ServiceHeartbeatPayload
<1>19. Conforms(AgentRegisterRequestPayload, FALSE)
  BY FieldsFit, ShortConform DEF AgentRegisterRequestPayload
<1>20. Conforms(ResourceAccessResponsePayload, FALSE)
  BY FieldsFit, ShortConform DEF ResourceAccessResponsePayload
<1>21. Conforms(PublisherKeyResponsePayload, FALSE)
  BY FieldsFit, ShortConform DEF PublisherKeyResponsePayload
<1>22. Conforms(MFARequiredPayload, FALSE)
  BY FieldsFit, ShortConform DEF MFARequiredPayload
<1>23. Conforms(SessionValidatePayload, FALSE)
  BY FieldsFit, ShortConform DEF SessionValidatePayload
<1>24. Conforms(NewDeviceMFAPayload, FALSE)
  BY FieldsFit, ShortConform DEF NewDeviceMFAPayload
<1>25. Conforms(RegisterResponsePayload, FALSE)
  BY FieldsFit, ShortConform DEF RegisterResponsePayload
<1>26. Conforms(VerifyEmailResponsePayload, FALSE)
  BY FieldsFit, ShortConform DEF VerifyEmailResponsePayload
<1>27. Conforms(PingPayload, FALSE)
  BY FieldsFit, ShortConform DEF PingPayload
<1>28. Conforms(DirectMessagePayload, FALSE)
  BY FieldsFit, ShortConform DEF DirectMessagePayload
<1>29. Conforms(ServiceAuthResponsePayload, FALSE)
  BY FieldsFit, ShortConform DEF ServiceAuthResponsePayload
<1>30. Conforms(ServiceCredentialResponsePayload, FALSE)
  BY FieldsFit, ShortConform DEF ServiceCredentialResponsePayload
<1>31. Conforms(PongPayload, FALSE)
  BY FieldsFit, ShortConform DEF PongPayload
<1>32. Conforms(ServiceResponsePayload, FALSE)
  BY FieldsFit, ShortConform DEF ServiceResponsePayload
<1>33. Conforms(ClientToServicePayload, FALSE)
  BY FieldsFit, ShortConform DEF ClientToServicePayload
<1>34. Conforms(AgentRegisterResponsePayload, FALSE)
  BY FieldsFit, ShortConform DEF AgentRegisterResponsePayload
<1>35. Conforms(ResourceAccessRequestPayload, FALSE)
  BY FieldsFit, ShortConform DEF ResourceAccessRequestPayload
<1>36. Conforms(AuthResponsePayload, FALSE)
  BY FieldsFit, ShortConform DEF AuthResponsePayload
<1>37. Conforms(RegisterRequestPayload, FALSE)
  BY FieldsFit, ShortConform DEF RegisterRequestPayload
<1>38. Conforms(TOTPSetupResponsePayload, FALSE)
  BY FieldsFit, ShortConform DEF TOTPSetupResponsePayload
<1>39. Conforms(ServiceMessagePayload, FALSE)
  BY FieldsFit, ShortConform DEF ServiceMessagePayload
<1>40. Conforms(ServiceToClientPayload, FALSE)
  BY FieldsFit, ShortConform DEF ServiceToClientPayload
<1> QED
  BY <1>1, <1>2, <1>3, <1>4, <1>5, <1>6, <1>7, <1>8, <1>9, <1>10, <1>11, <1>12, <1>13, <1>14, <1>15,
     <1>16, <1>17, <1>18, <1>19, <1>20, <1>21, <1>22, <1>23, <1>24, <1>25, <1>26, <1>27, <1>28,
     <1>29, <1>30, <1>31, <1>32, <1>33, <1>34, <1>35, <1>36, <1>37, <1>38, <1>39, <1>40

\* The payloads whose Unmarshal reads some field in another way: only if data is
\* left, without its error, with a limit, or in the rows of a list.
LEMMA AuthRequestConforms == Conforms(AuthRequestPayload, FALSE)
<1> USE DEF S, Y, Rest, Skip, All, Field, FieldOf, AuthRequestPayload, Codec
<1> DEFINE w == AuthRequestPayload.write
           r == AuthRequestPayload.read
<1>1. IsList(w) /\ IsList(r) /\ Len(w) = 7 /\ Len(r) = 7
  BY TupleIsList
<1>2. \A i \in 1..7 : Matches(w[i], r[i], FALSE)
  <2>1. \A i \in 1..7 : w[i].name = r[i].name /\ (r[i].loose => r[i].kind = "string" /\ r[i].name \in Dropped)
    BY DEF Dropped
  <2>2. \A i \in 1..7 : w[i].kind \in Codings \ {"jsonOrEmpty"} /\ r[i].kind \notin Unlike(FALSE)
    BY DEF Codings, Unlike
  <2>3. \A i \in 1..7 : w[i].kind = r[i].kind \/ (w[i].kind = "json" /\ r[i].kind = "jsonOrEmpty")
    OBVIOUS
  <2>4. \A i \in 1..7 : (w[i].item = <<>> /\ r[i].item = <<>>)
    OBVIOUS
  <2> HIDE DEF w, r
  <2> QED
    <3>1. IsList(<<>>) /\ Len(<<>>) = 0
      BY TupleIsList
    <3>2. \A i \in 1..7 : IsList(w[i].item) /\ IsList(r[i].item) /\ Len(w[i].item) = Len(r[i].item)
      BY <2>4, <3>1
    <3>3. \A i \in 1..7 : Pairs(w[i], r[i], FALSE)
      BY <2>1, <2>2, <2>3, <3>2 DEF Agrees, Pairs
    <3>4. \A i \in 1..7 : \A j \in 1..Len(w[i].item) :
            /\ Pairs(w[i].item[j], r[i].item[j], FALSE) /\ ~r[i].item[j].loose
            /\ w[i].item[j].item = <<>> /\ r[i].item[j].item = <<>>
      BY <2>4, <3>1
    <3> QED
      BY <3>3, <3>4 DEF Matches
<1>3. \A i \in 1..7 : r[i].loose => i = 7
  OBVIOUS
<1> HIDE DEF w, r
<1>4. MatchAll(w, r, FALSE)
  BY <1>1, <1>2, <1>3 DEF MatchAll
<1> QED
  BY <1>4 DEF Conforms, w, r

LEMMA ServiceAuthConforms == Conforms(ServiceAuthPayload, FALSE)
<1> USE DEF S, J, JE, Rest, Skip, Loose, All, Field, FieldOf, ServiceAuthPayload, Codec
<1> DEFINE w == ServiceAuthPayload.write
           r == ServiceAuthPayload.read
<1>1. IsList(w) /\ IsList(r) /\ Len(w) = 9 /\ Len(r) = 9
  BY TupleIsList
<1>2. \A i \in 1..9 : Matches(w[i], r[i], FALSE)
  <2>1. \A i \in 1..9 : w[i].name = r[i].name /\ (r[i].loose => r[i].kind = "string" /\ r[i].name \in Dropped)
    BY DEF Dropped
  <2>2. \A i \in 1..9 : w[i].kind \in Codings \ {"jsonOrEmpty"} /\ r[i].kind \notin Unlike(FALSE)
    BY DEF Codings, Unlike
  <2>3. \A i \in 1..9 : w[i].kind = r[i].kind \/ (w[i].kind = "json" /\ r[i].kind = "jsonOrEmpty")
    OBVIOUS
  <2>4. \A i \in 1..9 : (w[i].item = <<>> /\ r[i].item = <<>>)
    OBVIOUS
  <2> HIDE DEF w, r
  <2> QED
    <3>1. IsList(<<>>) /\ Len(<<>>) = 0
      BY TupleIsList
    <3>2. \A i \in 1..9 : IsList(w[i].item) /\ IsList(r[i].item) /\ Len(w[i].item) = Len(r[i].item)
      BY <2>4, <3>1
    <3>3. \A i \in 1..9 : Pairs(w[i], r[i], FALSE)
      BY <2>1, <2>2, <2>3, <3>2 DEF Agrees, Pairs
    <3>4. \A i \in 1..9 : \A j \in 1..Len(w[i].item) :
            /\ Pairs(w[i].item[j], r[i].item[j], FALSE) /\ ~r[i].item[j].loose
            /\ w[i].item[j].item = <<>> /\ r[i].item[j].item = <<>>
      BY <2>4, <3>1
    <3> QED
      BY <3>3, <3>4 DEF Matches
<1>3. \A i \in 1..9 : r[i].loose => i = 9
  OBVIOUS
<1> HIDE DEF w, r
<1>4. MatchAll(w, r, FALSE)
  BY <1>1, <1>2, <1>3 DEF MatchAll
<1> QED
  BY <1>4 DEF Conforms, w, r

LEMMA AdminRequestConforms == Conforms(AdminRequestPayload, FALSE)
<1> USE DEF S, B, Rest, Skip, All, Field, FieldOf, AdminRequestPayload, Codec
<1> DEFINE w == AdminRequestPayload.write
           r == AdminRequestPayload.read
<1>1. IsList(w) /\ IsList(r) /\ Len(w) = 5 /\ Len(r) = 5
  BY TupleIsList
<1>2. \A i \in 1..5 : Matches(w[i], r[i], FALSE)
  <2>1. \A i \in 1..5 : w[i].name = r[i].name /\ (r[i].loose => r[i].kind = "string" /\ r[i].name \in Dropped)
    BY DEF Dropped
  <2>2. \A i \in 1..5 : w[i].kind \in Codings \ {"jsonOrEmpty"} /\ r[i].kind \notin Unlike(FALSE)
    BY DEF Codings, Unlike
  <2>3. \A i \in 1..5 : w[i].kind = r[i].kind \/ (w[i].kind = "json" /\ r[i].kind = "jsonOrEmpty")
    OBVIOUS
  <2>4. \A i \in 1..5 : (w[i].item = <<>> /\ r[i].item = <<>>)
    OBVIOUS
  <2> HIDE DEF w, r
  <2> QED
    <3>1. IsList(<<>>) /\ Len(<<>>) = 0
      BY TupleIsList
    <3>2. \A i \in 1..5 : IsList(w[i].item) /\ IsList(r[i].item) /\ Len(w[i].item) = Len(r[i].item)
      BY <2>4, <3>1
    <3>3. \A i \in 1..5 : Pairs(w[i], r[i], FALSE)
      BY <2>1, <2>2, <2>3, <3>2 DEF Agrees, Pairs
    <3>4. \A i \in 1..5 : \A j \in 1..Len(w[i].item) :
            /\ Pairs(w[i].item[j], r[i].item[j], FALSE) /\ ~r[i].item[j].loose
            /\ w[i].item[j].item = <<>> /\ r[i].item[j].item = <<>>
      BY <2>4, <3>1
    <3> QED
      BY <3>3, <3>4 DEF Matches
<1>3. \A i \in 1..5 : r[i].loose => i = 5
  OBVIOUS
<1> HIDE DEF w, r
<1>4. MatchAll(w, r, FALSE)
  BY <1>1, <1>2, <1>3 DEF MatchAll
<1> QED
  BY <1>4 DEF Conforms, w, r

LEMMA AdminUserMatches ==
  /\ IsList(AdminUserWritten) /\ IsList(AdminUserRead) /\ Len(AdminUserWritten) = 9 /\ Len(AdminUserRead) = 9
  /\ \A i \in 1..9 :
       /\ Pairs(AdminUserWritten[i], AdminUserRead[i], FALSE) /\ ~AdminUserRead[i].loose
       /\ AdminUserWritten[i].item = <<>> /\ AdminUserRead[i].item = <<>>
<1> USE DEF S, B, U8, Skip, Field, FieldOf, AdminUserWritten, AdminUserRead
<1>1. IsList(AdminUserWritten) /\ IsList(AdminUserRead) /\ Len(AdminUserWritten) = 9 /\ Len(AdminUserRead) = 9
  BY TupleIsList
<1>2. \A i \in 1..9 :
        /\ Pairs(AdminUserWritten[i], AdminUserRead[i], FALSE) /\ ~AdminUserRead[i].loose
        /\ AdminUserWritten[i].item = <<>> /\ AdminUserRead[i].item = <<>>
  BY TupleIsList DEF Agrees, Pairs, Codings, Unlike, Dropped
<1> QED
  BY <1>1, <1>2

LEMMA AdminResponseConforms == Conforms(AdminResponsePayload, FALSE)
<1> USE DEF S, B, ListOf, Loose, Skip, Field, FieldOf, AdminResponsePayload, Codec
<1> DEFINE w == AdminResponsePayload.write
           r == AdminResponsePayload.read
<1>1. IsList(w) /\ IsList(r) /\ Len(w) = 5 /\ Len(r) = 5
  BY TupleIsList
<1>2. \A i \in 1..5 : Matches(w[i], r[i], FALSE)
  <2>1. \A i \in 1..5 : w[i].name = r[i].name /\ (r[i].loose => r[i].kind = "string" /\ r[i].name \in Dropped)
    BY DEF Dropped
  <2>2. \A i \in 1..5 : w[i].kind \in Codings \ {"jsonOrEmpty"} /\ r[i].kind \notin Unlike(FALSE)
    BY DEF Codings, Unlike
  <2>3. \A i \in 1..5 : w[i].kind = r[i].kind \/ (w[i].kind = "json" /\ r[i].kind = "jsonOrEmpty")
    OBVIOUS
  <2>4. \A i \in 1..5 :
          (w[i].item = <<>> /\ r[i].item = <<>>) \/ (w[i].item = AdminUserWritten /\ r[i].item = AdminUserRead)
    OBVIOUS
  <2> HIDE DEF w, r
  <2> QED
    <3>1. IsList(<<>>) /\ Len(<<>>) = 0
      BY TupleIsList
    <3>2. \A i \in 1..5 : IsList(w[i].item) /\ IsList(r[i].item) /\ Len(w[i].item) = Len(r[i].item)
      BY <2>4, <3>1, AdminUserMatches
    <3>3. \A i \in 1..5 : Pairs(w[i], r[i], FALSE)
      BY <2>1, <2>2, <2>3, <3>2 DEF Agrees, Pairs
    <3>4. \A i \in 1..5 : \A j \in 1..Len(w[i].item) :
            /\ Pairs(w[i].item[j], r[i].item[j], FALSE) /\ ~r[i].item[j].loose
            /\ w[i].item[j].item = <<>> /\ r[i].item[j].item = <<>>
      <4> TAKE i \in 1..5
      <4>1. CASE w[i].item = <<>>
        BY <3>1, <4>1
      <4>2. CASE w[i].item = AdminUserWritten /\ r[i].item = AdminUserRead
        BY <4>2, AdminUserMatches
      <4> QED
        BY <2>4, <4>1, <4>2
    <3> QED
      BY <3>3, <3>4 DEF Matches
<1>3. \A i \in 1..5 : r[i].loose => i = 5
  OBVIOUS
<1> HIDE DEF w, r
<1>4. MatchAll(w, r, FALSE)
  BY <1>1, <1>2, <1>3 DEF MatchAll
<1> QED
  BY <1>4 DEF Conforms, w, r

LEMMA IdentityObjectMatches ==
  /\ IsList(IdentityObject) /\ Len(IdentityObject) = 12
  /\ \A i \in 1..12 :
       /\ Pairs(IdentityObject[i], IdentityObject[i], TRUE) /\ ~IdentityObject[i].loose
       /\ IdentityObject[i].item = <<>>
<1> USE DEF T, M, B, U8, Has, Field, FieldOf, IdentityObject
<1>1. IsList(IdentityObject) /\ Len(IdentityObject) = 12
  BY TupleIsList
<1>2. \A i \in 1..12 :
        /\ Pairs(IdentityObject[i], IdentityObject[i], TRUE) /\ ~IdentityObject[i].loose
        /\ IdentityObject[i].item = <<>>
  BY TupleIsList DEF Agrees, Pairs, Codings, Unlike
<1> QED
  BY <1>1, <1>2

LEMMA IdentityObjectRequestConforms == Conforms(IdentityObjectRequestPayload, TRUE)
<1> USE DEF T, M, Has, Strict, Field, FieldOf, IdentityObjectRequestPayload, Codec
<1> DEFINE w == IdentityObjectRequestPayload.write
           r == IdentityObjectRequestPayload.read
<1>1. IsList(w) /\ IsList(r) /\ Len(w) = 12 /\ Len(r) = 12
  BY TupleIsList
<1>2. \A i \in 1..12 : Matches(w[i], r[i], TRUE)
  <2>1. \A i \in 1..12 : w[i].name = r[i].name /\ (r[i].loose => r[i].kind = "string" /\ r[i].name \in Dropped)
    BY DEF Dropped
  <2>2. \A i \in 1..12 : w[i].kind \in Codings \ {"jsonOrEmpty"} /\ r[i].kind \notin Unlike(TRUE)
    BY DEF Codings, Unlike
  <2>3. \A i \in 1..12 : w[i].kind = r[i].kind \/ (w[i].kind = "json" /\ r[i].kind = "jsonOrEmpty")
    OBVIOUS
  <2>4. \A i \in 1..12 : (w[i].item = <<>> /\ r[i].item = <<>>)
    OBVIOUS
  <2> HIDE DEF w, r
  <2> QED
    <3>1. IsList(<<>>) /\ Len(<<>>) = 0
      BY TupleIsList
    <3>2. \A i \in 1..12 : IsList(w[i].item) /\ IsList(r[i].item) /\ Len(w[i].item) = Len(r[i].item)
      BY <2>4, <3>1
    <3>3. \A i \in 1..12 : Pairs(w[i], r[i], TRUE)
      BY <2>1, <2>2, <2>3, <3>2 DEF Agrees, Pairs
    <3>4. \A i \in 1..12 : \A j \in 1..Len(w[i].item) :
            /\ Pairs(w[i].item[j], r[i].item[j], TRUE) /\ ~r[i].item[j].loose
            /\ w[i].item[j].item = <<>> /\ r[i].item[j].item = <<>>
      BY <2>4, <3>1
    <3> QED
      BY <3>3, <3>4 DEF Matches
<1>3. \A i \in 1..12 : r[i].loose => i = 12
  OBVIOUS
<1> HIDE DEF w, r
<1>4. MatchAll(w, r, TRUE)
  BY <1>1, <1>2, <1>3 DEF MatchAll
<1> QED
  BY <1>4 DEF Conforms, w, r, Strict

LEMMA IdentityObjectResponseConforms == Conforms(IdentityObjectResponsePayload, TRUE)
<1> USE DEF T, B, ListOf, Strict, Field, FieldOf, IdentityObjectResponsePayload, Codec
<1> DEFINE w == IdentityObjectResponsePayload.write
           r == IdentityObjectResponsePayload.read
<1>1. IsList(w) /\ IsList(r) /\ Len(w) = 3 /\ Len(r) = 3
  BY TupleIsList
<1>2. \A i \in 1..3 : Matches(w[i], r[i], TRUE)
  <2>1. \A i \in 1..3 : w[i].name = r[i].name /\ (r[i].loose => r[i].kind = "string" /\ r[i].name \in Dropped)
    BY DEF Dropped
  <2>2. \A i \in 1..3 : w[i].kind \in Codings \ {"jsonOrEmpty"} /\ r[i].kind \notin Unlike(TRUE)
    BY DEF Codings, Unlike
  <2>3. \A i \in 1..3 : w[i].kind = r[i].kind \/ (w[i].kind = "json" /\ r[i].kind = "jsonOrEmpty")
    OBVIOUS
  <2>4. \A i \in 1..3 :
          (w[i].item = <<>> /\ r[i].item = <<>>) \/ (w[i].item = IdentityObject /\ r[i].item = IdentityObject)
    OBVIOUS
  <2> HIDE DEF w, r
  <2> QED
    <3>1. IsList(<<>>) /\ Len(<<>>) = 0
      BY TupleIsList
    <3>2. \A i \in 1..3 : IsList(w[i].item) /\ IsList(r[i].item) /\ Len(w[i].item) = Len(r[i].item)
      BY <2>4, <3>1, IdentityObjectMatches
    <3>3. \A i \in 1..3 : Pairs(w[i], r[i], TRUE)
      BY <2>1, <2>2, <2>3, <3>2 DEF Agrees, Pairs
    <3>4. \A i \in 1..3 : \A j \in 1..Len(w[i].item) :
            /\ Pairs(w[i].item[j], r[i].item[j], TRUE) /\ ~r[i].item[j].loose
            /\ w[i].item[j].item = <<>> /\ r[i].item[j].item = <<>>
      <4> TAKE i \in 1..3
      <4>1. CASE w[i].item = <<>>
        BY <3>1, <4>1
      <4>2. CASE w[i].item = IdentityObject /\ r[i].item = IdentityObject
        BY <4>2, IdentityObjectMatches
      <4> QED
        BY <2>4, <4>1, <4>2
    <3> QED
      BY <3>3, <3>4 DEF Matches
<1>3. \A i \in 1..3 : r[i].loose => i = 3
  OBVIOUS
<1> HIDE DEF w, r
<1>4. MatchAll(w, r, TRUE)
  BY <1>1, <1>2, <1>3 DEF MatchAll
<1> QED
  BY <1>4 DEF Conforms, w, r, Strict

\* Every payload reads the fields it writes.
LEMMA PayloadsConform ==
  ASSUME NEW t \in DOMAIN NewRegistry
  PROVE  Conforms(NewRegistry[t], t \in Identity)
<1>1. CASE t \in Identity
  <2>1. t \in DOMAIN RegisterPayloadTypes
    BY <1>1 DEF Identity, RegisterPayloadTypes
  <2>2. NewRegistry[t] \in {IdentityObjectRequestPayload, IdentityObjectResponsePayload}
    BY <1>1, <2>1 DEF Identity, NewRegistry, RegisterPayloadTypes
  <2>3. Conforms(NewRegistry[t], TRUE)
    BY <2>2, IdentityObjectRequestConforms, IdentityObjectResponseConforms
  <2> QED
    BY <1>1, <2>3
<1>2. CASE t \notin Identity
  <2> DEFINE p == {
         AuthRequestPayload, ServiceAuthPayload, AdminRequestPayload, AdminResponsePayload,
         PasswordResetRequestPayload, LogoutPayload, VerifyEmailRequestPayload,
         ResendVerificationPayload, ServiceListPayload, ServiceListResponsePayload,
         OrganizationRequestPayload, OrganizationResponsePayload, ServiceCredentialSetPayload,
         PasswordResetConfirmPayload, PasswordChangeRequestPayload,
         PasswordChangeResponsePayload, PublisherKeySetPayload, MFASubmitPayload, ErrorPayload,
         LogoutResponsePayload, TOTPSetupRequestPayload, ServiceHeartbeatPayload,
         AgentRegisterRequestPayload, ResourceAccessResponsePayload,
         PublisherKeyResponsePayload, MFARequiredPayload, SessionValidatePayload,
         NewDeviceMFAPayload, RegisterResponsePayload, VerifyEmailResponsePayload, PingPayload,
         DirectMessagePayload, ServiceAuthResponsePayload, ServiceCredentialResponsePayload,
         PongPayload, ServiceResponsePayload, ClientToServicePayload,
         AgentRegisterResponsePayload, ResourceAccessRequestPayload, AuthResponsePayload,
         RegisterRequestPayload, TOTPSetupResponsePayload, ServiceMessagePayload,
         ServiceToClientPayload}
  <2>1. ASSUME t \in DOMAIN RegisterPayloadTypes PROVE NewRegistry[t] \in p
    BY <1>2, <2>1 DEF Identity, NewRegistry, RegisterPayloadTypes
  <2>2. ASSUME t \notin DOMAIN RegisterPayloadTypes PROVE NewRegistry[t] \in p
    BY <2>2 DEF NewRegistry, RegisterServicePayloadTypes
  <2>3. NewRegistry[t] \in p
    BY <2>1, <2>2
  <2>4. \A c \in p : Conforms(c, FALSE)
    BY PlainConform, AuthRequestConforms, ServiceAuthConforms, AdminRequestConforms, AdminResponseConforms
  <2> HIDE DEF p
  <2>5. Conforms(NewRegistry[t], FALSE)
    BY <2>3, <2>4
  <2>6. (t \in Identity) = FALSE
    BY <1>2
  <2> QED
    BY <2>5, <2>6
<1> QED
  BY <1>1, <1>2

-----------------------------------------------------------------------------
(* The fields that follow.                                                  *)

LEMMA RepeatIs ==
  ASSUME NEW item, NEW n \in Nat, IsList(item)
  PROVE  /\ IsList(Repeat(item, n)) /\ Len(Repeat(item, n)) = n * Len(item)
         /\ \A i \in 1..(n * Len(item)) :
              Repeat(item, n)[i] = item[((i - 1) % Len(item)) + 1] /\ ((i - 1) % Len(item)) + 1 \in 1..Len(item)
<1> DEFINE l == Len(item)
           m == n * l
           e(i) == item[((i - 1) % l) + 1]
           r == [i \in 1..m |-> e(i)]
<1>1. l \in Nat /\ m \in Nat
  BY ListIs
<1>2. Len(r) = m /\ \A i \in 1..m : r[i] = e(i)
  BY <1>1
<1>3. r \in Seq({e(i) : i \in 1..m})
  <2> DEFINE P == {e(i) : i \in 1..m}
  <2>1. \A i \in 1..m : r[i] \in P
    OBVIOUS
  <2>2. r = [i \in 1..m |-> r[i]]
    OBVIOUS
  <2> HIDE DEF P, r, m
  <2>3. r \in Seq(P)
    BY <1>1, <2>1, <2>2
  <2> QED
    BY <2>3 DEF P
<1>4. IsList(r)
  BY <1>3, SeqIsList
<1>5. \A i \in 1..m : ((i - 1) % l) + 1 \in 1..l
  <2> TAKE i \in 1..m
  <2>1. l # 0
    BY <1>1
  <2> QED
    BY <1>1, <2>1
<1>6. Repeat(item, n) = r
  BY DEF Repeat
<1> QED
  BY <1>2, <1>4, <1>5, <1>6

\* The fields written and read behind two fields that match, and have one value, match.
LEMMA FollowingMatch ==
  ASSUME NEW w, NEW r, NEW limited, NEW v \in Seq(Nat),
         Head(w).kind = "count" => Len(v) = 4, MatchAll(w, r, limited), r # <<>>
  PROVE  MatchAll(Following(Head(w), v, Tail(w)), Following(Head(r), v, Tail(r)), limited)
<1> DEFINE f == Head(w)
           g == Head(r)
           p == Tail(w)
           q == Tail(r)
<1>1. /\ IsList(w) /\ IsList(r) /\ Len(w) = Len(r) /\ Len(w) \in Nat /\ Len(w) > 0 /\ w # <<>>
      /\ \A i \in 1..Len(w) : Matches(w[i], r[i], limited) /\ (r[i].loose => i = Len(r))
  BY ListIs DEF MatchAll
<1>2. f = w[1] /\ g = r[1]
  BY <1>1, ListIs
<1>3. Matches(f, g, limited)
  BY <1>1, <1>2
<1>4. /\ IsList(p) /\ IsList(q) /\ Len(p) = Len(w) - 1 /\ Len(q) = Len(w) - 1
      /\ \A i \in 1..Len(p) : p[i] = w[i + 1] /\ q[i] = r[i + 1]
  BY <1>1, TailIsList
<1>5. \A i \in 1..Len(p) : Matches(p[i], q[i], limited) /\ (q[i].loose => i = Len(q))
  BY <1>1, <1>4
<1>6. (f.kind = "count" <=> g.kind = "count") /\ (f.kind = "has" <=> g.kind = "has")
  BY <1>3 DEF Matches, Pairs, Agrees
<1> HIDE DEF f, g, p, q
<1>7. ASSUME f.kind = "count" PROVE MatchAll(Following(f, v, p), Following(g, v, q), limited)
  <2> DEFINE a == Repeat(f.item, v[4])
             b == Repeat(g.item, v[4])
             l == Len(f.item)
             m == v[4] * l
  <2>1. v[4] \in Nat
    BY <1>7 DEF f
  <2>2. IsList(f.item) /\ IsList(g.item) /\ Len(g.item) = l /\ l \in Nat
    BY <1>3, ListIs DEF Matches, Pairs, Agrees
  <2>3. /\ IsList(a) /\ IsList(b) /\ Len(a) = m /\ Len(b) = m
        /\ \A i \in 1..m : \E j \in 1..l : a[i] = f.item[j] /\ b[i] = g.item[j]
    <3>1. /\ IsList(a) /\ Len(a) = m
          /\ \A i \in 1..m : a[i] = f.item[((i - 1) % l) + 1] /\ ((i - 1) % l) + 1 \in 1..l
      BY <2>1, <2>2, RepeatIs
    <3>2. /\ IsList(b) /\ Len(b) = m /\ \A i \in 1..m : b[i] = g.item[((i - 1) % l) + 1]
      <4>1. /\ IsList(b) /\ Len(b) = v[4] * Len(g.item)
            /\ \A i \in 1..(v[4] * Len(g.item)) : b[i] = g.item[((i - 1) % Len(g.item)) + 1]
        BY <2>1, <2>2, RepeatIs
      <4> QED
        BY <2>2, <4>1
    <3> HIDE DEF a, b, m, l
    <3> QED
      BY <3>1, <3>2
  <2>4. m \in Nat
    BY <2>1, <2>2
  <2> HIDE DEF a, b, m
  <2>5. \A j \in 1..l : Matches(f.item[j], g.item[j], limited) /\ ~g.item[j].loose
    <3>1. Len(<<>>) = 0
      OBVIOUS
    <3> QED
      BY <1>3, <3>1 DEF Matches
  <2>6. \A i \in 1..m : Matches(a[i], b[i], limited) /\ ~b[i].loose
    BY <2>3, <2>5
  <2>7. /\ IsList(a \o p) /\ Len(a \o p) = m + Len(p) /\ IsList(b \o q) /\ Len(b \o q) = m + Len(q)
        /\ \A i \in 1..m : (a \o p)[i] = a[i] /\ (b \o q)[i] = b[i]
        /\ \A i \in 1..Len(p) : (a \o p)[m + i] = p[i] /\ (b \o q)[m + i] = q[i]
    <3>1. /\ IsList(a \o p) /\ Len(a \o p) = m + Len(p) /\ \A i \in 1..m : (a \o p)[i] = a[i]
          /\ \A i \in 1..Len(p) : (a \o p)[m + i] = p[i]
      <4>1. IsList(a) /\ IsList(p) /\ Len(a) = m
        BY <1>4, <2>3
      <4>2. /\ IsList(a \o p) /\ Len(a \o p) = Len(a) + Len(p)
            /\ \A i \in 1..Len(a) : (a \o p)[i] = a[i]
            /\ \A i \in 1..Len(p) : (a \o p)[Len(a) + i] = p[i]
        BY <4>1, ConcatIsList
      <4> QED
        BY <4>1, <4>2
    <3>2. /\ IsList(b \o q) /\ Len(b \o q) = m + Len(q) /\ \A i \in 1..m : (b \o q)[i] = b[i]
          /\ \A i \in 1..Len(q) : (b \o q)[m + i] = q[i]
      <4>1. IsList(b) /\ IsList(q) /\ Len(b) = m
        BY <1>4, <2>3
      <4>2. /\ IsList(b \o q) /\ Len(b \o q) = Len(b) + Len(q)
            /\ \A i \in 1..Len(b) : (b \o q)[i] = b[i]
            /\ \A i \in 1..Len(q) : (b \o q)[Len(b) + i] = q[i]
        BY <4>1, ConcatIsList
      <4> QED
        BY <4>1, <4>2
    <3> QED
      BY <1>4, <3>1, <3>2
  <2>8. MatchAll(a \o p, b \o q, limited)
    <3>1. ASSUME NEW i \in 1..(m + Len(p))
          PROVE  Matches((a \o p)[i], (b \o q)[i], limited) /\ ((b \o q)[i].loose => i = Len(b \o q))
      <4>1. CASE i \in 1..m
        BY <2>6, <2>7, <4>1
      <4>2. CASE i \notin 1..m
        <5>1. i - m \in 1..Len(p) /\ m + (i - m) = i
          BY <1>1, <1>4, <2>4, <4>2
        <5>2. (a \o p)[i] = p[i - m] /\ (b \o q)[i] = q[i - m]
          BY <2>7, <5>1
        <5> QED
          BY <1>4, <1>5, <2>4, <2>7, <5>1, <5>2
      <4> QED
        BY <4>1, <4>2
    <3> QED
      BY <1>4, <2>7, <3>1 DEF MatchAll
  <2> QED
    BY <1>6, <1>7, <2>8 DEF Following, a, b
<1>8. ASSUME f.kind = "has", v = << 0 >> PROVE MatchAll(Following(f, v, p), Following(g, v, q), limited)
  <2>1. /\ IsList(Drop(p, 2)) /\ Len(Drop(p, 2)) = (IF 2 <= Len(p) THEN Len(p) - 2 ELSE 0)
        /\ \A i \in 1..(Len(p) - 2) : Drop(p, 2)[i] = p[i + 2]
    BY <1>4, DropIsList
  <2>2. /\ IsList(Drop(q, 2)) /\ Len(Drop(q, 2)) = (IF 2 <= Len(q) THEN Len(q) - 2 ELSE 0)
        /\ \A i \in 1..(Len(q) - 2) : Drop(q, 2)[i] = q[i + 2]
    BY <1>4, DropIsList
  <2>3. ASSUME NEW i \in 1..Len(Drop(p, 2))
        PROVE  Matches(Drop(p, 2)[i], Drop(q, 2)[i], limited) /\ (Drop(q, 2)[i].loose => i = Len(Drop(q, 2)))
    <3>1. i + 2 \in 1..Len(p) /\ i \in 1..(Len(p) - 2) /\ Len(p) = Len(q)
      BY <1>1, <1>4, <2>1
    <3>2. Drop(p, 2)[i] = p[i + 2] /\ Drop(q, 2)[i] = q[i + 2]
      BY <2>1, <2>2, <3>1
    <3>3. Matches(p[i + 2], q[i + 2], limited) /\ (q[i + 2].loose => i + 2 = Len(q))
      BY <1>5, <3>1
    <3> QED
      BY <1>1, <1>4, <2>2, <3>1, <3>2, <3>3
  <2>4. MatchAll(Drop(p, 2), Drop(q, 2), limited)
    BY <1>4, <2>1, <2>2, <2>3 DEF MatchAll
  <2> QED
    BY <1>6, <1>8, <2>4 DEF Following
<1>9. ASSUME f.kind # "count", ~(f.kind = "has" /\ v = << 0 >>)
      PROVE  MatchAll(Following(f, v, p), Following(g, v, q), limited)
  <2>1. Following(f, v, p) = p /\ Following(g, v, q) = q
    BY <1>6, <1>9 DEF Following
  <2>2. MatchAll(p, q, limited)
    BY <1>4, <1>5 DEF MatchAll
  <2> QED
    BY <2>1, <2>2
<1> QED
  BY <1>7, <1>8, <1>9 DEF f, g, p, q

-----------------------------------------------------------------------------
(* The values Marshal writes.                                               *)

LEMMA ValueForm ==
  ASSUME NEW f, NEW i \in Nat, NEW differs, NEW long, NEW n \in Nat
  PROVE  LET v == ValueOf(f, i, differs, long, n) IN
         /\ v \in Seq(Nat) /\ (f.kind = "count" => Len(v) = 4)
         /\ ~Prefixed(f) => Len(v) > 0
         /\ f.kind \in Codings /\ ~Prefixed(f) => \A e : Width(f, e) = Len(v)
         /\ f.kind \in {"string", "text", "json", "metadata"} => Len(v) <= 2 /\ (~long => Len(v) <= 1)
         /\ f.kind \in {"json", "metadata"} => ValidJSON(v)
         /\ f.kind \in Codings \ {"string", "text", "json", "jsonOrEmpty", "metadata"} => Len(v) # 2
<1> DEFINE v == ValueOf(f, i, differs, long, n)
<1>1. /\ Zeros(4) \in Seq(Nat) /\ Len(Zeros(4)) = 4 /\ Zeros(8) \in Seq(Nat) /\ Len(Zeros(8)) = 8
  BY ZerosAre
<1>2. << 0 >> \in Seq(Nat) /\ << 1 >> \in Seq(Nat) /\ <<i>> \in Seq(Nat)
  OBVIOUS
<1>3. <<0, 0, 0, i>> \in Seq(Nat) /\ <<0, 0, 0, 0, 0, 0, 0, i>> \in Seq(Nat)
  OBVIOUS
<1>4. CASE f.kind = "count"
  <2>1. v = <<0, 0, 0, n>>
    BY <1>4 DEF ValueOf
  <2>2. v \in Seq(Nat) /\ Len(v) = 4
    BY <2>1
  <2> QED
    BY <1>4, <2>2 DEF Prefixed, Width, Codings
<1>5. CASE f.kind \in {"string", "text"}
  <2>1. v = IF long THEN <<i, i>> ELSE IF differs THEN <<i>> ELSE <<>>
    BY <1>5 DEF ValueOf
  <2>2. v \in Seq(Nat) /\ Len(v) <= 2 /\ (~long => Len(v) <= 1)
    BY <2>1
  <2> QED
    BY <1>5, <2>2 DEF Prefixed, Width, Codings
<1>6. CASE f.kind \in {"json", "metadata"}
  <2>1. v = IF long THEN <<100 + i, i>> ELSE IF differs THEN <<100 + i>> ELSE <<100>>
    BY <1>6 DEF ValueOf
  <2>2. v \in Seq(Nat) /\ Len(v) <= 2 /\ (~long => Len(v) <= 1) /\ v # <<>> /\ v[1] >= 100
    BY <2>1
  <2> QED
    BY <1>6, <2>2 DEF Prefixed, Width, Codings, ValidJSON
<1>7. CASE f.kind \in {"bool", "has", "byte"}
  <2>1. v \in {<< 0 >>, << 1 >>, <<i>>}
    BY <1>7 DEF ValueOf
  <2>2. v \in Seq(Nat) /\ Len(v) = 1
    BY <1>2, <2>1
  <2> QED
    BY <1>7, <2>2 DEF Prefixed, Width, Codings
<1>8. CASE f.kind = "uint32"
  <2>1. v \in {<<0, 0, 0, i>>, Zeros(4)}
    BY <1>8 DEF ValueOf
  <2>2. v \in Seq(Nat) /\ Len(v) = 4
    BY <1>1, <1>3, <2>1
  <2> QED
    BY <1>8, <2>2 DEF Prefixed, Width, Codings
<1>9. CASE f.kind \notin {"count", "string", "text", "json", "metadata", "bool", "has", "byte", "uint32"}
  <2>1. v \in {<<0, 0, 0, 0, 0, 0, 0, i>>, Zeros(8)}
    BY <1>9 DEF ValueOf
  <2>2. v \in Seq(Nat) /\ Len(v) = 8
    BY <1>1, <1>3, <2>1
  <2> QED
    <3>1. f.kind \in Codings /\ ~Prefixed(f) => \A e : Width(f, e) = 8
      BY <1>9 DEF Prefixed, Width, Codings
    <3> HIDE DEF v
    <3>2. f.kind \in Codings /\ ~Prefixed(f) => \A e : Width(f, e) = Len(v)
      BY <2>2, <3>1
    <3> QED
      BY <1>9, <2>2, <3>2 DEF v
<1> QED
  BY <1>4, <1>5, <1>6, <1>7, <1>8, <1>9

-----------------------------------------------------------------------------
(* Payloads: where the fields are.                                          *)

\* What was written of a field, and where.
LEMMA FieldWritten ==
  ASSUME WireAssumption, WireTypeOK, MarksInv, NEW k \in 1..Len(written)
  PROVE  /\ written[k][2] \in Seq(Nat) /\ Piece(k) \in Seq(Nat)
         /\ Len(Piece(k)) \in Nat /\ Len(Piece(k)) > 0
         /\ At(k - 1) \in Nat /\ At(k) = At(k - 1) + Len(Piece(k)) /\ At(k) <= At(Len(written))
<1> DEFINE f == Head(Left(k - 1))
           v == written[k][2]
<1>1. Len(written) \in Nat /\ Len(marks) = Len(written) + 1 /\ k \in Nat /\ k - 1 \in 0..Len(written)
  BY ListIs DEF WireTypeOK
<1>2. At(k - 1) \in Nat /\ At(k) \in Nat
  BY <1>1 DEF WireTypeOK, At
<1>3. v = ValueOf(f, k, IsFull(k), IsLong(k), rows) /\ At(k) = At(k - 1) + Len(Piece(k))
  BY DEF MarksInv, Marked
<1>4. At(k) <= At(Len(written))
  BY <1>1 DEF MarksInv
<1>5. rows \in Nat
  BY DEF WireAssumption, WireTypeOK
<1> HIDE DEF f, v
<1>6. v \in Seq(Nat) /\ (~Prefixed(f) => Len(v) > 0)
  BY <1>1, <1>3, <1>5, ValueForm
<1>7. Piece(k) = Encode(f, v)
  BY DEF Piece, f, v
<1>8. Piece(k) \in Seq(Nat) /\ Len(Piece(k)) = Offset(f) + Len(v)
  BY <1>6, <1>7, EncodeForm
<1>9. Len(Piece(k)) > 0
  BY <1>6, <1>8 DEF Offset
<1> QED
  BY <1>2, <1>3, <1>4, <1>6, <1>8, <1>9 DEF v

\* In step, the next field to be read is the one that was written there.
LEMMA FieldInStep ==
  ASSUME WireAssumption, WireInv, sent # "marshaling", NEW k \in 0..Len(written), InStep(k), todo # <<>>
  PROVE  LET f == Head(todo)
             w == Head(Left(k))
             v == written[k + 1][2]
         IN /\ k + 1 \in 1..Len(written) /\ Left(k) # <<>>
            /\ Matches(w, f, type \in Identity) /\ written[k + 1] = <<f.name, v>>
            /\ f.loose => Tail(todo) = <<>>
            /\ v \in Seq(Nat) /\ Piece(k + 1) = Encode(f, v) /\ (Prefixed(f) \/ \A e : Width(f, e) = Len(v))
            /\ Left(k + 1) = Following(w, v, Tail(Left(k))) /\ (w.kind = "count" => Len(v) = 4)
<1> DEFINE f == Head(todo)
           w == Head(Left(k))
           v == written[k + 1][2]
<1>1. WireTypeOK /\ MarksInv
  BY DEF WireInv
<1>2. /\ IsList(Left(k)) /\ IsList(todo) /\ Len(Left(k)) = Len(todo)
      /\ \A i \in 1..Len(Left(k)) : Matches(Left(k)[i], todo[i], type \in Identity) /\ (todo[i].loose => i = Len(todo))
  BY DEF InStep, MatchAll
<1>3. Len(todo) \in Nat /\ Len(todo) > 0 /\ f = todo[1] /\ Left(k) # <<>> /\ w = Left(k)[1]
  BY <1>2, ListIs
<1>4. k + 1 \in 1..Len(written)
  <2>1. Left(Len(written)) = <<>>
    BY <1>1 DEF MarksInv
  <2>2. Len(written) \in Nat
    BY <1>1, ListIs DEF WireTypeOK
  <2>3. k # Len(written)
    BY <1>3, <2>1
  <2> QED
    BY <2>2, <2>3
<1>5. Matches(w, f, type \in Identity) /\ (f.loose => Len(todo) = 1)
  BY <1>2, <1>3
<1>6. f.loose => Tail(todo) = <<>>
  <2>1. IsList(Tail(todo)) /\ Len(Tail(todo)) = Len(todo) - 1
    BY <1>2, TailIsList
  <2>2. Tail(todo) = <<>> <=> Len(Tail(todo)) = 0
    BY <2>1, ListIs
  <2> QED
    BY <1>5, <2>1, <2>2
<1>7. (k + 1) - 1 = k
  OBVIOUS
<1>8. /\ written[k + 1] = <<w.name, v>> /\ v = ValueOf(w, k + 1, IsFull(k + 1), IsLong(k + 1), rows)
      /\ Left(k + 1) = Following(w, v, Tail(Left(k)))
  BY <1>1, <1>4, <1>7 DEF MarksInv, Marked
<1>9. Piece(k + 1) = Encode(w, v)
  BY <1>7 DEF Piece
<1>10. rows \in Nat
  BY <1>1 DEF WireAssumption, WireTypeOK
<1> HIDE DEF f, w, v
<1>11. /\ w.name = f.name /\ w.kind \in Codings \ {"jsonOrEmpty"}
       /\ w.kind = f.kind \/ (w.kind = "json" /\ f.kind = "jsonOrEmpty")
  BY <1>5 DEF Matches, Pairs, Agrees
<1>12. /\ v \in Seq(Nat) /\ (w.kind = "count" => Len(v) = 4)
       /\ w.kind \in Codings /\ ~Prefixed(w) => \A e : Width(w, e) = Len(v)
  BY <1>8, <1>10, ValueForm
<1>13. Prefixed(f) = Prefixed(w)
  BY <1>11 DEF Prefixed
<1>14. Encode(f, v) = Encode(w, v)
  BY <1>13 DEF Encode
<1>15. Prefixed(f) \/ \A e : Width(f, e) = Len(v)
  <2>1. CASE Prefixed(f)
    BY <2>1
  <2>2. CASE ~Prefixed(f)
    <3>1. f.kind = w.kind
      BY <1>11, <1>13, <2>2 DEF Prefixed
    <3>2. \A e : Width(f, e) = Width(w, e)
      BY <3>1, <1>13 DEF Width
    <3> QED
      BY <1>11, <1>12, <1>13, <2>2, <3>2
  <2> QED
    BY <2>1, <2>2
<1> QED
  BY <1>3, <1>4, <1>5, <1>6, <1>8, <1>9, <1>11, <1>12, <1>14, <1>15 DEF f, w, v

\* A field that arrived whole can be read, save a long text of an identity payload.
LEMMA FieldDecodes ==
  ASSUME WireAssumption, WireInv, sent # "marshaling", NEW k \in 0..Len(written), InStep(k), todo # <<>>,
         Readable(Head(todo), data), ValueAt(Head(todo), data) = written[k + 1][2]
  PROVE  /\ Decodes(Head(todo), data) =>
              (type \in Identity => Len(written[k + 1][2]) # 2)
         /\ ~Decodes(Head(todo), data) =>
              type \in Identity /\ Len(written[k + 1][2]) = 2 /\ ~Head(todo).loose
<1> DEFINE f == Head(todo)
           w == Head(Left(k))
           v == written[k + 1][2]
           limited == type \in Identity
<1>1. k + 1 \in 1..Len(written) /\ Matches(w, f, limited)
  BY FieldInStep
<1>2. WireTypeOK /\ MarksInv
  BY DEF WireInv
<1>3. (k + 1) - 1 = k /\ k + 1 \in Nat
  OBVIOUS
<1>4. v = ValueOf(w, k + 1, IsFull(k + 1), IsLong(k + 1), rows) /\ (w.kind = "metadata" => ~IsLong(k + 1))
  BY <1>1, <1>2, <1>3 DEF MarksInv, Marked
<1>5. rows \in Nat
  BY <1>2 DEF WireAssumption, WireTypeOK
<1>6. ValueAt(f, data) = v /\ Readable(f, data)
  OBVIOUS
<1> HIDE DEF f, w, v, limited
<1>7. /\ w.kind \in Codings \ {"jsonOrEmpty"}
      /\ w.kind = f.kind \/ (w.kind = "json" /\ f.kind = "jsonOrEmpty")
      /\ (f.loose => f.kind = "string") /\ f.kind \notin Unlike(limited)
  BY <1>1 DEF Matches, Pairs, Agrees
<1>8. /\ v \in Seq(Nat)
      /\ w.kind \in {"string", "text", "json", "metadata"} => Len(v) <= 2 /\ (~IsLong(k + 1) => Len(v) <= 1)
      /\ w.kind \in {"json", "metadata"} => ValidJSON(v)
      /\ w.kind \in Codings \ {"string", "text", "json", "jsonOrEmpty", "metadata"} => Len(v) # 2
  BY <1>3, <1>4, <1>5, ValueForm
<1>9. Len(v) \in Nat
  BY <1>8
<1>10. Decodes(f, data) <=> /\ f.kind \in {"text", "metadata"} => Len(v) <= 1
                            /\ f.kind \in {"json", "metadata"} => ValidJSON(v)
                            /\ f.kind = "jsonOrEmpty" => v = <<>> \/ ValidJSON(v)
  BY <1>6 DEF Decodes
<1>11. limited => f.kind \notin {"string", "json", "jsonOrEmpty"}
  BY <1>7 DEF Unlike
<1>12. ~limited => f.kind \notin {"text", "metadata"}
  BY <1>7 DEF Unlike
<1>13. Decodes(f, data) => (limited => Len(v) # 2)
  BY <1>7, <1>8, <1>9, <1>10, <1>11
<1>14. ~Decodes(f, data) => limited /\ Len(v) = 2 /\ ~f.loose
  <2>1. ~Decodes(f, data) => f.kind \in {"text", "metadata"} /\ ~(Len(v) <= 1)
    BY <1>7, <1>8, <1>10
  <2>2. f.kind = "text" => w.kind = "text"
    BY <1>7
  <2>3. f.kind = "metadata" => w.kind = "metadata" /\ Len(v) <= 1
    BY <1>4, <1>7, <1>8
  <2>4. w.kind = "text" => Len(v) <= 2
    BY <1>8
  <2>5. ~Decodes(f, data) => f.kind = "text" /\ w.kind = "text" /\ Len(v) <= 2 /\ ~(Len(v) <= 1)
    BY <2>1, <2>2, <2>3, <2>4, Zenon
  <2>6. Len(v) <= 2 /\ ~(Len(v) <= 1) => Len(v) = 2
    <3>1. \A n \in Nat : n <= 2 /\ ~(n <= 1) => n = 2
      OBVIOUS
    <3> QED
      BY <1>9, <3>1
  <2>7. f.kind = "text" => limited /\ ~f.loose
    BY <1>7, <1>12
  <2> QED
    BY <2>7, <2>5, <2>6, Zenon
<1> QED
  BY <1>13, <1>14 DEF f, v, limited

\* The next field to be read, if it arrived whole.
LEMMA FieldArrived ==
  ASSUME WireAssumption, WireInv, sent # "marshaling", NEW k \in 0..Len(written), InStep(k), todo # <<>>,
         At(k + 1) <= received
  PROVE  /\ Readable(Head(todo), data) /\ ValueAt(Head(todo), data) = written[k + 1][2]
         /\ Beyond(Head(todo), data) = Drop(data, Len(Piece(k + 1))) /\ Len(Piece(k + 1)) <= Len(data)
<1> DEFINE f == Head(todo)
           v == written[k + 1][2]
<1>1. WireTypeOK /\ MarksInv /\ (k + 1) - 1 = k
  BY DEF WireInv
<1>2. /\ k + 1 \in 1..Len(written) /\ v \in Seq(Nat) /\ Piece(k + 1) = Encode(f, v)
      /\ Prefixed(f) \/ \A e : Width(f, e) = Len(v)
  BY FieldInStep
<1>3. /\ Len(Piece(k + 1)) \in Nat /\ At(k) \in Nat /\ At(k + 1) = At(k) + Len(Piece(k + 1))
  BY <1>1, <1>2, FieldWritten
<1>4. data \in Seq(Nat) /\ received \in Nat /\ Len(data) = received - At(k)
  BY <1>1 DEF WireTypeOK, InStep, InData
<1>5. Len(data) >= Len(Piece(k + 1))
  BY <1>3, <1>4
<1>6. \A x \in 1..Len(Piece(k + 1)) : data[x] = Piece(k + 1)[x]
  <2>1. \A x \in 1..Len(Piece(k + 1)) : At(k) + x <= received => data[At(k) + x - At(k)] = Piece(k + 1)[x]
    BY <1>1, <1>2 DEF InStep, InData
  <2>2. \A x \in 1..Len(Piece(k + 1)) : At(k) + x <= received /\ At(k) + x - At(k) = x
    BY <1>3, <1>4
  <2> QED
    BY <2>1, <2>2
<1> HIDE DEF f, v
<1>7. Readable(f, data) /\ ValueAt(f, data) = v /\ Beyond(f, data) = Drop(data, Len(Encode(f, v)))
  <2>1. Len(data) >= Len(Encode(f, v)) /\ \A x \in 1..Len(Encode(f, v)) : data[x] = Encode(f, v)[x]
    BY <1>2, <1>5, <1>6
  <2> QED
    BY <1>2, <1>4, <2>1, ReadsWhole
<1> QED
  BY <1>2, <1>3, <1>4, <1>5, <1>7 DEF f, v

\* The next field to be read, if it did not.
LEMMA FieldCut ==
  ASSUME WireAssumption, WireInv, sent # "marshaling", NEW k \in 0..Len(written), InStep(k), todo # <<>>,
         At(k + 1) > received
  PROVE  sent = "cut" /\ ~Readable(Head(todo), data)
<1> DEFINE f == Head(todo)
           v == written[k + 1][2]
<1>1. WireTypeOK /\ MarksInv /\ SentInv /\ (k + 1) - 1 = k
  BY DEF WireInv
<1>2. /\ k + 1 \in 1..Len(written) /\ v \in Seq(Nat) /\ Piece(k + 1) = Encode(f, v)
      /\ Prefixed(f) \/ \A e : Width(f, e) = Len(v)
  BY FieldInStep
<1>3. /\ Len(Piece(k + 1)) \in Nat /\ At(k) \in Nat /\ At(k + 1) = At(k) + Len(Piece(k + 1))
      /\ At(k + 1) <= At(Len(written))
  BY <1>1, <1>2, FieldWritten
<1>4. data \in Seq(Nat) /\ received \in Nat /\ Len(data) = received - At(k)
  BY <1>1 DEF WireTypeOK, InStep, InData
<1>5. sent = "cut"
  <2>1. At(Len(written)) \in Nat /\ received < At(Len(written))
    <3>1. Len(written) + 1 \in 1..Len(marks)
      BY <1>1, ListIs DEF WireTypeOK
    <3>2. At(Len(written)) \in Nat
      BY <1>1, <3>1 DEF WireTypeOK, At
    <3> QED
      BY <1>3, <1>4, <3>2
  <2>2. received # At(Len(written)) /\ received # At(Len(written)) + 2
    BY <1>4, <2>1
  <2> QED
    BY <1>1, <2>2 DEF SentInv, WireTypeOK
<1>6. Len(data) < Len(Piece(k + 1))
  BY <1>3, <1>4
<1>7. \A x \in 1..Len(data) : data[x] = Piece(k + 1)[x]
  <2>1. \A x \in 1..Len(Piece(k + 1)) : At(k) + x <= received => data[At(k) + x - At(k)] = Piece(k + 1)[x]
    BY <1>1, <1>2 DEF InStep, InData
  <2>2. \A x \in 1..Len(data) :
          x \in 1..Len(Piece(k + 1)) /\ At(k) + x <= received /\ At(k) + x - At(k) = x
    BY <1>3, <1>4, <1>6
  <2> QED
    BY <2>1, <2>2
<1> HIDE DEF f, v
<1>8. ~Readable(f, data)
  <2>1. Len(data) < Len(Encode(f, v)) /\ \A x \in 1..Len(data) : data[x] = Encode(f, v)[x]
    BY <1>2, <1>6, <1>7
  <2> QED
    BY <1>2, <1>4, <2>1, FailsCut
<1> QED
  BY <1>5, <1>8 DEF f

-----------------------------------------------------------------------------
(* Payloads: every step.                                                    *)

LEMMA WireStart ==
  ASSUME WireAssumption, Init
  PROVE  WireInv
<1>1. PICK t \in Types, n \in Rows, f \in Fills : Payload(t, n, f)
  BY DEF Init
<1> DEFINE m == [todo |-> NewRegistry[t].write, at |-> 0]
<1>2. /\ type = t /\ rows = n /\ full = f /\ todo = NewRegistry[t].write /\ written = <<>> /\ data = <<>>
      /\ sent = "marshaling" /\ got = <<>> /\ status = "open" /\ marks = <<m>> /\ received = 0
  BY <1>1 DEF Payload
<1>3. IsList(<<>>) /\ Len(<<>>) = 0 /\ IsList(<<m>>)
  <2>1. <<m>> \in Seq({m})
    OBVIOUS
  <2> QED
    BY <2>1, TupleIsList, SeqIsList
<1>4. Len(marks) = 1 /\ marks[1] = m
  BY <1>2
<1>5. WireTypeOK
  BY <1>2, <1>3, <1>4 DEF WireTypeOK
<1>6. Left(0) = todo /\ At(0) = 0
  BY <1>2, <1>4 DEF Left, At
<1>7. MarksInv
  BY <1>2, <1>3, <1>6 DEF MarksInv
<1>8. SentInv
  BY <1>2, <1>3, <1>6 DEF SentInv, InData
<1>9. GotInv
  BY <1>2, <1>3 DEF GotInv
<1> QED
  BY <1>5, <1>7, <1>8, <1>9 DEF WireInv

\* As long as nothing is written, what is marked stays.
LEMMA MarksStay ==
  ASSUME WireTypeOK, MarksInv, UNCHANGED <<type, rows, full, written, marks>>,
         IF sent' = "marshaling" THEN sent = "marshaling" /\ todo' = todo
                                 ELSE sent # "marshaling" \/ todo = <<>>
  PROVE  /\ MarksInv' /\ \A k : Left(k)' = Left(k) /\ At(k)' = At(k) /\ Piece(k)' = Piece(k)
         /\ At(Len(written))' = At(Len(written))
<1>1. \A k : Left(k)' = Left(k) /\ At(k)' = At(k) /\ Piece(k)' = Piece(k)
  BY DEF Left, At, Piece
<1>2. At(Len(written))' = At(Len(written)) /\ Left(Len(written))' = Left(Len(written))
  BY DEF Left, At
<1>3. ASSUME NEW k \in 1..Len(written)' PROVE Marked(k)'
  <2>1. Marked(k)
    BY DEF MarksInv
  <2> QED
    BY <1>1, <2>1 DEF Marked, IsFull, IsLong
<1>4. \A j, k \in 0..Len(written)' : j <= k => At(j)' <= At(k)'
  BY <1>1 DEF MarksInv
<1>5. Left(0)' = NewRegistry[type'].write /\ At(0)' = 0
  BY <1>1 DEF MarksInv
<1>6. Left(Len(written))' = IF sent' = "marshaling" THEN todo' ELSE <<>>
  BY <1>2 DEF MarksInv
<1>7. MarksInv'
  BY <1>3, <1>4, <1>5, <1>6 DEF MarksInv
<1> QED
  BY <1>1, <1>2, <1>7

LEMMA WireMarshalKeeps ==
  ASSUME WireAssumption, WireInv, Marshal
  PROVE  WireInv'
<1>1. WireTypeOK /\ MarksInv /\ SentInv /\ GotInv
  BY DEF WireInv
<1>2. /\ sent = "marshaling" /\ sent' = sent /\ status = "open" /\ todo # <<>> /\ got = <<>>
      /\ UNCHANGED <<type, rows, full, sent, got, received>>
  BY <1>1 DEF Marshal, SentInv
<1>3. ASSUME status' = "refused", UNCHANGED <<written, data, todo, marks>> PROVE WireInv'
  <2>1. MarksInv' /\ (\A k : At(k)' = At(k) /\ Piece(k)' = Piece(k)) /\ At(Len(written))' = At(Len(written))
    BY <1>1, <1>2, <1>3, MarksStay
  <2>2. WireTypeOK'
    BY <1>1, <1>2, <1>3 DEF WireTypeOK
  <2>3. SentInv'
    <3>1. InData(0, At(Len(written)))'
      BY <1>1, <1>2, <1>3, <2>1 DEF SentInv, InData
    <3> QED
      BY <1>1, <1>2, <1>3, <3>1 DEF SentInv
  <2>4. GotInv'
    BY <1>1, <1>2, <1>3 DEF GotInv
  <2> QED
    BY <2>1, <2>2, <2>3, <2>4 DEF WireInv
<1>4. PICK m \in Nat : m = Len(written)
  BY <1>1, ListIs DEF WireTypeOK
<1> DEFINE f == Head(todo)
           v == ValueOf(f, m + 1, IsFull(m + 1), IsLong(m + 1), rows)
           w == Encode(f, v)
<1>5. ASSUME ~(f.kind = "metadata" /\ IsLong(m + 1)),
             written' = Append(written, <<f.name, v>>), data' = data \o w,
             todo' = Following(f, v, Tail(todo)),
             marks' = Append(marks, [todo |-> todo', at |-> Len(data')]), status' = status
      PROVE  WireInv'
  <2>1. v \in Seq(Nat) /\ w \in Seq(Nat) /\ data \in Seq(Nat)
    <3>1. rows \in Nat /\ m + 1 \in Nat
      BY <1>1, <1>4 DEF WireAssumption, WireTypeOK
    <3>2. v \in Seq(Nat)
      BY <3>1, ValueForm
    <3> HIDE DEF v
    <3>3. w \in Seq(Nat)
      BY <3>2, EncodeForm
    <3> QED
      BY <1>1, <3>2, <3>3 DEF WireTypeOK
  <2> HIDE DEF f, v, w
  <2>2. /\ data' \in Seq(Nat) /\ Len(data') = Len(data) + Len(w) /\ Len(data) \in Nat /\ Len(w) \in Nat
        /\ \A x \in 1..Len(data) : data'[x] = data[x]
        /\ \A x \in 1..Len(w) : data'[x + Len(data)] = w[x]
    BY <1>5, <2>1, ConcatIs
  <2>3. /\ IsList(written') /\ Len(written') = m + 1 /\ written'[m + 1] = <<f.name, v>>
        /\ \A k \in 1..m : written'[k] = written[k]
    <3>1. IsList(written)
      BY <1>1 DEF WireTypeOK
    <3> QED
      BY <1>4, <1>5, <3>1, AppendIsList
  <2>4. /\ IsList(marks') /\ Len(marks') = m + 2 /\ marks'[m + 2] = [todo |-> todo', at |-> Len(data')]
        /\ \A k \in 1..(m + 1) : marks'[k] = marks[k]
    <3>1. IsList(marks) /\ Len(marks) = m + 1
      BY <1>1, <1>4 DEF WireTypeOK
    <3> QED
      BY <1>4, <1>5, <3>1, AppendIsList
  <2>5. \A k \in 0..m : Left(k)' = Left(k) /\ At(k)' = At(k)
    <3>1. \A k \in 0..m : k + 1 \in 1..(m + 1)
      BY <1>4
    <3> QED
      BY <2>4, <3>1 DEF Left, At
  <2>6. Left(m + 1)' = todo' /\ At(m + 1)' = Len(data')
    BY <2>4 DEF Left, At
  <2>7. Left(m) = todo /\ Left(0) = NewRegistry[type].write /\ At(0) = 0
    BY <1>1, <1>2, <1>4 DEF MarksInv
  <2>8. Len(data) = At(m) /\ At(m) \in Nat
    <3>1. InData(0, At(m))
      BY <1>1, <1>2, <1>4 DEF SentInv
    <3>2. At(m) \in Nat
      BY <1>1, <1>4 DEF WireTypeOK, At
    <3> QED
      BY <2>7, <3>1, <3>2 DEF InData
  <2>9. \A k \in 1..m : Piece(k)' = Piece(k)
    <3>1. \A k \in 1..m : k - 1 \in 0..m
      BY <1>4
    <3> QED
      BY <2>3, <2>5, <3>1 DEF Piece
  <2>10. Piece(m + 1)' = w
    <3>1. (m + 1) - 1 = m /\ m \in 0..m /\ <<f.name, v>>[2] = v
      BY <1>4
    <3>2. Left(m)' = todo
      BY <2>5, <2>7, <3>1
    <3> QED
      BY <2>3, <3>1, <3>2 DEF Piece, f, w
  <2>11. WireTypeOK'
    <3>1. \A k \in 1..(m + 1) : written'[k][2] \in Seq(Nat)
      <4>1. <<f.name, v>>[2] = v
        OBVIOUS
      <4>2. \A k \in 1..m : written[k][2] \in Seq(Nat)
        BY <1>1, <1>4 DEF WireTypeOK
      <4>3. \A k \in 1..(m + 1) : k \in 1..m \/ k = m + 1
        BY <1>4
      <4> QED
        BY <2>1, <2>3, <4>1, <4>2, <4>3
    <3>2. \A k \in 1..(m + 2) : marks'[k].at \in Nat
      <4>1. \A k \in 1..(m + 1) : marks[k].at \in Nat
        BY <1>1, <1>4 DEF WireTypeOK
      <4>2. \A k \in 1..(m + 2) : k \in 1..(m + 1) \/ k = m + 2
        BY <1>4
      <4>3. marks'[m + 2].at \in Nat
        BY <2>2, <2>4
      <4> QED
        BY <2>4, <4>1, <4>2, <4>3
    <3>3. Len(marks') = Len(written') + 1
      BY <1>4, <2>3, <2>4
    <3> QED
      BY <1>1, <1>2, <1>5, <2>2, <2>3, <2>4, <3>1, <3>2, <3>3 DEF WireTypeOK
  <2>12. MarksInv'
    <3>1. ASSUME NEW k \in 1..m PROVE Marked(k)'
      <4>1. Marked(k) /\ k - 1 \in 0..m /\ k \in 0..m
        BY <1>1, <1>4 DEF MarksInv
      <4>2. /\ Left(k - 1)' = Left(k - 1) /\ Left(k)' = Left(k) /\ At(k - 1)' = At(k - 1) /\ At(k)' = At(k)
            /\ Piece(k)' = Piece(k) /\ written'[k] = written[k]
        BY <2>3, <2>5, <2>9, <4>1
      <4> QED
        BY <1>2, <4>1, <4>2 DEF Marked, IsFull, IsLong
    <3>2. Marked(m + 1)'
      <4>1. (m + 1) - 1 = m /\ m \in 0..m
        BY <1>4
      <4>2. Left(m)' = todo /\ At(m)' = At(m) /\ Left(m + 1)' = Following(f, v, Tail(todo))
        BY <1>5, <2>5, <2>6, <2>7, <4>1
      <4>3. written'[m + 1] = <<f.name, v>> /\ written'[m + 1][2] = v
        BY <2>3
      <4>4. At(m + 1)' = At(m)' + Len(w)
        BY <2>2, <2>6, <2>8, <4>2
      <4>5. v = ValueOf(f, m + 1, IsFull(m + 1)', IsLong(m + 1)', rows') /\ (f.kind = "metadata" => ~IsLong(m + 1)')
        BY <1>2, <1>5 DEF v, IsFull, IsLong
      <4>6. Head(Left(m)') = f /\ Left(m)' # <<>>
        BY <1>2, <4>2 DEF f
      <4> QED
        BY <2>10, <4>1, <4>2, <4>3, <4>4, <4>5, <4>6 DEF Marked
    <3>3. \A k \in 1..Len(written)' : Marked(k)'
      <4>1. \A k \in 1..(m + 1) : k \in 1..m \/ k = m + 1
        BY <1>4
      <4> QED
        BY <2>3, <3>1, <3>2, <4>1
    <3>4. \A j, k \in 0..Len(written)' : j <= k => At(j)' <= At(k)'
      <4>1. \A j, k \in 0..m : j <= k => At(j)' <= At(k)'
        BY <1>1, <1>4, <2>5 DEF MarksInv
      <4>2. \A j \in 0..(m + 1) : j \in 0..m \/ j = m + 1
        BY <1>4
      <4>3. At(m)' <= At(m + 1)' /\ At(m + 1)' \in Nat /\ \A j \in 0..m : At(j)' \in Nat
        <5>1. \A j \in 0..m : At(j) \in Nat
          BY <1>1, <1>4 DEF WireTypeOK, At
        <5>2. m \in 0..m
          BY <1>4
        <5> QED
          BY <2>2, <2>5, <2>6, <2>8, <5>1, <5>2
      <4>4. \A j \in 0..m : At(j)' <= At(m + 1)'
        <5>1. \A j \in 0..m : j <= m /\ m \in 0..m
          BY <1>4
        <5>2. \A j \in 0..m : At(j)' <= At(m)'
          BY <4>1, <5>1
        <5> QED
          BY <4>3, <5>1, <5>2
      <4> QED
        BY <1>4, <2>3, <4>1, <4>2, <4>3, <4>4
    <3>5. Left(0)' = NewRegistry[type'].write /\ At(0)' = 0
      BY <1>2, <1>4, <2>5, <2>7
    <3>6. Left(Len(written))' = todo'
      <4>1. Left(Len(written))' = marks'[m + 2].todo
        BY <2>3, <1>4 DEF Left
      <4> QED
        BY <2>4, <4>1
    <3> QED
      BY <1>2, <3>3, <3>4, <3>5, <3>6 DEF MarksInv
  <2>13. SentInv'
    <3>1. At(Len(written))' = Len(data')
      <4>1. At(Len(written))' = marks'[m + 2].at
        BY <2>3, <1>4 DEF At
      <4> QED
        BY <2>4, <4>1
    <3>2. ASSUME NEW j \in 1..(m + 1), NEW x \in 1..Len(Piece(j)') PROVE data'[At(j - 1)' + x - 0] = Piece(j)'[x]
      <4>1. CASE j \in 1..m
        <5>1. /\ Piece(j)' = Piece(j) /\ At(j - 1)' = At(j - 1)
          <6>1. j - 1 \in 0..m
            BY <4>1
          <6> QED
            BY <2>5, <2>9, <4>1, <6>1
        <5>2. At(j - 1) \in Nat /\ At(j) = At(j - 1) + Len(Piece(j)) /\ At(j) <= At(m) /\ Len(Piece(j)) \in Nat
          BY <1>1, <1>4, <4>1, FieldWritten
        <5>3. At(j - 1) + x \in 1..Len(data)
          BY <2>8, <5>1, <5>2
        <5>4. InData(0, At(m))
          BY <1>1, <1>2, <1>4 DEF SentInv
        <5>5. data[At(j - 1) + x - At(0)] = Piece(j)[x]
          <6>1. At(j - 1) + x <= At(m) /\ x \in 1..Len(Piece(j))
            BY <2>8, <5>1, <5>3
          <6> QED
            BY <1>4, <4>1, <5>4, <6>1 DEF InData
        <5>6. At(j - 1) + x - 0 = At(j - 1) + x
          BY <5>2, <5>1
        <5> QED
          BY <2>2, <2>7, <5>1, <5>3, <5>5, <5>6
      <4>2. CASE j = m + 1
        <5>1. Piece(j)' = w /\ At(j - 1)' = Len(data)
          <6>1. (m + 1) - 1 = m /\ m \in 0..m
            BY <1>4
          <6> QED
            BY <2>5, <2>8, <2>10, <4>2, <6>1
        <5>2. x \in 1..Len(w) /\ Len(data) + x - 0 = x + Len(data)
          BY <2>2, <5>1
        <5> QED
          BY <2>2, <5>1, <5>2
      <4> QED
        BY <1>4, <4>1, <4>2
    <3>3. InData(0, At(Len(written)))'
      <4>1. Len(data') = Len(data') - 0
        BY <2>2
      <4>2. At(0)' = 0
        BY <1>4, <2>5, <2>7
      <4> QED
        BY <2>3, <3>1, <3>2, <4>1, <4>2 DEF InData
    <3> QED
      BY <1>2, <1>5, <3>3 DEF SentInv
  <2>14. GotInv'
    <3>1. Len(got) = 0
      BY <1>2
    <3> QED
      BY <1>2, <1>4, <1>5, <2>3, <3>1 DEF GotInv
  <2> QED
    BY <2>11, <2>12, <2>13, <2>14 DEF WireInv
<1>6. CASE f.kind = "metadata" /\ IsLong(m + 1)
  BY <1>3, <1>4, <1>6 DEF Marshal
<1>7. CASE ~(f.kind = "metadata" /\ IsLong(m + 1))
  <2>1. /\ written' = Append(written, <<f.name, v>>) /\ data' = data \o w
        /\ todo' = Following(f, v, Tail(todo))
        /\ marks' = Append(marks, [todo |-> todo', at |-> Len(data')]) /\ status' = status
    BY <1>4, <1>7 DEF Marshal
  <2> QED
    BY <1>5, <1>7, <2>1
<1> QED
  BY <1>6, <1>7

LEMMA WireSendKeeps ==
  ASSUME WireAssumption, WireInv, Send
  PROVE  WireInv'
<1>1. WireTypeOK /\ MarksInv /\ SentInv /\ GotInv
  BY DEF WireInv
<1>2. /\ sent = "marshaling" /\ todo = <<>> /\ got = <<>> /\ todo' = NewRegistry[type].read
      /\ UNCHANGED <<type, rows, full, written, got, status, marks>> /\ received' = Len(data')
  BY <1>1 DEF Send, SentInv
<1>3. status' = "open"
  BY <1>1, <1>2 DEF SentInv
<1>4. PICK m \in Nat : m = Len(written)
  BY <1>1, ListIs DEF WireTypeOK
<1>5. \/ sent' = "whole" /\ data' = data
      \/ sent' = "longer" /\ data' = data \o <<1, 7>>
      \/ sent' = "cut" /\ \E n \in 0..(Len(data) - 1) : data' = SubSeq(data, 1, n)
  BY DEF Send
<1>6. MarksInv' /\ (\A k : Left(k)' = Left(k) /\ At(k)' = At(k) /\ Piece(k)' = Piece(k)) /\ At(Len(written))' = At(m)
  <2>1. sent' # "marshaling"
    BY <1>5
  <2>2. IF sent' = "marshaling" THEN sent = "marshaling" /\ todo' = todo ELSE sent # "marshaling" \/ todo = <<>>
    BY <1>2, <2>1
  <2> QED
    BY <1>1, <1>2, <1>4, <2>2, MarksStay
<1>7. /\ data \in Seq(Nat) /\ Len(data) \in Nat /\ At(m) = Len(data) /\ At(0) = 0
      /\ \A j \in 1..m : \A x \in 1..Len(Piece(j)) : At(j - 1) + x <= At(m) => data[At(j - 1) + x - At(0)] = Piece(j)[x]
  <2>1. InData(0, At(m)) /\ data \in Seq(Nat)
    BY <1>1, <1>2, <1>4 DEF SentInv, WireTypeOK
  <2>2. At(m) \in Nat /\ At(0) = 0
    BY <1>1, <1>4 DEF WireTypeOK, At, MarksInv
  <2> QED
    BY <1>4, <2>1, <2>2 DEF InData
<1>8. /\ data' \in Seq(Nat) /\ Len(data') \in Nat
      /\ \A x \in 1..Len(data) : x <= Len(data') => data'[x] = data[x]
      /\ sent' = "whole" => Len(data') = At(m)
      /\ sent' = "longer" => Len(data') = At(m) + 2
      /\ sent' = "cut" => Len(data') < At(m)
      /\ sent' \in {"whole", "longer", "cut"}
  <2>1. CASE sent' = "whole" /\ data' = data
    BY <1>7, <2>1
  <2>2. CASE sent' = "longer" /\ data' = data \o <<1, 7>>
    <3>1. <<1, 7>> \in Seq(Nat) /\ Len(<<1, 7>>) = 2
      OBVIOUS
    <3>2. /\ data' \in Seq(Nat) /\ Len(data') = Len(data) + 2
          /\ \A x \in 1..Len(data) : data'[x] = data[x]
      BY <1>7, <2>2, <3>1, ConcatIs
    <3> QED
      BY <1>7, <2>2, <3>2
  <2>3. CASE sent' = "cut" /\ \E n \in 0..(Len(data) - 1) : data' = SubSeq(data, 1, n)
    <3>1. PICK n \in 0..(Len(data) - 1) : data' = SubSeq(data, 1, n)
      BY <2>3
    <3>2. data' \in Seq(Nat) /\ Len(data') = n /\ \A x \in 1..n : data'[x] = data[x]
      BY <1>7, <3>1, PrefixIs
    <3> QED
      BY <1>7, <2>3, <3>1, <3>2
  <2> QED
    BY <1>5, <2>1, <2>2, <2>3
<1>9. WireTypeOK'
  BY <1>1, <1>2, <1>8 DEF WireTypeOK
<1>10. SentInv'
  <2>1. sent' # "marshaling" /\ status' # "refused"
    BY <1>8, <1>3
  <2> QED
    BY <1>2, <1>6, <1>8, <2>1 DEF SentInv
<1>11. InStep(0)'
  <2>1. InData(0, received)'
    <3>1. ASSUME NEW j \in 1..m, NEW x \in 1..Len(Piece(j)), At(j - 1) + x <= Len(data')
          PROVE  data'[At(j - 1) + x - At(0)] = Piece(j)[x]
      <4>1. At(j - 1) \in Nat /\ At(j) = At(j - 1) + Len(Piece(j)) /\ At(j) <= At(m) /\ Len(Piece(j)) \in Nat
        BY <1>1, <1>4, FieldWritten
      <4>2. At(j - 1) + x \in 1..Len(data) /\ At(j - 1) + x - At(0) = At(j - 1) + x
        BY <1>7, <4>1
      <4>3. data[At(j - 1) + x - At(0)] = Piece(j)[x]
        BY <1>7, <4>1, <4>2
      <4> QED
        BY <1>8, <3>1, <4>2, <4>3
    <3>2. Len(data') = Len(data') - 0
      BY <1>8
    <3> QED
      BY <1>2, <1>4, <1>6, <1>7, <3>1, <3>2 DEF InData
  <2>2. At(0)' <= received'
    BY <1>2, <1>6, <1>7, <1>8
  <2>3. MatchAll(Left(0)', todo', type' \in Identity)
    <3>1. type \in DOMAIN NewRegistry /\ Left(0) = NewRegistry[type].write
      BY <1>1 DEF WireAssumption, WireTypeOK, MarksInv
    <3>2. Conforms(NewRegistry[type], type \in Identity)
      BY <3>1, PayloadsConform
    <3>3. MatchAll(NewRegistry[type].write, NewRegistry[type].read, type \in Identity)
      BY <3>2 DEF Conforms
    <3> QED
      BY <1>2, <1>6, <3>1, <3>3
  <2> QED
    BY <2>1, <2>2, <2>3 DEF InStep
<1>12. GotInv'
  <2>1. Len(got') = 0 /\ got' = <<>> /\ status' = "open"
    BY <1>2, <1>3
  <2>2. InStep(Len(got))'
    BY <1>11, <2>1 DEF InStep, InData, At, Left
  <2> QED
    BY <1>2, <1>4, <2>1, <2>2 DEF GotInv
<1> QED
  BY <1>6, <1>9, <1>10, <1>12 DEF WireInv

\* Unmarshal leaves alone what was sent.
LEMMA SentStays ==
  ASSUME WireTypeOK, MarksInv, SentInv, sent # "marshaling", status = "open", status' # "refused",
         UNCHANGED <<type, rows, full, written, sent, marks, received>>
  PROVE  /\ MarksInv' /\ SentInv' /\ \A k : Left(k)' = Left(k) /\ At(k)' = At(k) /\ Piece(k)' = Piece(k)
         /\ At(Len(written))' = At(Len(written))
<1>1. IF sent' = "marshaling" THEN sent = "marshaling" /\ todo' = todo ELSE sent # "marshaling" \/ todo = <<>>
  OBVIOUS
<1>2. /\ MarksInv' /\ \A k : Left(k)' = Left(k) /\ At(k)' = At(k) /\ Piece(k)' = Piece(k)
      /\ At(Len(written))' = At(Len(written))
  BY <1>1, MarksStay
<1>3. SentInv'
  BY <1>2 DEF SentInv
<1> QED
  BY <1>2, <1>3

LEMMA LeaveOutKeeps ==
  ASSUME WireAssumption, WireInv, LeaveOut
  PROVE  WireInv'
<1>1. WireTypeOK /\ MarksInv /\ SentInv /\ GotInv
  BY DEF WireInv
<1>2. /\ sent # "marshaling" /\ status = "open" /\ todo # <<>> /\ data = <<>>
      /\ UNCHANGED <<type, rows, full, written, data, sent, got, status, marks, received>>
  BY DEF LeaveOut, Reading, AtEnd
<1>3. PICK k \in Nat : k = Len(got)
  BY <1>1, ListIs DEF WireTypeOK
<1>4. k \in 0..Len(written)
  <2>1. Len(written) \in Nat /\ Len(got) <= Len(written)
    BY <1>1, ListIs DEF WireTypeOK, GotInv
  <2> QED
    BY <1>3, <2>1
<1>5. Starved
  <2>1. ASSUME InStep(k) PROVE sent = "cut"
    <3>1. k + 1 \in 1..Len(written) /\ (k + 1) - 1 = k
      BY <1>2, <1>4, <2>1, FieldInStep
    <3>2. At(k) \in Nat /\ At(k + 1) = At(k) + Len(Piece(k + 1)) /\ Len(Piece(k + 1)) \in Nat /\ Len(Piece(k + 1)) > 0
      BY <1>1, <3>1, FieldWritten
    <3>3. received \in Nat /\ 0 = received - At(k)
      <4>1. Len(data) = received - At(k)
        BY <2>1 DEF InStep, InData
      <4> QED
        BY <1>1, <1>2, <4>1 DEF WireTypeOK
    <3>4. At(k + 1) > received
      BY <3>2, <3>3
    <3> QED
      BY <1>2, <1>4, <2>1, <3>4, FieldCut
  <2>2. InStep(k) \/ Starved
    BY <1>1, <1>2, <1>3 DEF GotInv
  <2> QED
    BY <1>2, <2>1, <2>2 DEF Starved
<1>6. MarksInv' /\ SentInv'
  BY <1>1, <1>2, SentStays
<1>7. WireTypeOK'
  BY <1>1, <1>2 DEF WireTypeOK
<1>8. GotInv'
  <2>1. Starved'
    BY <1>2, <1>5 DEF Starved
  <2> QED
    BY <1>1, <1>2, <2>1 DEF GotInv
<1> QED
  BY <1>6, <1>7, <1>8 DEF WireInv

LEMMA ReadFieldKeeps ==
  ASSUME WireAssumption, WireInv, ReadField
  PROVE  WireInv'
<1> DEFINE f == Head(todo)
           limited == type \in Identity
<1>1. WireTypeOK /\ MarksInv /\ SentInv /\ GotInv
  BY DEF WireInv
<1>2. /\ sent # "marshaling" /\ status = "open" /\ todo # <<>> /\ Decodes(f, data)
      /\ got' = Append(got, <<f.name, ValueAt(f, data)>>) /\ data' = Beyond(f, data)
      /\ todo' = Following(f, ValueAt(f, data), Tail(todo))
      /\ UNCHANGED <<type, rows, full, written, sent, status, marks, received>>
  BY DEF ReadField, Reading
<1>3. PICK k \in Nat : k = Len(got)
  BY <1>1, ListIs DEF WireTypeOK
<1>4. k \in 0..Len(written) /\ Len(written) \in Nat
  <2>1. Len(written) \in Nat /\ Len(got) <= Len(written)
    BY <1>1, ListIs DEF WireTypeOK, GotInv
  <2> QED
    BY <1>3, <2>1
<1>5. Readable(f, data)
  BY <1>2 DEF Decodes
<1>6. ~Starved
  <2>1. data = <<>> => ~Readable(f, data)
    <3>1. Offset(f) + Width(f, <<>>) > 0 /\ Offset(f) + Width(f, <<>>) \in Nat /\ Len(<<>>) = 0
      BY DEF Offset, Width
    <3> QED
      BY <3>1 DEF Readable
  <2> QED
    BY <1>5, <2>1 DEF Starved
<1>7. InStep(k)
  BY <1>1, <1>2, <1>3, <1>6 DEF GotInv
<1> HIDE DEF f, limited
<1>8. /\ k + 1 \in 1..Len(written) /\ (k + 1) - 1 = k /\ Left(k) # <<>>
      /\ Matches(Head(Left(k)), f, limited) /\ written[k + 1] = <<f.name, written[k + 1][2]>>
      /\ written[k + 1][2] \in Seq(Nat)
      /\ Left(k + 1) = Following(Head(Left(k)), written[k + 1][2], Tail(Left(k)))
      /\ Head(Left(k)).kind = "count" => Len(written[k + 1][2]) = 4
  BY <1>2, <1>4, <1>7, FieldInStep DEF f, limited
<1>9. /\ Len(Piece(k + 1)) \in Nat /\ Len(Piece(k + 1)) > 0 /\ At(k) \in Nat
      /\ At(k + 1) = At(k) + Len(Piece(k + 1))
  BY <1>1, <1>8, FieldWritten
<1>10. At(k + 1) <= received
  <2>1. At(k + 1) > received => ~Readable(f, data)
    BY <1>2, <1>4, <1>7, FieldCut DEF f
  <2>2. received \in Nat
    BY <1>1 DEF WireTypeOK
  <2> QED
    BY <1>5, <1>9, <2>1, <2>2
<1> DEFINE v == written[k + 1][2]
           l == Len(Piece(k + 1))
<1>11. ValueAt(f, data) = v /\ Beyond(f, data) = Drop(data, l) /\ l <= Len(data)
  BY <1>2, <1>4, <1>7, <1>10, FieldArrived DEF f
<1>12. limited => Len(v) # 2
  BY <1>2, <1>4, <1>5, <1>7, <1>11, FieldDecodes DEF f, limited
<1>13. /\ MarksInv' /\ SentInv' /\ \A j : Left(j)' = Left(j) /\ At(j)' = At(j) /\ Piece(j)' = Piece(j)
  <2>1. status' # "refused"
    BY <1>2
  <2> QED
    BY <1>1, <1>2, <2>1, SentStays
<1>14. /\ data \in Seq(Nat) /\ Len(data) \in Nat /\ received \in Nat /\ Len(data) = received - At(k)
       /\ \A j \in (k + 1)..Len(written) : \A x \in 1..Len(Piece(j)) :
            At(j - 1) + x <= received => data[At(j - 1) + x - At(k)] = Piece(j)[x]
  BY <1>1, <1>7 DEF WireTypeOK, InStep, InData
<1>15. /\ data' \in Seq(Nat) /\ Len(data') = Len(data) - l
       /\ \A x \in 1..(Len(data) - l) : data'[x] = data[x + l]
  <2>1. data' = Drop(data, l) /\ l \in 0..Len(data)
    BY <1>2, <1>9, <1>11, <1>14
  <2> QED
    BY <1>14, <2>1, DropIs
<1>16. /\ IsList(got') /\ Len(got') = k + 1 /\ got'[k + 1] = <<f.name, v>>
       /\ \A i \in 1..k : got'[i] = got[i]
  <2>1. IsList(got) /\ got' = Append(got, <<f.name, v>>)
    BY <1>1, <1>2, <1>11 DEF WireTypeOK
  <2> HIDE DEF v
  <2> QED
    BY <1>3, <2>1, AppendIsList
<1>17. WireTypeOK'
  BY <1>1, <1>2, <1>15, <1>16 DEF WireTypeOK
<1>18. \A i \in 1..(k + 1) : got'[i] = written[i] /\ (limited => Len(got'[i][2]) # 2)
  <2>1. \A i \in 1..k : got[i] = written[i] /\ (limited => Len(got[i][2]) # 2)
    BY <1>1, <1>3 DEF GotInv, limited
  <2>2. \A i \in 1..(k + 1) : i \in 1..k \/ i = k + 1
    BY <1>3
  <2>3. got'[k + 1] = written[k + 1]
    BY <1>8, <1>16
  <2> QED
    BY <1>12, <1>16, <2>1, <2>2, <2>3
<1>19. InStep(k + 1)'
  <2>1. MatchAll(Left(k + 1), todo', limited)
    <3>1. MatchAll(Left(k), todo, limited) /\ todo # <<>>
      BY <1>2, <1>7 DEF InStep, limited
    <3>2. v \in Seq(Nat) /\ (Head(Left(k)).kind = "count" => Len(v) = 4)
      BY <1>8
    <3> HIDE DEF v
    <3>3. MatchAll(Following(Head(Left(k)), v, Tail(Left(k))), Following(Head(todo), v, Tail(todo)), limited)
      BY <3>1, <3>2, FollowingMatch
    <3> QED
      BY <1>2, <1>8, <1>11, <3>3 DEF f, v
  <2>2. ASSUME NEW j \in (k + 2)..Len(written), NEW x \in 1..Len(Piece(j)), At(j - 1) + x <= received
        PROVE  data'[At(j - 1) + x - At(k + 1)] = Piece(j)[x]
    <3>1. j \in (k + 1)..Len(written) /\ j \in 1..Len(written) /\ j - 1 \in 0..Len(written)
          /\ k + 1 \in 0..Len(written) /\ k + 1 <= j - 1
      BY <1>3, <1>4
    <3>2. At(k + 1) <= At(j - 1) /\ At(j - 1) \in Nat /\ Len(Piece(j)) \in Nat
      BY <1>1, <3>1, FieldWritten DEF MarksInv
    <3>3. data[At(j - 1) + x - At(k)] = Piece(j)[x]
      BY <1>14, <2>2, <3>1
    <3>4. At(j - 1) + x - At(k + 1) \in 1..(Len(data) - l)
      <4>1. At(k + 1) \in Nat /\ x \in Nat /\ x >= 1
        BY <1>9, <3>2
      <4>2. Len(data) - l = received - At(k + 1)
        BY <1>9, <1>14
      <4>3. \A a, b, n, y \in Nat : b <= a /\ y >= 1 /\ a + y <= n => a + y - b \in 1..(n - b)
        OBVIOUS
      <4>4. At(j - 1) + x - At(k + 1) \in 1..(received - At(k + 1))
        BY <1>14, <2>2, <3>2, <4>1, <4>3
      <4> QED
        BY <4>2, <4>4
    <3>5. At(j - 1) + x - At(k + 1) + l = At(j - 1) + x - At(k)
      BY <1>9, <3>2
    <3> QED
      BY <1>15, <3>3, <3>4, <3>5
  <2>3. Len(data') = received - At(k + 1)
    BY <1>9, <1>14, <1>15
  <2>4. InData(k + 1, received)'
    <3>1. (k + 1) + 1 = k + 2
      BY <1>3
    <3> QED
      BY <1>2, <1>13, <2>2, <2>3, <3>1 DEF InData
  <2> QED
    BY <1>2, <1>10, <1>13, <2>1, <2>4 DEF InStep, limited
<1>20. GotInv'
  <2>1. InStep(Len(got))'
    BY <1>16, <1>19 DEF InStep, InData, Left, At
  <2>2. Len(got') <= Len(written')
    BY <1>2, <1>4, <1>8, <1>16
  <2> QED
    BY <1>2, <1>16, <1>18, <2>1, <2>2 DEF GotInv, limited
<1> QED
  BY <1>13, <1>17, <1>20 DEF WireInv

LEMMA FailFieldKeeps ==
  ASSUME WireAssumption, WireInv, FailField
  PROVE  WireInv'
<1> DEFINE f == Head(todo)
           limited == type \in Identity
<1>1. WireTypeOK /\ MarksInv /\ SentInv /\ GotInv
  BY DEF WireInv
<1>2. /\ sent # "marshaling" /\ status = "open" /\ todo # <<>> /\ ~Decodes(f, data)
      /\ IF f.loose THEN todo' = Tail(todo) /\ status' = status ELSE status' = "error" /\ todo' = todo
      /\ UNCHANGED <<type, rows, full, written, data, sent, got, marks, received>>
  BY DEF FailField, Reading
<1>3. PICK k \in Nat : k = Len(got)
  BY <1>1, ListIs DEF WireTypeOK
<1>4. k \in 0..Len(written) /\ Len(written) \in Nat
  <2>1. Len(written) \in Nat /\ Len(got) <= Len(written)
    BY <1>1, ListIs DEF WireTypeOK, GotInv
  <2> QED
    BY <1>3, <2>1
<1>5. InStep(k) \/ Starved
  BY <1>1, <1>2, <1>3 DEF GotInv
<1>6. status' \in {"open", "error"} /\ (f.loose => status' = "open" /\ todo' = Tail(todo)) /\ (~f.loose => status' = "error")
  BY <1>2
<1>7. /\ MarksInv' /\ SentInv' /\ \A j : Left(j)' = Left(j) /\ At(j)' = At(j) /\ Piece(j)' = Piece(j)
  <2>1. status' # "refused"
    BY <1>6
  <2> QED
    BY <1>1, <1>2, <2>1, SentStays
<1>8. WireTypeOK'
  BY <1>1, <1>2, <1>6 DEF WireTypeOK
<1> HIDE DEF f, limited
<1>9. /\ status' = "open" => Starved \/ (Passed(k) /\ todo' = <<>>)
      /\ status' = "error" => (sent = "whole" => Overlong) /\ (sent = "longer" => limited)
  <2>1. CASE Starved
    BY <1>6, <2>1 DEF Starved
  <2>2. CASE InStep(k)
    <3>1. /\ k + 1 \in 1..Len(written) /\ (k + 1) - 1 = k /\ written[k + 1] = <<f.name, written[k + 1][2]>>
          /\ f.loose => Tail(todo) = <<>>
          /\ Matches(Head(Left(k)), f, limited)
      BY <1>2, <1>4, <2>2, FieldInStep DEF f, limited
    <3>2. CASE At(k + 1) <= received
      <4>1. Readable(f, data) /\ ValueAt(f, data) = written[k + 1][2]
        BY <1>2, <1>4, <2>2, <3>2, FieldArrived DEF f
      <4>2. limited /\ Len(written[k + 1][2]) = 2 /\ ~f.loose
        BY <1>2, <1>4, <2>2, <4>1, FieldDecodes DEF f, limited
      <4>3. Overlong
        <5>1. k + 1 \in DOMAIN written
          BY <1>1, <3>1 DEF WireTypeOK, IsList
        <5> QED
          BY <4>2, <5>1 DEF Overlong, limited
      <4> QED
        BY <1>6, <4>2, <4>3
    <3>3. CASE ~(At(k + 1) <= received)
      <4>1. At(k + 1) > received
        <5>1. At(k) \in Nat /\ Len(Piece(k + 1)) \in Nat /\ At(k + 1) = At(k) + Len(Piece(k + 1))
          BY <1>1, <3>1, FieldWritten
        <5>2. received \in Nat
          BY <1>1 DEF WireTypeOK
        <5> QED
          BY <3>3, <5>1, <5>2
      <4>2. sent = "cut"
        BY <1>2, <1>4, <2>2, <4>1, FieldCut
      <4>3. f.loose => Passed(k) /\ todo' = <<>>
        <5>1. f.loose => f.name \in Dropped
          BY <3>1 DEF Matches, Pairs, Agrees
        <5>2. written[k + 1][1] = f.name
          BY <3>1
        <5>3. k < Len(written)
          BY <1>4, <3>1
        <5> QED
          BY <1>6, <3>1, <4>2, <5>1, <5>2, <5>3 DEF Passed
      <4> QED
        BY <1>6, <4>2, <4>3
    <3> QED
      BY <3>2, <3>3
  <2> QED
    BY <1>5, <2>1, <2>2
<1>10. GotInv'
  <2>1. Starved' = Starved /\ Overlong' = Overlong /\ Passed(k)' = Passed(k)
    BY <1>2 DEF Starved, Overlong, Passed
  <2>2. Passed(Len(got))' = Passed(k)
    BY <1>2, <1>3 DEF Passed
  <2>3. status' # "ok"
    BY <1>6
  <2>4. sent' # "marshaling" /\ status' = "open" =>
          InStep(Len(got))' \/ Starved' \/ (Passed(Len(got))' /\ todo' = <<>>)
    BY <1>9, <2>1, <2>2
  <2>5. status' = "error" => (sent' = "whole" => Overlong') /\ (sent' = "longer" => type' \in Identity)
    BY <1>2, <1>9, <2>1 DEF limited
  <2> QED
    BY <1>1, <1>2, <2>3, <2>4, <2>5 DEF GotInv
<1> QED
  BY <1>7, <1>8, <1>10 DEF WireInv

LEMMA FinishKeeps ==
  ASSUME WireAssumption, WireInv, Finish
  PROVE  WireInv'
<1> DEFINE limited == type \in Identity
<1>1. WireTypeOK /\ MarksInv /\ SentInv /\ GotInv
  BY DEF WireInv
<1>2. /\ sent # "marshaling" /\ status = "open" /\ todo = <<>>
      /\ status' = IF NewRegistry[type].strict /\ data # <<>> THEN "error" ELSE "ok"
      /\ UNCHANGED <<type, rows, full, todo, written, data, sent, got, marks, received>>
  BY DEF Finish
<1>3. PICK k \in Nat : k = Len(got)
  BY <1>1, ListIs DEF WireTypeOK
<1>4. k \in 0..Len(written) /\ Len(written) \in Nat
  <2>1. Len(written) \in Nat /\ Len(got) <= Len(written)
    BY <1>1, ListIs DEF WireTypeOK, GotInv
  <2> QED
    BY <1>3, <2>1
<1>5. InStep(k) \/ Starved \/ Passed(k)
  BY <1>1, <1>2, <1>3 DEF GotInv
<1>6. status' \in {"ok", "error"}
  BY <1>2
<1>7. /\ MarksInv' /\ SentInv' /\ \A j : Left(j)' = Left(j) /\ At(j)' = At(j) /\ Piece(j)' = Piece(j)
  <2>1. status' # "refused"
    BY <1>6
  <2> QED
    BY <1>1, <1>2, <2>1, SentStays
<1>8. WireTypeOK'
  BY <1>1, <1>2, <1>6 DEF WireTypeOK
<1>9. NewRegistry[type].strict = (type \in Identity)
  <2>1. type \in DOMAIN NewRegistry
    BY <1>1 DEF WireAssumption, WireTypeOK
  <2>2. Conforms(NewRegistry[type], type \in Identity)
    BY <2>1, PayloadsConform
  <2> QED
    BY <2>2 DEF Conforms
<1>10. /\ status' = "ok" =>
            /\ sent = "whole" \/ (sent = "longer" /\ type \notin Identity) => k = Len(written)
            /\ sent = "longer" => type \notin Identity
            /\ sent = "cut" => Starved \/ Passed(k)
       /\ status' = "error" => (sent = "whole" => Overlong) /\ (sent = "longer" => type \in Identity)
  <2>1. CASE InStep(k)
    <3>1. k = Len(written)
      <4>1. IsList(Left(k)) /\ Len(Left(k)) = 0
        BY <1>2, <2>1 DEF InStep, MatchAll
      <4>2. Left(k) = <<>>
        BY <4>1, ListIs
      <4>3. k + 1 \in 1..Len(written) => Left((k + 1) - 1) # <<>>
        BY <1>1 DEF MarksInv, Marked
      <4>4. (k + 1) - 1 = k /\ (k # Len(written) => k + 1 \in 1..Len(written))
        BY <1>3, <1>4
      <4> QED
        BY <4>2, <4>3, <4>4
    <3>2. /\ data \in Seq(Nat) /\ received \in Nat /\ Len(data) = received - At(k) /\ At(k) <= received /\ At(k) \in Nat
      <4>1. At(k) \in Nat
        BY <1>1, <3>1, <1>4 DEF WireTypeOK, At
      <4> QED
        BY <1>1, <2>1, <4>1 DEF WireTypeOK, InStep, InData
    <3>3. sent \in {"whole", "longer"}
      BY <1>1, <1>2, <3>1, <3>2 DEF WireTypeOK, SentInv
    <3>4. CASE sent = "whole"
      <4>1. data = <<>>
        <5>1. received = At(k)
          BY <1>1, <3>1, <3>4 DEF SentInv
        <5> QED
          BY <3>2, <5>1
      <4>2. status' = "ok"
        BY <1>2, <4>1
      <4> QED
        BY <3>1, <3>4, <4>2
    <3>5. CASE sent = "longer"
      <4>1. data # <<>>
        <5>1. received = At(k) + 2
          BY <1>1, <3>1, <3>5 DEF SentInv
        <5> QED
          BY <3>2, <5>1
      <4>2. status' = IF type \in Identity THEN "error" ELSE "ok"
        BY <1>2, <1>9, <4>1
      <4> QED
        BY <3>1, <3>5, <4>2
    <3> QED
      BY <3>3, <3>4, <3>5
  <2>2. CASE Starved \/ Passed(k)
    <3>1. sent = "cut"
      BY <2>2 DEF Starved, Passed
    <3> QED
      BY <2>2, <3>1
  <2> QED
    BY <1>5, <2>1, <2>2
<1>11. GotInv'
  <2>1. Starved' = Starved /\ Overlong' = Overlong /\ Passed(Len(got))' = Passed(k) /\ Len(got') = k
    BY <1>2, <1>3 DEF Starved, Overlong, Passed
  <2>2. status' # "open"
    BY <1>6
  <2> QED
    BY <1>1, <1>2, <1>10, <2>1, <2>2 DEF GotInv
<1> QED
  BY <1>7, <1>8, <1>11 DEF WireInv

\* What Unmarshal has left to read is what Marshal had left to write at the same
\* place as long as data is left: for every message type, any number of rows and
\* any cut (WireInv, wire/messages.go, service.go, admin.go, identity_objects.go).
THEOREM WireInvariance == Spec => []WireInv
<1>1. Init => WireInv
  BY WireAssumption, WireStart
<1>2. WireInv /\ [Next]_vars => WireInv'
  <2> SUFFICES ASSUME WireInv, [Next]_vars PROVE WireInv'
    OBVIOUS
  <2>1. CASE Marshal
    BY <2>1, WireAssumption, WireMarshalKeeps
  <2>2. CASE Send
    BY <2>2, WireAssumption, WireSendKeeps
  <2>3. CASE LeaveOut
    BY <2>3, WireAssumption, LeaveOutKeeps
  <2>4. CASE ReadField
    BY <2>4, WireAssumption, ReadFieldKeeps
  <2>5. CASE FailField
    BY <2>5, WireAssumption, FailFieldKeeps
  <2>6. CASE Finish
    BY <2>6, WireAssumption, FinishKeeps
  <2>7. CASE UNCHANGED vars
    <3>1. WireTypeOK /\ MarksInv /\ SentInv /\ GotInv
      BY DEF WireInv
    <3>2. /\ MarksInv' /\ (\A k : Left(k)' = Left(k) /\ At(k)' = At(k) /\ Piece(k)' = Piece(k))
          /\ At(Len(written))' = At(Len(written))
      BY <2>7, <3>1, MarksStay DEF vars
    <3>3. WireTypeOK'
      BY <2>7, <3>1 DEF vars, WireTypeOK
    <3>4. SentInv'
      BY <2>7, <3>1, <3>2 DEF vars, SentInv, InData
    <3>5. GotInv'
      BY <2>7, <3>1, <3>2 DEF vars, GotInv, Starved, Passed, Overlong, InStep, InData, At, Left
    <3> QED
      BY <3>2, <3>3, <3>4, <3>5 DEF WireInv
  <2> QED
    BY <2>1, <2>2, <2>3, <2>4, <2>5, <2>6, <2>7 DEF Next
<1> QED
  BY <1>1, <1>2, PTL DEF Spec

\* What arrives whole, with or without a newer peer's fields behind it, is read as
\* it was written or refused for a reason: for every message type, any number of
\* rows and whatever fields are empty or long.
THEOREM WholeKept == Spec => []WholeIsKept
<1>1. WireInv => WholeIsKept
  <2> SUFFICES ASSUME WireInv PROVE WholeIsKept
    OBVIOUS
  <2>1. WireTypeOK /\ SentInv /\ GotInv
    BY DEF WireInv
  <2>2. Len(got) = Len(written) => got = written
    <3>1. IsList(got) /\ IsList(written) /\ \A i \in 1..Len(got) : got[i] = written[i]
      BY <2>1 DEF WireTypeOK, GotInv
    <3> QED
      BY <3>1, SameList
  <2>3. \A i \in DOMAIN written : i \in 1..Len(written)
    BY <2>1 DEF WireTypeOK, IsList
  <2>4. status = "ok" /\ Len(got) = Len(written) => ~Overlong
    BY <2>1, <2>3 DEF GotInv, Overlong
  <2>5. sent = "whole" \/ sent = "longer" => status \in {"open", "ok", "error"}
    BY <2>1 DEF WireTypeOK, SentInv
  <2>6. RoundTrip
    BY <2>1, <2>2, <2>4, <2>5 DEF GotInv, RoundTrip
  <2>7. LongerIsSame
    BY <2>1, <2>2, <2>5 DEF GotInv, LongerIsSame
  <2> QED
    BY <2>6, <2>7 DEF WholeIsKept
<1> QED
  BY <1>1, WireInvariance, PTL

\* Data that is cut anywhere shifts no field and passes for no older peer's, save
\* behind the two fields whose error is dropped (wire/service.go:111,
\* wire/admin.go:185): for every message type and any number of rows.
THEOREM CutNoticed == Spec => []CutIsNoticed
<1>1. WireInv => CutIsNoticed
  <2> SUFFICES ASSUME WireInv PROVE CutIsNoticed
    OBVIOUS
  <2>1. WireTypeOK /\ GotInv
    BY DEF WireInv
  <2>2. IsPrefix(got, written)
    <3>1. /\ Len(got) \in Nat /\ Len(written) \in Nat /\ Len(got) <= Len(written)
          /\ \A i \in 1..Len(got) : got[i] = written[i]
      BY <2>1, ListIs DEF WireTypeOK, GotInv
    <3>2. SubSeq(got, 1, Len(got)) = SubSeq(written, 1, Len(got))
      BY <3>1
    <3> QED
      BY <3>1, <3>2 DEF IsPrefix
  <2>3. CutReadsPrefix
    BY <2>2 DEF CutReadsPrefix
  <2>4. CutFails
    BY <2>1 DEF GotInv, CutFails, Starved, Passed, Dropped
  <2> QED
    BY <2>3, <2>4 DEF CutIsNoticed
<1> QED
  BY <1>1, WireInvariance, PTL

-----------------------------------------------------------------------------
(* Custom payloads: the values of their fields.                             *)

\* The bytes of a Go value that a field takes have the size of the field.
LEMMA FilledHas ==
  ASSUME PayloadTypeOK, NEW i \in 1..Len(schema), Writable(i)
  PROVE  /\ schema[i].kind \in {"string", "bytes"} \cup Fixed
         /\ Filled(i).bytes \in Seq(Nat)
         /\ Filled(i).go = schema[i].kind \/ (Filled(i).go = "number" /\ schema[i].kind \in Numeric /\ Filled(i) = fields[i])
         /\ Filled(i).go \in Fixed => Len(Filled(i).bytes) = Size(Filled(i).go)
         /\ Filled(i).go = "number" => Len(Filled(i).bytes) = 8
<1> DEFINE k == schema[i].kind
<1>1. schema[i] \in [kind : Kinds, required : BOOLEAN]
  BY ElementOfSeq DEF PayloadTypeOK
<1>2. k \in Kinds /\ fields[i] \in GoValues \cup {Absent}
  BY <1>1 DEF PayloadTypeOK
<1>3. Accepts(k, Filled(i))
  BY DEF Writable
<1>4. k \in {"string", "bytes"} \cup Fixed
  BY <1>2, <1>3 DEF Accepts, Kinds, Fixed, Numeric
<1>5. CASE fields[i] = Absent
  <2>1. Filled(i) = zeroValue(k)
    BY <1>5 DEF Filled
  <2>2. CASE k \in Fixed
    <3>1. Filled(i).go = k /\ Filled(i).bytes = Zeros(Size(k))
      BY <2>1, <2>2 DEF zeroValue, GoValue
    <3>2. Size(k) \in Nat
      BY DEF Size
    <3> HIDE DEF k
    <3> QED
      BY <1>4, <2>2, <3>1, <3>2, ZerosAre DEF Fixed, Numeric, k
  <2>3. CASE k \in {"string", "bytes"}
    <3>1. Filled(i).go = k /\ Filled(i).bytes = <<>>
      BY <2>1, <2>3 DEF zeroValue, GoValue, Fixed, Numeric
    <3> QED
      BY <1>4, <2>3, <3>1 DEF Fixed, Numeric
  <2> QED
    BY <1>4, <2>2, <2>3
<1>6. CASE fields[i] # Absent
  <2>1. Filled(i) = fields[i] /\ fields[i] \in GoValues
    BY <1>2, <1>6 DEF Filled
  <2> DEFINE v == fields[i]
  <2>2. /\ v \in [go : {"string", "bytes", "uint32", "uint64", "number", "bool", "nil"}, bytes : Seq(0..255)]
        /\ v.go = "bool" => Len(v.bytes) = 1
        /\ v.go = "uint32" => Len(v.bytes) = 4
        /\ v.go \in {"uint64", "number"} => Len(v.bytes) = 8
    BY <2>1, GoAssumption
  <2>3. v.bytes \in Seq(Nat)
    <3>1. v.bytes \in Seq(0..255) /\ 0..255 \subseteq Nat
      BY <2>2
    <3> QED
      BY <3>1, SeqMonotonic
  <2>4. v.go = k \/ (v.go = "number" /\ k \in Numeric)
    BY <1>3, <2>1 DEF Accepts
  <2> QED
    BY <1>4, <2>1, <2>2, <2>3, <2>4 DEF Size, Fixed, Numeric
<1> QED
  BY <1>5, <1>6

\* The value of a field has the width of its coding.
LEMMA FieldForm ==
  ASSUME PayloadTypeOK, NEW i \in 1..Len(schema), Writable(i)
  PROVE  /\ Value(i) \in Seq(Nat) /\ Written(i) = Encode(Code(i), Value(i)) /\ Written(i) \in Seq(Nat)
         /\ Prefixed(Code(i)) \/ \A e : Width(Code(i), e) = Len(Value(i))
<1> DEFINE k == schema[i].kind
           v == Value(i)
           c == Code(i)
<1>1. /\ k \in {"string", "bytes"} \cup Fixed
      /\ Filled(i).bytes \in Seq(Nat)
      /\ Filled(i).go = k \/ (Filled(i).go = "number" /\ k \in Numeric)
      /\ Filled(i).go \in Fixed => Len(Filled(i).bytes) = Size(Filled(i).go)
      /\ Filled(i).go = "number" => Len(Filled(i).bytes) = 8
  BY FilledHas
<1>2. v \in Seq(Nat) /\ (k \in Fixed => Len(v) = Size(k))
  <2>1. CASE Filled(i).go = "number" /\ k = "uint32"
    <3> DEFINE b == Filled(i).bytes
    <3>1. v = Drop(b, 4)
      BY <2>1 DEF Converted, Value
    <3>2. b \in Seq(Nat) /\ Len(b) = 8
      BY <1>1, <2>1
    <3> HIDE DEF b, v
    <3>3. 4 \in 0..Len(b)
      BY <3>2
    <3>4. Drop(b, 4) \in Seq(Nat) /\ Len(Drop(b, 4)) = Len(b) - 4
      BY <3>2, <3>3, DropIs
    <3>5. v \in Seq(Nat) /\ Len(v) = 4
      BY <3>1, <3>2, <3>4
    <3> QED
      BY <2>1, <3>5 DEF Size
  <2>2. CASE ~(Filled(i).go = "number" /\ k = "uint32")
    <3>1. v = Filled(i).bytes
      BY <2>2 DEF Converted, Value
    <3>2. k \in Fixed => Len(v) = Size(k)
      BY <1>1, <2>2, <3>1 DEF Size, Fixed, Numeric
    <3> QED
      BY <1>1, <3>1, <3>2
  <2> QED
    BY <2>1, <2>2
<1>3. c.kind = IF k = "bytes" THEN "string" ELSE k
  BY DEF Coding, Field, FieldOf, Code
<1>4. Written(i) = Encode(c, v)
  BY DEF Written, writeField, Value, Code
<1> HIDE DEF c, v, k
<1>5. ASSUME k \in {"string", "bytes"} PROVE Prefixed(c)
  BY <1>3, <1>5 DEF Prefixed
<1>6. ASSUME k \in Fixed PROVE \A e : Width(c, e) = Len(v)
  <2>1. ~Prefixed(c)
    BY <1>3, <1>6 DEF Prefixed, Fixed, Numeric
  <2>2. \A e : Width(c, e) = Size(k)
    BY <1>3, <1>6, <2>1 DEF Width, Size, Fixed, Numeric
  <2> QED
    BY <1>2, <1>6, <2>2
<1>7. Written(i) \in Seq(Nat)
  BY <1>2, <1>4, EncodeForm
<1>8. Prefixed(c) \/ \A e : Width(c, e) = Len(v)
  BY <1>1, <1>5, <1>6
<1> QED
  BY <1>2, <1>4, <1>7, <1>8 DEF c, v

\* A value that is read as it was written is kept.
LEMMA ReadIsKept ==
  ASSUME PayloadTypeOK, NEW i \in 1..Len(schema), Writable(i),
         NEW r, r = GoValue(schema[i].kind, Value(i))
  PROVE  \/ Wide(r) = Wide(Filled(i))
         \/ schema[i].kind = "uint32" /\ fields[i].go = "number" /\ SubSeq(fields[i].bytes, 1, 4) # Zeros(4)
<1> DEFINE k == schema[i].kind
           f == Filled(i)
<1>1. /\ k \in {"string", "bytes"} \cup Fixed
      /\ f.bytes \in Seq(Nat)
      /\ f.go = k \/ (f.go = "number" /\ k \in Numeric /\ f = fields[i])
      /\ f.go \in Fixed => Len(f.bytes) = Size(f.go)
      /\ f.go = "number" => Len(f.bytes) = 8
  BY FilledHas
<1>2. r.go = k /\ r.bytes = Converted(k, f)
  BY DEF GoValue, Value
<1> HIDE DEF k, f
<1>3. CASE f.go = k
  <2>1. Converted(k, f) = f.bytes
    BY <1>1, <1>3 DEF Converted, Fixed, Numeric
  <2> QED
    BY <1>2, <1>3, <2>1 DEF Wide, f
<1>4. CASE f.go = "number" /\ k = "uint64"
  <2>1. Converted(k, f) = f.bytes
    BY <1>4 DEF Converted
  <2> QED
    BY <1>2, <1>4, <2>1 DEF Wide, Numeric, f
<1>5. CASE f.go = "number" /\ k = "uint32"
  <2>1. Converted(k, f) = Drop(f.bytes, 4) /\ Len(f.bytes) = 8
    BY <1>1, <1>5 DEF Converted
  <2>b. f.bytes \in Seq(Nat)
    BY <1>1
  <2>2. CASE SubSeq(f.bytes, 1, 4) = Zeros(4)
    <3> DEFINE low == Drop(f.bytes, 4)
    <3>1. low \in Seq(Nat) /\ Len(low) = 4 /\ \A x \in 1..4 : low[x] = f.bytes[x + 4]
      <4>1. 4 \in 0..Len(f.bytes)
        BY <2>1
      <4>2. /\ low \in Seq(Nat) /\ Len(low) = Len(f.bytes) - 4
            /\ \A x \in 1..(Len(f.bytes) - 4) : low[x] = f.bytes[x + 4]
        BY <2>b, <4>1, DropIs
      <4> HIDE DEF low
      <4> QED
        BY <2>1, <4>2
    <3>2. \A x \in 1..4 : f.bytes[x] = 0
      <4>1. \A y \in 1..4 : f.bytes[y] \in Nat
        BY <1>1, <2>1, ElementOfSeq
      <4>2. \A x \in 1..4 : SubSeq(f.bytes, 1, 4)[x] = f.bytes[x]
        <5>1. \A x \in 1..(4 - 1 + 1) : SubSeq(f.bytes, 1, 4)[x] = f.bytes[1 + x - 1]
          BY <4>1, SubSeqProperties
        <5> QED
          BY <5>1
      <4>3. \A x \in 1..4 : Zeros(4)[x] = 0
        BY ZerosAre
      <4> QED
        BY <2>2, <4>2, <4>3
    <3> HIDE DEF low
    <3> DEFINE z == Zeros(4)
    <3>3. z \in Seq(Nat) /\ Len(z) = 4 /\ \A x \in 1..4 : z[x] = 0
      BY ZerosAre
    <3> HIDE DEF z
    <3>4. /\ z \o low \in Seq(Nat) /\ Len(z \o low) = 8
          /\ \A x \in 1..4 : (z \o low)[x] = 0
          /\ \A x \in 1..4 : (z \o low)[x + 4] = low[x]
      <4>1. /\ z \o low \in Seq(Nat) /\ Len(z \o low) = Len(z) + Len(low)
            /\ \A x \in 1..Len(z) : (z \o low)[x] = z[x]
            /\ \A x \in 1..Len(low) : (z \o low)[x + Len(z)] = low[x]
        BY <3>1, <3>3, ConcatIs
      <4> QED
        BY <3>1, <3>3, <4>1
    <3>5. \A x \in 1..8 : (z \o low)[x] = f.bytes[x]
      <4> TAKE x \in 1..8
      <4>1. CASE x \in 1..4
        BY <3>2, <3>4, <4>1
      <4>2. CASE x \notin 1..4
        <5> DEFINE y == x - 4
        <5>1. y \in 1..4 /\ x = y + 4
          BY <4>2
        <5> HIDE DEF y
        <5> QED
          BY <3>1, <3>4, <5>1
      <4> QED
        BY <4>1, <4>2
    <3>6. z \o low = f.bytes
      BY <2>1, <2>b, <3>4, <3>5, SameBytes
    <3>7. Wide(r) = z \o low
      <4>1. r.go = "uint32" /\ r.bytes = low /\ 8 - Len(low) = 4
        <5>1. r.go = "uint32" /\ r.bytes = low
          BY <1>2, <1>5, <2>1 DEF low
        <5> QED
          BY <3>1, <5>1
      <4> QED
        BY <4>1 DEF Wide, Numeric, z
    <3>8. Wide(f) = f.bytes
      <4>1. Zeros(0) = <<>>
        BY DEF Zeros
      <4>2. Zeros(8 - Len(f.bytes)) = <<>>
        BY <2>1, <4>1
      <4> QED
        BY <1>1, <1>5, <4>2, ConcatEmptySeq DEF Wide
    <3> QED
      BY <3>6, <3>7, <3>8 DEF f
  <2>3. CASE SubSeq(f.bytes, 1, 4) # Zeros(4)
    BY <1>1, <1>5, <2>3 DEF k, Numeric
  <2> QED
    BY <2>2, <2>3
<1> QED
  BY <1>1, <1>3, <1>4, <1>5 DEF Numeric

-----------------------------------------------------------------------------
(* Custom payloads: where the fields are.                                   *)

LEMMA SameFields ==
  ASSUME UNCHANGED <<schema, fields>>
  PROVE  \A i : (Writable(i)' <=> Writable(i)) /\ Written(i)' = Written(i) /\ Filled(i)' = Filled(i)
BY DEF Writable, Written, Filled

\* The fields written end one behind the other.
LEMMA EndsAre ==
  ASSUME PayloadTypeOK, WrittenInv
  PROVE  /\ \A i \in 1..Len(ends) :
              /\ i \in 1..Len(schema) /\ Writable(i) /\ Written(i) \in Seq(Nat)
              /\ End(i) = ends[i] /\ End(i) = End(i - 1) + Len(Written(i))
         /\ \A i \in 0..Len(ends) : End(i) \in Nat
         /\ \A i, j \in 0..Len(ends) : i <= j => End(i) <= End(j)
<1>1. Len(ends) \in Nat /\ Len(schema) \in Nat /\ Len(ends) <= Len(schema)
  BY DEF PayloadTypeOK
<1>2. \A i \in 1..Len(ends) : ends[i] \in Nat
  BY ElementOfSeq DEF PayloadTypeOK
<1>3. \A i \in 1..Len(ends) :
        i \in 1..Len(schema) /\ Writable(i) /\ End(i) = ends[i] /\ End(i) = End(i - 1) + Len(Written(i))
  BY <1>1 DEF WrittenInv, End
<1>4. \A i \in 0..Len(ends) : End(i) \in Nat
  BY <1>2 DEF End
<1>5. \A i \in 1..Len(ends) : Written(i) \in Seq(Nat)
  BY <1>3, FieldForm
<1>6. \A i, j \in 0..Len(ends) : i <= j => End(i) <= End(j)
  <2>1. \A i, j \in 1..Len(ends) : i <= j => ends[i] <= ends[j]
    BY DEF WrittenInv
  <2> QED
    BY <1>1, <1>2, <2>1 DEF End
<1> QED
  BY <1>3, <1>4, <1>5, <1>6

\* What the data starts with, as long as Unmarshal is in step.
LEMMA AtHead ==
  ASSUME PayloadTypeOK, WrittenInv, NEW k \in 0..(Len(ends) - 1), NEW n \in Nat, End(k) <= n, Holds(k, n)
  PROVE  /\ k + 1 \in 1..Len(schema) /\ Writable(k + 1)
         /\ End(k + 1) <= n =>
              /\ Len(payload) >= Len(Written(k + 1))
              /\ \A x \in 1..Len(Written(k + 1)) : payload[x] = Written(k + 1)[x]
         /\ n < End(k + 1) =>
              /\ Len(payload) < Len(Written(k + 1))
              /\ \A x \in 1..Len(payload) : payload[x] = Written(k + 1)[x]
<1> DEFINE w == Written(k + 1)
           e == End(k)
<1>1. Len(ends) \in Nat /\ Len(payload) \in Nat
  BY DEF PayloadTypeOK
<1>2. k \in 0..Len(ends) /\ k + 1 \in 1..Len(ends) /\ k + 1 - 1 = k
  BY <1>1
<1>3. /\ k + 1 \in 1..Len(schema) /\ Writable(k + 1) /\ w \in Seq(Nat)
      /\ End(k + 1) = End(k + 1 - 1) + Len(w) /\ e \in Nat
  BY <1>2, EndsAre
<1>4. Len(payload) = n - e /\ Len(w) \in Nat /\ End(k + 1) = e + Len(w)
  BY <1>2, <1>3 DEF Holds
<1>5. \A x \in 1..Len(w) : e + x <= n => payload[e + x - e] = w[x]
  BY <1>2 DEF Holds
<1> HIDE DEF e, w
<1>6. \A x \in 1..Len(w) : e + x <= n => payload[x] = w[x]
  <2>1. \A x \in 1..Len(w) : e + x - e = x
    BY <1>3
  <2> QED
    BY <1>5, <2>1
<1>7. End(k + 1) <= n => Len(payload) >= Len(w) /\ \A x \in 1..Len(w) : payload[x] = w[x]
  BY <1>3, <1>4, <1>6
<1>8. n < End(k + 1) => Len(payload) < Len(w) /\ \A x \in 1..Len(payload) : payload[x] = w[x]
  BY <1>1, <1>3, <1>4, <1>6
<1> QED
  BY <1>3, <1>7, <1>8 DEF w

\* A field that arrived whole is read as it was written, and Unmarshal stays in step.
LEMMA HeadRead ==
  ASSUME PayloadTypeOK, WrittenInv, NEW k \in 0..(Len(ends) - 1), NEW n \in Nat, End(k) <= n, Holds(k, n),
         End(k + 1) <= n
  PROVE  /\ Readable(Code(k + 1), payload) /\ ValueAt(Code(k + 1), payload) = Value(k + 1)
         /\ Len(Beyond(Code(k + 1), payload)) = n - End(k + 1)
         /\ \A i \in (k + 2)..Len(ends) : \A x \in 1..Len(Written(i)) :
              End(i - 1) + x <= n => Beyond(Code(k + 1), payload)[End(i - 1) + x - End(k + 1)] = Written(i)[x]
<1> DEFINE l == Len(Written(k + 1))
           b == Beyond(Code(k + 1), payload)
           d == payload
<1>1. Len(ends) \in Nat /\ Len(d) \in Nat /\ d \in Seq(Nat)
  BY DEF PayloadTypeOK
<1>2. k \in 0..Len(ends) /\ k + 1 \in 1..Len(ends) /\ k + 1 - 1 = k /\ k + 1 \in 0..Len(ends)
  BY <1>1
<1>3. End(k + 1) = End(k) + l /\ l \in Nat /\ End(k) \in Nat /\ End(k + 1) \in Nat
  BY <1>2, EndsAre
<1>4. /\ k + 1 \in 1..Len(schema) /\ Writable(k + 1)
      /\ Len(d) >= l /\ \A x \in 1..l : d[x] = Written(k + 1)[x]
  BY AtHead
<1>5. Readable(Code(k + 1), d) /\ ValueAt(Code(k + 1), d) = Value(k + 1) /\ b = Drop(d, l)
  <2>1. /\ Value(k + 1) \in Seq(Nat) /\ Written(k + 1) = Encode(Code(k + 1), Value(k + 1))
        /\ Prefixed(Code(k + 1)) \/ \A e : Width(Code(k + 1), e) = Len(Value(k + 1))
    BY <1>4, FieldForm
  <2>2. Len(d) >= Len(Encode(Code(k + 1), Value(k + 1)))
    BY <1>4, <2>1
  <2>3. \A x \in 1..Len(Encode(Code(k + 1), Value(k + 1))) : d[x] = Encode(Code(k + 1), Value(k + 1))[x]
    BY <1>4, <2>1
  <2>4. /\ Readable(Code(k + 1), d) /\ ValueAt(Code(k + 1), d) = Value(k + 1)
        /\ b = Drop(d, Len(Encode(Code(k + 1), Value(k + 1))))
    BY <1>1, <2>1, <2>2, <2>3, ReadsWhole
  <2> QED
    BY <2>1, <2>4
<1>6. Len(d) = n - End(k)
  BY DEF Holds
<1>7. Len(b) = Len(d) - l /\ \A x \in 1..(Len(d) - l) : b[x] = d[x + l]
  <2>1. l \in 0..Len(d)
    BY <1>1, <1>3, <1>4
  <2> HIDE DEF l, b, d
  <2> QED
    BY <1>1, <1>5, <2>1, DropIs
<1>8. Len(b) = n - End(k + 1)
  <2> HIDE DEF l, b, d
  <2> QED
    BY <1>3, <1>6, <1>7
<1>9. ASSUME NEW i \in (k + 2)..Len(ends), NEW x \in 1..Len(Written(i)), End(i - 1) + x <= n
      PROVE  b[End(i - 1) + x - End(k + 1)] = Written(i)[x]
  <2>1. i \in (k + 1)..Len(ends) /\ i - 1 \in 0..Len(ends) /\ i \in 1..Len(ends) /\ k + 1 <= i - 1
    BY <1>1
  <2>2. d[End(i - 1) + x - End(k)] = Written(i)[x]
    BY <1>9, <2>1 DEF Holds
  <2>3. End(i - 1) \in Nat /\ End(k + 1) <= End(i - 1) /\ x \in Nat /\ x >= 1
    BY <1>2, <2>1, EndsAre
  <2> DEFINE e == End(i - 1)
             y == e + x - End(k + 1)
  <2>4. e \in Nat /\ End(k + 1) <= e /\ e + x <= n
    BY <1>9, <2>3
  <2> HIDE DEF l, b, d, e
  <2>5. y \in 1..(Len(d) - l) /\ y + l = e + x - End(k)
    <3>1. End(k + 1) \in Nat /\ x \in Nat /\ 1 <= x
      BY <1>3, <2>3
    <3>2. y \in Int
      BY <2>4, <3>1
    <3>3. y \in Int /\ 1 <= y
      BY <2>4, <3>1, <3>2
    <3>4. y <= n - End(k) - l /\ y + l = e + x - End(k)
      BY <1>3, <2>3, <2>4
    <3> HIDE DEF y
    <3> QED
      BY <1>1, <1>3, <1>6, <3>3, <3>4
  <2>6. b[y] = d[y + l]
    BY <1>7, <2>5
  <2> QED
    BY <2>2, <2>5, <2>6 DEF e
<1> QED
  BY <1>5, <1>8, <1>9

\* A field that is cut is not read, as long as Unmarshal is in step.
LEMMA HeadCut ==
  ASSUME PayloadTypeOK, WrittenInv, NEW k \in 0..(Len(ends) - 1), NEW n \in Nat, End(k) <= n, Holds(k, n),
         n < End(k + 1)
  PROVE  ~Readable(Code(k + 1), payload)
<1>1. payload \in Seq(Nat)
  BY DEF PayloadTypeOK
<1>2. /\ k + 1 \in 1..Len(schema) /\ Writable(k + 1)
      /\ Len(payload) < Len(Written(k + 1)) /\ \A x \in 1..Len(payload) : payload[x] = Written(k + 1)[x]
  BY AtHead
<1>3. /\ Value(k + 1) \in Seq(Nat) /\ Written(k + 1) = Encode(Code(k + 1), Value(k + 1))
      /\ Prefixed(Code(k + 1)) \/ \A e : Width(Code(k + 1), e) = Len(Value(k + 1))
  BY <1>2, FieldForm
<1> QED
  BY <1>1, <1>2, <1>3, FailsCut

-----------------------------------------------------------------------------
(* Custom payloads: every step.                                             *)

\* A field that is marshaled stands behind those before it.
LEMMA MarshalKeeps ==
  ASSUME PayloadInv, MarshalField
  PROVE  PayloadInv'
<1>1. PICK m \in Nat : m = Len(ends)
  BY DEF PayloadInv, PayloadTypeOK
<1> DEFINE i == m + 1
           w == Written(i)
<1>2. PayloadTypeOK /\ WrittenInv /\ InStepInv /\ ReadInv
  BY DEF PayloadInv
<1>3. /\ m = Len(ends) /\ m \in Nat /\ Len(schema) \in Nat /\ m < Len(schema) /\ phase = "marshaling"
      /\ UNCHANGED <<schema, fields, arrived, result>>
      /\ payload \in Seq(Nat) /\ ends \in Seq(Nat)
  BY <1>1, <1>2 DEF MarshalField, PayloadTypeOK
<1>4. i \in 1..Len(schema) /\ result = <<>> /\ Holds(0, End(m))
  BY <1>2, <1>3 DEF WrittenInv, InStepInv
<1>5. \A j : (Writable(j)' <=> Writable(j)) /\ Written(j)' = Written(j) /\ Filled(j)' = Filled(j)
  BY <1>3, SameFields
<1>6. CASE Writable(i)
  <2>1. /\ payload' = payload \o w /\ ends' = Append(ends, Len(payload) + Len(w)) /\ phase' = phase
    BY <1>1, <1>6 DEF MarshalField
  <2>2. w \in Seq(Nat)
    BY <1>2, <1>4, <1>6, FieldForm
  <2> HIDE DEF w
  <2>3. /\ payload' \in Seq(Nat) /\ Len(payload') = Len(payload) + Len(w)
        /\ \A x \in 1..Len(payload) : payload'[x] = payload[x]
        /\ \A x \in 1..Len(w) : payload'[x + Len(payload)] = w[x]
    BY <1>3, <2>1, <2>2, ConcatIs
  <2>4. Len(payload) \in Nat /\ Len(w) \in Nat /\ Len(payload) + Len(w) \in Nat
    BY <1>3, <2>2
  <2>5. /\ ends' \in Seq(Nat) /\ Len(ends)' = m + 1
        /\ \A j \in 1..m : ends'[j] = ends[j]
        /\ ends'[m + 1] = Len(payload) + Len(w)
    BY <1>3, <2>1, <2>4, AppendProperties
  <2>6. Len(payload) = End(m)
    <3>1. Len(payload) = End(m) - End(0)
      BY <1>4 DEF Holds
    <3>2. End(0) = 0 /\ End(m) \in Nat
      BY <1>2, <1>3, EndsAre DEF End
    <3> QED
      BY <3>1, <3>2
  <2>7. /\ \A j \in 0..m : End(j)' = End(j)
        /\ End(m + 1)' = End(m) + Len(w)
    <3>1. \A j \in 0..m : End(j)' = End(j)
      BY <1>3, <2>5 DEF End
    <3>2. End(m + 1)' = ends'[m + 1]
      BY <1>3 DEF End
    <3> QED
      BY <2>5, <2>6, <3>1, <3>2
  <2>8. \A j \in 1..Len(ends)' : j \in 1..m \/ j = m + 1
    BY <1>3, <2>5
  <2>9. PayloadTypeOK'
    BY <1>2, <1>3, <1>4, <2>1, <2>3, <2>5 DEF PayloadTypeOK
  <2>10. WrittenInv'
    <3>1. ASSUME NEW j \in 1..Len(ends)'
          PROVE  Writable(j)' /\ ends'[j] = End(j - 1)' + Len(Written(j)')
      <4>1. CASE j \in 1..m
        <5>1. Writable(j) /\ End(j) = ends[j] /\ End(j) = End(j - 1) + Len(Written(j))
          BY <1>2, <1>3, <4>1, EndsAre
        <5>2. End(j - 1)' = End(j - 1)
          BY <1>3, <2>7, <4>1
        <5> QED
          BY <1>5, <2>5, <4>1, <5>1, <5>2
      <4>2. CASE j = m + 1
        <5>1. End(j - 1)' = End(m)
          BY <1>3, <2>7, <4>2
        <5> QED
          BY <1>5, <1>6, <2>5, <2>6, <4>2, <5>1 DEF w
      <4> QED
        BY <2>8, <4>1, <4>2
    <3>2. ASSUME NEW j \in 1..Len(ends)', NEW q \in 1..Len(ends)', j <= q
          PROVE  ends'[j] <= ends'[q]
      <4>1. CASE q \in 1..m
        <5>1. j \in 1..m
          BY <1>3, <3>2, <4>1
        <5> QED
          BY <1>2, <1>3, <2>5, <3>2, <4>1, <5>1 DEF WrittenInv
      <4>2. CASE q = m + 1 /\ j \in 1..m
        <5>1. ends[j] = End(j) /\ End(j) <= End(m) /\ End(j) \in Nat
          BY <1>2, <1>3, <4>2, EndsAre
        <5> QED
          BY <2>4, <2>5, <2>6, <4>2, <5>1
      <4>3. CASE q = m + 1 /\ j = m + 1
        BY <2>4, <2>5, <4>3
      <4> QED
        BY <2>8, <4>1, <4>2, <4>3
    <3>3. phase' = "marshaling" /\ result' = <<>>
      BY <1>3, <1>4, <2>1
    <3> QED
      BY <3>1, <3>2, <3>3 DEF WrittenInv
  <2>11. Holds(0, End(Len(ends)))'
    <3> DEFINE e == Len(payload)
    <3>1. Len(ends)' = m + 1 /\ End(m + 1)' = e + Len(w) /\ End(0)' = 0 /\ End(0) = 0
      BY <2>5, <2>6, <2>7 DEF End
    <3>2. Len(payload') = End(m + 1)' - End(0)'
      BY <2>3, <2>4, <3>1
    <3>3. ASSUME NEW j \in 1..Len(ends)', NEW x \in 1..Len(Written(j)')
          PROVE  payload'[End(j - 1)' + x - End(0)'] = (Written(j)')[x]
      <4>1. Written(j)' = Written(j)
        BY <1>5
      <4>2. CASE j \in 1..m
        <5>1. /\ Written(j) \in Seq(Nat) /\ End(j) = End(j - 1) + Len(Written(j)) /\ End(j - 1) \in Nat
              /\ End(j) <= e /\ End(j) \in Nat
          <6>1. j - 1 \in 0..m /\ j \in 0..m /\ m \in 0..m /\ j <= m
            BY <1>3, <4>2
          <6> QED
            BY <1>2, <1>3, <2>6, <4>2, <6>1, EndsAre
        <5>2. End(j - 1)' = End(j - 1)
          BY <1>3, <2>7, <4>2
        <5>3. /\ x \in 1..Len(Written(j)) /\ End(j - 1) + x \in 1..e
              /\ End(j - 1) + x - 0 = End(j - 1) + x
          <6>1. x \in 1..Len(Written(j)) /\ x \in Nat /\ 1 <= x /\ x <= Len(Written(j)) /\ Len(Written(j)) \in Nat
            BY <4>1, <5>1
          <6> QED
            BY <2>4, <5>1, <6>1
        <5>4. payload[End(j - 1) + x - 0] = Written(j)[x]
          <6>1. j \in (0 + 1)..m /\ End(j - 1) + x <= End(m)
            BY <2>6, <4>2, <5>3
          <6> QED
            BY <1>3, <1>4, <3>1, <5>3, <6>1 DEF Holds
        <5>5. payload'[End(j - 1) + x] = payload[End(j - 1) + x]
          BY <2>3, <5>3
        <5> QED
          BY <3>1, <4>1, <5>2, <5>3, <5>4, <5>5
      <4>3. CASE j = m + 1
        <5>1. End(j - 1)' = e
          BY <1>3, <2>6, <2>7, <4>3
        <5>2. x \in 1..Len(w) /\ Written(j) = w
          BY <4>1, <4>3 DEF w
        <5>3. e + x - 0 = x + e
          BY <2>4, <5>2
        <5> QED
          BY <2>3, <3>1, <4>1, <5>1, <5>2, <5>3
      <4> QED
        BY <2>8, <4>2, <4>3
    <3>4. Holds(0, End(m + 1))'
      BY <3>2, <3>3 DEF Holds
    <3> QED
      BY <3>1, <3>4
  <2> QED
    BY <1>3, <2>1, <2>9, <2>10, <2>11 DEF PayloadInv, InStepInv, ReadInv
<1>7. CASE ~Writable(i)
  <2>1. phase' = "refused" /\ UNCHANGED <<payload, ends>>
    BY <1>1, <1>7 DEF MarshalField
  <2>2. PayloadTypeOK'
    BY <1>2, <1>3, <2>1 DEF PayloadTypeOK
  <2>3. WrittenInv'
    <3>1. \A j : End(j)' = End(j)
      BY <2>1 DEF End
    <3>2. \E j \in 1..Len(schema)' : ~Writable(j)'
      BY <1>3, <1>4, <1>5, <1>7
    <3>3. \A j \in 1..Len(ends)' : Writable(j)' /\ ends'[j] = End(j - 1)' + Len(Written(j)')
      BY <1>2, <1>5, <2>1, <3>1 DEF WrittenInv
    <3>4. \A j, q \in 1..Len(ends)' : j <= q => ends'[j] <= ends'[q]
      BY <1>2, <2>1 DEF WrittenInv
    <3> QED
      BY <2>1, <3>2, <3>3, <3>4 DEF WrittenInv
  <2> QED
    BY <2>1, <2>2, <2>3 DEF PayloadInv, InStepInv, ReadInv
<1> QED
  BY <1>6, <1>7

\* What is sent is the first bytes of what was written.
LEMMA SendKeeps ==
  ASSUME PayloadInv, SendPayload
  PROVE  PayloadInv'
<1>1. PayloadTypeOK /\ WrittenInv /\ InStepInv /\ ReadInv
  BY DEF PayloadInv
<1>2. /\ UNCHANGED <<schema, fields, ends, result>> /\ phase = "marshaling" /\ phase' = "reading"
      /\ Len(ends) = Len(schema) /\ payload \in Seq(Nat) /\ result = <<>>
  BY <1>1 DEF SendPayload, PayloadTypeOK, WrittenInv
<1>3. PICK n \in 0..Len(payload) : arrived' = n /\ payload' = SubSeq(payload, 1, n)
  BY DEF SendPayload
<1>4. /\ payload' \in Seq(Nat) /\ Len(payload') = n /\ \A x \in 1..n : payload'[x] = payload[x]
  BY <1>2, <1>3, PrefixIs
<1>5. n \in Nat /\ Len(payload) \in Nat /\ n <= Len(payload)
  BY <1>2
<1>6. \A j : (Writable(j)' <=> Writable(j)) /\ Written(j)' = Written(j) /\ End(j)' = End(j)
  BY <1>2, SameFields DEF End
<1>7. PayloadTypeOK'
  BY <1>1, <1>2, <1>3, <1>4, <1>5 DEF PayloadTypeOK
<1>8. WrittenInv'
  <2>1. \A j \in 1..Len(ends)' : Writable(j)' /\ ends'[j] = End(j - 1)' + Len(Written(j)')
    BY <1>1, <1>2, <1>6 DEF WrittenInv
  <2>2. \A j, q \in 1..Len(ends)' : j <= q => ends'[j] <= ends'[q]
    BY <1>1, <1>2 DEF WrittenInv
  <2> QED
    BY <1>2, <2>1, <2>2 DEF WrittenInv
<1>9. Holds(0, n)'
  <2>1. End(0) = 0
    BY DEF End
  <2>2. Holds(0, End(Len(ends)))
    BY <1>1, <1>2 DEF InStepInv
  <2>3. Len(payload) = End(Len(ends))
    <3>1. Len(payload) = End(Len(ends)) - 0 /\ End(Len(ends)) \in Nat
      <4>1. Len(ends) \in 0..Len(ends)
        BY <1>1 DEF PayloadTypeOK
      <4> QED
        BY <1>1, <2>1, <2>2, <4>1, EndsAre DEF Holds
    <3> QED
      BY <3>1
  <2>4. ASSUME NEW j \in 1..Len(ends), NEW x \in 1..Len(Written(j)), End(j - 1) + x <= n
        PROVE  payload'[End(j - 1) + x - 0] = Written(j)[x]
    <3>1. /\ Written(j) \in Seq(Nat) /\ End(j - 1) \in Nat
      <4>1. j - 1 \in 0..Len(ends)
        BY <1>1 DEF PayloadTypeOK
      <4> QED
        BY <1>1, <4>1, EndsAre
    <3>2. End(j - 1) + x \in 1..n /\ End(j - 1) + x - 0 = End(j - 1) + x /\ End(j - 1) + x <= Len(payload)
      BY <1>5, <2>4, <3>1
    <3>3. payload[End(j - 1) + x - 0] = Written(j)[x]
      BY <2>1, <2>2, <2>3, <3>2 DEF Holds
    <3> QED
      BY <1>4, <3>2, <3>3
  <2>5. Len(payload') = n - 0
    BY <1>4, <1>5
  <2> QED
    BY <1>2, <1>6, <2>1, <2>4, <2>5 DEF Holds
<1>10. InStepInv'
  BY <1>2, <1>3, <1>9 DEF InStepInv
<1>11. ReadInv'
  BY <1>2 DEF ReadInv
<1> QED
  BY <1>7, <1>8, <1>10, <1>11 DEF PayloadInv

\* What a step of Unmarshal leaves as it is: the fields that were read before, too.
LEMMA StillKept ==
  ASSUME PayloadInv, phase = "reading", UNCHANGED <<schema, fields, ends, arrived>>,
         NEW v \in [go : Kinds, bytes : Seq(Nat)], result' = Append(result, v), phase' = "reading",
         Len(result) < Len(schema), payload' \in Seq(Nat)
  PROVE  /\ PayloadTypeOK' /\ WrittenInv' /\ Len(result)' = Len(result) + 1
         /\ result'[Len(result) + 1] = v
         /\ \A i \in 1..Len(result) :
              /\ ends'[i] <= arrived' => Kept(i)'
              /\ (\A j \in 1..i : schema'[j].required) => ends'[i] <= arrived'
         /\ \A j : End(j)' = End(j) /\ Written(j)' = Written(j)
         /\ Len(ends) = Len(schema) /\ Len(result) \in 0..(Len(ends) - 1)
<1>1. PayloadTypeOK /\ WrittenInv /\ InStepInv /\ ReadInv
  BY DEF PayloadInv
<1>2. /\ Len(ends) = Len(schema) /\ Len(schema) \in Nat /\ Len(result) \in Nat
      /\ result \in Seq([go : Kinds, bytes : Seq(Nat)])
  BY <1>1 DEF PayloadTypeOK, WrittenInv
<1>3. /\ result' \in Seq([go : Kinds, bytes : Seq(Nat)]) /\ Len(result)' = Len(result) + 1
      /\ \A i \in 1..Len(result) : result'[i] = result[i]
      /\ result'[Len(result) + 1] = v
  BY <1>2, AppendProperties
<1>4. /\ \A j : (Writable(j)' <=> Writable(j)) /\ Written(j)' = Written(j) /\ Filled(j)' = Filled(j)
      /\ \A j : End(j)' = End(j)
  BY SameFields DEF End
<1>5. PayloadTypeOK'
  BY <1>1, <1>2, <1>3 DEF PayloadTypeOK
<1>6. WrittenInv'
  <2>1. \A j \in 1..Len(ends)' : Writable(j)' /\ ends'[j] = End(j - 1)' + Len(Written(j)')
    BY <1>1, <1>4 DEF WrittenInv
  <2>2. \A j, q \in 1..Len(ends)' : j <= q => ends'[j] <= ends'[q]
    BY <1>1 DEF WrittenInv
  <2> QED
    BY <1>2, <2>1, <2>2 DEF WrittenInv
<1>7. ASSUME NEW i \in 1..Len(result)
      PROVE  /\ ends'[i] <= arrived' => Kept(i)'
             /\ (\A j \in 1..i : schema'[j].required) => ends'[i] <= arrived'
  <2>1. Kept(i)' <=> Kept(i)
    BY <1>3, <1>4 DEF Kept
  <2> QED
    BY <1>1, <2>1 DEF ReadInv
<1>8. Len(result) \in 0..(Len(ends) - 1)
  BY <1>2
<1> QED
  BY <1>2, <1>3, <1>4, <1>5, <1>6, <1>7, <1>8

\* A field that is read keeps Unmarshal in step and is kept, if it arrived whole.
LEMMA ReadKeeps ==
  ASSUME PayloadInv, readField
  PROVE  PayloadInv'
<1>1. PICK k \in Nat : k = Len(result)
  BY DEF PayloadInv, PayloadTypeOK
<1> DEFINE c == Code(k + 1)
           v == GoValue(schema[k + 1].kind, ValueAt(c, payload))
<1>2. PayloadTypeOK /\ WrittenInv /\ InStepInv /\ ReadInv
  BY DEF PayloadInv
<1>3. /\ UNCHANGED <<schema, fields, phase, ends, arrived>> /\ phase = "reading"
      /\ k < Len(schema) /\ k + 1 \in 1..Len(schema) /\ k \in 0..(Len(ends) - 1)
      /\ payload \in Seq(Nat) /\ arrived \in Nat /\ Len(ends) = Len(schema)
  BY <1>1, <1>2 DEF readField, Unread, PayloadTypeOK, WrittenInv
<1>4. Readable(c, payload) /\ result' = Append(result, v) /\ payload' = Beyond(c, payload)
  BY <1>1 DEF readField, Expecting, Code
<1>5. payload' \in Seq(Nat) /\ v \in [go : Kinds, bytes : Seq(Nat)]
  <2>1. schema[k + 1] \in [kind : Kinds, required : BOOLEAN]
    BY <1>2, <1>3, ElementOfSeq DEF PayloadTypeOK
  <2>2. ValueAt(c, payload) \in Seq(Nat) /\ Beyond(c, payload) \in Seq(Nat)
    BY <1>3, <1>4, ReadTypes
  <2> QED
    BY <1>4, <2>1, <2>2 DEF GoValue
<1> HIDE DEF v
<1>6. /\ PayloadTypeOK' /\ WrittenInv' /\ Len(result)' = k + 1 /\ result'[k + 1] = v
      /\ \A i \in 1..k :
           /\ ends'[i] <= arrived' => Kept(i)'
           /\ (\A j \in 1..i : schema'[j].required) => ends'[i] <= arrived'
      /\ \A j : End(j)' = End(j) /\ Written(j)' = Written(j)
  BY <1>1, <1>3, <1>4, <1>5, StillKept
<1>7. ends[k + 1] = End(k + 1) /\ End(k) <= End(k + 1) /\ End(k) \in Nat /\ End(k + 1) \in Nat
  <2>1. k \in 0..Len(ends) /\ k + 1 \in 0..Len(ends) /\ k + 1 \in 1..Len(ends) /\ k <= k + 1
    BY <1>3
  <2> QED
    BY <1>2, <2>1, EndsAre
<1>8. End(k) <= arrived => Holds(k, arrived)
  BY <1>1, <1>2, <1>3 DEF InStepInv
<1>9. CASE End(k + 1) <= arrived
  <2>1. End(k) <= arrived
    BY <1>3, <1>7, <1>9
  <2>2. /\ ValueAt(c, payload) = Value(k + 1)
        /\ Len(Beyond(c, payload)) = arrived - End(k + 1)
        /\ \A i \in (k + 2)..Len(ends) : \A x \in 1..Len(Written(i)) :
             End(i - 1) + x <= arrived => Beyond(c, payload)[End(i - 1) + x - End(k + 1)] = Written(i)[x]
    BY <1>2, <1>3, <1>8, <1>9, <2>1, HeadRead
  <2>3. Holds(k + 1, arrived)'
    <3>1. k + 1 + 1 = k + 2
      OBVIOUS
    <3> QED
      BY <1>3, <1>4, <1>6, <2>2, <3>1 DEF Holds
  <2>4. Kept(k + 1)'
    <3>1. Writable(k + 1)
      BY <1>2, <1>3 DEF WrittenInv
    <3>2. v = GoValue(schema[k + 1].kind, Value(k + 1))
      BY <2>2 DEF v
    <3>3. \/ Wide(v) = Wide(Filled(k + 1))
          \/ schema[k + 1].kind = "uint32" /\ fields[k + 1].go = "number" /\ SubSeq(fields[k + 1].bytes, 1, 4) # Zeros(4)
      BY <1>2, <1>3, <3>1, <3>2, ReadIsKept
    <3>4. Filled(k + 1)' = Filled(k + 1)
      BY <1>3, SameFields
    <3> QED
      BY <1>3, <1>6, <3>3, <3>4 DEF Kept
  <2>5. ReadInv'
    <3>1. \A i \in 1..(k + 1) : i \in 1..k \/ i = k + 1
      BY <1>3
    <3> QED
      BY <1>3, <1>6, <1>7, <1>9, <2>4, <3>1 DEF ReadInv
  <2>6. InStepInv'
    BY <1>3, <1>6, <2>3 DEF InStepInv
  <2> QED
    BY <1>6, <2>5, <2>6 DEF PayloadInv
<1>10. CASE arrived < End(k + 1)
  <2>1. arrived < End(k)
    <3>1. ~(End(k) <= arrived)
      BY <1>2, <1>3, <1>4, <1>8, <1>10, HeadCut
    <3> QED
      BY <1>3, <1>7, <3>1
  <2>2. k # 0 /\ ends[k] = End(k)
    BY <1>3, <2>1 DEF End
  <2>3. k \in 1..k /\ \A i \in 1..(k + 1) : i \in 1..k \/ i = k + 1
    BY <2>2
  <2>4. \E j \in 1..k : ~schema'[j].required
    BY <1>3, <1>6, <1>7, <2>1, <2>2, <2>3
  <2>5. ~(\A j \in 1..(k + 1) : schema'[j].required)
    BY <2>4
  <2>6. ~(ends'[k + 1] <= arrived')
    BY <1>3, <1>7, <1>10
  <2>7. ReadInv'
    BY <1>3, <1>6, <2>3, <2>5, <2>6 DEF ReadInv
  <2>8. ~(End(k + 1)' <= arrived')
    BY <1>3, <1>6, <1>7, <1>10
  <2>9. InStepInv'
    BY <1>3, <1>6, <2>8 DEF InStepInv
  <2> QED
    BY <1>6, <2>7, <2>9 DEF PayloadInv
<1> QED
  BY <1>3, <1>7, <1>9, <1>10

\* A read that fails is of a field that did not arrive whole.
LEMMA FailKeeps ==
  ASSUME PayloadInv, FailRead
  PROVE  PayloadInv'
<1>1. PICK k \in Nat : k = Len(result)
  BY DEF PayloadInv, PayloadTypeOK
<1> DEFINE c == Code(k + 1)
           v == zeroValue(schema[k + 1].kind)
<1>2. PayloadTypeOK /\ WrittenInv /\ InStepInv /\ ReadInv
  BY DEF PayloadInv
<1>3. /\ UNCHANGED <<schema, fields, ends, arrived>> /\ phase = "reading"
      /\ k < Len(schema) /\ k + 1 \in 1..Len(schema) /\ k \in 0..(Len(ends) - 1)
      /\ payload \in Seq(Nat) /\ arrived \in Nat /\ Len(ends) = Len(schema)
  BY <1>1, <1>2 DEF FailRead, Unread, PayloadTypeOK, WrittenInv
<1>4. ~Readable(c, payload)
  BY <1>1 DEF FailRead, Expecting, Code
<1>5. /\ ends[k + 1] = End(k + 1) /\ End(k) <= End(k + 1) /\ End(k) \in Nat /\ End(k + 1) \in Nat
      /\ End(k + 1) <= End(Len(schema)) /\ End(Len(schema)) \in Nat
  <2>1. /\ k \in 0..Len(ends) /\ k + 1 \in 0..Len(ends) /\ k + 1 \in 1..Len(ends) /\ k <= k + 1
        /\ k + 1 <= Len(ends) /\ Len(ends) \in 0..Len(ends)
    BY <1>3
  <2> QED
    BY <1>2, <1>3, <2>1, EndsAre
<1>6. End(k) <= arrived => Holds(k, arrived)
  BY <1>1, <1>2, <1>3 DEF InStepInv
<1>7. arrived < End(k + 1)
  <2>1. ~(End(k + 1) <= arrived)
    <3> SUFFICES ASSUME End(k + 1) <= arrived PROVE FALSE
      OBVIOUS
    <3>1. End(k) <= arrived
      BY <1>3, <1>5
    <3> QED
      BY <1>2, <1>3, <1>4, <1>6, <3>1, HeadRead
  <2> QED
    BY <1>3, <1>5, <2>1
<1>8. CASE schema[k + 1].required
  <2>1. phase' = "failed" /\ UNCHANGED <<payload, result>>
    BY <1>1, <1>8 DEF FailRead, Expecting
  <2>2. /\ \A j : (Writable(j)' <=> Writable(j)) /\ Written(j)' = Written(j) /\ Filled(j)' = Filled(j)
        /\ \A j : End(j)' = End(j)
    BY <1>3, SameFields DEF End
  <2>3. PayloadTypeOK'
    BY <1>2, <1>3, <2>1 DEF PayloadTypeOK
  <2>4. WrittenInv'
    <3>1. \A j \in 1..Len(ends)' : Writable(j)' /\ ends'[j] = End(j - 1)' + Len(Written(j)')
      BY <1>2, <1>3, <2>2 DEF WrittenInv
    <3>2. \A j, q \in 1..Len(ends)' : j <= q => ends'[j] <= ends'[q]
      BY <1>2, <1>3 DEF WrittenInv
    <3> QED
      BY <1>3, <2>1, <3>1, <3>2 DEF WrittenInv
  <2>5. InStepInv'
    BY <2>1 DEF InStepInv
  <2>6. ReadInv'
    <3>1. \A i : Kept(i)' <=> Kept(i)
      BY <1>3, <2>1, <2>2 DEF Kept
    <3>2. PICK q \in Nat : q = Len(schema)
      BY <1>2 DEF PayloadTypeOK
    <3>3. arrived' < End(q)' /\ q = Len(schema)' /\ schema' # <<>>
      BY <1>3, <1>5, <1>7, <2>2, <3>2
    <3> QED
      BY <1>2, <1>3, <2>1, <3>1, <3>3 DEF ReadInv
  <2> QED
    BY <2>3, <2>4, <2>5, <2>6 DEF PayloadInv
<1>9. CASE ~schema[k + 1].required
  <2>1. /\ result' = Append(result, v) /\ phase' = "reading"
        /\ \E n \in 0..Len(payload) : payload' = Drop(payload, n)
    BY <1>1, <1>3, <1>9 DEF FailRead, Expecting
  <2>2. payload' \in Seq(Nat)
    BY <1>3, <2>1, DropIs
  <2>3. v \in [go : Kinds, bytes : Seq(Nat)]
    <3>1. schema[k + 1].kind \in {"string", "bytes"} \cup Fixed
      <4>1. Writable(k + 1)
        BY <1>2, <1>3 DEF WrittenInv
      <4> QED
        BY <1>2, <1>3, <4>1, FilledHas
    <3>2. Size(schema[k + 1].kind) \in Nat
      BY DEF Size
    <3>3. Zeros(Size(schema[k + 1].kind)) \in Seq(Nat) /\ <<>> \in Seq(Nat)
      BY <3>2, ZerosAre
    <3> QED
      BY <3>1, <3>3 DEF zeroValue, GoValue, Kinds, Fixed, Numeric
  <2> HIDE DEF v
  <2>4. /\ PayloadTypeOK' /\ WrittenInv' /\ Len(result)' = k + 1
        /\ \A i \in 1..k :
             /\ ends'[i] <= arrived' => Kept(i)'
             /\ (\A j \in 1..i : schema'[j].required) => ends'[i] <= arrived'
        /\ \A j : End(j)' = End(j)
    BY <1>1, <1>3, <2>1, <2>2, <2>3, StillKept
  <2>5. \A i \in 1..(k + 1) : i \in 1..k \/ i = k + 1
    BY <1>3
  <2>6. ~(ends'[k + 1] <= arrived') /\ ~(End(k + 1)' <= arrived')
    BY <1>3, <1>5, <1>7, <2>4
  <2>7. ~(\A j \in 1..(k + 1) : schema'[j].required)
    BY <1>3, <1>9
  <2>8. ReadInv'
    BY <1>3, <2>1, <2>4, <2>5, <2>6, <2>7 DEF ReadInv
  <2>9. InStepInv'
    BY <1>3, <2>1, <2>4, <2>6 DEF InStepInv
  <2> QED
    BY <2>4, <2>8, <2>9 DEF PayloadInv
<1> QED
  BY <1>8, <1>9

\* Unmarshal ends when it has set every field.
LEMMA EndKeeps ==
  ASSUME PayloadInv, EndUnmarshal \/ UNCHANGED payloadVars
  PROVE  PayloadInv'
<1>1. PayloadTypeOK /\ WrittenInv /\ InStepInv /\ ReadInv
  BY DEF PayloadInv
<1>2. UNCHANGED <<schema, fields, payload, ends, arrived, result>>
  BY DEF EndUnmarshal, payloadVars
<1>3. phase' = phase \/ (phase = "reading" /\ phase' = "read" /\ Len(result) = Len(schema))
  BY DEF EndUnmarshal, payloadVars
<1>4. /\ \A j : (Writable(j)' <=> Writable(j)) /\ Written(j)' = Written(j) /\ Filled(j)' = Filled(j)
      /\ \A j : End(j)' = End(j)
  BY <1>2, SameFields DEF End
<1>5. PayloadTypeOK'
  BY <1>1, <1>2, <1>3 DEF PayloadTypeOK
<1>6. WrittenInv'
  <2>1. \A j \in 1..Len(ends)' : Writable(j)' /\ ends'[j] = End(j - 1)' + Len(Written(j)')
    BY <1>1, <1>2, <1>4 DEF WrittenInv
  <2>2. \A j, q \in 1..Len(ends)' : j <= q => ends'[j] <= ends'[q]
    BY <1>1, <1>2 DEF WrittenInv
  <2>3. phase' = "refused" => \E j \in 1..Len(schema)' : ~Writable(j)'
    BY <1>1, <1>2, <1>3, <1>4 DEF WrittenInv
  <2> QED
    BY <1>1, <1>2, <1>3, <2>1, <2>2, <2>3 DEF WrittenInv
<1>7. InStepInv'
  <2>1. \A j, n : Holds(j, n)' <=> Holds(j, n)
    BY <1>2, <1>4 DEF Holds
  <2>2. CASE phase' = phase
    BY <1>1, <1>2, <1>4, <2>1, <2>2 DEF InStepInv
  <2>3. CASE phase' = "read"
    BY <2>3 DEF InStepInv
  <2> QED
    BY <1>3, <2>2, <2>3
<1>8. ReadInv'
  <2>1. \A i : Kept(i)' <=> Kept(i)
    BY <1>2, <1>4 DEF Kept
  <2> QED
    BY <1>1, <1>2, <1>3, <1>4, <2>1 DEF ReadInv
<1> QED
  BY <1>5, <1>6, <1>7, <1>8 DEF PayloadInv

\* At first no field is written and none is read.
LEMMA InitPayloadInv == PayloadInit => PayloadInv
<1> SUFFICES ASSUME PayloadInit PROVE PayloadInv
  OBVIOUS
<1>1. PICK s \in Schemas : \E f \in [1..Len(s) -> GoValues \cup {Absent}] : DynamicPayload(s, f)
  BY DEF PayloadInit
<1>2. PICK f \in [1..Len(s) -> GoValues \cup {Absent}] : DynamicPayload(s, f)
  BY <1>1
<1>3. /\ schema = s /\ fields = f /\ phase = "marshaling" /\ payload = <<>> /\ ends = <<>>
      /\ arrived = 0 /\ result = <<>>
  BY <1>2 DEF DynamicPayload
<1>4. s \in Seq([kind : Kinds, required : BOOLEAN])
  <2>1. PICK n \in 0..MaxFields : s \in [1..n -> [kind : Kinds, required : BOOLEAN]]
    BY <1>1 DEF Schemas
  <2>2. n \in Nat
    BY CustomAssumption
  <2> DEFINE Rule == [kind : Kinds, required : BOOLEAN]
  <2> HIDE DEF Rule
  <2>3. \A g \in [1..n -> Rule] : g \in Seq(Rule)
    BY <2>2
  <2> QED
    BY <2>1, <2>3 DEF Rule
<1>5. PayloadTypeOK
  BY <1>2, <1>3, <1>4 DEF PayloadTypeOK
<1>6. WrittenInv /\ ReadInv
  BY <1>3 DEF WrittenInv, ReadInv
<1>7. Holds(0, End(Len(ends)))
  <2>1. Len(ends) = 0 /\ Len(payload) = 0 /\ End(0) = 0
    BY <1>3 DEF End
  <2> QED
    BY <2>1 DEF Holds
<1>8. InStepInv
  BY <1>3, <1>7 DEF InStepInv
<1> QED
  BY <1>5, <1>6, <1>8 DEF PayloadInv

\* Every step, and a stutter, keeps the inductive invariant.
LEMMA NextPayloadInv == PayloadInv /\ [PayloadNext]_payloadVars => PayloadInv'
BY MarshalKeeps, SendKeeps, ReadKeeps, FailKeeps, EndKeeps DEF PayloadNext

\* The invariant gives what is said of a payload.
LEMMA PayloadInvIsEnough == PayloadInv => CustomIsKept
<1> SUFFICES ASSUME PayloadInv PROVE CustomIsKept
  OBVIOUS
<1>1. PayloadTypeOK /\ WrittenInv /\ InStepInv /\ ReadInv
  BY DEF PayloadInv
<1>2. ValidMarshals
  <2> SUFFICES ASSUME phase = "refused", Valid
               PROVE  \E i \in 1..Len(schema) : schema[i].kind = "unknown" /\ fields[i] = Absent
    BY DEF ValidMarshals
  <2>1. PICK i \in 1..Len(schema) : ~Writable(i)
    BY <1>1 DEF WrittenInv
  <2>2. IF fields[i] = Absent THEN ~schema[i].required ELSE Accepts(schema[i].kind, fields[i])
    BY DEF Valid
  <2>3. fields[i] = Absent /\ ~Accepts(schema[i].kind, zeroValue(schema[i].kind))
    BY <2>1, <2>2 DEF Writable, Filled
  <2>4. schema[i].kind \in Kinds
    <3>1. schema[i] \in [kind : Kinds, required : BOOLEAN]
      BY <1>1, ElementOfSeq DEF PayloadTypeOK
    <3> QED
      BY <3>1
  <2>5. schema[i].kind = "unknown"
    BY <2>3, <2>4 DEF Accepts, zeroValue, GoValue, Kinds, Fixed, Numeric
  <2> QED
    BY <2>3, <2>5
<1>3. ArrivedIsKept
  <2> SUFFICES ASSUME phase \in {"reading", "read", "failed"}
               PROVE  /\ \A i \in 1..Len(result) : ends[i] <= arrived => Kept(i)
                      /\ phase = "failed" => arrived < ends[Len(schema)]
    BY DEF ArrivedIsKept
  <2>1. schema # <<>> => End(Len(schema)) = ends[Len(schema)]
    BY <1>1 DEF PayloadTypeOK, End
  <2> QED
    BY <1>1, <2>1 DEF ReadInv
<1>4. RequiredIsKept
  <2> SUFFICES ASSUME phase = "read",
                      \A i, j \in 1..Len(schema) : i < j /\ schema[j].required => schema[i].required,
                      NEW i \in 1..Len(schema), schema[i].required
               PROVE  Kept(i)
    BY DEF RequiredIsKept
  <2>1. Len(schema) \in Nat /\ Len(result) = Len(schema)
    BY <1>1 DEF ReadInv, PayloadTypeOK
  <2>2. \A j \in 1..i : schema[j].required
    BY <2>1
  <2> QED
    BY <1>1, <2>1, <2>2 DEF ReadInv
<1> QED
  BY <1>2, <1>3, <1>4 DEF CustomIsKept

\* The inductive invariant holds in every behaviour of a payload.
THEOREM PayloadInvariance == PayloadSpec => []PayloadInv
BY InitPayloadInv, NextPayloadInv, PTL DEF PayloadSpec

\* A map of fields that is valid is sent, and what arrives of it is read as it was
\* given, for every schema and every values of its fields.
THEOREM PayloadKept == PayloadSpec => []CustomIsKept
BY PayloadInvariance, PayloadInvIsEnough, PTL
-----------------------------------------------------------------------------
(* The registries.                                                          *)

\* Every step keeps the types.
LEMMA TypeStep ==
  ASSUME RegistryTypeOK, StepInv, [RegistryNext]_registryVars
  PROVE  RegistryTypeOK'
<1> USE CustomAssumption DEF registryVars, Return, Busy, RegistryTypeOK
<1>1. ASSUME NEW r \in Registries, StoreSchema(r) PROVE RegistryTypeOK'
  <2>1. on[r] \in MsgTypes
    BY <1>1 DEF StoreSchema, StepInv
  <2> QED
    BY <1>1, <2>1 DEF StoreSchema
<1>2. ASSUME NEW r \in Registries, RegisterPayloadType(r) PROVE RegistryTypeOK'
  <2>1. on[r] \in MsgTypes
    BY <1>2 DEF RegisterPayloadType, StepInv
  <2> QED
    BY <1>2, <2>1 DEF RegisterPayloadType
<1>3. ASSUME NEW r \in Registries, UnregisterPayloadType(r) PROVE RegistryTypeOK'
  <2>1. on[r] \in MsgTypes /\ 0 \in 0..begun
    BY <1>3 DEF UnregisterPayloadType, StepInv
  <2>2. table' \in [MsgTypes -> 0..begun]
    BY <1>3, <2>1 DEF UnregisterPayloadType
  <2>3. disturbed' \subseteq MsgTypes
    BY <1>3, <2>1 DEF UnregisterPayloadType
  <2> QED
    BY <1>3, <2>2, <2>3 DEF UnregisterPayloadType
<1>4. ASSUME NEW r \in Registries, NEW t \in MsgTypes, BeginRegister(r, t) PROVE RegistryTypeOK'
  BY <1>4 DEF BeginRegister
<1>5. ASSUME NEW r \in Registries, NEW t \in MsgTypes, DeleteSchema(r, t) PROVE RegistryTypeOK'
  BY <1>5 DEF DeleteSchema
<1>6. CASE UNCHANGED registryVars
  BY <1>6
<1> QED
  BY <1>1, <1>2, <1>3, <1>4, <1>5, <1>6 DEF RegistryNext

\* Every step keeps what a registry has done of its registration.
LEMMA StepStep ==
  ASSUME RegistryTypeOK, StepInv, [RegistryNext]_registryVars
  PROVE  StepInv'
<1> USE CustomAssumption DEF registryVars, Return, Busy, RegistryTypeOK, StepInv
<1>1. ASSUME NEW r \in Registries, StoreSchema(r) PROVE StepInv'
  BY <1>1 DEF StoreSchema
<1>2. ASSUME NEW r \in Registries, RegisterPayloadType(r) PROVE StepInv'
  BY <1>2 DEF RegisterPayloadType
<1>3. ASSUME NEW r \in Registries, UnregisterPayloadType(r) PROVE StepInv'
  BY <1>3 DEF UnregisterPayloadType
<1>4. ASSUME NEW r \in Registries, NEW t \in MsgTypes, BeginRegister(r, t) PROVE StepInv'
  BY <1>4 DEF BeginRegister
<1>5. ASSUME NEW r \in Registries, NEW t \in MsgTypes, DeleteSchema(r, t) PROVE StepInv'
  BY <1>5 DEF DeleteSchema
<1>6. CASE UNCHANGED registryVars
  BY <1>6
<1> QED
  BY <1>1, <1>2, <1>3, <1>4, <1>5, <1>6 DEF RegistryNext

\* Every step keeps a schema in the registry that was given it.
LEMMA OwnStep ==
  ASSUME RegistryTypeOK, StepInv, OwnInv, [RegistryNext]_registryVars
  PROVE  OwnInv'
<1> USE CustomAssumption DEF registryVars, Return, Busy, RegistryTypeOK, StepInv, OwnInv
<1>1. ASSUME NEW r \in Registries, StoreSchema(r) PROVE OwnInv'
  BY <1>1 DEF StoreSchema
<1>2. ASSUME NEW r \in Registries, RegisterPayloadType(r) PROVE OwnInv'
  BY <1>2 DEF RegisterPayloadType
<1>3. ASSUME NEW r \in Registries, UnregisterPayloadType(r) PROVE OwnInv'
  BY <1>3 DEF UnregisterPayloadType
<1>4. ASSUME NEW r \in Registries, NEW t \in MsgTypes, BeginRegister(r, t) PROVE OwnInv'
  BY <1>4 DEF BeginRegister
<1>5. ASSUME NEW r \in Registries, NEW t \in MsgTypes, DeleteSchema(r, t) PROVE OwnInv'
  BY <1>5 DEF DeleteSchema
<1>6. CASE UNCHANGED registryVars
  BY <1>6
<1> QED
  BY <1>1, <1>2, <1>3, <1>4, <1>5, <1>6 DEF RegistryNext

\* Every step keeps the registries and the table in agreement.
LEMMA AgreeStep ==
  ASSUME RegistryTypeOK, StepInv, OwnInv, TablesAgree, [RegistryNext]_registryVars
  PROVE  TablesAgree'
<1> USE CustomAssumption DEF registryVars, Return, Busy, RegistryTypeOK, StepInv, TablesAgree
<1>1. ASSUME NEW r \in Registries, StoreSchema(r) PROVE TablesAgree'
  BY <1>1 DEF StoreSchema
<1>2. ASSUME NEW r \in Registries, RegisterPayloadType(r) PROVE TablesAgree'
  BY <1>2 DEF RegisterPayloadType
<1>3. ASSUME NEW r \in Registries, UnregisterPayloadType(r) PROVE TablesAgree'
  <2>1. on[r] \in MsgTypes /\ schemas[r][on[r]] = 0
    BY <1>3 DEF UnregisterPayloadType
  <2> SUFFICES ASSUME NEW t \in MsgTypes \ disturbed'
               PROVE  /\ \A q \in Registries : schemas'[q][t] \in {0, table'[t]} \/ Busy(q, t)'
                      /\ table'[t] = 0 \/ \E q \in Registries : schemas'[q][t] = table'[t] \/ Busy(q, t)'
    OBVIOUS
  <2>2. t \notin disturbed
    BY <1>3 DEF UnregisterPayloadType
  <2>3. CASE t = on[r]
    <3>1. table'[t] = 0 /\ table[t] \in {0, mine[r]}
      BY <1>3, <2>1, <2>3 DEF UnregisterPayloadType
    <3>2. ASSUME NEW q \in Registries, q # r PROVE schemas[q][t] = 0 \/ Busy(q, t)
      BY <2>2, <3>1, <3>2 DEF OwnInv
    <3> QED
      BY <1>3, <2>1, <2>3, <3>1, <3>2 DEF UnregisterPayloadType
  <2>4. CASE t # on[r]
    BY <1>3, <2>2, <2>4 DEF UnregisterPayloadType
  <2> QED
    BY <2>3, <2>4
<1>4. ASSUME NEW r \in Registries, NEW t \in MsgTypes, BeginRegister(r, t) PROVE TablesAgree'
  BY <1>4 DEF BeginRegister
<1>5. ASSUME NEW r \in Registries, NEW t \in MsgTypes, DeleteSchema(r, t) PROVE TablesAgree'
  BY <1>5 DEF DeleteSchema
<1>6. CASE UNCHANGED registryVars
  BY <1>6
<1> QED
  BY <1>1, <1>2, <1>3, <1>4, <1>5, <1>6 DEF RegistryNext

-----------------------------------------------------------------------------

\* No registry has a schema at first, and the table is empty.
LEMMA InitRegistryInv == RegistryInit => RegistryInv
BY CustomAssumption
   DEF RegistryInit, RegistryInv, RegistryTypeOK, StepInv, OwnInv, TablesAgree

\* Every step, and a stutter, keeps the inductive invariant.
LEMMA NextRegistryInv == RegistryInv /\ [RegistryNext]_registryVars => RegistryInv'
BY TypeStep, StepStep, OwnStep, AgreeStep DEF RegistryInv

\* The inductive invariant holds in every behaviour of the registries.
THEOREM RegistryInvariance == RegistrySpec => []RegistryInv
BY InitRegistryInv, NextRegistryInv, PTL DEF RegistrySpec

\* The registries and the table of RDGProto agree on every type that was not
\* registered twice at a time or unregistered by a stranger.
THEOREM RegistriesAgree == RegistrySpec => []TablesAgree
BY RegistryInvariance, PTL DEF RegistryInv
=============================================================================
