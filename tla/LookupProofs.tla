---------------------------- MODULE LookupProofs ----------------------------
(***************************************************************************)
(* TLAPS proofs about the listings of IdentityList, for any number of      *)
(* objects, page size, page limit, listings, changes and faults, and about *)
(* the texts of Reference, of any length.                                  *)
(***************************************************************************)
EXTENDS IdentityListInductive, ReferenceInductive, FiniteSetTheorems, SequenceTheorems, WellFoundedInduction, TLAPS

-----------------------------------------------------------------------------
(* Sets of numbers in order. *)

LEMMA Least ==
  ASSUME NEW T, T \subseteq Nat, T # {}
  PROVE  \E n \in T : \A m \in T : n <= m
<1>1. PICK n \in T : \A m \in T : ~(<<m, n>> \in OpToRel(<, Nat))
  BY NatLessThanWellFounded, WFMin
<1>2. \A m \in T : m < n => <<m, n>> \in OpToRel(<, Nat)
  BY DEF OpToRel
<1>3. \A m \in T : ~(m < n)
  BY <1>1, <1>2, Zenon
<1> QED
  BY <1>3

LEMMA Induction ==
  ASSUME NEW T, T \subseteq Nat, 0 \in T, \A n \in Nat : n \in T => n + 1 \in T
  PROVE  T = Nat
<1> SUFFICES ASSUME Nat \ T # {} PROVE FALSE
  OBVIOUS
<1>1. PICK n \in Nat \ T : \A m \in Nat \ T : n <= m
  BY Least
<1>2. n # 0 /\ n - 1 \in Nat /\ n - 1 \notin Nat \ T
  BY <1>1
<1> QED
  BY <1>2

LEMMA RankBounds ==
  ASSUME NEW S, S \subseteq Nat, IsFiniteSet(S), NEW i \in S
  PROVE  Cardinality(UpTo(S, i)) \in 1..Cardinality(S) /\ IsFiniteSet(UpTo(S, i))
<1>1. UpTo(S, i) \subseteq S /\ {i} \subseteq UpTo(S, i)
  BY DEF UpTo
<1>2. IsFiniteSet(UpTo(S, i)) /\ Cardinality(UpTo(S, i)) <= Cardinality(S)
  BY <1>1, FS_Subset
<1>3. Cardinality({i}) = 1 /\ Cardinality({i}) <= Cardinality(UpTo(S, i))
  BY <1>1, <1>2, FS_Subset, FS_Singleton
<1>4. Cardinality(S) \in Nat /\ Cardinality(UpTo(S, i)) \in Nat
  BY <1>2, FS_CardinalityType
<1> QED
  BY <1>2, <1>3, <1>4

LEMMA RankGrows ==
  ASSUME NEW S, S \subseteq Nat, IsFiniteSet(S), NEW i \in S, NEW j \in S, i < j
  PROVE  Cardinality(UpTo(S, i)) < Cardinality(UpTo(S, j))
<1>t. \A x \in S : x \in Nat
  OBVIOUS
<1>u. \A x \in S : x <= i => x <= j
  BY <1>t
<1>a. UpTo(S, i) \subseteq UpTo(S, j)
  BY <1>u DEF UpTo
<1>b. j \in UpTo(S, j) /\ j \notin UpTo(S, i)
  BY <1>t DEF UpTo
<1>1. UpTo(S, i) \subseteq UpTo(S, j) /\ UpTo(S, i) # UpTo(S, j)
  BY <1>a, <1>b
<1>2. IsFiniteSet(UpTo(S, i)) /\ IsFiniteSet(UpTo(S, j))
  BY RankBounds
<1>3. /\ Cardinality(UpTo(S, i)) \in Nat /\ Cardinality(UpTo(S, j)) \in Nat
      /\ Cardinality(UpTo(S, i)) <= Cardinality(UpTo(S, j))
      /\ Cardinality(UpTo(S, i)) = Cardinality(UpTo(S, j)) => UpTo(S, i) = UpTo(S, j)
  BY <1>1, <1>2, FS_Subset, FS_CardinalityType
<1> QED
  BY <1>1, <1>3

LEMMA RankTaken ==
  ASSUME NEW S, S \subseteq Nat, IsFiniteSet(S), NEW k \in 1..Cardinality(S)
  PROVE  \E i \in S : Cardinality(UpTo(S, i)) = k
<1> DEFINE T == {n \in Nat : \A X \in SUBSET Nat :
                   IsFiniteSet(X) /\ Cardinality(X) = n =>
                     \A c \in 1..n : \E i \in X : Cardinality(UpTo(X, i)) = c}
<1>1. 0 \in T
  OBVIOUS
<1>2. ASSUME NEW n \in Nat, n \in T PROVE n + 1 \in T
  <2> SUFFICES ASSUME NEW X \in SUBSET Nat, IsFiniteSet(X), Cardinality(X) = n + 1,
                      NEW c \in 1..(n + 1)
               PROVE  \E i \in X : Cardinality(UpTo(X, i)) = c
    OBVIOUS
  <2>1. X # {}
    BY FS_EmptySet
  <2>2. PICK m \in X : \A x \in X : m <= x
    BY <2>1, Least
  <2>a. IsFiniteSet(X \ {m}) /\ Cardinality(X \ {m}) = Cardinality(X) - 1
    BY FS_RemoveElement
  <2>3. IsFiniteSet(X \ {m}) /\ Cardinality(X \ {m}) = n
    BY <2>a
  <2>4. CASE c = 1
    <3>a. \A j \in X : j <= m <=> j = m
      BY <2>2
    <3>1. UpTo(X, m) = {m}
      BY <3>a DEF UpTo
    <3> QED
      BY <2>4, <3>1, FS_Singleton
  <2>5. CASE c # 1
    <3>1. c - 1 \in 1..n /\ X \ {m} \in SUBSET Nat
      BY <2>5
    <3>2. PICK i \in X \ {m} : Cardinality(UpTo(X \ {m}, i)) = c - 1
      BY <1>2, <2>3, <3>1
    <3>3. UpTo(X, i) = UpTo(X \ {m}, i) \cup {m} /\ m \notin UpTo(X \ {m}, i)
      BY <2>2 DEF UpTo
    <3>4. IsFiniteSet(UpTo(X \ {m}, i))
      BY <2>3, <3>1, RankBounds
    <3> DEFINE U == UpTo(X \ {m}, i)
    <3>a. Cardinality(U \cup {m}) = Cardinality(U) + 1
      <4> HIDE DEF U
      <4> QED
        BY <3>3, <3>4, FS_AddElement DEF U
    <3>5. Cardinality(UpTo(X, i)) = c - 1 + 1
      BY <3>2, <3>3, <3>a
    <3> QED
      BY <3>5
  <2> QED
    BY <2>4, <2>5
<1>3. T = Nat
  <2> HIDE DEF T
  <2>1. T \subseteq Nat
    BY DEF T
  <2> QED
    BY <1>1, <1>2, <2>1, Induction
<1>4. Cardinality(S) \in T
  BY <1>3, FS_CardinalityType
<1> QED
  BY <1>4

LEMMA Ordered ==
  ASSUME NEW S, S \subseteq Nat, IsFiniteSet(S)
  PROVE  /\ Cardinality(S) \in Nat
         /\ InOrder(S) \in [1..Cardinality(S) -> S]
         /\ \A j, k \in 1..Cardinality(S) : j < k => InOrder(S)[j] < InOrder(S)[k]
         /\ \A i \in S : \E k \in 1..Cardinality(S) : InOrder(S)[k] = i
<1>1. \A k \in 1..Cardinality(S) :
        InOrder(S)[k] \in S /\ Cardinality(UpTo(S, InOrder(S)[k])) = k
  BY RankTaken DEF InOrder
<1>2. InOrder(S) \in [1..Cardinality(S) -> S]
  BY <1>1 DEF InOrder
<1>t. \A i \in S : i \in Nat /\ Cardinality(UpTo(S, i)) \in 1..Cardinality(S)
  BY RankBounds
<1>n. Cardinality(S) \in Nat
  BY FS_CardinalityType
<1>3. \A i, j \in S : Cardinality(UpTo(S, i)) < Cardinality(UpTo(S, j)) => i < j
  <2> SUFFICES ASSUME NEW i \in S, NEW j \in S, ~(i < j),
                      Cardinality(UpTo(S, i)) < Cardinality(UpTo(S, j))
               PROVE  FALSE
    OBVIOUS
  <2>1. i = j \/ j < i
    BY <1>t
  <2>2. Cardinality(UpTo(S, i)) \in Nat /\ Cardinality(UpTo(S, j)) \in Nat
    BY <1>t
  <2>3. CASE j < i
    <3>1. Cardinality(UpTo(S, j)) < Cardinality(UpTo(S, i))
      BY <2>3, RankGrows
    <3> QED
      BY <2>2, <3>1
  <2> QED
    BY <2>1, <2>2, <2>3
<1>4. \A i, j \in S : Cardinality(UpTo(S, i)) = Cardinality(UpTo(S, j)) => i = j
  <2> SUFFICES ASSUME NEW i \in S, NEW j \in S, i # j,
                      Cardinality(UpTo(S, i)) = Cardinality(UpTo(S, j))
               PROVE  FALSE
    OBVIOUS
  <2>1. i < j \/ j < i
    BY <1>t
  <2>2. Cardinality(UpTo(S, i)) \in Nat /\ Cardinality(UpTo(S, j)) \in Nat
    BY <1>t
  <2>3. Cardinality(UpTo(S, i)) < Cardinality(UpTo(S, j)) \/ Cardinality(UpTo(S, j)) < Cardinality(UpTo(S, i))
    BY <2>1, RankGrows
  <2> QED
    BY <2>2, <2>3
<1>5. \A j, k \in 1..Cardinality(S) : j < k => InOrder(S)[j] < InOrder(S)[k]
  <2> SUFFICES ASSUME NEW j \in 1..Cardinality(S), NEW k \in 1..Cardinality(S), j < k
               PROVE  InOrder(S)[j] < InOrder(S)[k]
    OBVIOUS
  <2> DEFINE a == InOrder(S)[j]
             b == InOrder(S)[k]
  <2>1. a \in S /\ b \in S /\ Cardinality(UpTo(S, a)) = j /\ Cardinality(UpTo(S, b)) = k
    BY <1>1
  <2>2. Cardinality(UpTo(S, a)) < Cardinality(UpTo(S, b))
    BY <2>1
  <2> QED
    BY <2>1, <2>2, <1>3
<1>6. \A i \in S : \E k \in 1..Cardinality(S) : InOrder(S)[k] = i
  BY <1>1, <1>4, <1>t
<1> QED
  BY <1>2, <1>5, <1>6, FS_CardinalityType

-----------------------------------------------------------------------------
(* Pages. *)

\* A function on 1..n is a sequence of length n.
LEMMA FunctionIsSeq ==
  ASSUME NEW R, NEW n \in Nat, NEW f \in [1..n -> R]
  PROVE  f \in Seq(R) /\ Len(f) = n /\ DOMAIN f = 1..n
<1>1. f \in Seq(R)
  BY SeqDef
<1> QED
  BY <1>1

\* The existing objects are finitely many, and so are those behind a cursor.
LEMMA FewObjects ==
  /\ Existing \subseteq Nat /\ IsFiniteSet(Existing) /\ Existing \subseteq Ids
  /\ \A i \in Nat : /\ UpTo(Existing, i) \subseteq Existing /\ IsFiniteSet(UpTo(Existing, i))
                    /\ Behind(i) \subseteq Nat /\ Behind(i) \subseteq Ids /\ IsFiniteSet(Behind(i))
<1>1. IsFiniteSet(Ids) /\ Ids \subseteq Nat
  <2>1. 1 \in Int /\ N \in Int /\ Ids \subseteq Nat
    BY ListAssumption DEF Ids
  <2> QED
    BY <2>1, FS_Interval DEF Ids
<1>2. Existing \subseteq Ids
  BY DEF Existing
<1>3. \A i \in Nat : UpTo(Existing, i) \subseteq Existing /\ Behind(i) \subseteq Ids
  BY <1>2 DEF UpTo, Behind
<1> QED
  BY <1>1, <1>2, <1>3, FS_Subset

\* What the client keeps of a batch is what is not revoked of it, in its order.
LEMMA KeptOfBatch ==
  ASSUME NEW b \in Batches
  PROVE  /\ Unrevoked(b) \in Seq(Ids)
         /\ \A n \in DOMAIN Unrevoked(b) :
              \E k \in DOMAIN b : Unrevoked(b)[n] = b[k].id /\ ~b[k].revoked
         /\ \A k \in DOMAIN b : ~b[k].revoked => \E n \in DOMAIN Unrevoked(b) : Unrevoked(b)[n] = b[k].id
         /\ (\A j, k \in DOMAIN b : j < k => b[j].id < b[k].id) =>
              \A m, n \in DOMAIN Unrevoked(b) : m < n => Unrevoked(b)[m] < Unrevoked(b)[n]
<1> DEFINE K == ActiveAt(b)
           c == Cardinality(K)
           u == Unrevoked(b)
<1> b \in Seq([id : Ids, revoked : BOOLEAN])
  BY DEF Batches
<1>d. DOMAIN b = 1..Len(b) /\ Len(b) \in Nat
  OBVIOUS
<1>1. DOMAIN b = 1..Len(b) /\ Len(b) \in Nat /\ \A k \in DOMAIN b : b[k].id \in Ids
  <2>1. \A k \in 1..Len(b) : b[k] \in [id : Ids, revoked : BOOLEAN]
    BY ElementOfSeq
  <2> QED
    BY <1>d, <2>1
<1>2. K \subseteq DOMAIN b /\ K \subseteq Nat /\ IsFiniteSet(K)
  <2>1. K \subseteq 1..Len(b)
    BY <1>1 DEF ActiveAt
  <2>2. IsFiniteSet(1..Len(b))
    <3>1. 1 \in Int /\ Len(b) \in Int
      BY <1>1
    <3> QED
      BY <3>1, FS_Interval
  <2> QED
    BY <1>1, <2>1, <2>2, FS_Subset
<1>3. /\ c \in Nat
      /\ InOrder(K) \in [1..c -> K]
      /\ \A m, n \in 1..c : m < n => InOrder(K)[m] < InOrder(K)[n]
      /\ \A k \in K : \E n \in 1..c : InOrder(K)[n] = k
  <2> HIDE DEF K
  <2> QED
    BY <1>2, Ordered
<1>4. u = [n \in 1..c |-> b[InOrder(K)[n]].id]
  BY DEF Unrevoked
<1>5. DOMAIN u = 1..c
  BY <1>4
<1>6. \A n \in 1..c : InOrder(K)[n] \in DOMAIN b /\ u[n] = b[InOrder(K)[n]].id /\ ~b[InOrder(K)[n]].revoked
  BY <1>3, <1>4 DEF ActiveAt
<1>7. u \in Seq(Ids)
  <2>1. u \in [1..c -> Ids]
    BY <1>1, <1>4, <1>6
  <2> QED
    BY <1>3, <2>1, FunctionIsSeq
<1>8. \A k \in DOMAIN b : ~b[k].revoked => k \in K
  BY DEF ActiveAt
<1> HIDE DEF K, c, u
<1>9. \A k \in DOMAIN b : ~b[k].revoked => \E n \in 1..c : u[n] = b[k].id
  BY <1>3, <1>6, <1>8
<1>10. (\A j, k \in DOMAIN b : j < k => b[j].id < b[k].id) =>
         \A m, n \in 1..c : m < n => u[m] < u[n]
  BY <1>3, <1>6
<1>11. \A n \in 1..c : \E k \in DOMAIN b : u[n] = b[k].id /\ ~b[k].revoked
  BY <1>6
<1> QED
  BY <1>5, <1>7, <1>9, <1>10, <1>11 DEF u

\* The server's page is right for a listing when it is made.
LEMMA PageIsRight ==
  ASSUME ListTypeOK, NEW cursor \in Nat
  PROVE  Page(cursor) \in Batches /\ (stage # "idle" => Right(Page(cursor), cursor))
<1> DEFINE S == Behind(cursor)
           c == Cardinality(S)
           n == IF c < PageSize THEN c ELSE PageSize
           ids == InOrder(S)
           b == Page(cursor)
<1>1. S \subseteq Nat /\ S \subseteq Ids /\ IsFiniteSet(S)
  BY FewObjects
<1>2. /\ c \in Nat /\ ids \in [1..c -> S]
      /\ \A j, k \in 1..c : j < k => ids[j] < ids[k]
      /\ \A i \in S : \E k \in 1..c : ids[k] = i
  <2> HIDE DEF S
  <2> QED
    BY <1>1, Ordered
<1>3. n \in Nat /\ n <= c /\ n <= PageSize /\ (n < PageSize => n = c) /\ PageSize \in Nat
  BY <1>2, ListAssumption
<1>4. b = [k \in 1..n |-> [id |-> ids[k], revoked |-> inventory[ids[k]] = "revoked"]]
  BY DEF Page
<1>5. \A i \in S : i \in Ids /\ i > cursor /\ i \in Existing /\ inventory[i] # "absent"
  BY <1>1 DEF Behind, Existing
<1>6. \A k \in 1..n : /\ k \in 1..c /\ ids[k] \in S
                      /\ b[k].id = ids[k] /\ (b[k].revoked <=> inventory[ids[k]] = "revoked")
  <2>1. \A k \in 1..n : k \in 1..c /\ ids[k] \in S
    BY <1>2, <1>3
  <2>2. \A k \in 1..n : b[k] = [id |-> ids[k], revoked |-> inventory[ids[k]] = "revoked"]
    BY <1>4
  <2>3. ASSUME NEW k \in 1..n
        PROVE  b[k].id = ids[k] /\ (b[k].revoked <=> inventory[ids[k]] = "revoked")
    <3> DEFINE gone == inventory[ids[k]] = "revoked"
    <3>1. b[k] = [id |-> ids[k], revoked |-> gone]
      BY <2>2
    <3>2. gone \in BOOLEAN
      OBVIOUS
    <3> HIDE DEF gone
    <3>3. b[k].id = ids[k] /\ b[k].revoked = gone
      BY <3>1
    <3>4. b[k].revoked <=> gone
      BY <3>3, Zenon
    <3> QED
      BY <3>3, <3>4 DEF gone
  <2> QED
    BY <2>1, <2>3
<1>7. b \in Seq([id : Ids, revoked : BOOLEAN]) /\ Len(b) = n /\ DOMAIN b = 1..n
  <2>1. \A k \in 1..n : [id |-> ids[k], revoked |-> inventory[ids[k]] = "revoked"] \in [id : Ids, revoked : BOOLEAN]
    BY <1>5, <1>6
  <2>2. b \in [1..n -> [id : Ids, revoked : BOOLEAN]]
    BY <1>4, <2>1
  <2> QED
    BY <1>3, <2>2, FunctionIsSeq
<1>8. stage # "idle" => \A i \in Existing : inventory[i] = "revoked" \/ i \in shown
  BY DEF ListTypeOK, Existing, Active
<1>9. \A i \in lasting : i \in Ids /\ i \in Nat /\ inventory[i] = "active" /\ (i > cursor => i \in S)
  BY <1>1, ListAssumption DEF ListTypeOK, Active, Ids, Behind, Existing
<1> HIDE DEF S, c, n, ids, b
<1>10. stage # "idle" =>
         \A k \in DOMAIN b : b[k].id > cursor /\ b[k].id \in Existing /\ (b[k].revoked \/ b[k].id \in shown)
  BY <1>5, <1>6, <1>7, <1>8
<1>11. \A j, k \in DOMAIN b : j < k => b[j].id < b[k].id
  BY <1>2, <1>6, <1>7
<1>12. ASSUME NEW i \in lasting, i > cursor, Len(b) < PageSize \/ i <= Last(b).id
       PROVE  \E k \in DOMAIN b : b[k].id = i /\ ~b[k].revoked
  <2>1. PICK k \in 1..c : ids[k] = i
    BY <1>2, <1>9, <1>12
  <2>2. k <= n
    <3>1. CASE Len(b) < PageSize
      BY <1>3, <1>7, <3>1
    <3>2. CASE i <= Last(b).id /\ n = PageSize
      <4>1. n \in 1..n /\ Last(b).id = ids[n] /\ n \in 1..c
        BY <1>3, <1>6, <1>7, <3>2, ListAssumption DEF Last
      <4>2. i \in Nat /\ ids[n] \in Nat /\ i <= ids[n]
        BY <1>1, <1>2, <1>9, <3>2, <4>1
      <4> QED
        BY <1>2, <1>3, <2>1, <4>1, <4>2
    <3> QED
      BY <1>3, <1>7, <1>12, <3>1, <3>2
  <2>3. k \in 1..n
    BY <1>2, <1>3, <2>2
  <2> QED
    BY <1>6, <1>7, <1>9, <2>1, <2>3
<1> QED
  BY <1>3, <1>7, <1>10, <1>11, <1>12 DEF Batches, Right, b

\* A page stays right while objects are attached, revoked and restored.
LEMMA StaysRight ==
  ASSUME NEW b \in Batches, NEW cursor \in Nat, Right(b, cursor),
         lasting' \subseteq lasting, shown \subseteq shown', Existing \subseteq Existing'
  PROVE  Right(b, cursor)'
BY DEF Right, Last

\* So many new members make a set that much larger.
LEMMA MoreMembers ==
  ASSUME NEW B, IsFiniteSet(B), NEW A, A \subseteq B, NEW n \in Nat, NEW f \in [1..n -> B \ A],
         \A j, k \in 1..n : f[j] = f[k] => j = k
  PROVE  /\ Cardinality(A) \in Nat /\ Cardinality(B) \in Nat
         /\ Cardinality(B) >= Cardinality(A) + n
<1>1. IsFiniteSet(A) /\ IsFiniteSet(B \ A)
  BY FS_Subset
<1>2. Cardinality(A) \in Nat /\ Cardinality(B \ A) \in Nat /\ Cardinality(B) \in Nat
  BY <1>1, FS_CardinalityType
<1>3. A \cup (B \ A) = B /\ A \cap (B \ A) = {}
  OBVIOUS
<1>4. Cardinality(B) = Cardinality(A) + Cardinality(B \ A)
  <2>1. Cardinality(A \cup (B \ A)) = Cardinality(A) + Cardinality(B \ A) - Cardinality(A \cap (B \ A))
    BY <1>1, FS_Union
  <2>2. Cardinality(A \cap (B \ A)) = 0
    BY <1>3, FS_EmptySet
  <2> QED
    <3>1. Cardinality(A \cup (B \ A)) = Cardinality(B)
      BY <1>3
    <3> HIDE <1>3
    <3> QED
      BY <1>2, <2>1, <2>2, <3>1
<1>5. f \in Injection(1..n, B \ A)
  BY DEF Injection, IsInjective
<1>6. Cardinality(1..n) <= Cardinality(B \ A)
  BY <1>1, <1>5, FS_Injection
<1>7. Cardinality(1..n) = n
  BY FS_Interval
<1> QED
  BY <1>2, <1>4, <1>6, <1>7

-----------------------------------------------------------------------------
(* The steps. *)

\* A page that is taken leaves every variable of the listing its type.
LEMMA TakeTyped ==
  ASSUME ListTypeOK, NEW b \in Batches, TakePage(b)
  PROVE  /\ out' \in Seq(Ids) /\ page' \in Nat /\ after' \in Nat
         /\ stage' \in {"listed", "failed", "connecting", "exceeded"}
<1> b \in Seq([id : Ids, revoked : BOOLEAN]) /\ PageSize \in Nat \ {0}
  BY ListAssumption DEF Batches
<1>1. out' \in Seq(Ids)
  BY KeptOfBatch, ConcatProperties DEF TakePage, TakeBatch, ListTypeOK
<1>2. Len(b) >= PageSize => Last(b).id \in Nat
  <2>1. Len(b) >= PageSize => Len(b) \in 1..Len(b)
    OBVIOUS
  <2>2. Len(b) >= PageSize => b[Len(b)] \in [id : Ids, revoked : BOOLEAN]
    BY <2>1, ElementOfSeq
  <2> QED
    BY <2>2, ListAssumption DEF Last, Ids
<1> QED
  BY <1>1, <1>2 DEF TakePage, TakeBatch, ListTypeOK

\* A right page adds to a fresh listing what it has of the inventory behind the cursor.
LEMMA TakeGathers ==
  ASSUME ListTypeOK, GatheredInv, stage = "awaiting", ~leftover,
         NEW b \in Batches, Right(b, after), TakePage(b),
         UNCHANGED <<inventory, lasting, shown, leftover>>
  PROVE  GatheredInv'
<1> DEFINE u == Unrevoked(b)
<1>1. PageSize \in Nat \ {0} /\ b \in Seq([id : Ids, revoked : BOOLEAN])
  BY ListAssumption DEF Batches
<1>2. DOMAIN b = 1..Len(b) /\ Len(b) \in Nat /\ Len(b) <= PageSize
  BY <1>1 DEF Right
<1>3. Ids \subseteq Nat /\ after \in Nat /\ page \in Nat /\ out \in Seq(Ids)
  BY ListAssumption DEF Ids, ListTypeOK
<1>4. \A k \in 1..Len(b) : b[k].id \in Ids /\ b[k].id \in Nat
  <2>1. \A k \in 1..Len(b) : b[k] \in [id : Ids, revoked : BOOLEAN]
    BY <1>1, ElementOfSeq
  <2> QED
    BY <1>3, <2>1
<1>5. /\ u \in Seq(Ids)
      /\ \A n \in DOMAIN u : \E k \in DOMAIN b : u[n] = b[k].id /\ ~b[k].revoked
      /\ \A k \in DOMAIN b : ~b[k].revoked => \E n \in DOMAIN u : u[n] = b[k].id
      /\ \A m, n \in DOMAIN u : m < n => u[m] < u[n]
  BY KeptOfBatch DEF Right
<1>6. \A n \in DOMAIN u : u[n] > after /\ u[n] \in shown /\ u[n] \in Nat
  <2> SUFFICES ASSUME NEW n \in DOMAIN u
               PROVE  u[n] > after /\ u[n] \in shown /\ u[n] \in Nat
    OBVIOUS
  <2>1. PICK k \in DOMAIN b : u[n] = b[k].id /\ ~b[k].revoked
    BY <1>5
  <2>2. b[k].id > after /\ (b[k].revoked \/ b[k].id \in shown)
    BY DEF Right
  <2>3. b[k].id \in shown
    BY <2>1, <2>2, Zenon
  <2> QED
    BY <1>2, <1>4, <2>1, <2>2, <2>3
<1>7. out' = out \o u
  BY DEF TakePage, TakeBatch
<1>8. DOMAIN out = 1..Len(out) /\ DOMAIN u = 1..Len(u) /\ Len(out) \in Nat /\ Len(u) \in Nat
  BY <1>3, <1>5
<1> HIDE DEF u
<1>9. /\ out' \in Seq(Ids) /\ DOMAIN out' = 1..(Len(out) + Len(u))
      /\ \A n \in 1..(Len(out) + Len(u)) : out'[n] = IF n <= Len(out) THEN out[n] ELSE u[n - Len(out)]
  <2>1. /\ out' \in Seq(Ids) /\ Len(out') = Len(out) + Len(u)
        /\ \A n \in 1..(Len(out) + Len(u)) : out'[n] = IF n <= Len(out) THEN out[n] ELSE u[n - Len(out)]
    BY <1>3, <1>5, <1>7, ConcatProperties
  <2> QED
    BY <2>1
<1>10. /\ \A n \in DOMAIN out' : (\E k \in DOMAIN out : out'[n] = out[k]) \/ \E k \in DOMAIN u : out'[n] = u[k]
       /\ \A k \in DOMAIN out : k \in DOMAIN out' /\ out'[k] = out[k]
       /\ \A k \in DOMAIN u : k + Len(out) \in DOMAIN out' /\ out'[k + Len(out)] = u[k]
  <2>1. \A n \in 1..(Len(out) + Len(u)) : n \in 1..Len(out) \/ n - Len(out) \in 1..Len(u)
    BY <1>8
  <2>2. \A n \in 1..(Len(out) + Len(u)) :
          (n \in 1..Len(out) => out'[n] = out[n]) /\ (n - Len(out) \in 1..Len(u) => out'[n] = u[n - Len(out)])
    BY <1>8, <1>9
  <2>3. \A n \in DOMAIN out' : (\E k \in DOMAIN out : out'[n] = out[k]) \/ \E k \in DOMAIN u : out'[n] = u[k]
    BY <1>8, <1>9, <2>1, <2>2
  <2>4. \A k \in DOMAIN out : k \in DOMAIN out' /\ out'[k] = out[k]
    BY <1>8, <1>9, <2>2
  <2>5. \A k \in DOMAIN u : k + Len(out) \in DOMAIN out' /\ out'[k + Len(out)] = u[k]
    BY <1>8, <1>9
  <2> QED
    BY <2>3, <2>4, <2>5
<1>11. /\ \A k \in DOMAIN out : out[k] <= after /\ out[k] \in Nat
       /\ \A i \in lasting : i <= after => \E k \in DOMAIN out : out[k] = i
       /\ Cardinality(UpTo(Existing, after)) >= PageSize * page
       /\ \A j, k \in DOMAIN out : j < k => out[j] < out[k]
       /\ \A k \in DOMAIN out : out[k] \in shown
  <2>1. \A k \in DOMAIN out : out[k] \in Nat
    BY <1>3, <1>8, ElementOfSeq
  <2> QED
    BY <2>1 DEF GatheredInv, Asking, Range
<1>12. Range(out') \subseteq shown'
  BY <1>6, <1>10, <1>11 DEF Range
<1>13. \A j, k \in DOMAIN out' : j < k => out'[j] < out'[k]
  <2> SUFFICES ASSUME NEW j \in DOMAIN out', NEW k \in DOMAIN out', j < k
               PROVE  out'[j] < out'[k]
    OBVIOUS
  <2>1. CASE k <= Len(out)
    BY <1>8, <1>9, <1>11, <2>1
  <2>2. CASE j <= Len(out) /\ k > Len(out)
    <3>1. out'[j] <= after /\ out'[j] \in Nat /\ k - Len(out) \in DOMAIN u /\ out'[k] = u[k - Len(out)]
      BY <1>8, <1>9, <1>11, <2>2
    <3>2. out'[k] > after /\ out'[k] \in Nat
      BY <1>6, <3>1
    <3> QED
      BY <1>3, <3>1, <3>2
  <2>3. CASE j > Len(out)
    <3>1. /\ j - Len(out) \in DOMAIN u /\ k - Len(out) \in DOMAIN u /\ j - Len(out) < k - Len(out)
          /\ out'[j] = u[j - Len(out)] /\ out'[k] = u[k - Len(out)]
      BY <1>8, <1>9, <2>3
    <3> QED
      BY <1>5, <3>1
  <2> QED
    BY <1>8, <1>9, <2>1, <2>2, <2>3
<1>14. ASSUME NEW i \in lasting, Len(b) < PageSize \/ i <= Last(b).id
       PROVE  i \in Range(out')
  <2>1. i \in Nat
    BY <1>3 DEF ListTypeOK, Active
  <2>2. CASE i <= after
    BY <1>10, <1>11, <2>2 DEF Range
  <2>3. CASE i > after
    <3>1. \E k \in DOMAIN b : b[k].id = i /\ ~b[k].revoked
      BY <1>14, <2>3 DEF Right
    <3>2. \E n \in DOMAIN u : u[n] = i
      BY <1>5, <3>1
    <3> QED
      BY <1>10, <3>2 DEF Range
  <2> QED
    BY <1>3, <2>1, <2>2, <2>3
<1>15. CASE Len(b) < PageSize
  <2>1. stage' = "listed"
    BY <1>15 DEF TakePage, TakeBatch
  <2> QED
    BY <1>12, <1>13, <1>14, <1>15, <2>1 DEF GatheredInv, Asking
<1>16. CASE Len(b) = PageSize
  <2> DEFINE next == Last(b).id
  <2>1. Len(b) \in DOMAIN b /\ next = b[Len(b)].id
    BY <1>1, <1>2, <1>16 DEF Last
  <2>2. next \in Nat /\ next > after
    BY <1>4, <1>2, <2>1 DEF Right
  <2>3. /\ after' = next /\ page' = page + 1
        /\ stage' = IF page + 1 < MaxPages THEN "connecting" ELSE "exceeded"
    BY <1>2, <1>3, <1>16, <2>2 DEF TakePage, TakeBatch
  <2> HIDE DEF next
  <2>4. \A k \in DOMAIN b : b[k].id <= next
    BY <1>2, <1>4, <2>1, <2>2 DEF Right
  <2>5. \A k \in DOMAIN out' : out'[k] <= after'
    <3>1. \A k \in DOMAIN out : out[k] <= next
      BY <1>3, <1>11, <2>2
    <3>2. \A k \in DOMAIN u : u[k] <= next
      BY <1>5, <2>4
    <3> QED
      BY <1>10, <2>3, <3>1, <3>2
  <2>6. \A i \in lasting : i <= after' => i \in Range(out')
    BY <1>14, <2>3 DEF next
  <2>7. Cardinality(UpTo(Existing, next)) >= Cardinality(UpTo(Existing, after)) + PageSize
        /\ Cardinality(UpTo(Existing, after)) \in Nat /\ Cardinality(UpTo(Existing, next)) \in Nat
    <3> DEFINE A == UpTo(Existing, after)
               B == UpTo(Existing, next)
               f == [k \in 1..PageSize |-> b[k].id]
    <3>1. IsFiniteSet(B) /\ Existing \subseteq Nat
      BY <2>2, FewObjects
    <3>2. A \subseteq B
      <4>1. \A x \in Nat : x <= after => x <= next
        BY <1>3, <2>2
      <4> QED
        BY <3>1, <4>1 DEF UpTo
    <3>3. \A k \in 1..PageSize : b[k].id \in B \ A
      BY <1>2, <1>3, <1>4, <1>16, <2>4 DEF UpTo, Right
    <3>4. f \in [1..PageSize -> B \ A]
      BY <3>3
    <3>5. \A j, k \in 1..PageSize : f[j] = f[k] => j = k
      BY <1>1, <1>2, <1>4, <1>16 DEF Right
    <3> HIDE DEF A, B, f
    <3>6. Cardinality(B) >= Cardinality(A) + PageSize /\ Cardinality(A) \in Nat /\ Cardinality(B) \in Nat
      BY <1>1, <3>1, <3>2, <3>4, <3>5, MoreMembers
    <3> QED
      BY <3>6 DEF A, B
  <2>8. Cardinality(UpTo(Existing, next)) >= PageSize * (page + 1)
    <3>1. PageSize * (page + 1) = PageSize * page + PageSize /\ PageSize * page \in Nat
      BY <1>1, <1>3
    <3> QED
      BY <1>1, <1>11, <2>7, <3>1
  <2>9. Cardinality(UpTo(Existing, after))' >= PageSize * page'
    BY <2>3, <2>8 DEF Existing, UpTo
  <2>10. stage' \in {"connecting", "exceeded"} /\ (stage' = "exceeded" => page' >= MaxPages)
    BY <1>3, <2>3, ListAssumption
  <2>11. \A i \in lasting' : i <= after' => i \in Range(out')
    BY <2>6
  <2> HIDE <1>7, <1>9, <2>3
  <2> QED
    BY <1>12, <1>13, <2>5, <2>9, <2>10, <2>11 DEF GatheredInv, Asking
<1> QED
  <2>0. Len(b) \in Nat /\ PageSize \in Nat /\ Len(b) <= PageSize
    BY <1>1, <1>2
  <2>1. Len(b) < PageSize \/ Len(b) = PageSize
    <3> HIDE <1>1, <1>2
    <3> QED
      BY <2>0
  <2> QED
    BY <1>15, <1>16, <2>1

Answer == [kind : {"page", "refusal", "Error"}, objects : Batches]

\* The pages on their way, after the first answer was read and after one was sent.
LEMMA OneReceived ==
  ASSUME ListTypeOK, answers # <<>>, answers' = Tail(answers)
  PROVE  /\ Head(answers) \in Answer /\ answers' \in Seq(Answer)
         /\ 1 \in DOMAIN answers /\ answers[1] = Head(answers)
         /\ \A k \in Coming' : k + 1 \in Coming /\ answers'[k] = answers[k + 1] /\ k + 1 # 1
<1>1. answers \in Seq(Answer)
  BY DEF ListTypeOK, Answer
<1>2. /\ Head(answers) \in Answer /\ answers' \in Seq(Answer) /\ Len(answers') = Len(answers) - 1
      /\ \A k \in 1..Len(answers') : answers'[k] = answers[k + 1]
  BY <1>1, HeadTailProperties
<1>3. DOMAIN answers = 1..Len(answers) /\ DOMAIN answers' = 1..Len(answers') /\ Len(answers) \in Nat \ {0}
  BY <1>1, <1>2
<1>4. 1 \in DOMAIN answers /\ answers[1] = Head(answers)
  BY <1>1, <1>3
<1>5. \A k \in DOMAIN answers' : k + 1 \in DOMAIN answers /\ answers'[k] = answers[k + 1] /\ k + 1 # 1
  BY <1>2, <1>3
<1> QED
  BY <1>2, <1>4, <1>5 DEF Coming

LEMMA OneSent ==
  ASSUME ListTypeOK, NEW a \in Answer, answers' = Append(answers, a)
  PROVE  /\ answers' \in Seq(Answer)
         /\ \A k \in Coming : k \in Coming' /\ answers'[k] = answers[k]
         /\ \A k \in Coming' : k \in Coming \/ (k = Len(answers) + 1 /\ answers'[k] = a /\ a.kind = "page")
<1>1. answers \in Seq(Answer)
  BY DEF ListTypeOK, Answer
<1>2. /\ answers' \in Seq(Answer) /\ Len(answers') = Len(answers) + 1
      /\ answers'[Len(answers) + 1] = a
      /\ \A k \in 1..Len(answers) : answers'[k] = answers[k]
  BY <1>1
<1>3. DOMAIN answers = 1..Len(answers) /\ DOMAIN answers' = 1..(Len(answers) + 1) /\ Len(answers) \in Nat
  BY <1>1, <1>2
<1>4. \A k \in DOMAIN answers : k \in DOMAIN answers' /\ answers'[k] = answers[k]
  BY <1>2, <1>3
<1>5. \A k \in DOMAIN answers' : k \in DOMAIN answers \/ k = Len(answers) + 1
  BY <1>3
<1> QED
  BY <1>2, <1>4, <1>5 DEF Coming

\* A change of the inventory takes nothing away but from what lasts.
LEMMA ChangeKeeps ==
  ASSUME ListTypeOK, NEW i \in Ids,
         AttachServer(i) \/ Revoke(i) \/ Restore(i)
  PROVE  /\ inventory' \in [Ids -> {"absent", "active", "revoked"}]
         /\ lasting' \subseteq lasting /\ shown \subseteq shown' /\ Existing \subseteq Existing'
         /\ lasting' \subseteq Active' /\ shown' \subseteq Ids
         /\ stage # "idle" => Active' \subseteq shown'
         /\ UNCHANGED <<conn, up, asked, answers, stage, using, page, after, out, leftover, listings, faults>>
<1>1. PICK from \in {"absent", "active", "revoked"}, to \in {"active", "revoked"} :
        Change(i, from, to) /\ from # to
  BY DEF AttachServer, Revoke, Restore
<1>2. inventory' \in [Ids -> {"absent", "active", "revoked"}]
  BY <1>1 DEF Change, ListTypeOK
<1>3. \A j \in Ids : inventory'[j] = IF j = i THEN to ELSE inventory[j]
  BY <1>1 DEF Change, ListTypeOK
<1>4. Existing \subseteq Existing'
  BY <1>1, <1>3 DEF Existing
<1>5. CASE to = "active"
  <2>1. lasting' = lasting /\ shown' = shown \cup {i}
    BY <1>1, <1>5 DEF Change
  <2>2. Active' = Active \cup {i}
    BY <1>3, <1>5 DEF Active
  <2> QED
    BY <1>1, <1>2, <1>4, <2>1, <2>2 DEF ListTypeOK, Change
<1>6. CASE to = "revoked"
  <2>1. lasting' = lasting \ {i} /\ shown' = shown
    BY <1>1, <1>6 DEF Change
  <2>2. Active' = Active \ {i}
    BY <1>3, <1>6 DEF Active
  <2> QED
    BY <1>1, <1>2, <1>4, <2>1, <2>2 DEF ListTypeOK, Change
<1> QED
  BY <1>1, <1>5, <1>6

LEMMA ListInitRight == ListInit => ListInv
<1> SUFFICES ASSUME NEW objects \in [Ids -> {"absent", "active", "revoked"}], ListStart(objects)
             PROVE  ListInv
  BY DEF ListInit
<1>1. ListTypeOK
  <2>1. out \in Seq(Ids) /\ asked \in Seq(Nat) /\ answers \in Seq([kind : {"page", "refusal", "Error"}, objects : Batches])
    BY DEF ListStart
  <2>2. inventory \in [Ids -> {"absent", "active", "revoked"}] /\ stage = "idle" /\ stage \in Asking \cup Returned
    BY DEF ListStart, Returned
  <2>3. page \in Nat /\ after \in Nat /\ lasting \subseteq Active /\ shown \subseteq Ids /\ leftover \in BOOLEAN
    BY DEF ListStart
  <2> QED
    BY <2>1, <2>2, <2>3 DEF ListTypeOK
<1>2. UnderwayInv
  BY DEF ListStart, UnderwayInv
<1>3. GatheredInv
  <2>1. Range(out) = {}
    BY DEF ListStart, Range
  <2> QED
    BY <2>1 DEF ListStart, GatheredInv, Asking
<1> QED
  BY <1>1, <1>2, <1>3 DEF ListInv

LEMMA TypeStep == ListTypeOK /\ [ListNext]_listVars => ListTypeOK'
<1> SUFFICES ASSUME ListTypeOK, [ListNext]_listVars
             PROVE  ListTypeOK'
  OBVIOUS
<1>1. /\ inventory \in [Ids -> {"absent", "active", "revoked"}]
      /\ stage \in Asking \cup Returned
      /\ page \in Nat /\ after \in Nat /\ out \in Seq(Ids)
      /\ lasting \subseteq Active /\ shown \subseteq Ids /\ leftover \in BOOLEAN
      /\ stage # "idle" => Active \subseteq shown
      /\ asked \in Seq(Nat) /\ answers \in Seq(Answer)
  BY DEF ListTypeOK, Answer
<1>2. ASSUME /\ inventory' \in [Ids -> {"absent", "active", "revoked"}]
             /\ stage' \in Asking \cup Returned
             /\ page' \in Nat /\ after' \in Nat /\ out' \in Seq(Ids)
             /\ lasting' \subseteq Active' /\ shown' \subseteq Ids /\ leftover' \in BOOLEAN
             /\ stage' # "idle" => Active' \subseteq shown'
             /\ asked' \in Seq(Nat) /\ answers' \in Seq(Answer)
      PROVE  ListTypeOK'
  BY <1>2 DEF ListTypeOK, Answer
<1>3. CASE BeginListing
  <2>1. Active' = Active /\ Active \subseteq Ids
    BY <1>3 DEF BeginListing, serverVars, Active
  <2> QED
    BY <1>1, <1>2, <1>3, <2>1 DEF BeginListing, serverVars, Asking
<1>4. CASE Connection
  <2>1. Active' = Active
    BY <1>4 DEF Connection, serverVars, Active
  <2> QED
    BY <1>1, <1>2, <1>4, <2>1 DEF Connection, serverVars, Asking
<1>5. CASE Request
  <2>1. Active' = Active
    BY <1>5 DEF Request, serverVars, Active
  <2>2. asked' \in Seq(Nat) /\ stage' \in {"awaiting", "failed"}
    <3>1. Append(asked, after) \in Seq(Nat)
      BY <1>1
    <3> QED
      BY <1>1, <1>5, <3>1 DEF Request
  <2> QED
    BY <1>1, <1>2, <1>5, <2>1, <2>2 DEF Request, serverVars, Asking, Returned
<1>6. CASE ReceivePage
  <2>1. Active' = Active
    BY <1>6 DEF ReceivePage, serverVars, Active
  <2>2. Head(answers) \in Answer /\ answers' \in Seq(Answer)
    BY <1>6, OneReceived DEF ReceivePage
  <2>3. /\ out' \in Seq(Ids) /\ page' \in Nat /\ after' \in Nat
        /\ stage' = stage \/ (stage = "awaiting" /\ stage' \in {"listed", "failed", "connecting", "exceeded"})
    <3>1. CASE stage # "awaiting"
      BY <1>1, <1>6, <3>1 DEF ReceivePage
    <3>2. CASE stage = "awaiting" /\ Head(answers).kind = "page"
      <4>1. TakePage(Head(answers).objects) /\ Head(answers).objects \in Batches
        BY <1>6, <2>2, <3>2 DEF ReceivePage, Answer
      <4> QED
        BY <3>2, <4>1, TakeTyped
    <3>3. CASE stage = "awaiting" /\ Head(answers).kind # "page"
      BY <1>1, <1>6, <3>3 DEF ReceivePage, FailListing
    <3> QED
      BY <3>1, <3>2, <3>3
  <2>4. UNCHANGED <<inventory, lasting, shown, leftover, asked>>
    BY <1>6 DEF ReceivePage, serverVars
  <2> QED
    BY <1>1, <1>2, <2>1, <2>2, <2>3, <2>4 DEF Asking, Returned
<1>7. CASE LoseConnection
  <2>1. Active' = Active
    BY <1>7 DEF LoseConnection, serverVars, Active
  <2>2. asked' \in Seq(Nat) /\ answers' \in Seq(Answer)
    BY <1>7 DEF LoseConnection
  <2>3. stage' \in Asking \cup Returned /\ (stage' # "idle" => stage # "idle")
    BY <1>1, <1>7 DEF LoseConnection, Asking, Returned
  <2> QED
    BY <1>1, <1>2, <1>7, <2>1, <2>2, <2>3 DEF LoseConnection, serverVars
<1>8. CASE ReplaceConnection
  <2>1. Active' = Active
    BY <1>8 DEF ReplaceConnection, serverVars, Active
  <2> QED
    BY <1>1, <1>2, <1>8, <2>1 DEF ReplaceConnection, serverVars
<1>9. CASE ServePage
  <2>1. Active' = Active
    BY <1>9 DEF ServePage, serverVars, Active
  <2>2. Head(asked) \in Nat /\ asked' \in Seq(Nat)
    BY <1>1, <1>9, HeadTailProperties DEF ServePage
  <2>3. [kind |-> "page", objects |-> Page(Head(asked))] \in Answer
    BY <2>2, PageIsRight DEF Answer
  <2>4. answers' \in Seq(Answer)
    BY <1>9, <2>3, OneSent DEF ServePage, Reply
  <2> QED
    BY <1>1, <1>2, <1>9, <2>1, <2>2, <2>4 DEF ServePage, serverVars
<1>10. CASE RefusePage
  <2>1. Active' = Active
    BY <1>10 DEF RefusePage, serverVars, Active
  <2>2. asked' \in Seq(Nat)
    BY <1>1, <1>10, HeadTailProperties DEF RefusePage
  <2>3. [kind |-> "refusal", objects |-> <<>>] \in Answer
    BY DEF Answer, Batches
  <2>4. answers' \in Seq(Answer)
    BY <1>10, <2>3, OneSent DEF RefusePage, Reply
  <2> QED
    BY <1>1, <1>2, <1>10, <2>1, <2>2, <2>4 DEF RefusePage, serverVars
<1>11. CASE ServeError
  <2>1. Active' = Active
    BY <1>11 DEF ServeError, serverVars, Active
  <2>3. [kind |-> "Error", objects |-> <<>>] \in Answer
    BY DEF Answer, Batches
  <2>4. answers' \in Seq(Answer)
    BY <1>11, <2>3, OneSent DEF ServeError, Reply
  <2> QED
    BY <1>1, <1>2, <1>11, <2>1, <2>4 DEF ServeError, serverVars
<1>12. ASSUME NEW i \in Ids, AttachServer(i) \/ Revoke(i) \/ Restore(i)
       PROVE  ListTypeOK'
  BY <1>1, <1>2, <1>12, ChangeKeeps
<1>13. CASE UNCHANGED listVars
  BY <1>13 DEF listVars, ListTypeOK, Active
<1> QED
  BY <1>3, <1>4, <1>5, <1>6, <1>7, <1>8, <1>9, <1>10, <1>11, <1>12, <1>13 DEF ListNext

\* What is under way answers the listing, and is right for it when it arrives.
LEMMA UnderwayStep == ListInv /\ [ListNext]_listVars => UnderwayInv'
<1> SUFFICES ASSUME ListTypeOK, UnderwayInv, [ListNext]_listVars, ~leftover'
             PROVE  /\ stage' \in {"connecting", "connected"} => asked' = <<>> /\ Coming' = {}
                    /\ stage' = "awaiting" =>
                         \/ asked' = <<after'>> /\ Coming' = {}
                         \/ /\ asked' = <<>> /\ \A j, k \in Coming' : j = k
                            /\ \A k \in Coming' : Right(answers[k].objects, after)'
  BY DEF ListInv, UnderwayInv
<1>1. /\ after \in Nat /\ asked \in Seq(Nat) /\ answers \in Seq(Answer) /\ leftover \in BOOLEAN
      /\ stage \in Asking \cup Returned
  BY DEF ListTypeOK, Answer
<1>2. \A k \in Coming : answers[k].objects \in Batches
  <2>1. \A k \in 1..Len(answers) : answers[k] \in Answer
    BY <1>1, ElementOfSeq
  <2> QED
    BY <1>1, <2>1 DEF Coming, Answer
<1>3. CASE BeginListing
  BY <1>3 DEF BeginListing, Coming
<1>4. CASE Connection
  <2>1. Coming' = Coming
    BY <1>4 DEF Connection, Coming
  <2> QED
    BY <1>4, <2>1 DEF Connection, UnderwayInv
<1>5. CASE Request
  <2>1. Coming' = Coming
    BY <1>5 DEF Request, Coming
  <2>2. stage = "connected" /\ asked = <<>> /\ Coming = {} /\ after' = after
    BY <1>5 DEF Request, UnderwayInv
  <2>3. stage' = "failed" \/ (stage' = "awaiting" /\ asked' = <<after>>)
    BY <1>1, <1>5, <2>2 DEF Request
  <2> QED
    BY <2>1, <2>2, <2>3
<1>6. CASE ReceivePage
  <2>1. /\ Head(answers) \in Answer
        /\ 1 \in DOMAIN answers /\ answers[1] = Head(answers)
        /\ \A k \in Coming' : k + 1 \in Coming /\ answers'[k] = answers[k + 1] /\ k + 1 # 1
    BY <1>6, OneReceived DEF ReceivePage
  <2>2. asked' = asked /\ ~leftover
    BY <1>6 DEF ReceivePage
  <2>3. CASE stage # "awaiting"
    <3>1. stage' = stage
      BY <1>6, <2>3 DEF ReceivePage
    <3>2. Coming = {} => Coming' = {}
      BY <2>1
    <3> QED
      BY <2>2, <2>3, <3>1, <3>2 DEF UnderwayInv
  <2>4. CASE stage = "awaiting" /\ Head(answers).kind = "page"
    <3>1. 1 \in Coming
      BY <2>1, <2>4 DEF Coming
    <3>2. asked = <<>> /\ \A k \in Coming : k = 1
      BY <2>2, <2>4, <3>1 DEF UnderwayInv
    <3>3. Coming' = {}
      BY <2>1, <3>2
    <3>4. stage' # "awaiting"
      <4>1. TakePage(Head(answers).objects) /\ Head(answers).objects \in Batches
        BY <1>6, <2>1, <2>4 DEF ReceivePage, Answer
      <4> QED
        BY <4>1, TakeTyped
    <3> QED
      BY <2>2, <3>2, <3>3, <3>4
  <2>5. CASE stage = "awaiting" /\ Head(answers).kind # "page"
    BY <1>6, <2>5 DEF ReceivePage, FailListing
  <2> QED
    BY <2>3, <2>4, <2>5
<1>7. CASE LoseConnection
  <2>1. Coming' = {} /\ asked' = <<>> /\ stage' # "awaiting"
    BY <1>7 DEF LoseConnection, Coming
  <2> QED
    BY <2>1
<1>8. CASE ReplaceConnection
  <2>1. UNCHANGED <<inventory, lasting, shown, stage, asked, answers, after, leftover>>
    BY <1>8 DEF ReplaceConnection, serverVars
  <2> QED
    BY <2>1 DEF UnderwayInv, Coming, Right, Existing, Last
<1>9. CASE ServePage
  <2>1. UNCHANGED <<inventory, lasting, shown, stage, after, leftover>> /\ asked # <<>> /\ asked' = Tail(asked)
    BY <1>9 DEF ServePage, serverVars
  <2>2. stage \notin {"connecting", "connected"}
    BY <2>1 DEF UnderwayInv
  <2>3. CASE stage = "awaiting"
    <3>1. asked = <<after>> /\ Coming = {}
      BY <2>1, <2>3 DEF UnderwayInv
    <3>2. asked' = <<>> /\ Head(asked) = after
      BY <1>1, <2>1, <3>1
    <3> DEFINE a == [kind |-> "page", objects |-> Page(after)]
    <3>3. a \in Answer /\ Right(Page(after), after) /\ a.objects = Page(after)
      BY <1>1, <2>3, PageIsRight DEF Answer
    <3>4. answers' = Append(answers, a)
      BY <1>9, <3>2 DEF ServePage, Reply
    <3> HIDE DEF a
    <3>5. \A k \in Coming' : k = Len(answers) + 1 /\ answers'[k] = a
      BY <3>1, <3>3, <3>4, OneSent
    <3>6. \A b : Right(b, after) => Right(b, after)'
      BY <2>1 DEF Right, Existing, Last
    <3>7. \A k \in Coming' : Right(answers[k].objects, after)'
      <4> SUFFICES ASSUME NEW k \in Coming' PROVE Right(answers[k].objects, after)'
        OBVIOUS
      <4>1. answers'[k].objects = Page(after)
        BY <3>3, <3>5
      <4> QED
        BY <2>1, <3>3, <4>1 DEF Right, Existing, Last
    <3> QED
      BY <2>1, <2>3, <3>2, <3>5, <3>7
  <2> QED
    BY <2>1, <2>2, <2>3
<1>10. CASE RefusePage
  <2>1. UNCHANGED <<stage, after, leftover>> /\ asked # <<>> /\ asked' = Tail(asked)
    BY <1>10 DEF RefusePage
  <2>2. stage \notin {"connecting", "connected"}
    BY <2>1 DEF UnderwayInv
  <2>3. CASE stage = "awaiting"
    <3>1. asked = <<after>> /\ Coming = {}
      BY <2>1, <2>3 DEF UnderwayInv
    <3>2. asked' = <<>>
      BY <1>1, <2>1, <3>1
    <3>3. [kind |-> "refusal", objects |-> <<>>] \in Answer
      BY DEF Answer, Batches
    <3>4. Coming' = {}
      BY <1>10, <3>1, <3>3, OneSent DEF RefusePage, Reply
    <3> QED
      BY <2>1, <2>3, <3>2, <3>4
  <2> QED
    BY <2>1, <2>2, <2>3
<1>11. CASE ServeError
  <2>1. UNCHANGED <<inventory, lasting, shown, stage, asked, after, leftover>>
    BY <1>11 DEF ServeError, serverVars
  <2>2. [kind |-> "Error", objects |-> <<>>] \in Answer
    BY DEF Answer, Batches
  <2>3. Coming' = Coming /\ \A k \in Coming : answers'[k] = answers[k]
    BY <1>11, <2>2, OneSent DEF ServeError, Reply
  <2> QED
    BY <2>1, <2>3 DEF UnderwayInv, Right, Existing, Last
<1>12. ASSUME NEW i \in Ids, AttachServer(i) \/ Revoke(i) \/ Restore(i)
       PROVE  /\ stage' \in {"connecting", "connected"} => asked' = <<>> /\ Coming' = {}
              /\ stage' = "awaiting" =>
                   \/ asked' = <<after'>> /\ Coming' = {}
                   \/ /\ asked' = <<>> /\ \A j, k \in Coming' : j = k
                      /\ \A k \in Coming' : Right(answers[k].objects, after)'
  <2>1. /\ lasting' \subseteq lasting /\ shown \subseteq shown' /\ Existing \subseteq Existing'
        /\ UNCHANGED <<asked, answers, stage, after, leftover>>
    BY <1>12, ChangeKeeps
  <2>2. Coming' = Coming
    BY <2>1 DEF Coming
  <2>3. ASSUME NEW k \in Coming, Right(answers[k].objects, after)
        PROVE  Right(answers[k].objects, after)'
    BY <1>1, <1>2, <2>1, <2>3 DEF Right, Last
  <2> QED
    BY <2>1, <2>2, <2>3 DEF UnderwayInv
<1>13. CASE UNCHANGED listVars
  <2>1. UNCHANGED <<inventory, lasting, shown, stage, asked, answers, after, leftover>>
    BY <1>13 DEF listVars
  <2> QED
    BY <2>1 DEF UnderwayInv, Coming, Right, Existing, Last
<1> QED
  BY <1>3, <1>4, <1>5, <1>6, <1>7, <1>8, <1>9, <1>10, <1>11, <1>12, <1>13 DEF ListNext

\* What the listing has gathered stays right.
LEMMA GatheredStep == ListInv /\ [ListNext]_listVars => GatheredInv'
<1> SUFFICES ASSUME ListTypeOK, UnderwayInv, GatheredInv, [ListNext]_listVars, ~leftover'
             PROVE  GatheredInv'
  BY DEF ListInv, GatheredInv
<1>1. after \in Nat /\ page \in Nat /\ stage \in Asking \cup Returned /\ PageSize \in Nat
  BY ListAssumption DEF ListTypeOK
\* A step that leaves the listing where it is, and the inventory.
<1>2. ASSUME UNCHANGED <<inventory, lasting, shown, leftover, page, after, out>>,
             \/ stage' = stage \/ stage' = "failed"
             \/ stage \in Asking /\ stage' \in Asking
      PROVE  GatheredInv'
  <2>1. Range(out)' = Range(out) /\ Cardinality(UpTo(Existing, after))' = Cardinality(UpTo(Existing, after))
    BY <1>2 DEF Existing, UpTo
  <2> QED
    BY <1>2, <2>1 DEF GatheredInv, Asking
<1>3. CASE BeginListing
  <2>1. /\ stage' = "connecting" /\ page' = 0 /\ after' = 0 /\ out' = <<>> /\ inventory' = inventory
        /\ lasting' = Active
    BY <1>3 DEF BeginListing, serverVars
  <2>2. Range(out)' = {} /\ DOMAIN out' = {}
    BY <2>1 DEF Range
  <2>3. \A i \in lasting' : ~(i <= after')
    BY <2>1, ListAssumption DEF Active, Ids
  <2>4. Cardinality(UpTo(Existing, 0)) \in Nat
    BY FewObjects, FS_CardinalityType
  <2>5. PageSize * page' = 0
    BY <1>1, <2>1
  <2>6. Cardinality(UpTo(Existing, after))' = Cardinality(UpTo(Existing, 0))
    BY <2>1 DEF Existing, UpTo
  <2>7. Cardinality(UpTo(Existing, after))' >= PageSize * page'
    BY <2>4, <2>5, <2>6
  <2> QED
    BY <2>1, <2>2, <2>3, <2>7 DEF GatheredInv, Asking
<1>4. CASE Connection
  BY <1>2, <1>4 DEF Connection, serverVars, Asking
<1>5. CASE Request
  BY <1>2, <1>5 DEF Request, serverVars, Asking
<1>6. CASE ReceivePage
  <2>1. UNCHANGED <<inventory, lasting, shown, leftover>>
    BY <1>6 DEF ReceivePage, serverVars
  <2>2. CASE stage # "awaiting"
    BY <1>2, <1>6, <2>1, <2>2 DEF ReceivePage
  <2>3. CASE stage = "awaiting" /\ Head(answers).kind = "page"
    <3>1. Head(answers) \in Answer /\ 1 \in DOMAIN answers /\ answers[1] = Head(answers)
      BY <1>6, OneReceived DEF ReceivePage
    <3>2. 1 \in Coming
      BY <2>3, <3>1 DEF Coming
    <3>3. Right(Head(answers).objects, after)
      BY <2>1, <2>3, <3>1, <3>2 DEF UnderwayInv
    <3>4. TakePage(Head(answers).objects) /\ Head(answers).objects \in Batches
      BY <1>6, <2>3, <3>1 DEF ReceivePage, Answer
    <3> QED
      BY <2>1, <2>3, <3>3, <3>4, TakeGathers
  <2>4. CASE stage = "awaiting" /\ Head(answers).kind # "page"
    BY <1>2, <1>6, <2>1, <2>4 DEF ReceivePage, FailListing
  <2> QED
    BY <2>2, <2>3, <2>4
<1>7. CASE LoseConnection
  BY <1>2, <1>7 DEF LoseConnection, serverVars
<1>8. CASE ReplaceConnection
  BY <1>2, <1>8 DEF ReplaceConnection, serverVars
<1>9. CASE ServePage
  BY <1>2, <1>9 DEF ServePage, serverVars
<1>10. CASE RefusePage
  BY <1>2, <1>10 DEF RefusePage, serverVars
<1>11. CASE ServeError
  BY <1>2, <1>11 DEF ServeError, serverVars
<1>12. ASSUME NEW i \in Ids, AttachServer(i) \/ Revoke(i) \/ Restore(i)
       PROVE  GatheredInv'
  <2>1. /\ lasting' \subseteq lasting /\ shown \subseteq shown' /\ Existing \subseteq Existing'
        /\ inventory' \in [Ids -> {"absent", "active", "revoked"}]
        /\ UNCHANGED <<stage, page, after, out, leftover>>
    BY <1>12, ChangeKeeps
  <2>2. Cardinality(UpTo(Existing, after))' >= Cardinality(UpTo(Existing, after))
        /\ Cardinality(UpTo(Existing, after))' \in Nat /\ Cardinality(UpTo(Existing, after)) \in Nat
    <3>1. IsFiniteSet(UpTo(Existing', after))
      <4>1. IsFiniteSet(Ids)
        <5>1. 1 \in Int /\ N \in Int
          BY ListAssumption
        <5> QED
          BY <5>1, FS_Interval DEF Ids
      <4>2. UpTo(Existing', after) \subseteq Ids
        BY DEF UpTo, Existing
      <4> QED
        BY <4>1, <4>2, FS_Subset
    <3>2. UpTo(Existing, after) \subseteq UpTo(Existing', after)
      BY <2>1 DEF UpTo
    <3>3. IsFiniteSet(UpTo(Existing, after))
          /\ Cardinality(UpTo(Existing, after)) <= Cardinality(UpTo(Existing', after))
      BY <3>1, <3>2, FS_Subset
    <3>4. UpTo(Existing, after)' = UpTo(Existing', after)
      BY <2>1 DEF UpTo
    <3>5. Cardinality(UpTo(Existing', after)) \in Nat /\ Cardinality(UpTo(Existing, after)) \in Nat
      BY <3>1, <3>3, FS_CardinalityType
    <3> QED
      BY <3>3, <3>4, <3>5
  <2>3. PageSize * page \in Nat
    BY <1>1
  <2>4. Cardinality(UpTo(Existing, after)) >= PageSize * page =>
          Cardinality(UpTo(Existing, after))' >= PageSize * page'
    <3>1. PageSize * page' = PageSize * page
      BY <2>1
    <3> QED
      BY <2>2, <2>3, <3>1
  <2>5. Range(out)' = Range(out)
    BY <2>1
  <2> QED
    BY <2>1, <2>4, <2>5 DEF GatheredInv, Asking
<1>13. CASE UNCHANGED listVars
  BY <1>2, <1>13 DEF listVars
<1> QED
  BY <1>3, <1>4, <1>5, <1>6, <1>7, <1>8, <1>9, <1>10, <1>11, <1>12, <1>13 DEF ListNext

-----------------------------------------------------------------------------
(* The theorems. *)

\* What is under way between a listing and the server, and what the listing has
\* gathered of the pages that came, at every point of it (identity_objects.go:53-80).
THEOREM ListInvariance == ListSpec => []ListInv
<1>1. ListInit => ListInv
  BY ListInitRight
<1>2. ListInv /\ [ListNext]_listVars => ListInv'
  BY TypeStep, UnderwayStep, GatheredStep DEF ListInv
<1> QED
  BY <1>1, <1>2, PTL DEF ListSpec

\* A listing that begins with no earlier answer still due is the inventory: every
\* object that stayed active, none that never was, each once; and when it stops at
\* the limit, the service has that many objects.
THEOREM FreshListing == ListSpec => []FreshIsRight
<1>1. ListInv => FreshIsRight
  <2> SUFFICES ASSUME ListTypeOK, GatheredInv, ~leftover
               PROVE  /\ NeverTruncated /\ Range(out) \subseteq shown
                      /\ stage = "listed" => IsInjective(out)
                      /\ stage = "exceeded" => Cardinality(Existing) >= PageSize * MaxPages
    BY DEF ListInv, FreshIsRight, FreshIsComplete, FreshIsActive, FreshListsOnce, LimitIsReal
  <2>1. NeverTruncated /\ Range(out) \subseteq shown
    BY DEF GatheredInv, NeverTruncated
  <2>2. ASSUME stage = "listed" PROVE IsInjective(out)
    <3>1. \A j, k \in DOMAIN out : j < k => out[j] < out[k]
      BY <2>2 DEF GatheredInv
    <3>2. DOMAIN out = 1..Len(out) /\ Len(out) \in Nat /\ \A k \in DOMAIN out : out[k] \in Nat
      <4>1. out \in Seq(Ids) /\ Ids \subseteq Nat
        BY ListAssumption DEF ListTypeOK, Ids
      <4>2. DOMAIN out = 1..Len(out) /\ Len(out) \in Nat
        BY <4>1
      <4>3. \A k \in 1..Len(out) : out[k] \in Ids
        BY <4>1, ElementOfSeq
      <4> QED
        BY <4>1, <4>2, <4>3
    <3>3. \A j, k \in DOMAIN out : out[j] = out[k] => j = k
      BY <3>1, <3>2
    <3> QED
      BY <3>3 DEF IsInjective
  <2>3. ASSUME stage = "exceeded" PROVE Cardinality(Existing) >= PageSize * MaxPages
    <3> DEFINE A == UpTo(Existing, after)
    <3>1. Cardinality(A) >= PageSize * page /\ page >= MaxPages
      BY <2>3 DEF GatheredInv
    <3>2. page \in Nat /\ after \in Nat /\ PageSize \in Nat /\ MaxPages \in Nat
      BY ListAssumption DEF ListTypeOK
    <3>3. Cardinality(A) <= Cardinality(Existing) /\ Cardinality(A) \in Nat /\ Cardinality(Existing) \in Nat
      BY <3>2, FewObjects, FS_Subset, FS_CardinalityType
    <3>4. PageSize * page >= PageSize * MaxPages
      <4>1. page = MaxPages + (page - MaxPages) /\ page - MaxPages \in Nat
        BY <3>1, <3>2
      <4>2. PageSize * page = PageSize * MaxPages + PageSize * (page - MaxPages)
        BY <3>2, <4>1
      <4>3. PageSize * (page - MaxPages) \in Nat /\ PageSize * MaxPages \in Nat
        BY <3>2, <4>1
      <4> QED
        BY <4>2, <4>3
    <3>5. PageSize * page \in Nat /\ PageSize * MaxPages \in Nat
      BY <3>2
    <3> HIDE DEF A
    <3> QED
      BY <3>1, <3>3, <3>4, <3>5
  <2> QED
    BY <2>1, <2>2, <2>3
<1> QED
  BY <1>1, ListInvariance, PTL

-----------------------------------------------------------------------------
(* Sequences, for the texts of Reference. *)

LEMMA Assoc ==
  ASSUME NEW S, NEW a \in Seq(S), NEW b \in Seq(S), NEW c \in Seq(S)
  PROVE  (a \o b) \o c = a \o (b \o c)
OBVIOUS

\* The least and the greatest number of a set are what strings.Index and
\* TrimSpace find.
LEMMA MinIs ==
  ASSUME NEW T, T \subseteq Nat, T # {}
  PROVE  Min(T) \in T /\ \A m \in T : Min(T) <= m
BY Least DEF Min

LEMMA MaxIs ==
  ASSUME NEW n \in Nat, NEW T, T \subseteq 1..n, T # {}
  PROVE  Max(T) \in T /\ \A m \in T : m <= Max(T)
<1> DEFINE D == {n - i : i \in T}
<1>a. D \subseteq Nat /\ D # {}
  OBVIOUS
<1>1. PICK d \in D : \A e \in D : d <= e
  <2> HIDE DEF D
  <2> QED
    BY <1>a, Least
<1>2. PICK x \in T : d = n - x
  BY <1>1
<1>3. \A m \in T : m \in Nat /\ n - m \in D
  OBVIOUS
<1>4. \A m \in T : m <= x
  BY <1>1, <1>2, <1>3
<1>5. \E y \in T : \A m \in T : y >= m
  BY <1>2, <1>3, <1>4
<1>6. Max(T) \in T /\ \A m \in T : Max(T) >= m
  BY <1>5 DEF Max
<1> QED
  BY <1>3, <1>6

\* Index is where a token is first, 0 if it is nowhere.
LEMMA IndexIs ==
  ASSUME NEW S, NEW s \in Seq(S), NEW x
  PROVE  /\ Index(s, x) \in 0..Len(s)
         /\ Index(s, x) = 0 => \A i \in 1..Len(s) : s[i] # x
         /\ Index(s, x) # 0 => s[Index(s, x)] = x /\ \A i \in 1..(Index(s, x) - 1) : s[i] # x
<1>1. Len(s) \in Nat /\ Places(s, x) \subseteq Nat
  BY DEF Places
<1>2. CASE Places(s, x) = {}
  BY <1>1, <1>2 DEF Index, Places
<1>3. CASE Places(s, x) # {}
  <2>1. Index(s, x) \in Places(s, x) /\ \A i \in Places(s, x) : Index(s, x) <= i
    BY <1>1, <1>3, MinIs DEF Index
  <2>2. Index(s, x) \in 1..Len(s) /\ s[Index(s, x)] = x
    BY <2>1 DEF Places
  <2>3. ASSUME NEW i \in 1..(Index(s, x) - 1), s[i] = x PROVE FALSE
    <3>1. i \in Places(s, x)
      BY <1>1, <2>2, <2>3 DEF Places
    <3> QED
      BY <2>1, <2>2, <3>1
  <2> QED
    BY <1>1, <2>2, <2>3
<1> QED
  BY <1>2, <1>3

LEMMA IndexAt ==
  ASSUME NEW S, NEW s \in Seq(S), NEW x, NEW n \in 1..Len(s), s[n] = x, \A i \in 1..(n - 1) : s[i] # x
  PROVE  Index(s, x) = n
<1>1. Len(s) \in Nat
  OBVIOUS
<1> QED
  BY <1>1, IndexIs

\* A sequence is what stands before a place, what is there, and the others.
LEMMA Apart ==
  ASSUME NEW S, NEW s \in Seq(S), NEW n \in 1..Len(s)
  PROVE  /\ SubSeq(s, 1, n - 1) \in Seq(S) /\ SubSeq(s, n + 1, Len(s)) \in Seq(S)
         /\ s = SubSeq(s, 1, n - 1) \o <<s[n]>> \o SubSeq(s, n + 1, Len(s))
<1>1. s[n] \in S /\ \A i \in 1..Len(s) : s[i] \in S
  BY ElementOfSeq
<1>2. SubSeq(s, 1, n - 1) \in Seq(S) /\ SubSeq(s, n + 1, Len(s)) \in Seq(S)
  BY <1>1, SubSeqProperties
<1>3. s = SubSeq(s, 1, n - 1) \o SubSeq(s, n, Len(s))
  BY ConcatAdjacentSubSeq, SubSeqFull
<1>4. SubSeq(s, n, Len(s)) = <<s[n]>> \o SubSeq(s, n + 1, Len(s))
  BY SubSeqRecursiveFirst
<1>5. \A u, v \in Seq(S) : (u \o <<s[n]>>) \o v = u \o (<<s[n]>> \o v)
  BY <1>1, Assoc
<1> QED
  BY <1>2, <1>3, <1>4, <1>5, Zenon

LEMMA From ==
  ASSUME NEW S, NEW s \in Seq(S), NEW n \in 1..Len(s)
  PROVE  /\ SubSeq(s, n, Len(s)) \in Seq(S) /\ Len(SubSeq(s, n, Len(s))) = Len(s) - n + 1
         /\ SubSeq(s, n, Len(s))[1] = s[n]
         /\ n < Len(s) => SubSeq(s, n, Len(s))[2] = s[n + 1]
OBVIOUS

LEMMA Short ==
  ASSUME NEW S, NEW s \in Seq(S)
  PROVE  (Len(s) = 1 => s = <<s[1]>>) /\ (Len(s) = 2 => s = <<s[1], s[2]>>)
<1>1. Len(s) = 1 => s = <<s[1]>>
  OBVIOUS
<1>2. Len(s) = 2 => s = <<s[1], s[2]>>
  OBVIOUS
<1> QED
  BY <1>1, <1>2

LEMMA Together ==
  ASSUME NEW S, NEW a \in Seq(S), NEW b \in Seq(S), NEW x \in S
  PROVE  LET s == a \o <<x>> \o b IN
         /\ s \in Seq(S) /\ Len(s) = Len(a) + 1 + Len(b) /\ s[Len(a) + 1] = x
         /\ \A i \in 1..Len(a) : s[i] = a[i]
         /\ \A i \in 1..Len(b) : s[Len(a) + 1 + i] = b[i]
         /\ SubSeq(s, 1, Len(a)) = a /\ SubSeq(s, Len(a) + 2, Len(s)) = b
<1> DEFINE s == a \o <<x>> \o b
<1>1. /\ s \in Seq(S) /\ Len(s) = Len(a) + 1 + Len(b) /\ s[Len(a) + 1] = x
      /\ \A i \in 1..Len(a) : s[i] = a[i]
      /\ \A i \in 1..Len(b) : s[Len(a) + 1 + i] = b[i]
  OBVIOUS
<1>2. SubSeq(s, 1, Len(a)) = a
  BY <1>1
<1>3. SubSeq(s, Len(a) + 2, Len(s)) = b
  BY <1>1
<1> QED
  BY <1>1, <1>2, <1>3

LEMMA InFront ==
  ASSUME NEW S, NEW x \in S, NEW s \in Seq(S)
  PROVE  /\ <<x>> \o s \in Seq(S) /\ <<x>> \o s # <<>> /\ Len(<<x>> \o s) = Len(s) + 1
         /\ Head(<<x>> \o s) = x /\ Tail(<<x>> \o s) = s
         /\ \A i \in 1..Len(s) : (<<x>> \o s)[i + 1] = s[i]
<1> DEFINE t == <<x>> \o s
<1>1. t \in Seq(S) /\ Len(t) = Len(s) + 1 /\ t[1] = x /\ \A i \in 1..Len(s) : t[i + 1] = s[i]
  OBVIOUS
<1>2. t # <<>> /\ Head(t) = x
  BY <1>1
<1>3. Tail(t) \in Seq(S) /\ Len(Tail(t)) = Len(s) /\ \A i \in 1..Len(s) : Tail(t)[i] = t[i + 1]
  BY <1>1, <1>2, HeadTailProperties
<1>4. Tail(t) = s
  BY <1>1, <1>3, SeqEqual
<1> QED
  BY <1>1, <1>2, <1>4

\* Split takes a text apart at its first "@" ...
LEMMA SplitIs ==
  ASSUME NEW s \in Seq(Tokens), ~Whole(s)
  PROVE  /\ Split(s) \in Seq(Tokens) /\ Others(s) \in Seq(Tokens)
         /\ s = Split(s) \o <<"@">> \o Others(s)
<1>1. Index(s, "@") \in 1..Len(s) /\ s[Index(s, "@")] = "@"
  BY IndexIs DEF Whole
<1> QED
  BY <1>1, Apart DEF Split, Others

\* ... and finds the parts of one put together.
LEMMA SplitAt ==
  ASSUME NEW a \in Seq(Tokens), NEW b \in Seq(Tokens), \A i \in 1..Len(a) : a[i] # "@"
  PROVE  LET s == a \o <<"@">> \o b IN
         s \in Seq(Tokens) /\ ~Whole(s) /\ Split(s) = a /\ Others(s) = b
<1> DEFINE s == a \o <<"@">> \o b
<1>1. "@" \in Tokens /\ Len(a) \in Nat /\ Len(b) \in Nat
  BY LenProperties, Zenon DEF Tokens
<1>2. /\ s \in Seq(Tokens) /\ Len(s) = Len(a) + 1 + Len(b) /\ s[Len(a) + 1] = "@"
      /\ \A i \in 1..Len(a) : s[i] = a[i]
      /\ SubSeq(s, 1, Len(a)) = a /\ SubSeq(s, Len(a) + 2, Len(s)) = b
  BY <1>1, Together
<1>3. Index(s, "@") = Len(a) + 1
  <2> HIDE DEF s
  <2>1. Len(a) + 1 \in 1..Len(s) /\ \A i \in 1..(Len(a) + 1 - 1) : s[i] # "@"
    BY <1>1, <1>2
  <2>2. /\ Index(s, "@") \in 0..Len(s)
        /\ Index(s, "@") = 0 => \A i \in 1..Len(s) : s[i] # "@"
        /\ Index(s, "@") # 0 =>
             s[Index(s, "@")] = "@" /\ \A i \in 1..(Index(s, "@") - 1) : s[i] # "@"
    BY <1>2, IndexIs, Zenon
  <2> QED
    BY <1>1, <1>2, <2>1, <2>2
<1> QED
  <2> HIDE DEF s
  <2>1. s \in Seq(Tokens) /\ ~Whole(s) /\ Split(s) = a /\ Others(s) = b
    BY <1>1, <1>2, <1>3 DEF Whole, Split, Others
  <2> QED
    BY <2>1 DEF s

LEMMA WholeIs ==
  ASSUME NEW s \in Seq(Tokens), \A i \in 1..Len(s) : s[i] # "@"
  PROVE  Whole(s)
BY IndexIs DEF Whole

LEMMA TrimIs ==
  ASSUME NEW s \in Seq(Tokens)
  PROVE  /\ TrimSpace(s) \in Seq(Tokens)
         /\ (\A i \in 1..Len(s) : s[i] # " ") => TrimSpace(s) = s
<1> DEFINE solid == {i \in 1..Len(s) : s[i] # " "}
<1>1. Len(s) \in Nat /\ \A i \in 1..Len(s) : s[i] \in Tokens
  BY LenProperties, ElementOfSeq, Zenon
<1>2. solid \subseteq 1..Len(s)
  OBVIOUS
<1>3. (\A i \in 1..Len(s) : s[i] # " ") => solid = 1..Len(s)
  OBVIOUS
<1>4. TrimSpace(s) = IF solid = {} THEN <<>> ELSE SubSeq(s, Min(solid), Max(solid))
  BY DEF TrimSpace
<1> HIDE DEF solid
<1>5. CASE solid = {}
  <2>1. (\A i \in 1..Len(s) : s[i] # " ") => Len(s) = 0
    <3>1. 1..Len(s) = {} => Len(s) = 0
      BY <1>1
    <3> QED
      BY <1>3, <1>5, <3>1, Zenon
  <2>2. Len(s) = 0 => s = <<>>
    BY EmptySeq, Zenon
  <2> QED
    BY <1>4, <1>5, <2>1, <2>2, EmptySeq
<1>6. CASE solid # {}
  <2>1. /\ Min(solid) \in 1..Len(s) /\ \A i \in solid : Min(solid) <= i
        /\ Max(solid) \in 1..Len(s) /\ \A i \in solid : i <= Max(solid)
    <3>1. solid \subseteq Nat
      BY <1>1, <1>2
    <3> QED
      BY <1>1, <1>2, <1>6, <3>1, MinIs, MaxIs
  <2>2. \A i \in Min(solid)..Max(solid) : i \in 1..Len(s)
    BY <1>1, <2>1
  <2>3. TrimSpace(s) \in Seq(Tokens)
    <3>1. \A i \in Min(solid)..Max(solid) : s[i] \in Tokens
      BY <1>1, <2>2, Zenon
    <3>2. Min(solid) \in Int /\ Max(solid) \in Int
      BY <1>1, <2>1
    <3> QED
      BY <1>4, <1>6, <3>1, <3>2, SubSeqProperties, Zenon
  <2>4. ASSUME solid = 1..Len(s) PROVE TrimSpace(s) = s
    <3>1. Min(solid) = 1 /\ Max(solid) = Len(s)
      BY <1>1, <2>1, <2>4
    <3> QED
      BY <1>4, <1>6, <3>1, SubSeqFull
  <2> QED
    BY <1>3, <2>3, <2>4
<1> QED
  BY <1>5, <1>6

-----------------------------------------------------------------------------
(* Versions: what FormatUint writes and ParseUint reads. *)

LEMMA Formatted ==
  /\ FormatUint(1) = <<"1">> /\ FormatUint(10) = <<"1", "0">> /\ FormatUint(11) = <<"1", "1">>
<1>1. 10 \div 10 = 1 /\ 10 % 10 = 0 /\ 11 \div 10 = 1 /\ 11 % 10 = 1
  OBVIOUS
<1>2. Digit(1) = "1" /\ Digit(0) = "0"
  BY DEF Digit
<1> QED
  BY <1>1, <1>2 DEF FormatUint

\* Of the digits d, the first z are zeros, and a "1" is next.
Leading(d, z) == (\A i \in 1..z : d[i] = "0") /\ z + 1 \in 1..Len(d) /\ d[z + 1] = "1"

\* The version of digits is written as these without some zeros in front.
LEMMA Parsing ==
  ASSUME NEW d \in Seq(Tokens), ParseUint(d) # 0
  PROVE  /\ ParseUint(d) \in Versions
         /\ \E z \in 0..Len(d) :
              /\ FormatUint(ParseUint(d)) = SubSeq(d, z + 1, Len(d))
              /\ Leading(d, z)
<1> DEFINE ones == {i \in 1..Len(d) : d[i] # "0"}
           s == Significant(d)
           m == Min(ones)
<1>1. Len(d) \in Nat /\ \A i \in 1..Len(d) : d[i] \in Tokens
  BY LenProperties, ElementOfSeq, Zenon
<1>2. /\ Range(d) \subseteq Digits /\ s # <<>> /\ Len(s) <= 2
      /\ ParseUint(d) = IF Len(s) = 1 THEN DigitValue(s[1]) ELSE 10 * DigitValue(s[1]) + DigitValue(s[2])
  BY DEF ParseUint
<1>3. ones # {} /\ s = SubSeq(d, m, Len(d))
  BY <1>2 DEF Significant
<1>4. /\ m \in 1..Len(d) /\ d[m] # "0" /\ \A i \in 1..Len(d) : d[i] # "0" => m <= i
  <2>1. ones \subseteq 1..Len(d) /\ ones \subseteq Nat
    BY <1>1
  <2>2. m \in ones /\ \A i \in ones : m <= i
    <3> HIDE DEF ones
    <3> QED
      BY <1>3, <2>1, MinIs
  <2> QED
    BY <2>2, Zenon
<1>5. \A i \in 1..Len(d) : d[i] \in Digits
  <2>1. DOMAIN d = 1..Len(d)
    BY LenProperties, Zenon
  <2> QED
    BY <1>2, <2>1, Zenon DEF Range
<1> HIDE DEF ones, m, s
<1>a. m \in 1..Len(d)
  BY <1>4
<1>6. /\ s \in Seq(Tokens) /\ Len(s) = Len(d) - m + 1
      /\ s[1] = d[m] /\ (m < Len(d) => s[2] = d[m + 1])
  BY <1>3, <1>a, From, Zenon
<1>7. s[1] = "1"
  BY <1>4, <1>5, <1>6, <1>a, Zenon DEF Digits
<1>b. Len(s) = 1 \/ (Len(s) = 2 /\ m < Len(d) /\ m + 1 \in 1..Len(d))
  <2>1. Len(s) <= 2 /\ Len(s) = Len(d) - m + 1
    BY <1>2, <1>6
  <2> QED
    BY <1>1, <1>a, <2>1
<1>8. s = <<"1">> \/ s = <<"1", "0">> \/ s = <<"1", "1">>
  <2>1. CASE Len(s) = 1
    <3>1. s = <<s[1]>>
      BY <1>6, <2>1, Short, Zenon
    <3> QED
      BY <1>7, <3>1, Zenon
  <2>2. CASE Len(s) = 2 /\ m < Len(d) /\ m + 1 \in 1..Len(d)
    <3>1. s = <<s[1], s[2]>>
      BY <1>6, <2>2, Short, Zenon
    <3>2. s[2] \in {"0", "1"}
      BY <1>5, <1>6, <2>2, Zenon DEF Digits
    <3> QED
      BY <1>7, <3>1, <3>2, Zenon
  <2> QED
    BY <1>b, <2>1, <2>2, Zenon
<1>9. ParseUint(d) \in {1, 10, 11} /\ FormatUint(ParseUint(d)) = s
  BY <1>2, <1>8, Formatted DEF DigitValue
<1>10. m - 1 \in 0..Len(d) /\ (m - 1) + 1 = m /\ \A i \in 1..(m - 1) : i \in 1..Len(d) /\ ~(m <= i)
  BY <1>1, <1>4
<1>11. \A i \in 1..(m - 1) : d[i] = "0"
  BY <1>4, <1>10, Zenon
<1>12. Leading(d, m - 1)
  BY <1>6, <1>7, <1>a, <1>10, <1>11, Zenon DEF Leading
<1> QED
  BY <1>3, <1>9, <1>10, <1>12 DEF Versions

\* What FormatUint writes.
Numeral(d) ==
  /\ d \in Seq(Digits) /\ d # <<>> /\ d[1] = "1" /\ Len(d) \in 1..2
  /\ \A i \in 1..Len(d) : d[i] \in Digits

LEMMA Numerals == Numeral(<<"1">>) /\ Numeral(<<"1", "0">>) /\ Numeral(<<"1", "1">>)
<1>1. Numeral(<<"1">>)
  BY DEF Numeral, Digits
<1>2. Numeral(<<"1", "0">>)
  BY DEF Numeral, Digits
<1>3. Numeral(<<"1", "1">>)
  BY DEF Numeral, Digits
<1> QED
  BY <1>1, <1>2, <1>3

\* A version is read as it is written.
LEMMA Formatting ==
  ASSUME NEW n \in Versions, n # 0
  PROVE  /\ FormatUint(n) \in Seq(Digits) /\ ParseUint(FormatUint(n)) = n
         /\ \A i \in 1..Len(FormatUint(n)) : FormatUint(n)[i] \in Digits
<1> DEFINE d == FormatUint(n)
           ones == {i \in 1..Len(d) : d[i] # "0"}
<1>1. (n = 1 /\ d = <<"1">>) \/ (n = 10 /\ d = <<"1", "0">>) \/ (n = 11 /\ d = <<"1", "1">>)
  BY Formatted DEF Versions
<1> HIDE DEF d
<1>2. /\ d \in Seq(Digits) /\ d # <<>> /\ d[1] = "1" /\ Len(d) \in 1..2
      /\ \A i \in 1..Len(d) : d[i] \in Digits
  BY <1>1, Numerals, Zenon DEF Numeral
<1>a. (Len(d) = 1 \/ Len(d) = 2) /\ Len(d) \in Nat /\ ~(Len(d) > 2)
  <2>1. \A x \in 1..2 : (x = 1 \/ x = 2) /\ x \in Nat /\ ~(x > 2)
    OBVIOUS
  <2> QED
    BY <1>2, <2>1, Zenon
<1>b. Range(d) \subseteq Digits
  <2>1. DOMAIN d = 1..Len(d)
    BY <1>2, LenProperties, Zenon
  <2> QED
    BY <1>2, <2>1, Zenon DEF Range
<1>3. Min(ones) = 1 /\ ones # {}
  <2>1. ones \subseteq 1..Len(d) /\ (1 \in 1..Len(d) => 1 \in ones)
    BY <1>2, Zenon
  <2> HIDE DEF ones
  <2>2. ones \subseteq Nat /\ 1 \in ones
    BY <1>a, <2>1
  <2>3. Min(ones) \in ones /\ Min(ones) <= 1
    BY <2>2, MinIs
  <2>4. Min(ones) \in Nat /\ 1 <= Min(ones)
    <3>1. Min(ones) \in 1..Len(d)
      BY <2>1, <2>3, Zenon
    <3>2. \A l \in Nat : \A x \in 1..l : x \in Nat /\ 1 <= x
      OBVIOUS
    <3> QED
      BY <1>a, <3>1, <3>2, Zenon
  <2> QED
    BY <2>2, <2>3, <2>4
<1>4. Significant(d) = d
  <2>1. Significant(d) = SubSeq(d, 1, Len(d))
    BY <1>3, Zenon DEF Significant
  <2> QED
    BY <1>2, <2>1, SubSeqFull
<1>5. ParseUint(d) = n
  <2>1. ParseUint(d) = IF Len(d) = 1 THEN DigitValue(d[1]) ELSE 10 * DigitValue(d[1]) + DigitValue(d[2])
    BY <1>2, <1>4, <1>a, <1>b, Zenon DEF ParseUint
  <2>2. DigitValue("0") = 0 /\ DigitValue("1") = 1
    BY DEF DigitValue
  <2> QED
    BY <1>1, <2>1, <2>2
<1> QED
  BY <1>2, <1>5 DEF d
-----------------------------------------------------------------------------
(* What ParseReference makes of a text. *)

LEMMA HeadTail ==
  ASSUME NEW S, NEW s \in Seq(S), s # <<>>
  PROVE  Head(s) \in S /\ Tail(s) \in Seq(S) /\ s = <<Head(s)>> \o Tail(s)
OBVIOUS

\* What one turn of the loop makes of a part: the version that it writes, with
\* zeros in front, or the provider and the implementation that it writes.
LEMMA ParsePartIs ==
  ASSUME NEW r \in References, NEW part \in Seq(Tokens), ParsePart(r, part) # Invalid
  PROVE  LET q == ParsePart(r, part) IN
         /\ q \in References /\ q.capability = r.capability /\ r.version = 0
         /\ \/ /\ q.provider = r.provider /\ q.implementation = r.implementation /\ q.version # 0
               /\ \E d \in Seq(Tokens) : \E z \in 0..Len(d) :
                    /\ part = <<"v">> \o d /\ FormatUint(q.version) = SubSeq(d, z + 1, Len(d))
                    /\ Leading(d, z)
            \/ /\ r.provider = <<>> /\ q.provider # <<>> /\ q.version = 0
               /\ part = q.provider \o <<".">> \o q.implementation
<1> DEFINE q == ParsePart(r, part)
<1>1. r.valid
  BY DEF References
<1>2. CASE IsVersion(part)
  <2>1. r.version = 0 /\ ParseUint(Tail(part)) # 0 /\ q = [r EXCEPT !.version = ParseUint(Tail(part))]
    BY <1>1, <1>2, Zenon DEF ParsePart
  <2>2. part # <<>> /\ Head(part) = "v"
    BY <1>2 DEF IsVersion
  <2>3. Tail(part) \in Seq(Tokens) /\ part = <<"v">> \o Tail(part)
    BY <2>2, HeadTail, Zenon
  <2>4. PICK z \in 0..Len(Tail(part)) :
          /\ FormatUint(ParseUint(Tail(part))) = SubSeq(Tail(part), z + 1, Len(Tail(part)))
          /\ Leading(Tail(part), z)
    BY <2>1, <2>3, Parsing, Zenon
  <2>5. ParseUint(Tail(part)) \in Versions
    BY <2>1, <2>3, Parsing, Zenon
  <2>6. /\ q \in References /\ q.capability = r.capability /\ q.provider = r.provider
        /\ q.implementation = r.implementation /\ q.version = ParseUint(Tail(part))
    BY <2>1, <2>5 DEF References
  <2> HIDE DEF q
  <2>7. q.version # 0 /\ FormatUint(q.version) = SubSeq(Tail(part), z + 1, Len(Tail(part)))
    BY <2>1, <2>4, <2>6, Zenon
  <2> QED
    BY <2>1, <2>3, <2>4, <2>6, <2>7, Zenon DEF q
<1>3. CASE ~IsVersion(part)
  <2> DEFINE dot == Cut(part)
             p == SubSeq(part, 1, dot - 1)
             i == SubSeq(part, dot + 1, Len(part))
  <2>1. /\ ~TooLate(r) /\ dot # 0 /\ identifier(p)
        /\ q = [r EXCEPT !.provider = p, !.implementation = i]
    BY <1>1, <1>3, Zenon DEF ParsePart
  <2>2. dot \in 0..Len(part) /\ (dot # 0 => part[dot] = ".")
    BY IndexIs, Zenon DEF Cut
  <2>3. dot \in 1..Len(part)
    <3>1. \A n \in Nat : \A x \in 0..n : x # 0 => x \in 1..n
      OBVIOUS
    <3>2. Len(part) \in Nat
      BY LenProperties, Zenon
    <3> QED
      BY <2>1, <2>2, <3>1, <3>2, Zenon
  <2>4. p \in Seq(Tokens) /\ i \in Seq(Tokens) /\ part = p \o <<part[dot]>> \o i
    BY <2>3, Apart, Zenon
  <2>5. p # <<>> /\ r.provider = <<>> /\ r.version = 0
    BY <2>1 DEF identifier, TooLate
  <2> HIDE DEF p, i, dot
  <2>6. /\ q \in References /\ q.capability = r.capability /\ q.provider = p
        /\ q.implementation = i /\ q.version = r.version
    BY <2>1, <2>4 DEF References
  <2> QED
    BY <2>1, <2>2, <2>4, <2>5, <2>6, Zenon
<1> QED
  BY <1>2, <1>3

\* The text is its parts with "@" between them.
LEMMA PartsAre ==
  ASSUME NEW s \in Seq(Tokens), NEW l, l = Len(Parts(s)), ~(l > 3)
  PROVE  \/ Parts(s) = <<s>>
         \/ \E a, b \in Seq(Tokens) : Parts(s) = <<a, b>> /\ s = a \o <<"@">> \o b
         \/ \E a, b, c \in Seq(Tokens) :
              Parts(s) = <<a, b, c>> /\ s = a \o <<"@">> \o (b \o <<"@">> \o c)
<1> DEFINE t == Others(s)
           u == Others(t)
<1>1. CASE Whole(s)
  BY <1>1 DEF Parts
<1>2. CASE ~Whole(s) /\ Whole(t)
  <2>1. Parts(s) = <<Split(s), t>>
    BY <1>2 DEF Parts
  <2> QED
    BY <1>2, <2>1, SplitIs, Zenon
<1>3. CASE ~Whole(s) /\ ~Whole(t)
  <2>1. /\ Split(s) \in Seq(Tokens) /\ t \in Seq(Tokens) /\ s = Split(s) \o <<"@">> \o t
        /\ Split(t) \in Seq(Tokens) /\ u \in Seq(Tokens) /\ t = Split(t) \o <<"@">> \o u
    BY <1>3, SplitIs, Zenon
  <2>2. Parts(s) = IF Whole(u) THEN <<Split(s), Split(t), u>> ELSE <<Split(s), Split(t), Split(u), Others(u)>>
    BY <1>3 DEF Parts
  <2>3. Len(<<Split(s), Split(t), Split(u), Others(u)>>) = 4 /\ 4 > 3
    OBVIOUS
  <2>4. Parts(s) = <<Split(s), Split(t), u>>
    BY <2>2, <2>3, Zenon
  <2>5. s = Split(s) \o <<"@">> \o (Split(t) \o <<"@">> \o u)
    BY <2>1, Zenon
  <2> QED
    BY <2>1, <2>4, <2>5, Zenon
<1> QED
  BY <1>1, <1>2, <1>3

LEMMA LoopOne ==
  ASSUME NEW a
  PROVE  ParseParts(<<a>>) = Capability(a)
<1>1. Head(<<a>>) = a /\ 2 > Len(<<a>>) /\ 3 > Len(<<a>>)
  OBVIOUS
<1> QED
  BY <1>1, Zenon DEF ParseParts

LEMMA LoopTwo ==
  ASSUME NEW a, NEW b
  PROVE  ParseParts(<<a, b>>) = ParsePart(Capability(a), b)
<1>1. Head(<<a, b>>) = a /\ ~(2 > Len(<<a, b>>)) /\ 3 > Len(<<a, b>>) /\ <<a, b>>[2] = b
  OBVIOUS
<1> QED
  BY <1>1, Zenon DEF ParseParts

LEMMA LoopThree ==
  ASSUME NEW a, NEW b, NEW c
  PROVE  ParseParts(<<a, b, c>>) = ParsePart(ParsePart(Capability(a), b), c)
<1>1. /\ Head(<<a, b, c>>) = a /\ ~(2 > Len(<<a, b, c>>)) /\ ~(3 > Len(<<a, b, c>>))
      /\ <<a, b, c>>[2] = b /\ <<a, b, c>>[3] = c
  OBVIOUS
<1> QED
  BY <1>1, Zenon DEF ParseParts

\* Of v, z elements are left out in s: they are first in d, which is behind a and b.
LeftOut(v, s, a, b, d, z) ==
  LET n == Len(a) + Len(b)
  IN /\ n \in 0..Len(v) /\ z \in 0..Len(v) /\ \A i \in 1..Len(b) : v[Len(a) + i] = b[i]
     /\ \A i \in (n + 1)..(n + z) : i <= Len(v) /\ v[i] = d[i - n] /\ i - n \in 1..z
     /\ z + 1 \in 1..Len(d) => n + z + 1 <= Len(v) /\ v[n + z + 1] = d[z + 1]
     /\ s = SubSeq(v, 1, n) \o SubSeq(v, n + z + 1, Len(v))

LEMMA Slices ==
  ASSUME NEW S, NEW a \in Seq(S), NEW b \in Seq(S), NEW d \in Seq(S), NEW z \in 0..Len(d)
  PROVE  LeftOut(a \o (b \o d), a \o (b \o SubSeq(d, z + 1, Len(d))), a, b, d, z)
<1> DEFINE v == a \o (b \o d)
           n == Len(a) + Len(b)
           e == SubSeq(d, z + 1, Len(d))
<1>1. v = (a \o b) \o d
  BY Assoc
<1>2. v \in Seq(S) /\ Len(v) = n + Len(d) /\ Len(v) \in Nat /\ n \in Nat /\ Len(d) \in Nat
  OBVIOUS
<1>3. \A i \in 1..Len(b) : v[Len(a) + i] = b[i]
  OBVIOUS
<1>4. \A i \in 1..Len(d) : v[n + i] = d[i]
  OBVIOUS
<1>5. SubSeq(v, 1, n) = a \o b
  <2>1. a \o b \in Seq(S) /\ Len(a \o b) = n
    OBVIOUS
  <2>2. \A c \in Seq(S) : SubSeq(c \o d, 1, Len(c)) = c
    OBVIOUS
  <2> QED
    BY <1>1, <2>1, <2>2
<1>6. SubSeq(v, n + z + 1, Len(v)) = e /\ e \in Seq(S)
  <2> HIDE DEF v, n
  <2>1. e \in Seq(S) /\ Len(e) = Len(d) - z
    OBVIOUS
  <2>2. SubSeq(v, n + z + 1, Len(v)) \in Seq(S) /\ Len(SubSeq(v, n + z + 1, Len(v))) = Len(d) - z
    BY <1>2
  <2>3. ASSUME NEW i \in 1..(Len(d) - z)
        PROVE  SubSeq(v, n + z + 1, Len(v))[i] = e[i]
    <3>1. e[i] = d[z + i]
      OBVIOUS
    <3>2. SubSeq(v, n + z + 1, Len(v))[i] = v[n + (z + i)]
      BY <1>2
    <3>3. z + i \in 1..Len(d)
      OBVIOUS
    <3> QED
      BY <1>4, <3>1, <3>2, <3>3
  <2> HIDE DEF e
  <2> QED
    BY <2>1, <2>2, <2>3, SeqEqual
<1>7. \A u \in Seq(S) : (a \o b) \o u = a \o (b \o u)
  BY Assoc
<1> HIDE DEF v, e
<1>8. ASSUME NEW i \in (n + 1)..(n + z)
      PROVE  i <= Len(v) /\ v[i] = d[i - n] /\ i - n \in 1..z
  <2>1. i <= n + Len(d) /\ i - n \in 1..Len(d) /\ i - n \in 1..z /\ n + (i - n) = i
    BY <1>2
  <2>2. v[n + (i - n)] = d[i - n]
    BY <1>4, <2>1, Zenon
  <2> QED
    BY <1>2, <2>1, <2>2
<1>9. n \in 0..Len(v) /\ z \in 0..Len(v)
  BY <1>2
<1>10. a \o (b \o e) = SubSeq(v, 1, n) \o SubSeq(v, n + z + 1, Len(v))
  BY <1>5, <1>6, <1>7
<1>11. z + 1 \in 1..Len(d) => n + z + 1 <= Len(v) /\ v[n + z + 1] = d[z + 1]
  <2>1. z + 1 \in 1..Len(d) => v[n + (z + 1)] = d[z + 1]
    BY <1>4, Zenon
  <2> QED
    BY <1>2, <2>1
<1> QED
  <2>1. LeftOut(v, a \o (b \o e), a, b, d, z)
    BY <1>3, <1>8, <1>9, <1>10, <1>11, Zenon DEF LeftOut
  <2> QED
    BY <2>1 DEF v, e

LEMMA Pair ==
  ASSUME NEW S, NEW x \in S, NEW y \in S
  PROVE  <<x, y>> \in Seq(S) /\ Len(<<x, y>>) = 2 /\ <<x, y>>[1] = x /\ <<x, y>>[2] = y
OBVIOUS

LEMMA AllOf ==
  ASSUME NEW S, NEW s \in Seq(S)
  PROVE  /\ s = SubSeq(s, 1, Len(s)) \o SubSeq(s, Len(s) + 0 + 1, Len(s))
         /\ Len(s) \in 0..Len(s) /\ 0 \in 0..Len(s)
         /\ \A i \in (Len(s) + 1)..(Len(s) + 0) : FALSE
<1>1. Len(s) \in 0..Len(s) /\ 0 \in 0..Len(s) /\ \A i \in (Len(s) + 1)..(Len(s) + 0) : FALSE
  OBVIOUS
<1>2. s = SubSeq(s, 1, Len(s)) \o SubSeq(s, Len(s) + 0 + 1, Len(s))
  OBVIOUS
<1> QED
  BY <1>1, <1>2

LEMMA NoZeros ==
  ASSUME NEW s \in Seq(Tokens)
  PROVE  WithoutZeros(s, s)
<1>1. ~(0 > 0)
  OBVIOUS
<1> QED
  BY <1>1, AllOf, Zenon DEF WithoutZeros

\* What is behind "@v" may have more zeros in front than what it is written as.
LEMMA SomeZeros ==
  ASSUME NEW a \in Seq(Tokens), NEW d \in Seq(Tokens), NEW z \in 0..Len(d)
  PROVE  Leading(d, z) =>
           WithoutZeros(a \o (<<"@", "v">> \o SubSeq(d, z + 1, Len(d))), a \o (<<"@", "v">> \o d))
<1>1. ASSUME NEW b \in Seq(Tokens)
      PROVE  LeftOut(a \o (b \o d), a \o (b \o SubSeq(d, z + 1, Len(d))), a, b, d, z)
  BY <1>1, Slices
<1>2. ASSUME NEW b \in Seq(Tokens), Len(b) = 2, b[1] = "@", b[2] = "v", Leading(d, z)
      PROVE  WithoutZeros(a \o (b \o SubSeq(d, z + 1, Len(d))), a \o (b \o d))
  <2> DEFINE v == a \o (b \o d)
             n == Len(a) + Len(b)
  <2>1. /\ n \in 0..Len(v) /\ z \in 0..Len(v) /\ \A i \in 1..Len(b) : v[Len(a) + i] = b[i]
        /\ \A i \in (n + 1)..(n + z) : i <= Len(v) /\ v[i] = d[i - n] /\ i - n \in 1..z
        /\ z + 1 \in 1..Len(d) => n + z + 1 <= Len(v) /\ v[n + z + 1] = d[z + 1]
        /\ a \o (b \o SubSeq(d, z + 1, Len(d))) = SubSeq(v, 1, n) \o SubSeq(v, n + z + 1, Len(v))
    BY <1>1, <1>2, Zenon DEF LeftOut
  <2>2. Len(a) + 2 > 1 /\ (Len(a) + 2) - 1 = Len(a) + 1 /\ 1 \in 1..2 /\ 2 \in 1..2
    <3>1. \A l \in Nat : l + 2 > 1 /\ (l + 2) - 1 = l + 1 /\ 1 \in 1..2 /\ 2 \in 1..2
      OBVIOUS
    <3> QED
      BY <3>1, LenProperties, Zenon
  <2>3. v[n - 1] = "@" /\ v[n] = "v" /\ n > 1
    <3>1. v[Len(a) + 1] = "@" /\ v[Len(a) + 2] = "v"
      BY <1>2, <2>1, <2>2, Zenon
    <3>2. n = Len(a) + 2
      BY <1>2
    <3> HIDE DEF n
    <3>3. n - 1 = Len(a) + 1 /\ n > 1
      BY <2>2, <3>2, Zenon
    <3> QED
      BY <3>1, <3>2, <3>3, Zenon
  <2> QED
    BY <1>2, <2>1, <2>3, Zenon DEF WithoutZeros, Leading
<1>3. "@" \in Tokens /\ "v" \in Tokens
  BY DEF Tokens, Letters
<1>4. <<"@", "v">> \in Seq(Tokens) /\ Len(<<"@", "v">>) = 2 /\ <<"@", "v">>[1] = "@" /\ <<"@", "v">>[2] = "v"
  BY <1>3, Pair, Zenon
<1> QED
  BY <1>2, <1>4, Zenon
\* The provers unfold \o; this they do not.
Cat(s, t) == s \o t

LEMMA CatAssoc ==
  ASSUME NEW S
  PROVE  /\ \A x, y \in Seq(S) : Cat(x, y) \in Seq(S)
         /\ \A x, y, z \in Seq(S) : Cat(Cat(x, y), z) = Cat(x, Cat(y, z))
         /\ \A x \in Seq(S) : Cat(x, <<>>) = x
<1>1. \A x, y \in Seq(S) : Cat(x, y) \in Seq(S)
  BY DEF Cat
<1>2. ASSUME NEW x \in Seq(S), NEW y \in Seq(S), NEW z \in Seq(S)
      PROVE  Cat(Cat(x, y), z) = Cat(x, Cat(y, z))
  BY DEF Cat
<1>3. \A x \in Seq(S) : Cat(x, <<>>) = x
  BY DEF Cat
<1> QED
  BY <1>1, <1>2, <1>3

\* The marks of a text, and what String writes of a provider and of a version.
Lyre == <<"lyre.">>
At == <<"@">>
Vee == <<"v">>
Dot == <<".">>

LEMMA Marks ==
  Lyre \in Seq(Tokens) /\ At \in Seq(Tokens) /\ Vee \in Seq(Tokens) /\ Dot \in Seq(Tokens)
<1>1. {"lyre.", "@", "v", "."} \subseteq Tokens
  BY DEF Tokens, Letters
<1>2. \A x \in Tokens : <<x>> \in Seq(Tokens)
  OBVIOUS
<1> QED
  BY <1>1, <1>2, Zenon DEF Lyre, At, Vee, Dot

LEMMA VersionMark == <<"@", "v">> = Cat(At, Vee)
<1>1. <<"@", "v">> = <<"@">> \o <<"v">>
  OBVIOUS
<1> QED
  BY <1>1, Zenon DEF At, Vee, Cat

ProviderText(r) == IF r.provider = <<>> THEN <<>> ELSE Cat(Cat(Cat(At, r.provider), Dot), r.implementation)
VersionText(r) == IF r.version = 0 THEN <<>> ELSE Cat(Cat(At, Vee), FormatUint(r.version))

\* String in the terms of Cat.
LEMMA StringIs ==
  ASSUME NEW r
  PROVE  RefString(r) = Cat(Cat(Cat(Lyre, r.capability), ProviderText(r)), VersionText(r))
<1>1. <<"@", "v">> = At \o Vee
  BY VersionMark DEF Cat
<1> QED
  BY <1>1, Zenon DEF RefString, Cat, ProviderText, VersionText, Lyre, At, Dot

LEMMA CapabilityIs ==
  ASSUME NEW a \in Seq(Tokens)
  PROVE  /\ Capability(a) \in References /\ Capability(a).capability = a
         /\ Capability(a).provider = <<>> /\ Capability(a).implementation = <<>> /\ Capability(a).version = 0
BY DEF Capability, References, Versions

LEMMA CatTokens ==
  /\ \A x, y \in Seq(Tokens) : Cat(x, y) \in Seq(Tokens)
  /\ \A x, y, z \in Seq(Tokens) : Cat(Cat(x, y), z) = Cat(x, Cat(y, z))
  /\ \A x \in Seq(Tokens) : Cat(x, <<>>) = x
BY CatAssoc, Zenon

LEMMA Grouped ==
  ASSUME NEW x \in Seq(Tokens), NEW a \in Seq(Tokens), NEW t \in Seq(Tokens), NEW b \in Seq(Tokens),
         NEW c \in Seq(Tokens)
  PROVE  /\ Cat(x, Cat(Cat(a, t), b)) = Cat(Cat(x, a), Cat(t, b))
         /\ Cat(x, Cat(Cat(a, t), Cat(Cat(b, t), c))) = Cat(Cat(Cat(x, a), Cat(t, b)), Cat(t, c))
<1>1. Cat(x, a) \in Seq(Tokens) /\ Cat(t, b) \in Seq(Tokens) /\ Cat(t, c) \in Seq(Tokens)
  BY CatTokens, SMT
<1>2. \A y \in Seq(Tokens) : Cat(x, Cat(Cat(a, t), y)) = Cat(Cat(x, a), Cat(t, y))
  BY CatTokens, SMT
<1>3. Cat(Cat(b, t), c) = Cat(b, Cat(t, c)) /\ Cat(b, Cat(t, c)) \in Seq(Tokens)
  BY <1>1, CatTokens, SMT
<1>4. Cat(t, Cat(b, Cat(t, c))) = Cat(Cat(t, b), Cat(t, c))
  BY <1>1, CatTokens, SMT
<1>5. Cat(Cat(x, a), Cat(Cat(t, b), Cat(t, c))) = Cat(Cat(Cat(x, a), Cat(t, b)), Cat(t, c))
  BY <1>1, CatTokens, SMT
<1> QED
  BY <1>2, <1>3, <1>4, <1>5, SMT

LEMMA ZerosLeft ==
  ASSUME NEW x \in Seq(Tokens), NEW e \in Seq(Tokens), NEW z \in 0..Len(e), NEW f,
         f = SubSeq(e, z + 1, Len(e)), Leading(e, z)
  PROVE  WithoutZeros(Cat(x, Cat(Cat(At, Vee), f)), Cat(x, Cat(Cat(At, Vee), e)))
<1>1. <<"@", "v">> = Cat(At, Vee)
  BY VersionMark
<1>2. WithoutZeros(x \o (<<"@", "v">> \o f), x \o (<<"@", "v">> \o e))
  BY SomeZeros, Zenon
<1>3. WithoutZeros(Cat(x, Cat(<<"@", "v">>, f)), Cat(x, Cat(<<"@", "v">>, e)))
  BY <1>2, Zenon DEF Cat
<1> QED
  BY <1>1, <1>3, Zenon

\* A part that names version n, with some zeros.
VersionPart(part, n) ==
  \E e \in Seq(Tokens) : \E z \in 0..Len(e) :
    /\ part = Cat(Vee, e) /\ FormatUint(n) = SubSeq(e, z + 1, Len(e)) /\ Leading(e, z)

LEMMA PartIs ==
  ASSUME NEW r \in References, NEW part \in Seq(Tokens), NEW q, q = ParsePart(r, part), q # Invalid
  PROVE  /\ q \in References /\ q.capability = r.capability /\ r.version = 0
         /\ \/ /\ q.provider = r.provider /\ q.implementation = r.implementation /\ q.version # 0
               /\ VersionPart(part, q.version)
            \/ /\ r.provider = <<>> /\ q.provider # <<>> /\ q.version = 0
               /\ part = Cat(Cat(q.provider, Dot), q.implementation)
BY ParsePartIs, Zenon DEF Cat, Vee, Dot, VersionPart

LEMMA TextIs ==
  ASSUME NEW s \in Seq(Tokens), ~(Len(Parts(s)) > 3)
  PROVE  \/ Parts(s) = <<s>>
         \/ \E a, b \in Seq(Tokens) : Parts(s) = <<a, b>> /\ s = Cat(Cat(a, At), b)
         \/ \E a, b, c \in Seq(Tokens) :
              Parts(s) = <<a, b, c>> /\ s = Cat(Cat(a, At), Cat(Cat(b, At), c))
BY PartsAre, Zenon DEF Cat, At

LEMMA VersionLast ==
  ASSUME NEW x \in Seq(Tokens), NEW q, q.version # 0, NEW part, VersionPart(part, q.version)
  PROVE  WithoutZeros(Cat(x, VersionText(q)), Cat(x, Cat(At, part)))
<1>1. PICK e \in Seq(Tokens) : \E z \in 0..Len(e) :
        /\ part = Cat(Vee, e) /\ FormatUint(q.version) = SubSeq(e, z + 1, Len(e))
        /\ Leading(e, z)
  BY Zenon DEF VersionPart
<1>2. WithoutZeros(Cat(x, Cat(Cat(At, Vee), FormatUint(q.version))), Cat(x, Cat(Cat(At, Vee), e)))
  BY <1>1, ZerosLeft, Zenon
<1>3. Cat(Cat(At, Vee), e) = Cat(At, part)
  <2>1. Cat(Cat(At, Vee), e) = Cat(At, Cat(Vee, e))
    BY Marks, CatTokens, SMT
  <2> QED
    BY <1>1, <2>1, Zenon
<1> QED
  BY <1>2, <1>3, Zenon DEF VersionText

LEMMA ProviderBehind ==
  ASSUME NEW q \in References, q.provider # <<>>
  PROVE  /\ ProviderText(q) = Cat(At, Cat(Cat(q.provider, Dot), q.implementation))
         /\ ProviderText(q) \in Seq(Tokens)
<1>1. q.provider \in Seq(Tokens) /\ q.implementation \in Seq(Tokens)
  BY DEF References
<1>2. ProviderText(q) = Cat(Cat(Cat(At, q.provider), Dot), q.implementation)
  BY Zenon DEF ProviderText
<1>3. ASSUME NEW p \in Seq(Tokens), NEW i \in Seq(Tokens)
      PROVE  /\ Cat(Cat(Cat(At, p), Dot), i) = Cat(At, Cat(Cat(p, Dot), i))
             /\ Cat(Cat(Cat(At, p), Dot), i) \in Seq(Tokens)
  <2>1. Cat(p, Dot) \in Seq(Tokens) /\ Cat(Cat(At, p), Dot) = Cat(At, Cat(p, Dot))
    BY Marks, CatTokens, SMT
  <2> QED
    BY <2>1, Marks, CatTokens, SMT
<1> QED
  BY <1>1, <1>2, <1>3, Zenon

LEMMA TwoParts ==
  ASSUME NEW a \in Seq(Tokens), NEW b \in Seq(Tokens), NEW q, q = ParsePart(Capability(a), b), q # Invalid
  PROVE  /\ q \in References /\ q.capability = a
         /\ WithoutZeros(RefString(q), Cat(Lyre, Cat(Cat(a, At), b)))
<1>1. /\ Capability(a) \in References /\ Capability(a).capability = a
      /\ Capability(a).provider = <<>>
  BY CapabilityIs, Zenon
<1>2. /\ q \in References /\ q.capability = a
      /\ \/ /\ q.provider = <<>> /\ q.version # 0 /\ VersionPart(b, q.version)
         \/ q.provider # <<>> /\ q.version = 0 /\ b = Cat(Cat(q.provider, Dot), q.implementation)
  BY <1>1, PartIs, SMT
<1>3. RefString(q) = Cat(Cat(Cat(Lyre, a), ProviderText(q)), VersionText(q))
  BY <1>2, StringIs, Zenon
<1>4. Cat(Lyre, Cat(Cat(a, At), b)) = Cat(Cat(Lyre, a), Cat(At, b))
  BY Marks, Grouped, SMT
<1>5. /\ Cat(Lyre, a) \in Seq(Tokens) /\ Cat(Cat(Lyre, a), <<>>) = Cat(Lyre, a)
      /\ Cat(Cat(Lyre, a), Cat(At, b)) \in Seq(Tokens)
  BY Marks, CatTokens, SMT
<1>6. CASE q.provider = <<>> /\ q.version # 0 /\ VersionPart(b, q.version)
  <2>1. RefString(q) = Cat(Cat(Lyre, a), VersionText(q))
    BY <1>3, <1>5, <1>6, Zenon DEF ProviderText
  <2>2. WithoutZeros(Cat(Cat(Lyre, a), VersionText(q)), Cat(Cat(Lyre, a), Cat(At, b)))
    BY <1>5, <1>6, VersionLast, Zenon
  <2> QED
    BY <1>2, <1>4, <2>1, <2>2, Zenon
<1>7. CASE q.provider # <<>> /\ q.version = 0 /\ b = Cat(Cat(q.provider, Dot), q.implementation)
  <2>1. ProviderText(q) = Cat(At, b)
    BY <1>2, <1>7, ProviderBehind, Zenon
  <2>2. VersionText(q) = <<>>
    BY <1>7, Zenon DEF VersionText
  <2>3. RefString(q) = Cat(Cat(Lyre, a), Cat(At, b))
    BY <1>3, <1>5, <2>1, <2>2, CatTokens, Zenon
  <2> QED
    BY <1>2, <1>4, <1>5, <2>3, NoZeros, Zenon
<1> QED
  BY <1>2, <1>6, <1>7, Zenon

LEMMA ThreeParts ==
  ASSUME NEW a \in Seq(Tokens), NEW b \in Seq(Tokens), NEW c \in Seq(Tokens),
         NEW q, q = ParsePart(ParsePart(Capability(a), b), c), q # Invalid
  PROVE  /\ q \in References /\ q.capability = a
         /\ WithoutZeros(RefString(q), Cat(Lyre, Cat(Cat(a, At), Cat(Cat(b, At), c))))
<1> DEFINE o == ParsePart(Capability(a), b)
<1>1. /\ Capability(a) \in References /\ Capability(a).capability = a
      /\ Capability(a).provider = <<>>
  BY CapabilityIs, Zenon
<1>2. o # Invalid
  <2>1. ~Invalid.valid
    BY DEF Invalid
  <2> QED
    BY <2>1, Zenon DEF ParsePart
<1>3. /\ o \in References /\ o.capability = a
      /\ \/ /\ o.provider = <<>> /\ o.version # 0
         \/ o.provider # <<>> /\ o.version = 0 /\ b = Cat(Cat(o.provider, Dot), o.implementation)
  BY <1>1, <1>2, PartIs, SMT
<1> HIDE DEF o
<1>4. /\ q \in References /\ q.capability = o.capability /\ o.version = 0
      /\ \/ /\ q.provider = o.provider /\ q.implementation = o.implementation /\ q.version # 0
            /\ VersionPart(c, q.version)
         \/ o.provider = <<>>
  BY <1>3, PartIs, SMT DEF o
<1>5. /\ q.capability = a /\ q.provider # <<>> /\ q.version # 0 /\ VersionPart(c, q.version)
      /\ b = Cat(Cat(q.provider, Dot), q.implementation)
  BY <1>3, <1>4, Zenon
<1>6. RefString(q) = Cat(Cat(Cat(Lyre, a), Cat(At, b)), VersionText(q))
  <2>1. ProviderText(q) = Cat(At, b)
    BY <1>4, <1>5, ProviderBehind, Zenon
  <2> QED
    BY <1>5, <2>1, StringIs, Zenon
<1>7. Cat(Lyre, Cat(Cat(a, At), Cat(Cat(b, At), c))) = Cat(Cat(Cat(Lyre, a), Cat(At, b)), Cat(At, c))
  BY Marks, Grouped, SMT
<1>8. Cat(Cat(Lyre, a), Cat(At, b)) \in Seq(Tokens)
  BY Marks, CatTokens, SMT
<1>9. WithoutZeros(Cat(Cat(Cat(Lyre, a), Cat(At, b)), VersionText(q)), Cat(Cat(Cat(Lyre, a), Cat(At, b)), Cat(At, c)))
  BY <1>5, <1>8, VersionLast, Zenon
<1> QED
  BY <1>4, <1>5, <1>6, <1>7, <1>9, Zenon

\* A Reference that is read from a text is the text, but for white space and
\* some zeros of its version, when it is written.
LEMMA ParseIs ==
  ASSUME NEW given \in Seq(Tokens), NEW r, r = ParseReference(given), r # Invalid
  PROVE  /\ r \in References /\ capabilityName(r.capability)
         /\ WithoutZeros(RefString(r), TrimSpace(given))
<1> DEFINE value == TrimSpace(given)
           t == Tail(value)
<1>1. value \in Seq(Tokens)
  BY TrimIs
<1>2. /\ value # <<>> /\ Head(value) = "lyre." /\ ~(Len(Parts(t)) > 3) /\ capabilityName(Head(Parts(t)))
      /\ r = ParseParts(Parts(t))
  BY Zenon DEF ParseReference
<1>3. t \in Seq(Tokens) /\ value = Cat(Lyre, t)
  BY <1>1, <1>2, HeadTail, Zenon DEF Cat, Lyre
<1>4. ASSUME NEW a, NEW b, NEW c
      PROVE  Head(<<a>>) = a /\ Head(<<a, b>>) = a /\ Head(<<a, b, c>>) = a
  OBVIOUS
<1> HIDE DEF t, value
<1>5. CASE Parts(t) = <<t>>
  <2>1. r = Capability(t) /\ capabilityName(t)
    BY <1>2, <1>4, <1>5, LoopOne, Zenon
  <2>2. /\ r \in References /\ r.capability = t /\ r.provider = <<>> /\ r.version = 0
    BY <1>3, <2>1, CapabilityIs, Zenon
  <2>3. RefString(r) = Cat(Cat(Cat(Lyre, t), <<>>), <<>>)
    BY <2>2, StringIs, Zenon DEF ProviderText, VersionText
  <2>4. RefString(r) = value
    BY <1>1, <1>3, <2>3, CatTokens, Zenon
  <2> QED
    BY <1>1, <2>1, <2>2, <2>4, NoZeros, Zenon DEF value
<1>6. ASSUME NEW a \in Seq(Tokens), NEW b \in Seq(Tokens), Parts(t) = <<a, b>>, t = Cat(Cat(a, At), b)
      PROVE  r \in References /\ capabilityName(r.capability) /\ WithoutZeros(RefString(r), value)
  <2>1. r = ParsePart(Capability(a), b) /\ capabilityName(a)
    BY <1>2, <1>4, <1>6, LoopTwo, Zenon
  <2>2. value = Cat(Lyre, Cat(Cat(a, At), b))
    BY <1>3, <1>6, Zenon
  <2> QED
    BY <2>1, <2>2, TwoParts, SMT
<1>7. ASSUME NEW a \in Seq(Tokens), NEW b \in Seq(Tokens), NEW c \in Seq(Tokens),
             Parts(t) = <<a, b, c>>, t = Cat(Cat(a, At), Cat(Cat(b, At), c))
      PROVE  r \in References /\ capabilityName(r.capability) /\ WithoutZeros(RefString(r), value)
  <2>1. r = ParsePart(ParsePart(Capability(a), b), c) /\ capabilityName(a)
    <3>1. ParseParts(Parts(t)) = ParsePart(ParsePart(Capability(a), b), c)
      BY <1>7, LoopThree, SMT
    <3>2. Head(Parts(t)) = a
      BY <1>7, SMT
    <3> QED
      BY <1>2, <3>1, <3>2, Zenon
  <2>2. value = Cat(Lyre, Cat(Cat(a, At), Cat(Cat(b, At), c)))
    BY <1>3, <1>7, Zenon
  <2> QED
    BY <2>1, <2>2, ThreeParts, SMT
<1>8. r \in References /\ capabilityName(r.capability) /\ WithoutZeros(RefString(r), value)
  <2>1. \/ Parts(t) = <<t>>
        \/ \E a, b \in Seq(Tokens) : Parts(t) = <<a, b>> /\ t = Cat(Cat(a, At), b)
        \/ \E a, b, c \in Seq(Tokens) :
             Parts(t) = <<a, b, c>> /\ t = Cat(Cat(a, At), Cat(Cat(b, At), c))
    BY <1>2, <1>3, TextIs, Zenon
  <2> QED
    BY <1>5, <1>6, <1>7, <2>1, Zenon DEF value
<1> QED
  BY <1>8, Zenon DEF value

-----------------------------------------------------------------------------
(* What is written is read again. *)

\* The tokens that are no white space, and those that end no part either.
Solid == Tokens \ {" "}
Plain == Tokens \ {"@", " "}

\* A sequence of some tokens is one of more.
LEMMA Within ==
  ASSUME NEW S, NEW T, S \subseteq T
  PROVE  Seq(S) \subseteq Seq(T)
OBVIOUS

LEMMA Kinds ==
  /\ Seq(Plain) \subseteq Seq(Solid) /\ Seq(Solid) \subseteq Seq(Tokens) /\ Seq(Plain) \subseteq Seq(Tokens)
  /\ Seq(Digits) \subseteq Seq(Plain)
  /\ Lyre \in Seq(Solid) /\ At \in Seq(Solid) /\ Vee \in Seq(Plain) /\ Dot \in Seq(Plain)
<1>1. Plain \subseteq Solid /\ Solid \subseteq Tokens /\ Plain \subseteq Tokens
  BY Zenon DEF Plain, Solid
<1>2. Digits \subseteq Plain
  BY Zenon DEF Digits, Plain, Tokens
<1>3. "lyre." \in Solid /\ "@" \in Solid /\ "v" \in Plain /\ "." \in Plain
  BY Zenon DEF Plain, Solid, Tokens, Letters
<1>4. \A S : \A x \in S : <<x>> \in Seq(S)
  OBVIOUS
<1> QED
  BY <1>1, <1>2, <1>3, <1>4, Within, Zenon DEF Lyre, At, Vee, Dot

\* A text all of whose tokens are in a set.
LEMMA AllTokens ==
  ASSUME NEW S, NEW T, NEW s \in Seq(S), s # <<>>, Head(s) \in T, \A i \in 2..Len(s) : s[i] \in T
  PROVE  s \in Seq(T)
<1>1. Len(s) \in Nat /\ s[1] \in T
  OBVIOUS
<1>2. \A i \in 1..Len(s) : s[i] \in T
  BY <1>1
<1> QED
  BY <1>2

LEMMA NameIs ==
  ASSUME NEW s \in Seq(Tokens)
  PROVE  /\ identifier(s) => s \in Seq(Plain) /\ s # <<>>
         /\ capabilityName(s) => s \in Seq(Plain)
<1>1. Letters \cup Digits \cup {"."} \subseteq Plain
  BY Zenon DEF Letters, Digits, Plain, Tokens
<1>2. ASSUME s # <<>>, Head(s) \in Letters \cup Digits, Tail1(s, Letters \cup Digits \cup {"."})
      PROVE  s \in Seq(Plain)
  <2>1. Head(s) \in Plain /\ \A i \in 2..Len(s) : s[i] \in Plain
    BY <1>1, <1>2, Zenon DEF Tail1
  <2> QED
    BY <1>2, <2>1, AllTokens
<1>3. identifier(s) => s \in Seq(Plain) /\ s # <<>>
  BY <1>2, Zenon DEF identifier
<1>4. capabilityName(s) => s \in Seq(Plain)
  BY <1>2, Zenon DEF capabilityName
<1> QED
  BY <1>3, <1>4

LEMMA PlainIsWhole ==
  ASSUME NEW s \in Seq(Plain)
  PROVE  \A i \in 1..Len(s) : s[i] # "@" /\ s[i] # " "
<1>1. \A i \in 1..Len(s) : s[i] \in Plain
  BY ElementOfSeq, Zenon
<1> QED
  BY <1>1, Zenon DEF Plain

LEMMA SolidIs ==
  ASSUME NEW s \in Seq(Solid)
  PROVE  TrimSpace(s) = s
<1>1. \A i \in 1..Len(s) : s[i] \in Solid
  BY ElementOfSeq, Zenon
<1>2. \A i \in 1..Len(s) : s[i] # " "
  BY <1>1, Zenon DEF Solid
<1>3. s \in Seq(Tokens)
  BY Kinds, Zenon
<1> QED
  BY <1>2, <1>3, TrimIs, Zenon

LEMMA SplitBehind ==
  ASSUME NEW a \in Seq(Plain), NEW b \in Seq(Tokens)
  PROVE  LET s == Cat(a, Cat(At, b)) IN ~Whole(s) /\ Split(s) = a /\ Others(s) = b
<1>1. a \in Seq(Tokens) /\ Cat(a, Cat(At, b)) = Cat(Cat(a, At), b)
  BY Kinds, Marks, CatTokens, SMT
<1>2. Cat(Cat(a, At), b) = a \o <<"@">> \o b
  BY Zenon DEF Cat, At
<1>3. ~Whole(a \o <<"@">> \o b) /\ Split(a \o <<"@">> \o b) = a /\ Others(a \o <<"@">> \o b) = b
  BY <1>1, PlainIsWhole, SplitAt, Zenon
<1> QED
  BY <1>1, <1>2, <1>3, Zenon

\* Split finds the parts of a text without other "@".
LEMMA PartsBehind ==
  ASSUME NEW a \in Seq(Plain), NEW b \in Seq(Plain), NEW c \in Seq(Plain)
  PROVE  /\ Parts(a) = <<a>>
         /\ Parts(Cat(a, Cat(At, b))) = <<a, b>>
         /\ Parts(Cat(a, Cat(At, Cat(b, Cat(At, c))))) = <<a, b, c>>
<1>1. \A s \in Seq(Plain) : Whole(s)
  BY Kinds, PlainIsWhole, WholeIs, Zenon
<1>2. b \in Seq(Tokens) /\ c \in Seq(Tokens) /\ Cat(b, Cat(At, c)) \in Seq(Tokens)
  <2>1. b \in Seq(Tokens) /\ c \in Seq(Tokens)
    BY Kinds, Zenon
  <2> QED
    BY <2>1, Marks, CatTokens, SMT
<1>3. Parts(a) = <<a>>
  BY <1>1, Zenon DEF Parts
<1>4. Parts(Cat(a, Cat(At, b))) = <<a, b>>
  <2> DEFINE s == Cat(a, Cat(At, b))
  <2>1. ~Whole(s) /\ Split(s) = a /\ Others(s) = b
    BY <1>2, SplitBehind, Zenon
  <2> HIDE DEF s
  <2>2. Parts(s) = <<Split(s), Others(s)>>
    BY <1>1, <2>1, Zenon DEF Parts
  <2> QED
    BY <2>1, <2>2 DEF s
<1>5. Parts(Cat(a, Cat(At, Cat(b, Cat(At, c))))) = <<a, b, c>>
  <2> DEFINE t == Cat(b, Cat(At, c))
             s == Cat(a, Cat(At, t))
  <2>1. ~Whole(t) /\ Split(t) = b /\ Others(t) = c
    BY <1>2, SplitBehind, Zenon
  <2> HIDE DEF t
  <2>2. ~Whole(s) /\ Split(s) = a /\ Others(s) = t
    BY <1>2, SplitBehind, Zenon DEF t
  <2> HIDE DEF s
  <2>3. Parts(s) = <<Split(s), Split(t), Others(t)>>
    BY <1>1, <2>1, <2>2 DEF Parts
  <2> QED
    BY <2>1, <2>2, <2>3 DEF s, t
<1> QED
  BY <1>3, <1>4, <1>5

LEMMA CatFront ==
  ASSUME NEW S, NEW x \in S, NEW f \in Seq(S)
  PROVE  Cat(<<x>>, f) \in Seq(S) /\ Cat(<<x>>, f) # <<>> /\ Head(Cat(<<x>>, f)) = x /\ Tail(Cat(<<x>>, f)) = f
BY InFront DEF Cat

\* The Reference of a capability, a provider, an implementation and a version.
Made(a, p, i, n) ==
  [valid |-> TRUE, capability |-> a, provider |-> p, implementation |-> i, version |-> n]

LEMMA MadeIs ==
  ASSUME NEW a \in Seq(Tokens), NEW p \in Seq(Tokens), NEW i \in Seq(Tokens), NEW n \in Versions
  PROVE  /\ Made(a, p, i, n) \in References
         /\ Made(a, p, i, n).capability = a /\ Made(a, p, i, n).provider = p
         /\ Made(a, p, i, n).implementation = i /\ Made(a, p, i, n).version = n
BY DEF Made, References

LEMMA NameOnly ==
  ASSUME NEW a
  PROVE  Capability(a) = Made(a, <<>>, <<>>, 0)
BY DEF Made, Capability

LEMMA Fields ==
  ASSUME NEW r \in References
  PROVE  /\ r = Made(r.capability, r.provider, r.implementation, r.version)
         /\ r.capability \in Seq(Tokens) /\ r.provider \in Seq(Tokens)
         /\ r.implementation \in Seq(Tokens) /\ r.version \in Versions
BY DEF References, Made

LEMMA VersionSet ==
  ASSUME NEW r \in References, NEW n \in Versions
  PROVE  [r EXCEPT !.version = n] = Made(r.capability, r.provider, r.implementation, n)
<1> DEFINE q == [r EXCEPT !.version = n]
<1>1. /\ q \in References /\ q.capability = r.capability /\ q.provider = r.provider
      /\ q.implementation = r.implementation /\ q.version = n
  BY DEF References
<1> HIDE DEF q
<1>2. q = Made(r.capability, r.provider, r.implementation, n)
  BY <1>1, Fields, Zenon
<1> QED
  BY <1>2 DEF q

LEMMA ProviderSet ==
  ASSUME NEW r \in References, NEW p \in Seq(Tokens), NEW i \in Seq(Tokens)
  PROVE  [r EXCEPT !.provider = p, !.implementation = i] = Made(r.capability, p, i, r.version)
<1> DEFINE q == [r EXCEPT !.provider = p, !.implementation = i]
<1>1. /\ q \in References /\ q.capability = r.capability /\ q.provider = p
      /\ q.implementation = i /\ q.version = r.version
  BY DEF References
<1> HIDE DEF q
<1>2. q = Made(r.capability, p, i, r.version)
  BY <1>1, Fields, Zenon
<1> QED
  BY <1>2 DEF q

LEMMA VersionParsed ==
  ASSUME NEW s \in References, s.version = 0, NEW n \in Versions, n # 0
  PROVE  ParsePart(s, Cat(Vee, FormatUint(n))) = [s EXCEPT !.version = n]
<1> DEFINE f == FormatUint(n)
           part == Cat(Vee, f)
           T == Digits \cup {"v"}
<1>1. f \in Seq(Digits) /\ ParseUint(f) = n
  BY Formatting
<1>2. f \in Seq(T) /\ "v" \in T
  BY <1>1, Within, Zenon
<1> HIDE DEF f
<1>3. part \in Seq(T) /\ part # <<>> /\ Head(part) = "v" /\ Tail(part) = f
  BY <1>2, CatFront, Zenon DEF Vee
<1>4. "." \notin Range(part)
  <2>1. DOMAIN part = 1..Len(part) /\ \A i \in 1..Len(part) : part[i] \in T
    BY <1>3, LenProperties, ElementOfSeq, Zenon
  <2>2. "." \notin T
    BY Zenon DEF Digits
  <2> QED
    BY <2>1, <2>2, Zenon DEF Range
<1> HIDE DEF part, T
<1>5. IsVersion(part)
  BY <1>3, <1>4, Zenon DEF IsVersion
<1>6. s.valid
  BY DEF References
<1>7. ParsePart(s, part) = [s EXCEPT !.version = n]
  BY <1>1, <1>3, <1>5, <1>6, Zenon DEF ParsePart
<1> QED
  BY <1>7 DEF part, f

\* A part written for a version is read as that version ...
LEMMA VersionRead ==
  ASSUME NEW s \in References, s.version = 0, NEW n \in Versions, n # 0
  PROVE  ParsePart(s, Cat(Vee, FormatUint(n))) = Made(s.capability, s.provider, s.implementation, n)
<1>1. ParsePart(s, Cat(Vee, FormatUint(n))) = [s EXCEPT !.version = n]
  BY VersionParsed, Zenon
<1>2. [s EXCEPT !.version = n] = Made(s.capability, s.provider, s.implementation, n)
  BY VersionSet, Zenon
<1> QED
  BY <1>1, <1>2, Zenon

\* ... and one for a provider without a dot as provider and implementation.
LEMMA ProviderRead ==
  ASSUME NEW a \in Seq(Tokens), NEW p \in Seq(Tokens), NEW i \in Seq(Tokens),
         identifier(p), "." \notin Range(p), identifier(i)
  PROVE  ParsePart(Capability(a), Cat(Cat(p, Dot), i)) = Made(a, p, i, 0)
<1> DEFINE s == Capability(a)
           part == Cat(Cat(p, Dot), i)
<1>1. /\ part \in Seq(Tokens) /\ Len(part) = Len(p) + 1 + Len(i) /\ part[Len(p) + 1] = "."
      /\ \A k \in 1..Len(p) : part[k] = p[k]
      /\ SubSeq(part, 1, Len(p)) = p /\ SubSeq(part, Len(p) + 2, Len(part)) = i
  <2>1. "." \in Tokens
    BY DEF Tokens
  <2>2. LET t == p \o <<".">> \o i IN
        /\ t \in Seq(Tokens) /\ Len(t) = Len(p) + 1 + Len(i) /\ t[Len(p) + 1] = "."
        /\ \A k \in 1..Len(p) : t[k] = p[k]
        /\ SubSeq(t, 1, Len(p)) = p /\ SubSeq(t, Len(p) + 2, Len(t)) = i
    BY <2>1, Together
  <2> QED
    BY <2>2, Zenon DEF Cat, Dot
<1> HIDE DEF part
<1>2. \A k \in 1..Len(p) : p[k] # "."
  <2>1. DOMAIN p = 1..Len(p)
    BY LenProperties, Zenon
  <2> QED
    BY <2>1, Zenon DEF Range
<1>3. Len(p) \in Nat /\ Len(i) \in Nat
  BY LenProperties, Zenon
<1>4. Cut(part) = Len(p) + 1
  <2>1. Len(p) + 1 \in 1..Len(part) /\ (Len(p) + 1) - 1 = Len(p)
    BY <1>1, <1>3
  <2>2. \A k \in 1..((Len(p) + 1) - 1) : part[k] # "."
    BY <1>1, <1>2, <2>1, Zenon
  <2> QED
    BY <1>1, <2>1, <2>2, IndexAt, Zenon DEF Cut
<1>5. /\ SubSeq(part, 1, Cut(part) - 1) = p /\ SubSeq(part, Cut(part) + 1, Len(part)) = i
      /\ Cut(part) # 0
  <2>1. (Len(p) + 1) - 1 = Len(p) /\ (Len(p) + 1) + 1 = Len(p) + 2 /\ Len(p) + 1 # 0
    BY <1>3
  <2> QED
    BY <1>1, <1>4, <2>1, Zenon
<1>6. ~IsVersion(part)
  <2>1. Len(p) + 1 \in DOMAIN part
    <3>1. DOMAIN part = 1..Len(part)
      BY <1>1, LenProperties, Zenon
    <3> QED
      BY <1>1, <1>3, <3>1
  <2> QED
    BY <1>1, <2>1, Zenon DEF IsVersion, Range
<1>7. /\ s \in References /\ s.capability = a /\ s.provider = <<>> /\ s.version = 0
      /\ s.valid
  BY CapabilityIs DEF References
<1>8. ParsePart(s, part) = [s EXCEPT !.provider = p, !.implementation = i]
  BY <1>5, <1>6, <1>7, Zenon DEF ParsePart, TooLate
<1> HIDE DEF s
<1>9. [s EXCEPT !.provider = p, !.implementation = i] = Made(a, p, i, 0)
  BY <1>7, ProviderSet, Zenon
<1> QED
  BY <1>8, <1>9 DEF part, s

\* What is behind "lyre." in a String is read part by part.
LEMMA Reading ==
  ASSUME NEW t \in Seq(Solid), capabilityName(Head(Parts(t))), ~(Len(Parts(t)) > 3)
  PROVE  ParseReference(Cat(Lyre, t)) = ParseParts(Parts(t))
<1> DEFINE value == Cat(Lyre, t)
<1>1. value \in Seq(Solid) /\ value # <<>> /\ Head(value) = "lyre." /\ Tail(value) = t
  <2>1. "lyre." \in Solid
    BY Zenon DEF Solid, Tokens
  <2> QED
    BY <2>1, CatFront, Zenon DEF Lyre
<1> HIDE DEF value
<1>2. TrimSpace(value) = value
  BY <1>1, SolidIs, Zenon
<1>3. ParseReference(value) = ParseParts(Parts(t))
  BY <1>1, <1>2, Zenon DEF ParseReference
<1> QED
  BY <1>3 DEF value

LEMMA Lengths ==
  ASSUME NEW a, NEW b, NEW c
  PROVE  /\ Head(<<a>>) = a /\ ~(Len(<<a>>) > 3)
         /\ Head(<<a, b>>) = a /\ ~(Len(<<a, b>>) > 3)
         /\ Head(<<a, b, c>>) = a /\ ~(Len(<<a, b, c>>) > 3)
OBVIOUS

LEMMA ReadingParts ==
  ASSUME NEW a \in Seq(Plain), capabilityName(a), NEW b \in Seq(Plain), NEW c \in Seq(Plain)
  PROVE  /\ ParseReference(Cat(Lyre, a)) = Capability(a)
         /\ ParseReference(Cat(Cat(Lyre, a), Cat(At, b))) = ParsePart(Capability(a), b)
         /\ ParseReference(Cat(Cat(Cat(Lyre, a), Cat(At, b)), Cat(At, c)))
              = ParsePart(ParsePart(Capability(a), b), c)
<1>1. a \in Seq(Solid) /\ b \in Seq(Solid) /\ c \in Seq(Solid) /\ At \in Seq(Solid) /\ Lyre \in Seq(Solid)
  BY Kinds, Zenon
<1> DEFINE t2 == Cat(a, Cat(At, b))
           t3 == Cat(a, Cat(At, Cat(b, Cat(At, c))))
<1>2. \A x, y \in Seq(Solid) : Cat(x, y) \in Seq(Solid)
  BY CatAssoc, Zenon
<1>3. t2 \in Seq(Solid) /\ t3 \in Seq(Solid)
  BY <1>1, <1>2, SMT
<1>4. /\ Cat(Cat(Lyre, a), Cat(At, b)) = Cat(Lyre, t2)
      /\ Cat(Cat(Cat(Lyre, a), Cat(At, b)), Cat(At, c)) = Cat(Lyre, t3)
  <2>1. /\ a \in Seq(Tokens) /\ b \in Seq(Tokens) /\ c \in Seq(Tokens)
        /\ At \in Seq(Tokens) /\ Lyre \in Seq(Tokens)
    BY Kinds, Marks, Zenon
  <2>2. /\ Cat(At, b) \in Seq(Tokens) /\ Cat(At, c) \in Seq(Tokens) /\ Cat(Lyre, a) \in Seq(Tokens)
        /\ Cat(b, Cat(At, c)) \in Seq(Tokens) /\ Cat(At, Cat(b, Cat(At, c))) \in Seq(Tokens)
    BY <2>1, CatTokens, SMT
  <2>3. Cat(Cat(Lyre, a), Cat(At, b)) = Cat(Lyre, t2)
    BY <2>1, <2>2, CatTokens, SMT
  <2>4. Cat(Cat(Cat(Lyre, a), Cat(At, b)), Cat(At, c)) = Cat(Cat(Lyre, a), Cat(Cat(At, b), Cat(At, c)))
    BY <2>2, CatTokens, SMT
  <2>5. Cat(Cat(At, b), Cat(At, c)) = Cat(At, Cat(b, Cat(At, c)))
    BY <2>1, <2>2, CatTokens, SMT
  <2>6. Cat(Cat(Lyre, a), Cat(At, Cat(b, Cat(At, c)))) = Cat(Lyre, t3)
    BY <2>1, <2>2, CatTokens, SMT
  <2> QED
    BY <2>3, <2>4, <2>5, <2>6, Zenon
<1>5. Parts(a) = <<a>> /\ Parts(t2) = <<a, b>> /\ Parts(t3) = <<a, b, c>>
  BY PartsBehind, SMT
<1> HIDE DEF t2, t3
<1>6. ParseReference(Cat(Lyre, a)) = Capability(a)
  <2>1. Head(Parts(a)) = a /\ ~(Len(Parts(a)) > 3) /\ ParseParts(Parts(a)) = Capability(a)
    BY <1>5, Lengths, LoopOne, SMT
  <2> QED
    BY <1>1, <2>1, Reading, Zenon
<1>7. ParseReference(Cat(Lyre, t2)) = ParsePart(Capability(a), b)
  <2>1. Head(Parts(t2)) = a /\ ~(Len(Parts(t2)) > 3) /\ ParseParts(Parts(t2)) = ParsePart(Capability(a), b)
    BY <1>5, Lengths, LoopTwo, SMT
  <2> QED
    BY <1>3, <2>1, Reading, Zenon
<1>8. ParseReference(Cat(Lyre, t3)) = ParsePart(ParsePart(Capability(a), b), c)
  <2>1. /\ Head(Parts(t3)) = a /\ ~(Len(Parts(t3)) > 3)
        /\ ParseParts(Parts(t3)) = ParsePart(ParsePart(Capability(a), b), c)
    BY <1>5, Lengths, LoopThree, SMT
  <2> QED
    BY <1>3, <2>1, Reading, Zenon
<1> QED
  BY <1>4, <1>6, <1>7, <1>8, Zenon

\* A Reference whose parts are identifiers is read as it is written.
LEMMA PrintedParts ==
  ASSUME NEW a \in Seq(Tokens), NEW p \in Seq(Tokens), NEW i \in Seq(Tokens), NEW n \in Versions,
         NEW r, r = Made(a, p, i, n), capabilityName(a), Proper(r)
  PROVE  ParseReference(RefString(r)) = r
<1> DEFINE b == Cat(Cat(p, Dot), i)
           w == Cat(Vee, FormatUint(n))
           s == Capability(a)
<1>1. /\ r \in References /\ r.capability = a /\ r.provider = p
      /\ r.implementation = i /\ r.version = n
  BY MadeIs, SMT
<1>2. a \in Seq(Plain) /\ capabilityName(a)
  BY <1>1, NameIs, Zenon
<1>3. /\ s \in References /\ s.capability = a /\ s.provider = <<>>
      /\ s.implementation = <<>> /\ s.version = 0 /\ s = Made(a, <<>>, <<>>, 0)
  BY CapabilityIs, NameOnly, Zenon
<1>4. RefString(r) = Cat(Cat(Cat(Lyre, a), ProviderText(r)), VersionText(r))
  BY <1>1, StringIs, Zenon
<1>5. n # 0 => w \in Seq(Plain) /\ VersionText(r) = Cat(At, w)
  <2>1. n # 0 => FormatUint(n) \in Seq(Plain) /\ FormatUint(n) \in Seq(Tokens)
    BY <1>1, Formatting, Kinds, Zenon
  <2>2. \A x, y \in Seq(Plain) : Cat(x, y) \in Seq(Plain)
    BY CatAssoc, Zenon
  <2>3. Vee \in Seq(Plain)
    BY Kinds, Zenon
  <2>4. n # 0 => Cat(Cat(At, Vee), FormatUint(n)) = Cat(At, w)
    BY <2>1, Marks, CatTokens, SMT
  <2> QED
    BY <1>1, <2>1, <2>2, <2>3, <2>4, Zenon DEF VersionText
<1>6. n = 0 => VersionText(r) = <<>>
  BY <1>1, Zenon DEF VersionText
<1>7. Cat(Lyre, a) \in Seq(Tokens) /\ Cat(Cat(Lyre, a), <<>>) = Cat(Lyre, a)
  BY <1>1, Marks, CatTokens, SMT
<1>8. CASE p = <<>>
  <2>1. i = <<>> /\ ProviderText(r) = <<>>
    BY <1>1, <1>8, Zenon DEF Proper, ProviderText, identifier
  <2>2. CASE n = 0
    <3>1. RefString(r) = Cat(Lyre, a)
      BY <1>4, <1>6, <1>7, <2>1, <2>2, Zenon
    <3> QED
      BY <1>1, <1>2, <1>3, <1>8, <2>1, <2>2, <3>1, ReadingParts, Zenon
  <2>3. CASE n # 0
    <3>1. RefString(r) = Cat(Cat(Lyre, a), Cat(At, w))
      BY <1>4, <1>5, <1>7, <2>1, <2>3, Zenon
    <3>2. ParseReference(RefString(r)) = ParsePart(s, w)
      BY <1>2, <1>5, <2>3, <3>1, ReadingParts, Zenon
    <3>3. ParsePart(s, w) = r
      BY <1>3, <1>8, <2>1, <2>3, VersionRead, SMT
    <3> QED
      BY <3>2, <3>3, Zenon
  <2> QED
    BY <2>2, <2>3
<1>9. CASE p # <<>>
  <2>1. identifier(p) /\ "." \notin Range(p) /\ identifier(i)
    BY <1>1, <1>9, Zenon DEF Proper
  <2>2. b \in Seq(Plain)
    <3>1. p \in Seq(Plain) /\ i \in Seq(Plain) /\ Dot \in Seq(Plain)
      BY <1>1, <2>1, NameIs, Kinds, Zenon
    <3>2. \A x, y \in Seq(Plain) : Cat(x, y) \in Seq(Plain)
      BY CatAssoc, Zenon
    <3> QED
      BY <3>1, <3>2, Zenon
  <2>3. ProviderText(r) = Cat(At, b)
    BY <1>1, <1>9, ProviderBehind, Zenon
  <2> DEFINE q == Made(a, p, i, 0)
  <2>4. ParsePart(s, b) = q
    BY <2>1, ProviderRead, SMT
  <2>5. /\ q \in References /\ q.capability = a /\ q.provider = p /\ q.implementation = i
        /\ q.version = 0
    <3>1. 0 \in Versions
      BY DEF Versions
    <3> QED
      BY <3>1, MadeIs, SMT
  <2> HIDE DEF q
  <2>6. CASE n = 0
    <3>1. RefString(r) = Cat(Cat(Lyre, a), Cat(At, b))
      <4>1. Cat(Cat(Lyre, a), Cat(At, b)) \in Seq(Tokens)
        BY <1>7, <2>2, Kinds, Marks, CatTokens, SMT
      <4> QED
        BY <1>4, <1>6, <2>3, <2>6, <4>1, CatTokens, Zenon
    <3>2. ParseReference(RefString(r)) = q
      BY <1>2, <2>2, <2>4, <3>1, ReadingParts, Zenon
    <3> QED
      BY <2>6, <3>2, Zenon DEF q
  <2>7. CASE n # 0
    <3>1. RefString(r) = Cat(Cat(Cat(Lyre, a), Cat(At, b)), Cat(At, w))
      BY <1>4, <1>5, <2>3, <2>7, Zenon
    <3>2. ParseReference(RefString(r)) = ParsePart(q, w)
      BY <1>2, <1>5, <2>2, <2>4, <2>7, <3>1, ReadingParts, SMT
    <3>3. ParsePart(q, w) = r
      BY <2>5, <2>7, VersionRead, Zenon
    <3> QED
      BY <3>2, <3>3, Zenon
  <2> QED
    BY <2>6, <2>7
<1> QED
  BY <1>8, <1>9

LEMMA Printed ==
  ASSUME NEW r \in References, capabilityName(r.capability), Proper(r)
  PROVE  ParseReference(RefString(r)) = r
BY Fields, PrintedParts, Zenon

-----------------------------------------------------------------------------
(* The calls. *)

LEMMA WordsAre ==
  ASSUME NEW S, S \subseteq Tokens, NEW n \in Nat, NEW s \in Words(S, n)
  PROVE  s \in Seq(Tokens)
<1>1. PICK k \in 0..n : s \in [1..k -> S]
  BY DEF Words
<1>2. k \in Nat
  OBVIOUS
<1>3. s \in Seq(S)
  BY <1>1, <1>2
<1> QED
  BY <1>3, Within, Zenon

LEMMA NoTextIs == NoText \notin Seq(Tokens)
<1>1. "none" \notin Tokens
  BY Zenon DEF Tokens, Letters, Digits
<1>2. ASSUME NEW x, <<x>> \in Seq(Tokens)
      PROVE  x \in Tokens
  <2>1. <<x>>[1] \in Tokens
    <3>1. Len(<<x>>) = 1 /\ 1 \in 1..1
      OBVIOUS
    <3> QED
      BY <1>2, <3>1, ElementOfSeq, Zenon
  <2> QED
    BY <2>1
<1> QED
  BY <1>1, <1>2, Zenon DEF NoText

\* The texts that a caller starts with.
LEMMA Starts ==
  ASSUME RefInit
  PROVE  text \in Seq(Tokens) /\ called = "no" /\ meant = Invalid /\ sentText = NoText
<1>1. /\ <<"lyre.", "a">> \in Seq(Tokens) /\ <<"lyre.", "v">> \in Seq(Tokens) /\ <<"lyre.", "1">> \in Seq(Tokens)
  BY DEF Tokens, Letters, Digits
<1>2. <<"lyre.", "a", ".", "v">> \in Seq(Tokens)
  BY DEF Tokens, Letters, Digits
<1>3. <<"lyre.", "v", "1">> \in Seq(Tokens) /\ <<" ", "lyre.", "a">> \in Seq(Tokens)
  BY DEF Tokens, Letters, Digits
<1>4. <<"lyre.">> \in Seq(Tokens) /\ <<"a">> \in Seq(Tokens) /\ <<>> \in Seq(Tokens)
  BY DEF Tokens, Letters, Digits
<1> QED
  BY <1>1, <1>2, <1>3, <1>4, Zenon DEF RefInit, RefStart

LEMMA Extended ==
  ASSUME text \in Seq(Tokens), Extend
  PROVE  text' \in Seq(Tokens)
<1>1. " " \in Tokens /\ "@" \in Tokens /\ "v" \in Tokens
  BY Zenon DEF Tokens, Letters
<1>2. Digits \subseteq Tokens /\ {"a", "v", "."} \subseteq Tokens
  BY Zenon DEF Tokens, Letters
<1>3. MaxPart \in Nat /\ 3 \in Nat
  BY ReferenceAssumption DEF ReferenceAssumption
<1>4. \A x, y \in Seq(Tokens) : x \o y \in Seq(Tokens)
  OBVIOUS
<1>5. \A x \in Tokens : <<x>> \in Seq(Tokens) /\ Append(text, x) \in Seq(Tokens)
  OBVIOUS
<1>6. \A part \in Words({"a", "v", "."}, MaxPart) : part \in Seq(Tokens)
  BY <1>2, <1>3, WordsAre, Zenon
<1>7. \A d \in Words(Digits, 3) : <<"v">> \o d \in Seq(Tokens)
  <2>1. \A d \in Words(Digits, 3) : d \in Seq(Tokens)
    BY <1>2, <1>3, WordsAre, Zenon
  <2> QED
    BY <1>1, <1>4, <1>5, <2>1, Zenon
<1>8. ASSUME NEW part \in Words({"a", "v", "."}, MaxPart) \cup {<<"v">> \o d : d \in Words(Digits, 3)},
             text' = text \o <<"@">> \o part
      PROVE  text' \in Seq(Tokens)
  <2>1. part \in Seq(Tokens)
    BY <1>6, <1>7, Zenon
  <2> QED
    BY <1>1, <1>4, <1>5, <1>8, <2>1, Zenon
<1> QED
  BY <1>1, <1>5, <1>8, Zenon DEF Extend

\* What a call reads of a text.
LEMMA Called ==
  ASSUME NEW given \in Seq(Tokens)
  PROVE  LET r == ParseReference(given) IN
         /\ r \in References \cup {Invalid}
         /\ r.valid => r \in References /\ capabilityName(r.capability)
         /\ r.valid => WithoutZeros(RefString(r), TrimSpace(given))
<1>1. ~Invalid.valid
  BY DEF Invalid
<1> QED
  BY <1>1, ParseIs, Zenon

LEMMA StringText ==
  ASSUME NEW r \in References
  PROVE  RefString(r) \in Seq(Tokens)
<1>1. r.capability \in Seq(Tokens) /\ r.version \in Versions
  BY Fields, Zenon
<1>2. ProviderText(r) \in Seq(Tokens)
  BY ProviderBehind, EmptySeq, Zenon DEF ProviderText
<1>3. VersionText(r) \in Seq(Tokens)
  <2>1. r.version # 0 => FormatUint(r.version) \in Seq(Tokens)
    BY <1>1, Formatting, Kinds, Zenon
  <2>2. Cat(At, Vee) \in Seq(Tokens)
    BY Marks, CatTokens, Zenon
  <2> QED
    BY <2>1, <2>2, CatTokens, EmptySeq, Zenon DEF VersionText
<1> QED
  BY <1>1, <1>2, <1>3, Marks, CatTokens, StringIs, Zenon

\* One of the calls that change parts of the reference.
LEMMA Changed ==
  ASSUME RefInv, NEW kind \in {"version", "provider"}, NEW others,
         ParseReference(text).valid =>
           \A r \in others : r \in References /\ r.capability = ParseReference(text).capability,
         CallWith(kind, others)
  PROVE  RefInv'
<1>1. text \in Seq(Tokens) /\ called' = kind /\ text' = text /\ kind # "no" /\ kind # "Call"
  BY Zenon DEF RefInv, RefTypeOK, CallWith
<1>2. CASE ParseReference(text).valid
  <2>1. PICK r \in others : meant' = r /\ sentText' = Sent(RefString(r))
    BY <1>2, Zenon DEF CallWith, CallResponse, Sent
  <2>2. r \in References /\ capabilityName(r.capability)
    BY <1>1, <1>2, Called, Zenon
  <2>3. meant' \in References /\ capabilityName(meant'.capability) /\ sentText' = Sent(RefString(meant'))
    BY <2>1, <2>2, Zenon
  <2> QED
    BY <1>1, <2>3, Zenon DEF RefInv, RefTypeOK, CallInv
<1>3. CASE ~ParseReference(text).valid
  <2>1. meant' = Invalid /\ ~Invalid.valid
    BY <1>3, Zenon DEF CallWith, Invalid
  <2> QED
    BY <1>1, <2>1, Zenon DEF RefInv, RefTypeOK, CallInv
<1> QED
  BY <1>2, <1>3, Zenon

LEMMA Provided ==
  ASSUME NEW r \in References, NEW q \in WithProvider(r)
  PROVE  q \in References /\ q.capability = r.capability
<1> DEFINE arguments == Words({"a", "v", "1", ".", "@"}, MaxArgument)
<1>1. \A p \in arguments : p \in Seq(Tokens)
  <2>1. {"a", "v", "1", ".", "@"} \subseteq Tokens
    BY Zenon DEF Tokens, Letters, Digits
  <2>2. MaxArgument \in Nat
    BY ReferenceAssumption DEF ReferenceAssumption
  <2> QED
    BY <2>1, <2>2, WordsAre, Zenon
<1>2. PICK p \in arguments, i \in arguments, n \in {r.version, 10} : q = Replaced(r, p, i, n)
  BY DEF WithProvider
<1> HIDE DEF arguments
<1>3. p \in Seq(Tokens) /\ i \in Seq(Tokens)
  BY <1>1, Zenon
<1> QED
  BY <1>2, <1>3 DEF Replaced, References, Versions

\* RefInv is an invariant: what was meant is what is read of the text, or a
\* Reference that has its capability, and what was sent is made of it.
THEOREM RefInvariance == RefSpec => []RefInv
<1>1. RefInit => RefInv
  <2>1. RefInit => called = "no" /\ meant = Invalid /\ sentText = NoText
    BY Zenon DEF RefInit, RefStart
  <2> QED
    BY <2>1, Starts, Zenon DEF RefInv, RefTypeOK, CallInv
<1>2. RefInv /\ [RefNext]_refVars => RefInv'
  <2> SUFFICES ASSUME RefInv, [RefNext]_refVars PROVE RefInv'
    OBVIOUS
  <2>1. text \in Seq(Tokens) /\ called \in {"no", "Call", "version", "provider"}
    BY DEF RefInv, RefTypeOK
  <2>2. CASE Extend
    <3>1. text' \in Seq(Tokens) /\ called = "no" /\ called' = called /\ meant' = meant /\ sentText' = sentText
      BY <2>1, <2>2, Extended, Zenon DEF Extend
    <3> QED
      BY <3>1, Zenon DEF RefInv, RefTypeOK, CallInv
  <2>3. CASE Call
    <3>1. /\ text' = text /\ called' = "Call" /\ meant' = ParseReference(text) /\ sentText' = Sent(text)
      BY <2>3, Zenon DEF Call, CallResponse, Sent
    <3>2. meant' \in References \cup {Invalid}
      BY <2>1, <3>1, Called, Zenon
    <3> QED
      BY <2>1, <3>1, <3>2, Zenon DEF RefInv, RefTypeOK, CallInv
  <2> DEFINE r == ParseReference(text)
  <2>4. CASE CallCapabilityVersion
    <3> DEFINE others == {[r EXCEPT !.version = n] : n \in {0, 1, 11}}
    <3>1. ASSUME r.valid, NEW n \in {0, 1, 11}
          PROVE  [r EXCEPT !.version = n] \in References /\ [r EXCEPT !.version = n].capability = r.capability
      <4>1. r \in References
        BY <2>1, <3>1, Called, Zenon
      <4> HIDE DEF r
      <4> QED
        BY <3>1, <4>1 DEF References, Versions
    <3>2. CallWith("version", others)
      BY <2>4, Zenon DEF CallCapabilityVersion
    <3>3. r.valid => \A s \in others : s \in References /\ s.capability = r.capability
      BY <3>1, Zenon
    <3> HIDE DEF others
    <3> QED
      BY <3>2, <3>3, Changed, Zenon
  <2>5. CASE CallProviderCapability
    <3>1. ASSUME r.valid, NEW q \in WithProvider(r)
          PROVE  q \in References /\ q.capability = r.capability
      <4>1. r \in References
        BY <2>1, <3>1, Called, Zenon
      <4> HIDE DEF r
      <4> QED
        BY <3>1, <4>1, Provided, Zenon
    <3>2. CallWith("provider", WithProvider(r))
      BY <2>5, Zenon DEF CallProviderCapability
    <3> QED
      BY <3>1, <3>2, Changed, Zenon
  <2>6. CASE UNCHANGED refVars
    BY <2>6 DEF refVars, RefInv, RefTypeOK, CallInv
  <2> QED
    BY <2>2, <2>3, <2>4, <2>5, <2>6, Zenon DEF RefNext
<1> QED
  BY <1>1, <1>2, PTL DEF RefSpec

\* ParsedIsText (reference.go:32) for texts of any length, with any parts.
THEOREM ParsedKept == RefSpec => []ParsedIsText
<1>1. RefInv => ParsedIsText
  BY Called, Zenon DEF RefInv, RefTypeOK, CallInv, ParsedIsText
<1> QED
  BY <1>1, RefInvariance, PTL

\* SentIsMeant (service.go:283) for arguments of any length.
THEOREM SentMeant == RefSpec => []SentIsMeant
<1>1. RefInv => SentIsMeant
  <2> SUFFICES ASSUME RefInv, called # "no", meant.valid, Proper(meant)
               PROVE  sentText # NoText /\ ParseReference(sentText) = meant
    BY DEF SentIsMeant
  <2>1. /\ text \in Seq(Tokens) /\ called \in {"no", "Call", "version", "provider"}
        /\ meant \in References
    <3>1. ~Invalid.valid
      BY DEF Invalid
    <3> QED
      BY <3>1, Zenon DEF RefInv, RefTypeOK
  <2>2. CASE called = "Call"
    <3>1. meant = ParseReference(text) /\ sentText = text
      BY <2>2, Zenon DEF RefInv, CallInv, Sent
    <3> QED
      BY <2>1, <3>1, NoTextIs, Zenon
  <2>3. CASE called \in {"version", "provider"}
    <3>1. capabilityName(meant.capability) /\ sentText = Sent(RefString(meant))
      BY <2>3, Zenon DEF RefInv, CallInv
    <3>2. ParseReference(RefString(meant)) = meant
      BY <2>1, <3>1, Printed, Zenon
    <3>3. sentText = RefString(meant) /\ RefString(meant) \in Seq(Tokens)
      BY <2>1, <3>1, <3>2, StringText, Zenon DEF Sent
    <3> QED
      BY <3>2, <3>3, NoTextIs, Zenon
  <2> QED
    BY <2>1, <2>2, <2>3, Zenon
<1> QED
  BY <1>1, RefInvariance, PTL
=============================================================================
