-------------------------- MODULE DiscoveryProofs --------------------------
(***************************************************************************)
(* Proofs about Discovery, for every chain and every block range, any      *)
(* number of tokens, every batch size and every limit of the provider.     *)
(***************************************************************************)
EXTENDS Discovery, FiniteSetTheorems, SequenceTheorems, WellFoundedInduction, TLAPS

-----------------------------------------------------------------------------
(* Sorting.  InOrder and Ascending place an element by its rank, the       *)
(* number of elements before it.                                           *)

\* A strict total order of S, as a set of pairs.
Orders(R, S) ==
  /\ \A x \in S : <<x, x>> \notin R
  /\ \A x, y, z \in S : <<x, y>> \in R /\ <<y, z>> \in R => <<x, z>> \in R
  /\ \A x, y \in S : x = y \/ <<x, y>> \in R \/ <<y, x>> \in R

Rank(R, S, x) == Cardinality({y \in S : <<y, x>> \in R})

\* Later elements have higher ranks, and all ranks are below the size of the set.
LEMMA RankGrows ==
  ASSUME NEW S, IsFiniteSet(S), NEW R, Orders(R, S)
  PROVE  /\ \A x \in S : Rank(R, S, x) \in 0..(Cardinality(S) - 1)
         /\ \A x, y \in S : <<x, y>> \in R => Rank(R, S, x) < Rank(R, S, y)
  <1> DEFINE B(x) == {z \in S : <<z, x>> \in R}
  <1>1. ASSUME NEW U \in SUBSET S, NEW V \in SUBSET U, U # V
        PROVE  /\ Cardinality(U) \in Nat /\ Cardinality(V) \in Nat
               /\ Cardinality(V) < Cardinality(U)
    <2>1. IsFiniteSet(U) /\ IsFiniteSet(V)
      BY <1>1, FS_Subset
    <2>2. Cardinality(U) \in Nat /\ Cardinality(V) \in Nat
      BY <2>1, FS_CardinalityType
    <2>3. Cardinality(V) <= Cardinality(U) /\ (Cardinality(U) = Cardinality(V) => U = V)
      BY <2>1, FS_Subset
    <2> QED BY <1>1, <2>2, <2>3
  <1>2. ASSUME NEW x \in S PROVE Rank(R, S, x) \in 0..(Cardinality(S) - 1)
    <2>1. B(x) \in SUBSET S /\ S # B(x)
      BY DEF Orders
    <2> HIDE DEF B
    <2>2. Cardinality(S) \in Nat /\ Cardinality(B(x)) \in Nat /\ Cardinality(B(x)) < Cardinality(S)
      BY <1>1, <2>1
    <2> QED BY <2>2 DEF Rank, B
  <1>3. ASSUME NEW x \in S, NEW y \in S, <<x, y>> \in R PROVE Rank(R, S, x) < Rank(R, S, y)
    <2>1. B(y) \in SUBSET S /\ B(x) \in SUBSET B(y) /\ x \in B(y) /\ x \notin B(x)
      BY <1>3 DEF Orders
    <2> HIDE DEF B
    <2>2. Cardinality(B(x)) < Cardinality(B(y))
      BY <1>1, <2>1
    <2> QED BY <2>2 DEF Rank, B
  <1> QED BY <1>2, <1>3

\* Every rank below the size of the set is the rank of one element.
LEMMA RankTaken ==
  ASSUME NEW S, IsFiniteSet(S), NEW R, Orders(R, S)
  PROVE  \A i \in 1..Cardinality(S) : \E x \in S : Rank(R, S, x) = i - 1
  <1> DEFINE n == Cardinality(S)
             T == 0..(n - 1)
             f == [x \in S |-> Rank(R, S, x)]
  <1>1. n \in Nat
    BY FS_CardinalityType
  <1>2. \A x \in S : Rank(R, S, x) \in T
    BY RankGrows
  <1>3. \A x, y \in S : Rank(R, S, x) = Rank(R, S, y) => x = y
    <2>1. \A x, y \in S : <<x, y>> \in R => Rank(R, S, x) < Rank(R, S, y)
      BY RankGrows
    <2>2. \A x, y \in S : x = y \/ <<x, y>> \in R \/ <<y, x>> \in R
      BY DEF Orders
    <2>3. ASSUME NEW x \in S, NEW y \in S, Rank(R, S, x) = Rank(R, S, y) PROVE x = y
      <3>1. Rank(R, S, x) \in Int /\ Rank(R, S, y) \in Int
        BY <1>2
      <3>2. ~(Rank(R, S, x) < Rank(R, S, y)) /\ ~(Rank(R, S, y) < Rank(R, S, x))
        BY <2>3, <3>1
      <3> QED BY <2>1, <2>2, <3>2
    <2> QED BY <2>3
  <1> HIDE DEF n
  <1>4. f \in Injection(S, T)
    BY <1>2, <1>3 DEF Injection, IsInjective
  <1>5. IsFiniteSet(T) /\ Cardinality(T) = n
    <2>1. 0 \in Int /\ n - 1 \in Int
      BY <1>1
    <2>2. IsFiniteSet(T) /\ Cardinality(T) = IF 0 > n - 1 THEN 0 ELSE n - 1 - 0 + 1
      BY <2>1, FS_Interval
    <2> QED BY <1>1, <2>2
  <1>6. f \in Surjection(S, T)
    <2> HIDE DEF f, T
    <2> QED BY <1>4, <1>5, FS_Injection DEF n
  <1>7. \A i \in T : \E x \in S : f[x] = i
    BY <1>6 DEF Surjection
  <1> QED BY <1>1, <1>7 DEF n

\* Elements placed by their rank: all of them, in order.
LEMMA PlacedByRank ==
  ASSUME NEW S, IsFiniteSet(S), NEW R, Orders(R, S),
         NEW s \in [1..Cardinality(S) -> S],
         \A i \in 1..Cardinality(S) : Rank(R, S, s[i]) = i - 1
  PROVE  /\ s \in Seq(S) /\ Len(s) = Cardinality(S)
         /\ Range(s) = S
         /\ \A i, j \in 1..Len(s) : i < j => <<s[i], s[j]>> \in R
  <1> DEFINE n == Cardinality(S)
  <1>1. n \in Nat
    BY FS_CardinalityType
  <1>2. \A i \in 1..n : s[i] \in S /\ Rank(R, S, s[i]) = i - 1
    OBVIOUS
  <1>3. s \in Seq(S) /\ Len(s) = n /\ DOMAIN s = 1..n
    <2>1. s \in [1..n -> S]
      OBVIOUS
    <2> HIDE DEF n
    <2> QED BY <1>1, <2>1
  <1>4. \A x, y \in S : <<x, y>> \in R => Rank(R, S, x) < Rank(R, S, y)
    BY RankGrows
  <1>5. \A x, y \in S : x = y \/ <<x, y>> \in R \/ <<y, x>> \in R
    BY DEF Orders
  <1>6. \A x \in S : Rank(R, S, x) \in 0..(n - 1)
    BY RankGrows
  <1> HIDE DEF n
  <1>7. ASSUME NEW x \in S PROVE \E i \in 1..n : s[i] = x
    <2> DEFINE i == Rank(R, S, x) + 1
    <2>1. i \in 1..n /\ Rank(R, S, x) = i - 1 /\ Rank(R, S, x) \in Int
      BY <1>1, <1>6
    <2>2. s[i] \in S /\ Rank(R, S, s[i]) = Rank(R, S, x)
      BY <1>2, <2>1
    <2>3. s[i] = x
      <3>1. /\ ~(Rank(R, S, x) < Rank(R, S, s[i])) /\ ~(Rank(R, S, s[i]) < Rank(R, S, x))
        BY <2>1, <2>2
      <3> HIDE DEF i
      <3> QED BY <1>4, <1>5, <2>2, <3>1
    <2> QED BY <2>1, <2>3
  <1>8. Range(s) = S
    BY <1>2, <1>3, <1>7 DEF Range
  <1>9. ASSUME NEW i \in 1..n, NEW j \in 1..n, i < j PROVE <<s[i], s[j]>> \in R
    <2>1. s[i] \in S /\ s[j] \in S /\ Rank(R, S, s[i]) = i - 1 /\ Rank(R, S, s[j]) = j - 1
      BY <1>2
    <2>2. ~(Rank(R, S, s[j]) < Rank(R, S, s[i])) /\ Rank(R, S, s[j]) # Rank(R, S, s[i])
      BY <1>1, <1>9, <2>1
    <2> QED BY <1>4, <1>5, <2>1, <2>2
  <1> QED BY <1>1, <1>3, <1>8, <1>9 DEF n

\* Ascending lists a finite set of numbers.
LEMMA AscendingLists ==
  ASSUME NEW S \in SUBSET Nat, IsFiniteSet(S)
  PROVE  Ascending(S) \in Seq(S) /\ Range(Ascending(S)) = S
  <1> DEFINE R == {q \in S \X S : q[1] < q[2]}
  <1>1. \A x, y \in S : <<x, y>> \in R <=> x < y
    OBVIOUS
  <1>2. Orders(R, S)
    <2> HIDE DEF R
    <2> QED BY <1>1 DEF Orders
  <1>3. \A x \in S : {y \in S : y < x} = {y \in S : <<y, x>> \in R}
    BY <1>1
  <1> HIDE DEF R
  <1>4. ASSUME NEW i \in 1..Cardinality(S)
        PROVE  Ascending(S)[i] \in S /\ Rank(R, S, Ascending(S)[i]) = i - 1
    <2>1. \E x \in S : Rank(R, S, x) = i - 1
      BY <1>2, RankTaken
    <2>2. \A x \in S : Rank(R, S, x) = Cardinality({y \in S : y < x})
      BY <1>3 DEF Rank
    <2>3. Ascending(S)[i] = CHOOSE x \in S : Cardinality({y \in S : y < x}) = i - 1
      BY DEF Ascending
    <2> QED BY <2>1, <2>2, <2>3
  <1>5. Ascending(S) \in [1..Cardinality(S) -> S]
    BY <1>4 DEF Ascending
  <1> QED BY <1>2, <1>4, <1>5, PlacedByRank

Earlier(a, b) == a.block < b.block \/ (a.block = b.block /\ a.index < b.index)

\* One log at each position.
Unambiguous(S) == \A a, b \in S : a.block = b.block /\ a.index = b.index => a = b

\* InOrder lists a finite set of logs, if no two are at the same position.
LEMMA InOrderLists ==
  ASSUME NEW S, IsFiniteSet(S), \A log \in S : IsLog(log), Unambiguous(S)
  PROVE  /\ InOrder(S) \in Seq(S) /\ Range(InOrder(S)) = S
         /\ \A i, j \in 1..Len(InOrder(S)) : i < j => Earlier(InOrder(S)[i], InOrder(S)[j])
  <1> DEFINE R == {q \in S \X S : Earlier(q[1], q[2])}
  <1>1. \A x, y \in S : <<x, y>> \in R <=> Earlier(x, y)
    OBVIOUS
  <1>2. Orders(R, S)
    <2>1. \A x \in S : x.block \in Nat /\ x.index \in Nat
      BY DEF IsLog
    <2> HIDE DEF R
    <2>2. \A x \in S : <<x, x>> \notin R
      BY <1>1, <2>1 DEF Earlier
    <2>3. \A x, y, z \in S : <<x, y>> \in R /\ <<y, z>> \in R => <<x, z>> \in R
      BY <1>1, <2>1 DEF Earlier
    <2>4. \A x, y \in S : x = y \/ <<x, y>> \in R \/ <<y, x>> \in R
      <3> SUFFICES ASSUME NEW x \in S, NEW y \in S, x # y
                   PROVE  Earlier(x, y) \/ Earlier(y, x)
        BY <1>1
      <3>1. x.block # y.block \/ x.index # y.index
        BY DEF Unambiguous
      <3>2. x.block \in Nat /\ y.block \in Nat /\ x.index \in Nat /\ y.index \in Nat
        BY <2>1
      <3> QED BY <3>1, <3>2 DEF Earlier
    <2> QED BY <2>2, <2>3, <2>4 DEF Orders
  <1>3. \A x \in S : {y \in S : y.block < x.block \/ (y.block = x.block /\ y.index < x.index)}
                       = {y \in S : <<y, x>> \in R}
    BY <1>1 DEF Earlier
  <1>5. \A q \in R : q \in S \X S /\ Earlier(q[1], q[2])
    OBVIOUS
  <1> HIDE DEF R
  <1>4. ASSUME NEW i \in 1..Cardinality(S)
        PROVE  InOrder(S)[i] \in S /\ Rank(R, S, InOrder(S)[i]) = i - 1
    <2>1. \E x \in S : Rank(R, S, x) = i - 1
      BY <1>2, RankTaken
    <2>2. \A x \in S :
            Rank(R, S, x)
              = Cardinality({y \in S : y.block < x.block \/ (y.block = x.block /\ y.index < x.index)})
      BY <1>3 DEF Rank
    <2>3. InOrder(S)[i] =
            CHOOSE x \in S :
              Cardinality({y \in S : y.block < x.block \/ (y.block = x.block /\ y.index < x.index)}) = i - 1
      BY DEF InOrder
    <2> QED BY <2>1, <2>2, <2>3
  <1>7. InOrder(S) \in [1..Cardinality(S) -> S]
    BY <1>4 DEF InOrder
  <1>6. /\ InOrder(S) \in Seq(S) /\ Range(InOrder(S)) = S
        /\ \A i, j \in 1..Len(InOrder(S)) : i < j => <<InOrder(S)[i], InOrder(S)[j]>> \in R
    BY <1>2, <1>4, <1>7, PlacedByRank
  <1> HIDE DEF Earlier
  <1> QED BY <1>5, <1>6

-----------------------------------------------------------------------------
(* Sequences. *)

\* A non-empty set of naturals has a least element.
LEMMA LeastNatural ==
  ASSUME NEW T \in SUBSET Nat, T # {}
  PROVE  \E n \in T : \A m \in T : n <= m
  <1> DEFINE less == OpToRel(<, Nat)
  <1>1. IsWellFoundedOn(less, Nat)
    BY NatLessThanWellFounded
  <1>2. \A x, y \in Nat : x < y => <<x, y>> \in less
    BY DEF OpToRel
  <1> HIDE DEF less
  <1>3. PICK x \in T : \A y \in T : ~(<<y, x>> \in less)
    BY <1>1, WFMin
  <1>4. ASSUME NEW y \in T PROVE x <= y
    <2>1. ~(y < x)
      BY <1>2, <1>3
    <2> QED BY <2>1
  <1> QED BY <1>3, <1>4

\* A function over 1..n is a sequence.
LEMMA FunctionIsSeq ==
  ASSUME NEW T, NEW n \in Nat, NEW f \in [1..n -> T]
  PROVE  f \in Seq(T) /\ Len(f) = n /\ DOMAIN f = 1..n
  OBVIOUS

\* The elements of a sequence are finitely many.
LEMMA RangeFinite ==
  ASSUME NEW T, NEW s \in Seq(T)
  PROVE  IsFiniteSet(Range(s)) /\ Range(s) \subseteq T
  <1>1. Len(s) \in Nat /\ s \in [1..Len(s) -> T]
    OBVIOUS
  <1>2. s \in Surjection(1..Len(s), Range(s))
    BY <1>1 DEF Surjection, Range
  <1>3. IsFiniteSet(1..Len(s))
    BY <1>1, FS_Interval
  <1> QED BY <1>1, <1>2, <1>3, FS_Surjection DEF Range

\* The first element and the rest.
LEMMA RangeOfTail ==
  ASSUME NEW T, NEW s \in Seq(T), s # <<>>
  PROVE  /\ Head(s) \in T /\ Tail(s) \in Seq(T)
         /\ \A x : x \in Range(s) <=> x = Head(s) \/ x \in Range(Tail(s))
  <1>1. /\ Head(s) \in T /\ Tail(s) \in Seq(T) /\ Len(Tail(s)) = Len(s) - 1
        /\ \A i \in 1..Len(Tail(s)) : Tail(s)[i] = s[i + 1]
    BY HeadTailProperties
  <1>2. Len(s) \in Nat /\ Len(s) # 0 /\ Head(s) = s[1]
    OBVIOUS
  <1>3. /\ \A x : x \in Range(s) <=> \E i \in 1..Len(s) : x = s[i]
        /\ \A x : x \in Range(Tail(s)) <=> \E i \in 1..Len(Tail(s)) : x = Tail(s)[i]
    <2>1. DOMAIN s = 1..Len(s) /\ DOMAIN Tail(s) = 1..Len(Tail(s))
      BY <1>1, LenProperties
    <2> QED BY <2>1, Zenon DEF Range
  <1>4. ASSUME NEW x, x \in Range(s) PROVE x = Head(s) \/ x \in Range(Tail(s))
    <2>1. PICK i \in 1..Len(s) : x = s[i]
      BY <1>3, <1>4
    <2>2. CASE i = 1
      BY <1>2, <2>1, <2>2
    <2>3. CASE i # 1
      <3>1. i - 1 \in 1..Len(Tail(s)) /\ (i - 1) + 1 = i
        BY <1>1, <1>2, <2>3
      <3>2. Tail(s)[i - 1] = x
        BY <1>1, <2>1, <3>1
      <3> QED BY <1>3, <3>1, <3>2
    <2> QED BY <2>2, <2>3
  <1>5. ASSUME NEW x, x = Head(s) \/ x \in Range(Tail(s)) PROVE x \in Range(s)
    <2>1. CASE x = Head(s)
      <3>1. 1 \in 1..Len(s) /\ x = s[1]
        BY <1>2, <2>1
      <3> QED BY <1>3, <3>1
    <2>2. CASE x \in Range(Tail(s))
      <3>1. PICK i \in 1..Len(Tail(s)) : x = Tail(s)[i]
        BY <1>3, <2>2
      <3>2. i + 1 \in 1..Len(s) /\ x = s[i + 1]
        BY <1>1, <1>2, <3>1
      <3> QED BY <1>3, <3>2
    <2> QED BY <1>5, <2>1, <2>2
  <1> QED BY <1>1, <1>4, <1>5

\* What is in a concatenation.
LEMMA RangeOfConcat ==
  ASSUME NEW T, NEW s \in Seq(T), NEW t \in Seq(T)
  PROVE  s \o t \in Seq(T) /\ \A x : x \in Range(s \o t) <=> x \in Range(s) \/ x \in Range(t)
  <1>1. s \o t \in Seq(T)
    OBVIOUS
  <1>2. Range(s \o t) = Range(s) \cup Range(t)
    BY RangeConcatenation
  <1> QED BY <1>1, <1>2

\* The first m parts of a sequence of sequences, one after the other.
Joined(ss, m, f) == f = [i \in 1..m |-> IF i = 1 THEN ss[i] ELSE f[i - 1] \o ss[i]]

LEMMA JoinedExists ==
  ASSUME NEW ss, NEW n \in Nat
  PROVE  \A m \in 0..n : \E f : Joined(ss, m, f)
  <1> DEFINE bad == {k \in 0..n : ~ \E f : Joined(ss, k, f)}
  <1> SUFFICES ASSUME bad # {} PROVE FALSE
    OBVIOUS
  <1>1. PICK k \in bad : \A j \in bad : k <= j
    <2>1. bad \in SUBSET Nat
      OBVIOUS
    <2> QED BY <2>1, LeastNatural
  <1>2. k \in Nat /\ k <= n /\ ~ \E f : Joined(ss, k, f)
    BY <1>1
  <1>3. k # 0
    <2>1. Joined(ss, 0, <<>>)
      BY DEF Joined
    <2> QED BY <1>2, <2>1
  <1>4. k - 1 \in 0..n /\ ~(k <= k - 1)
    BY <1>2, <1>3
  <1>5. PICK f : Joined(ss, k - 1, f)
    BY <1>1, <1>4
  <1> DEFINE g == [i \in 1..k |-> IF i = k THEN (IF k = 1 THEN ss[k] ELSE f[k - 1] \o ss[k]) ELSE f[i]]
  <1>6. ASSUME NEW i \in 1..k PROVE g[i] = IF i = 1 THEN ss[i] ELSE g[i - 1] \o ss[i]
    <2>1. CASE i = k
      <3>1. k # 1 => k - 1 \in 1..k /\ k - 1 # k
        BY <1>2, <1>3
      <3> QED BY <2>1, <3>1
    <2>2. CASE i # k
      <3>1. i \in 1..(k - 1) /\ (i # 1 => i - 1 \in 1..k /\ i - 1 # k)
        BY <1>2, <2>2
      <3>2. f[i] = IF i = 1 THEN ss[i] ELSE f[i - 1] \o ss[i]
        BY <1>5, <3>1 DEF Joined
      <3>3. g[i] = f[i] /\ (i # 1 => g[i - 1] = f[i - 1])
        BY <2>2, <3>1
      <3> HIDE DEF g
      <3> QED BY <3>2, <3>3
    <2> QED BY <2>1, <2>2
  <1>7. g = [i \in 1..k |-> g[i]]
    OBVIOUS
  <1> HIDE DEF g
  <1>8. Joined(ss, k, g)
    BY <1>6, <1>7 DEF Joined
  <1> QED BY <1>2, <1>8

\* FlattenSeq has the elements of all parts.
LEMMA RangeOfFlatten ==
  ASSUME NEW T, NEW ss \in Seq(Seq(T))
  PROVE  /\ FlattenSeq(ss) \in Seq(T)
         /\ \A x : x \in Range(FlattenSeq(ss)) <=> \E i \in 1..Len(ss) : x \in Range(ss[i])
  <1> DEFINE n == Len(ss)
             Eq(f) == f = [i \in 1..n |-> IF i = 1 THEN ss[i] ELSE f[i - 1] \o ss[i]]
             v == CHOOSE f : Eq(f)
  <1>1. n \in Nat /\ \A i \in 1..n : ss[i] \in Seq(T)
    OBVIOUS
  <1>2. CASE n = 0
    <2>1. ss = <<>>
      BY <1>2, EmptySeq
    <2>2. FlattenSeq(ss) = <<>>
      BY <1>2, <2>1 DEF FlattenSeq
    <2>3. \A x : x \notin Range(<<>>)
      BY DEF Range
    <2> QED BY <1>2, <2>2, <2>3
  <1>3. CASE n # 0
    <2>1. FlattenSeq(ss) = v[n]
      BY <1>3 DEF FlattenSeq
    <2>2. PICK f : Joined(ss, n, f)
      <3>1. n \in 0..n
        BY <1>1
      <3> HIDE DEF n
      <3> QED BY <1>1, <3>1, JoinedExists
    <2>3. Eq(f)
      BY <2>2 DEF Joined
    <2>4. Eq(v)
      BY <2>3
    <2> HIDE DEF v, n
    <2>5. \A k \in 1..n : v[k] = IF k = 1 THEN ss[k] ELSE v[k - 1] \o ss[k]
      BY <2>4
    <2> DEFINE Good(k) == /\ v[k] \in Seq(T)
                          /\ \A x : x \in Range(v[k]) <=> \E i \in 1..k : x \in Range(ss[i])
               bad == {k \in 1..n : ~Good(k)}
    <2>6. bad = {}
      <3> SUFFICES ASSUME bad # {} PROVE FALSE
        OBVIOUS
      <3>1. PICK k \in bad : \A j \in bad : k <= j
        <4>1. bad \in SUBSET Nat
          BY <1>1
        <4> QED BY <4>1, LeastNatural
      <3>2. k \in 1..n /\ ~Good(k)
        BY <3>1
      <3>3. CASE k = 1
        <4>1. v[k] = ss[1] /\ v[k] \in Seq(T)
          BY <1>1, <2>5, <3>2, <3>3
        <4>2. \A i \in 1..k : i = 1
          BY <3>3
        <4>3. 1 \in 1..k
          BY <3>3
        <4> QED BY <3>2, <4>1, <4>2, <4>3
      <3>4. CASE k # 1
        <4>1. k - 1 \in 1..n /\ ~(k <= k - 1)
          BY <1>1, <3>2, <3>4
        <4>2. Good(k - 1)
          BY <3>1, <4>1
        <4>3. v[k] = v[k - 1] \o ss[k] /\ ss[k] \in Seq(T)
          BY <1>1, <2>5, <3>2, <3>4
        <4>4. /\ v[k] \in Seq(T)
              /\ \A x : x \in Range(v[k]) <=> x \in Range(v[k - 1]) \/ x \in Range(ss[k])
          BY <4>2, <4>3, RangeOfConcat
        <4>5. \A i : i \in 1..k <=> i \in 1..(k - 1) \/ i = k
          BY <1>1, <3>2
        <4>6. \A x : x \in Range(v[k - 1]) <=> \E i \in 1..(k - 1) : x \in Range(ss[i])
          BY <4>2
        <4>7. \A x : x \in Range(v[k]) <=> \E i \in 1..k : x \in Range(ss[i])
          BY <4>4, <4>5, <4>6
        <4> QED BY <3>2, <4>4, <4>7
      <3> QED BY <3>3, <3>4
    <2>7. Good(n)
      <3>1. n \in 1..n
        BY <1>1, <1>3
      <3> QED BY <2>6, <3>1
    <2> QED BY <2>1, <2>7 DEF n
  <1> QED BY <1>2, <1>3

-----------------------------------------------------------------------------
(* The queries of a pass. *)

EmitterKinds == {"curve", "token", "pair"}
Addresses == {Factory} \cup [kind : EmitterKinds, token : Tokens]
Jobs == [from : Nat, to : Nat, addresses : SUBSET Addresses]

\* Every address of A is in a query of js.
Queried(js, A) == \A a \in A : \E j \in Range(js) : a \in j.addresses

\* A later position is in the same batch or in a later one.
LEMMA BatchCounted ==
  ASSUME NEW a \in Nat, NEW b \in Nat, a <= b
  PROVE  /\ a \div BatchSize \in Nat
         /\ (b + BatchSize) \div BatchSize \in Nat
         /\ a \div BatchSize + 1 <= (b + BatchSize) \div BatchSize
  <1> DEFINE B == BatchSize
             x == a \div B
             y == (b + B) \div B
  <1>1. B \in Nat \ {0}
    BY DiscoveryAssumption
  <1> HIDE DEF B
  <1>2. x \in Int /\ B * x <= a /\ a < B * x + B
    BY <1>1
  <1>3. y \in Int /\ b + B < B * y + B
    BY <1>1
  <1> HIDE DEF x, y
  <1>4. x >= 0
    BY <1>1, <1>2
  <1>5. B * x < B * y
    BY <1>1, <1>2, <1>3
  <1>6. x < y
    BY <1>1, <1>2, <1>3, <1>5
  <1> QED BY <1>2, <1>3, <1>4, <1>6 DEF x, y, B

\* The tokens of finitely many addresses.
LEMMA TokensFinite ==
  ASSUME NEW A \in SUBSET Addresses, IsFiniteSet(A)
  PROVE  {a.token : a \in A} \in SUBSET Nat /\ IsFiniteSet({a.token : a \in A})
  <1> DEFINE S == {a.token : a \in A}
             f == [a \in A |-> a.token]
  <1>1. \A a \in A : a.token \in Nat
    <2>1. \A a \in Addresses : a = Factory \/ a.token \in Tokens
      BY DEF Addresses
    <2>2. Tokens \subseteq Nat /\ Factory.token = 0
      BY DiscoveryAssumption DEF Factory
    <2> TAKE a \in A
    <2>3. a \in Addresses
      OBVIOUS
    <2>4. a = Factory \/ a.token \in Tokens
      BY <2>1, <2>3
    <2>5. CASE a = Factory
      <3>1. a.token = 0
        BY <2>5 DEF Factory
      <3> QED BY <3>1
    <2>6. CASE a.token \in Tokens
      BY <2>2, <2>6
    <2> QED BY <2>4, <2>5, <2>6
  <1>2. f \in Surjection(A, S)
    BY DEF Surjection
  <1>3. IsFiniteSet(S)
    BY <1>2, FS_Surjection
  <1> QED BY <1>1, <1>3

\* Every address is in one of the batches, and no other.
LEMMA BatchesCover ==
  ASSUME NEW from \in Nat, NEW to \in Nat, NEW A \in SUBSET Addresses, IsFiniteSet(A)
  PROVE  /\ Batches(from, to, A) \in Seq(Jobs)
         /\ \A j \in Range(Batches(from, to, A)) : j.from = from /\ j.to = to /\ j.addresses \subseteq A
         /\ Queried(Batches(from, to, A), A)
  <1> DEFINE S == {a.token : a \in A}
             sorted == Ascending(S)
             n == Len(sorted)
             count == (n + BatchSize - 1) \div BatchSize
             Batch(i) == {a \in A : \E k \in 1..n : a.token = sorted[k] /\ (k - 1) \div BatchSize = i - 1}
             bs == [i \in 1..count |-> [from |-> from, to |-> to, addresses |-> Batch(i)]]
  <1>1. Batches(from, to, A) = bs
    BY DEF Batches
  <1>2. sorted \in Seq(S) /\ Range(sorted) = S
    <2>1. S \in SUBSET Nat /\ IsFiniteSet(S)
      BY TokensFinite
    <2> HIDE DEF S
    <2> QED BY <2>1, AscendingLists
  <1>3. n \in Nat /\ DOMAIN sorted = 1..n
    BY <1>2
  <1> HIDE DEF sorted
  <1>4. BatchSize \in Nat \ {0}
    BY DiscoveryAssumption
  <1>5. count \in Nat
    <2>1. CASE n = 0
      <3>1. n + BatchSize - 1 = BatchSize - 1
        BY <1>4, <2>1
      <3>2. (BatchSize - 1) \div BatchSize \in Nat
        <4>1. BatchSize - 1 \in Nat
          BY <1>4
        <4> QED BY <4>1, BatchCounted
      <3> QED BY <3>1, <3>2
    <2>2. CASE n # 0
      <3>1. n - 1 \in Nat /\ (n - 1) + BatchSize = n + BatchSize - 1
        BY <1>3, <1>4, <2>2
      <3>2. ((n - 1) + BatchSize) \div BatchSize \in Nat
        BY <3>1, BatchCounted
      <3> QED BY <3>1, <3>2
    <2> QED BY <2>1, <2>2
  <1>6. ASSUME NEW a \in A PROVE \E i \in 1..count : a \in Batch(i)
    <2>1. a.token \in S
      OBVIOUS
    <2>2. PICK k \in 1..n : a.token = sorted[k]
      BY <1>2, <1>3, <2>1 DEF Range
    <2> DEFINE i == (k - 1) \div BatchSize + 1
    <2>3. k - 1 \in Nat /\ n - 1 \in Nat /\ k - 1 <= n - 1 /\ (n - 1) + BatchSize = n + BatchSize - 1
      BY <1>3, <1>4
    <2>4. /\ (k - 1) \div BatchSize \in Nat
          /\ (k - 1) \div BatchSize + 1 <= ((n - 1) + BatchSize) \div BatchSize
      BY <2>3, BatchCounted
    <2>5. i \in 1..count /\ (k - 1) \div BatchSize = i - 1
      <3>1. (k - 1) \div BatchSize + 1 <= count
        BY <2>3, <2>4
      <3> HIDE DEF count
      <3> QED BY <1>5, <2>4, <3>1
    <2> QED BY <2>2, <2>5
  <1>7. \A i \in 1..count : Batch(i) \subseteq A
    OBVIOUS
  <1> HIDE DEF count, n, Batch
  <1>8. bs \in [1..count -> Jobs]
    BY <1>7 DEF Jobs
  <1>9. bs \in Seq(Jobs) /\ DOMAIN bs = 1..count
    BY <1>5, <1>8
  <1>10. \A i \in 1..count : bs[i].from = from /\ bs[i].to = to /\ bs[i].addresses = Batch(i)
    OBVIOUS
  <1> HIDE DEF bs
  <1>11. \A j \in Range(bs) : \E i \in 1..count : j = bs[i]
    BY <1>9 DEF Range
  <1>12. \A i \in 1..count : bs[i] \in Range(bs)
    BY <1>9 DEF Range
  <1>13. \A j \in Range(bs) : j.from = from /\ j.to = to /\ j.addresses \subseteq A
    BY <1>7, <1>10, <1>11
  <1>14. Queried(bs, A)
    BY <1>6, <1>10, <1>12 DEF Queried
  <1> QED BY <1>1, <1>9, <1>13, <1>14

\* Every contract of the tokens is queried, contracts of one kind together.
LEMMA KindsCover ==
  ASSUME NEW from \in Nat, NEW to \in Nat, NEW ts \in SUBSET Tokens
  PROVE  /\ ForEachKind(from, to, ts) \in Seq(Jobs)
         /\ \A j \in Range(ForEachKind(from, to, ts)) :
              /\ j.from = from /\ j.to = to
              /\ \E k \in EmitterKinds : j.addresses \subseteq {Emitter(k, t) : t \in ts}
         /\ \A k \in EmitterKinds, t \in ts :
              \E j \in Range(ForEachKind(from, to, ts)) : Emitter(k, t) \in j.addresses
  <1> DEFINE A(k) == {Emitter(Kinds[k], t) : t \in ts}
             ss == [k \in 1..3 |-> Batches(from, to, A(k))]
  <1>1. \A k \in 1..3 : Kinds[k] \in EmitterKinds
    BY DEF Kinds, EmitterKinds
  <1>2. \A kind \in EmitterKinds : \E k \in 1..3 : Kinds[k] = kind
    <2>1. 1 \in 1..3 /\ 2 \in 1..3 /\ 3 \in 1..3
      OBVIOUS
    <2> QED BY <2>1 DEF Kinds, EmitterKinds
  <1>3. ASSUME NEW k \in 1..3
        PROVE  A(k) \in SUBSET Addresses /\ IsFiniteSet(A(k))
    <2>1. \A t \in ts : Emitter(Kinds[k], t) \in Addresses
      BY <1>1 DEF Emitter, Addresses
    <2>2. IsFiniteSet(ts)
      BY DiscoveryAssumption, FS_Subset
    <2> DEFINE f == [t \in ts |-> Emitter(Kinds[k], t)]
    <2>3. f \in Surjection(ts, A(k))
      BY DEF Surjection
    <2>4. IsFiniteSet(A(k))
      BY <2>2, <2>3, FS_Surjection
    <2> QED BY <2>1, <2>4
  <1>4. ASSUME NEW k \in 1..3
        PROVE  /\ ss[k] \in Seq(Jobs)
               /\ \A j \in Range(ss[k]) : j.from = from /\ j.to = to /\ j.addresses \subseteq A(k)
               /\ Queried(ss[k], A(k))
    <2>1. ss[k] = Batches(from, to, A(k))
      OBVIOUS
    <2>2. A(k) \in SUBSET Addresses /\ IsFiniteSet(A(k))
      BY <1>3
    <2> DEFINE Ak == A(k)
    <2>3. Ak \in SUBSET Addresses /\ IsFiniteSet(Ak)
      BY <2>2
    <2> HIDE DEF A, ss, Ak
    <2>4. /\ Batches(from, to, Ak) \in Seq(Jobs)
          /\ \A j \in Range(Batches(from, to, Ak)) :
               j.from = from /\ j.to = to /\ j.addresses \subseteq Ak
          /\ Queried(Batches(from, to, Ak), Ak)
      BY <2>3, BatchesCover
    <2> QED BY <2>1, <2>4 DEF Ak
  <1>5. ForEachKind(from, to, ts) = FlattenSeq(ss)
    BY DEF ForEachKind
  <1>6. ss \in Seq(Seq(Jobs)) /\ Len(ss) = 3
    <2>1. ss = [k \in 1..3 |-> ss[k]]
      OBVIOUS
    <2> HIDE DEF ss
    <2>2. ss \in [1..3 -> Seq(Jobs)]
      BY <1>4, <2>1
    <2> DEFINE T == Seq(Jobs)
    <2>3. ss \in [1..3 -> T] /\ 3 \in Nat
      BY <2>2
    <2> HIDE DEF T
    <2>4. ss \in Seq(T) /\ Len(ss) = 3
      BY <2>3, FunctionIsSeq
    <2> QED BY <2>4 DEF T
  <1> HIDE DEF ss
  <1>7. /\ FlattenSeq(ss) \in Seq(Jobs)
        /\ \A j : j \in Range(FlattenSeq(ss)) <=> \E k \in 1..3 : j \in Range(ss[k])
    BY <1>6, RangeOfFlatten
  <1>8. \A j \in Range(FlattenSeq(ss)) :
          /\ j.from = from /\ j.to = to
          /\ \E k \in EmitterKinds : j.addresses \subseteq {Emitter(k, t) : t \in ts}
    <2> SUFFICES ASSUME NEW j \in Range(FlattenSeq(ss))
                 PROVE  /\ j.from = from /\ j.to = to
                        /\ \E k \in EmitterKinds : j.addresses \subseteq {Emitter(k, t) : t \in ts}
      OBVIOUS
    <2>1. PICK k \in 1..3 : j \in Range(ss[k])
      BY <1>7
    <2>2. j.from = from /\ j.to = to /\ j.addresses \subseteq A(k)
      BY <1>4, <2>1
    <2> QED BY <1>1, <2>2
  <1>9. ASSUME NEW kind \in EmitterKinds, NEW t \in ts
        PROVE  \E j \in Range(FlattenSeq(ss)) : Emitter(kind, t) \in j.addresses
    <2>1. PICK k \in 1..3 : Kinds[k] = kind
      BY <1>2
    <2>2. Emitter(kind, t) \in A(k)
      BY <2>1
    <2> HIDE DEF A
    <2>3. PICK j \in Range(ss[k]) : Emitter(kind, t) \in j.addresses
      BY <1>4, <2>2 DEF Queried
    <2> QED BY <1>7, <2>3
  <1> QED BY <1>5, <1>7, <1>8, <1>9

\* A query of the emitters: its contracts are of one kind, and belong to known tokens or to
\* tokens launched in the block from which it asks.
Justified(j, logs) ==
  /\ From <= j.from /\ j.to = To
  /\ \E k \in EmitterKinds : \A a \in j.addresses : a.kind = k
  /\ \A a \in j.addresses :
       a.token \in known \/ \E l \in Launches(logs) : l.block = j.from /\ l.emitter.token = a.token

\* The contracts of token t are queried from a block on.
AskedFrom(js, from, t) ==
  \A k \in EmitterKinds :
    \E j \in Range(js) : j.from = from /\ j.to = To /\ Emitter(k, t) \in j.addresses

\* The queries for the tokens ts from a block on.
LEMMA KindsAsked ==
  ASSUME NEW from \in Nat, NEW ts \in SUBSET Tokens
  PROVE  /\ ForEachKind(from, To, ts) \in Seq(Jobs)
         /\ \A j \in Range(ForEachKind(from, To, ts)) :
              /\ j.from = from /\ j.to = To
              /\ \E k \in EmitterKinds : \A a \in j.addresses : a.kind = k
              /\ \A a \in j.addresses : a.token \in ts
         /\ \A t \in ts : AskedFrom(ForEachKind(from, To, ts), from, t)
  <1> DEFINE js == ForEachKind(from, To, ts)
  <1>0. To \in Nat
    BY DiscoveryAssumption
  <1>1. /\ js \in Seq(Jobs)
        /\ \A j \in Range(js) : /\ j.from = from /\ j.to = To
                                /\ \E k \in EmitterKinds : j.addresses \subseteq {Emitter(k, t) : t \in ts}
        /\ \A k \in EmitterKinds, t \in ts : \E j \in Range(js) : Emitter(k, t) \in j.addresses
    BY <1>0, KindsCover
  <1> HIDE DEF js
  <1>2. \A k, t : Emitter(k, t).kind = k /\ Emitter(k, t).token = t
    BY DEF Emitter
  <1>3. ASSUME NEW j \in Range(js)
        PROVE  /\ j.from = from /\ j.to = To
               /\ \E k \in EmitterKinds : \A a \in j.addresses : a.kind = k
               /\ \A a \in j.addresses : a.token \in ts
    <2>1. PICK k \in EmitterKinds : j.addresses \subseteq {Emitter(k, t) : t \in ts}
      BY <1>1
    <2>2. \A a \in j.addresses : \E t \in ts : a = Emitter(k, t)
      BY <2>1
    <2>3. \A a \in j.addresses : a.kind = k /\ a.token \in ts
      BY <1>2, <2>2
    <2> QED BY <1>1, <2>3
  <1>4. \A t \in ts : AskedFrom(js, from, t)
    BY <1>1 DEF AskedFrom
  <1> QED BY <1>1, <1>3, <1>4 DEF js

\* The queries that follow the factory's logs: for the tokens launched in each block from
\* that block on, and for the known tokens.
LEMMA RefetchCovers ==
  ASSUME known \in SUBSET Tokens, NEW logs, IsFiniteSet(logs),
         \A log \in logs : IsLog(log) /\ From <= log.block /\ log.block <= To
  PROVE  /\ AfterFactory(logs) \in Seq(Jobs)
         /\ \A j \in Range(AfterFactory(logs)) : Justified(j, logs)
         /\ \A t \in known : AskedFrom(AfterFactory(logs), From, t)
         /\ \A l \in Launches(logs) : AskedFrom(AfterFactory(logs), l.block, l.emitter.token)
  <1> DEFINE S == {log.block : log \in Launches(logs)}
             blocks == Ascending(S)
             n == Len(blocks)
             Fresh(b) == {log.emitter.token : log \in {x \in Launches(logs) : x.block = b}}
             Part(i) == ForEachKind(blocks[i], To, Fresh(blocks[i]))
             ss == [i \in 1..n |-> Part(i)]
             js1 == FlattenSeq(ss)
             js2 == ForEachKind(From, To, known)
  <1>1. AfterFactory(logs) = js1 \o js2
    BY DEF AfterFactory
  <1>2. From \in Nat /\ To \in Nat
    BY DiscoveryAssumption
  <1>3. \A l \in Launches(logs) : /\ l \in logs /\ l.block \in Nat /\ From <= l.block
                                  /\ l.emitter.token \in Tokens
    <2> SUFFICES ASSUME NEW l \in Launches(logs)
                 PROVE  l \in logs /\ l.block \in Nat /\ From <= l.block /\ l.emitter.token \in Tokens
      OBVIOUS
    <2>1. l \in logs /\ IsLaunch(l) /\ IsLog(l) /\ From <= l.block
      BY DEF Launches
    <2>2. l.emitter.token \in Tokens \cup {0}
      BY <2>1 DEF IsLog
    <2>3. l.block \in Nat /\ l.emitter.token # 0
      BY <2>1 DEF IsLog, IsLaunch
    <2> QED BY <2>1, <2>2, <2>3
  <1>4. S \in SUBSET Nat /\ IsFiniteSet(S)
    <2>1. IsFiniteSet(Launches(logs))
      BY FS_Subset DEF Launches
    <2> DEFINE f == [l \in Launches(logs) |-> l.block]
    <2>2. f \in Surjection(Launches(logs), S)
      BY DEF Surjection
    <2>3. IsFiniteSet(S)
      BY <2>1, <2>2, FS_Surjection
    <2> QED BY <1>3, <2>3
  <1>5. \A b : b \in S <=> \E l \in Launches(logs) : b = l.block
    OBVIOUS
  <1> HIDE DEF S
  <1>6. blocks \in Seq(S) /\ Range(blocks) = S
    BY <1>4, AscendingLists
  <1> HIDE DEF blocks
  <1>7. n \in Nat /\ DOMAIN blocks = 1..n /\ \A i \in 1..n : blocks[i] \in S /\ blocks[i] \in Nat
    <2>1. n \in Nat /\ DOMAIN blocks = 1..n
      BY <1>6, LenProperties
    <2>2. \A i \in 1..n : blocks[i] \in S
      BY <1>6, ElementOfSeq
    <2> QED BY <1>4, <2>1, <2>2
  <1> HIDE DEF n
  <1>8. \A b \in Nat : Fresh(b) \in SUBSET Tokens
    BY <1>3
  <1>9. \A b, t : t \in Fresh(b) <=> \E l \in Launches(logs) : l.block = b /\ l.emitter.token = t
    OBVIOUS
  <1> HIDE DEF Fresh
  <1>10. ASSUME NEW i \in 1..n
         PROVE  /\ Part(i) \in Seq(Jobs)
                /\ \A j \in Range(Part(i)) : Justified(j, logs)
                /\ \A t \in Fresh(blocks[i]) : AskedFrom(Part(i), blocks[i], t)
    <2> DEFINE b == blocks[i]
    <2>1. b \in S /\ b \in Nat /\ Fresh(b) \in SUBSET Tokens /\ From <= b
      BY <1>3, <1>5, <1>7, <1>8
    <2> HIDE DEF b
    <2>2. /\ ForEachKind(b, To, Fresh(b)) \in Seq(Jobs)
          /\ \A j \in Range(ForEachKind(b, To, Fresh(b))) :
              /\ j.from = b /\ j.to = To
              /\ \E k \in EmitterKinds : \A a \in j.addresses : a.kind = k
              /\ \A a \in j.addresses : a.token \in Fresh(b)
          /\ \A t \in Fresh(b) : AskedFrom(ForEachKind(b, To, Fresh(b)), b, t)
      BY <2>1, KindsAsked
    <2>3. \A j \in Range(ForEachKind(b, To, Fresh(b))) : Justified(j, logs)
      BY <1>9, <2>1, <2>2 DEF Justified
    <2> QED BY <2>2, <2>3 DEF b
  <1> HIDE DEF Part
  <1>11. /\ js1 \in Seq(Jobs)
         /\ \A j : j \in Range(js1) <=> \E i \in 1..n : j \in Range(Part(i))
    <2> DEFINE T == Seq(Jobs)
    <2>1. \A i \in 1..n : Part(i) \in T
      BY <1>10
    <2> HIDE DEF T
    <2>2. ss \in [1..n -> T]
      BY <2>1
    <2>3. ss \in Seq(T) /\ Len(ss) = n
      BY <1>7, <2>2, FunctionIsSeq
    <2>4. \A i \in 1..n : ss[i] = Part(i)
      OBVIOUS
    <2> HIDE DEF ss
    <2>5. /\ js1 \in Seq(Jobs)
          /\ \A j : j \in Range(js1) <=> \E i \in 1..Len(ss) : j \in Range(ss[i])
      BY <2>3, RangeOfFlatten DEF T
    <2> QED BY <2>3, <2>4, <2>5
  <1>12. /\ js2 \in Seq(Jobs)
         /\ \A j \in Range(js2) : Justified(j, logs)
         /\ \A t \in known : AskedFrom(js2, From, t)
    <2>1. /\ js2 \in Seq(Jobs)
          /\ \A j \in Range(js2) :
              /\ j.from = From /\ j.to = To
              /\ \E k \in EmitterKinds : \A a \in j.addresses : a.kind = k
              /\ \A a \in j.addresses : a.token \in known
          /\ \A t \in known : AskedFrom(js2, From, t)
      BY <1>2, KindsAsked
    <2>2. \A j \in Range(js2) : Justified(j, logs)
      BY <1>2, <2>1 DEF Justified
    <2> QED BY <2>1, <2>2
  <1> HIDE DEF js1, js2
  <1>13. /\ js1 \o js2 \in Seq(Jobs)
         /\ \A j : j \in Range(js1 \o js2) <=> j \in Range(js1) \/ j \in Range(js2)
    BY <1>11, <1>12, RangeOfConcat
  <1>14. \A j \in Range(js1 \o js2) : Justified(j, logs)
    BY <1>10, <1>11, <1>12, <1>13
  <1>15. \A t \in known : AskedFrom(js1 \o js2, From, t)
    BY <1>12, <1>13 DEF AskedFrom
  <1>16. ASSUME NEW l \in Launches(logs) PROVE AskedFrom(js1 \o js2, l.block, l.emitter.token)
    <2>1. PICK i \in 1..n : blocks[i] = l.block
      BY <1>5, <1>6, <1>7 DEF Range
    <2>2. l.emitter.token \in Fresh(blocks[i])
      BY <1>9, <2>1
    <2>3. AskedFrom(Part(i), blocks[i], l.emitter.token)
      BY <1>10, <2>2
    <2>4. \A j \in Range(Part(i)) : j \in Range(js1 \o js2)
      BY <1>11, <1>13
    <2> QED BY <2>1, <2>3, <2>4 DEF AskedFrom
  <1> QED BY <1>1, <1>13, <1>14, <1>15, <1>16

\* The logs of the factory in the range.
FactoryLogs == {log \in fork : From <= log.block /\ log.block <= To /\ log.emitter.kind = "factory"}

\* The log is still to be fetched by one of the queries.
Pending(js, log) == \E j \in Range(js) : log \in Matching(j, fork)

\* With the factory's logs at hand, the queries that follow fetch what else is wanted.
LEMMA RefetchIsWanted ==
  ASSUME known \in SUBSET Tokens, fork \in Forks
  PROVE  \A log : log \in FactoryLogs \/ Pending(AfterFactory(FactoryLogs), log) <=> log \in Wanted
  <1> DEFINE js == AfterFactory(FactoryLogs)
  <1>1. /\ IsFiniteSet(fork) /\ \A log \in fork : IsLog(log)
        /\ FactoryLogs \in SUBSET fork
    BY ChainAssumption DEF FactoryLogs
  <1>2. IsFiniteSet(FactoryLogs)
    BY <1>1, FS_Subset
  <1>3. \A log \in FactoryLogs : IsLog(log) /\ From <= log.block /\ log.block <= To
    BY <1>1 DEF FactoryLogs
  <1>4. /\ js \in Seq(Jobs)
        /\ \A j \in Range(js) : Justified(j, FactoryLogs)
        /\ \A t \in known : AskedFrom(js, From, t)
        /\ \A l \in Launches(FactoryLogs) : AskedFrom(js, l.block, l.emitter.token)
    BY <1>2, <1>3, RefetchCovers
  <1> HIDE DEF js
  <1>5. From \in Nat /\ To \in Nat
    BY DiscoveryAssumption
  <1>6. \A log \in fork : log.block \in Nat /\ (log.emitter.kind = "factory" \/
          (log.emitter.kind \in EmitterKinds /\ log.emitter = Emitter(log.emitter.kind, log.emitter.token)))
    <2> SUFFICES ASSUME NEW log \in fork
                 PROVE  log.block \in Nat /\ (log.emitter.kind = "factory" \/
                   (log.emitter.kind \in EmitterKinds /\ log.emitter = Emitter(log.emitter.kind, log.emitter.token)))
      OBVIOUS
    <2>1. /\ log.block \in Nat
          /\ \/ log.emitter \in [kind : {"factory"}, token : Tokens \cup {0}]
             \/ log.emitter \in [kind : EmitterKinds, token : Tokens]
      BY <1>1 DEF IsLog, EmitterKinds
    <2> DEFINE e == log.emitter
    <2> HIDE DEF e
    <2>2. e \in [kind : {"factory"}, token : Tokens \cup {0}] => e.kind = "factory"
      OBVIOUS
    <2>3. e \in [kind : EmitterKinds, token : Tokens] =>
            e.kind \in EmitterKinds /\ e = [kind |-> e.kind, token |-> e.token]
      OBVIOUS
    <2> QED BY <2>1, <2>2, <2>3 DEF Emitter, e
  <1>7. ASSUME NEW log, log \in FactoryLogs PROVE log \in Wanted
    BY <1>7 DEF FactoryLogs, Wanted
  <1>8. ASSUME NEW log, Pending(js, log) PROVE log \in Wanted
    <2>1. PICK j \in Range(js) : log \in Matching(j, fork)
      BY <1>8 DEF Pending
    <2>2. /\ log \in fork /\ j.from <= log.block /\ log.block <= j.to
          /\ AddressOf(log) \in j.addresses
      BY <2>1 DEF Matching
    <2>3. Justified(j, FactoryLogs)
      BY <1>4, <2>1
    <2>4. PICK k \in EmitterKinds : \A a \in j.addresses : a.kind = k
      BY <2>3 DEF Justified
    <2>5. AddressOf(log).kind = k /\ k # "factory"
      BY <2>2, <2>4 DEF EmitterKinds
    <2>6. AddressOf(log) = log.emitter
      BY <2>5 DEF AddressOf, Factory
    <2>7. \/ log.emitter.token \in known
          \/ \E l \in Launches(FactoryLogs) : l.block = j.from /\ l.emitter.token = log.emitter.token
      BY <2>2, <2>3, <2>6 DEF Justified
    <2>8. From <= j.from /\ j.to = To
      BY <2>3 DEF Justified
    <2>9. j.from \in Nat
      <3>1. Range(js) \subseteq Jobs
        BY <1>4, RangeFinite
      <3> QED BY <2>1, <3>1 DEF Jobs
    <2>10. From <= log.block /\ log.block <= To
      BY <1>5, <1>6, <2>2, <2>8, <2>9
    <2>11. CASE log.emitter.token \in known
      BY <2>2, <2>10, <2>11 DEF Wanted
    <2>12. CASE \E l \in Launches(FactoryLogs) : l.block = j.from /\ l.emitter.token = log.emitter.token
      <3>1. PICK l \in Launches(FactoryLogs) : l.block = j.from /\ l.emitter.token = log.emitter.token
        BY <2>12
      <3>2. l \in Launches(fork) /\ From <= l.block /\ l.block <= log.block
        BY <1>1, <2>2, <2>8, <3>1 DEF Launches
      <3> QED BY <2>2, <2>10, <3>1, <3>2 DEF Wanted
    <2> QED BY <2>7, <2>11, <2>12
  <1>9. ASSUME NEW log \in Wanted PROVE log \in FactoryLogs \/ Pending(js, log)
    <2>1. log \in fork /\ From <= log.block /\ log.block <= To
      BY DEF Wanted
    <2>2. CASE log.emitter.kind = "factory"
      BY <2>1, <2>2 DEF FactoryLogs
    <2>3. CASE log.emitter.kind # "factory"
      <3> DEFINE k == log.emitter.kind
                 t == log.emitter.token
      <3>1. k \in EmitterKinds /\ log.emitter = Emitter(k, t) /\ AddressOf(log) = Emitter(k, t)
        BY <1>6, <2>1, <2>3 DEF AddressOf
      <3>2. \/ t \in known
            \/ \E l \in Launches(fork) : l.emitter.token = t /\ From <= l.block /\ l.block <= log.block
        BY <2>3 DEF Wanted
      <3> HIDE DEF k, t
      <3>3. ASSUME NEW from, from <= log.block, AskedFrom(js, from, t) PROVE Pending(js, log)
        <4>1. PICK j \in Range(js) : j.from = from /\ j.to = To /\ Emitter(k, t) \in j.addresses
          BY <3>1, <3>3 DEF AskedFrom
        <4>2. log \in Matching(j, fork)
          BY <2>1, <3>1, <3>3, <4>1 DEF Matching
        <4> QED BY <4>1, <4>2 DEF Pending
      <3>4. CASE t \in known
        BY <1>4, <2>1, <3>3, <3>4
      <3>5. CASE \E l \in Launches(fork) : l.emitter.token = t /\ From <= l.block /\ l.block <= log.block
        <4>1. PICK l \in Launches(fork) : l.emitter.token = t /\ From <= l.block /\ l.block <= log.block
          BY <3>5
        <4>2. l \in fork /\ IsLaunch(l) /\ l.block \in Nat /\ log.block \in Nat
          BY <1>6, <2>1, <4>1 DEF Launches
        <4>3. l.block <= To /\ l.emitter.kind = "factory"
          BY <1>5, <2>1, <4>1, <4>2 DEF IsLaunch
        <4>4. l \in Launches(FactoryLogs)
          BY <4>1, <4>2, <4>3 DEF Launches, FactoryLogs
        <4> QED BY <1>4, <3>3, <4>1, <4>4
      <3> QED BY <3>2, <3>4, <3>5
    <2> QED BY <2>2, <2>3
  <1> QED BY <1>7, <1>8, <1>9 DEF js

-----------------------------------------------------------------------------
(* The inductive invariant.  A query asks for contracts of one kind within *)
(* the range of the pass.  While the chain stays as it is, what was        *)
(* received and what the queries still to make will bring are together     *)
(* what the stage is after: the factory's logs first, all the logs wanted  *)
(* afterwards.                                                             *)

Served == {log \in UNION Forks : From <= log.block /\ log.block <= To}

InRange(j) ==
  /\ From <= j.from /\ j.to <= To
  /\ \E k \in EmitterKinds \cup {"factory"} : \A a \in j.addresses : a.kind = k

Outstanding(js) == {log \in fork : Pending(js, log)}

Typed ==
  /\ fork \in Forks /\ known \in SUBSET Tokens
  /\ jobs \in Seq(Jobs) /\ \A j \in Range(jobs) : InRange(j)
  /\ found \in Seq(Served)
  /\ stage = "idle" => found = <<>>
  /\ stage \in {"idle", "factory", "emitters"} => reply.then # "capacity"

Goal == IF stage = "factory" THEN FactoryLogs ELSE Wanted

Accounted ==
  stage \in {"factory", "emitters"} /\ ~moved => Range(found) \cup Outstanding(jobs) = Goal

IInv == Typed /\ Accounted /\ LogsOnceInOrder /\ SplitsUntilAccepted

\* What a chain serves to a query.
LEMMA MatchingLogs ==
  ASSUME fork \in Forks, NEW j
  PROVE  /\ IsFiniteSet(Matching(j, fork)) /\ Matching(j, fork) \subseteq fork
         /\ \A log \in Matching(j, fork) : IsLog(log)
         /\ Unambiguous(Matching(j, fork))
  <1>1. /\ IsFiniteSet(fork) /\ \A log \in fork : IsLog(log)
        /\ \A a, b \in fork : a.block = b.block /\ a.index = b.index => a = b
    BY ChainAssumption
  <1>2. Matching(j, fork) \subseteq fork
    BY DEF Matching
  <1>3. IsFiniteSet(Matching(j, fork))
    BY <1>1, <1>2, FS_Subset
  <1> QED BY <1>1, <1>2, <1>3 DEF Unambiguous

\* A query within the range brings logs of the range.
LEMMA MatchingServed ==
  ASSUME fork \in Forks, NEW j \in Jobs, InRange(j)
  PROVE  Matching(j, fork) \subseteq Served
  <1> SUFFICES ASSUME NEW log \in Matching(j, fork) PROVE log \in Served
    OBVIOUS
  <1>1. log \in fork /\ j.from <= log.block /\ log.block <= j.to
    BY DEF Matching
  <1>2. log.block \in Nat
    BY <1>1, ChainAssumption DEF IsLog
  <1>3. j.from \in Nat /\ j.to \in Nat /\ From \in Nat /\ To \in Nat
    BY DiscoveryAssumption DEF Jobs
  <1>4. From <= j.from /\ j.to <= To
    BY DEF InRange
  <1>5. From <= log.block /\ log.block <= To
    BY <1>1, <1>2, <1>3, <1>4
  <1>6. log \in UNION Forks
    BY <1>1
  <1> QED BY <1>5, <1>6 DEF Served

\* The logs served are logs.
LEMMA ServedLogs ==
  \A log \in Served : IsLog(log) /\ From <= log.block /\ log.block <= To
  BY ChainAssumption DEF Served

\* The two halves of a query ask for what the query asked for.
LEMMA HalvesCover ==
  ASSUME fork \in Forks, NEW j \in Jobs, InRange(j), j.from < j.to
  PROVE  /\ Halves(j) \in Seq(Jobs)
         /\ \A h \in Range(Halves(j)) : InRange(h) /\ h.addresses = j.addresses
         /\ \A log : log \in Matching(j, fork) <=> Pending(Halves(j), log)
  <1> DEFINE m == j.from + (j.to - j.from) \div 2
             a == [j EXCEPT !.to = m]
             b == [j EXCEPT !.from = m + 1]
  <1>1. j.from \in Nat /\ j.to \in Nat /\ j.addresses \in SUBSET Addresses
    BY DEF Jobs
  <1>2. m \in Nat /\ j.from <= m /\ m < j.to
    <2> DEFINE d == j.to - j.from
    <2>1. d \in Nat /\ d > 0 /\ j.to = j.from + d
      BY <1>1
    <2> HIDE DEF d
    <2>2. d \div 2 \in Nat /\ d \div 2 < d
      BY <2>1
    <2>3. m = j.from + d \div 2
      BY DEF d
    <2> HIDE DEF m
    <2> QED BY <1>1, <2>1, <2>2, <2>3
  <1>3. Halves(j) = <<a, b>>
    BY DEF Halves
  <1> HIDE DEF m
  <1>4. /\ a \in Jobs /\ a.from = j.from /\ a.to = m /\ a.addresses = j.addresses
        /\ b \in Jobs /\ b.from = m + 1 /\ b.to = j.to /\ b.addresses = j.addresses
    BY <1>1, <1>2 DEF Jobs
  <1> HIDE DEF a, b
  <1>5. Halves(j) \in Seq(Jobs) /\ \A h : h \in Range(Halves(j)) <=> h = a \/ h = b
    <2>1. <<a, b>> \in Seq(Jobs) /\ DOMAIN <<a, b>> = 1..2
      BY <1>4
    <2>2. \A i : i \in 1..2 <=> i = 1 \/ i = 2
      OBVIOUS
    <2>3. <<a, b>>[1] = a /\ <<a, b>>[2] = b
      OBVIOUS
    <2>4. \A h : h \in Range(<<a, b>>) <=> \E i \in 1..2 : h = <<a, b>>[i]
      BY <2>1, Zenon DEF Range
    <2> QED BY <1>3, <2>1, <2>2, <2>3, <2>4
  <1>6. InRange(a) /\ InRange(b)
    <2>1. From <= j.from /\ j.to <= To /\ From \in Nat /\ To \in Nat
      BY DiscoveryAssumption DEF InRange
    <2>2. From <= a.from /\ a.to <= To /\ From <= b.from /\ b.to <= To
      BY <1>1, <1>2, <1>4, <2>1
    <2> QED BY <1>4, <2>2 DEF InRange
  <1>7. ASSUME NEW log
        PROVE  log \in Matching(j, fork) <=> log \in Matching(a, fork) \/ log \in Matching(b, fork)
    <2>1. log \in fork => log.block \in Nat
      BY ChainAssumption DEF IsLog
    <2>2. log \in fork => (j.from <= log.block /\ log.block <= j.to <=>
            (a.from <= log.block /\ log.block <= a.to) \/ (b.from <= log.block /\ log.block <= b.to))
      BY <1>1, <1>2, <1>4, <2>1
    <2> QED BY <1>4, <2>2 DEF Matching
  <1>8. \A log : log \in Matching(j, fork) <=> Pending(Halves(j), log)
    BY <1>5, <1>7 DEF Pending
  <1> QED BY <1>4, <1>5, <1>6, <1>8

\* The queries for the factory ask for the factory's logs.
LEMMA FactoryQueries ==
  ASSUME fork \in Forks
  PROVE  LET js == Batches(From, To, {Factory})
         IN /\ js \in Seq(Jobs) /\ \A j \in Range(js) : InRange(j)
            /\ Outstanding(js) = FactoryLogs
  <1> DEFINE js == Batches(From, To, {Factory})
  <1>1. From \in Nat /\ To \in Nat
    BY DiscoveryAssumption
  <1>2. {Factory} \in SUBSET Addresses /\ IsFiniteSet({Factory})
    BY FS_Singleton DEF Addresses
  <1>3. /\ js \in Seq(Jobs)
        /\ \A j \in Range(js) : j.from = From /\ j.to = To /\ j.addresses \subseteq {Factory}
        /\ Queried(js, {Factory})
    BY <1>1, <1>2, BatchesCover
  <1> HIDE DEF js
  <1>4. Factory.kind = "factory"
    BY DEF Factory
  <1>5. ASSUME NEW j \in Range(js) PROVE InRange(j)
    <2>1. \A a \in j.addresses : a.kind = "factory"
      BY <1>3, <1>4
    <2> QED BY <1>1, <1>3, <2>1 DEF InRange
  <1>6. \A log : AddressOf(log) = Factory <=> log.emitter.kind = "factory"
    BY <1>4 DEF AddressOf
  <1>7. ASSUME NEW log \in fork PROVE Pending(js, log) <=> log \in FactoryLogs
    <2>1. ASSUME Pending(js, log) PROVE log \in FactoryLogs
      <3>1. PICK j \in Range(js) : log \in Matching(j, fork)
        BY <2>1 DEF Pending
      <3> QED BY <1>3, <1>6, <3>1 DEF Matching, FactoryLogs
    <2>2. ASSUME log \in FactoryLogs PROVE Pending(js, log)
      <3>1. PICK j \in Range(js) : Factory \in j.addresses
        BY <1>3 DEF Queried
      <3>2. log \in Matching(j, fork)
        BY <1>3, <1>6, <2>2, <3>1 DEF Matching, FactoryLogs
      <3> QED BY <3>1, <3>2 DEF Pending
    <2> QED BY <2>1, <2>2
  <1>8. Outstanding(js) = FactoryLogs
    BY <1>7 DEF Outstanding, FactoryLogs
  <1> QED BY <1>3, <1>5, <1>8 DEF js

\* A sequence of logs served is finite, and its members are served.
LEMMA ReceivedLogs ==
  ASSUME NEW logs \in Seq(Served)
  PROVE  /\ IsFiniteSet(Range(logs)) /\ Range(logs) \subseteq Served
         /\ \A log \in Range(logs) : IsLog(log) /\ From <= log.block /\ log.block <= To
  <1>1. IsFiniteSet(Range(logs)) /\ Range(logs) \subseteq Served
    BY RangeFinite
  <1> QED BY <1>1, ServedLogs

LEMMA DiscoveryInit == Init => IInv
  <1> SUFFICES ASSUME Init PROVE IInv
    OBVIOUS
  <1> USE DEF Init
  <1>1. \A j : j \notin Range(<<>>)
    BY DEF Range
  <1>2. Typed
    BY <1>1 DEF Typed, NoReply
  <1>3. Accounted /\ LogsOnceInOrder /\ SplitsUntilAccepted
    BY DEF Accounted, LogsOnceInOrder, DiscoversExactly, OnePerPosition, SplitsUntilAccepted
  <1> QED BY <1>2, <1>3 DEF IInv

\* A pass that goes on promises nothing yet.
LEMMA InPassOnly ==
  ASSUME stage' \in {"idle", "factory", "emitters"}
  PROVE  LogsOnceInOrder' /\ SplitsUntilAccepted'
  BY DEF LogsOnceInOrder, DiscoversExactly, OnePerPosition, SplitsUntilAccepted

\* A pass that fails for another reason than capacity, or for the capacity of another error.
LEMMA FailedOtherwise ==
  ASSUME stage' = "failed", reply'.then # "capacity" \/ reply'.error # TooLarge
  PROVE  Accounted' /\ LogsOnceInOrder' /\ SplitsUntilAccepted'
  BY DEF Accounted, LogsOnceInOrder, DiscoversExactly, OnePerPosition, SplitsUntilAccepted

LEMMA DiscoverStep ==
  ASSUME IInv, Discover
  PROVE  IInv'
  <1> USE DEF Discover
  <1> DEFINE js == Batches(From, To, {Factory})
  <1>1. Typed
    BY DEF IInv
  <1>2. js \in Seq(Jobs) /\ (\A j \in Range(js) : InRange(j)) /\ Outstanding(js) = FactoryLogs
    BY <1>1, FactoryQueries DEF Typed
  <1>3. jobs' = js /\ fork' = fork /\ found' = <<>> /\ stage' = "factory"
    BY <1>1 DEF Typed
  <1> HIDE DEF js
  <1>4. Typed'
    BY <1>1, <1>2, <1>3 DEF Typed
  <1>5. Accounted'
    <2>1. Outstanding(jobs)' = Outstanding(js)
      BY <1>3 DEF Outstanding, Pending
    <2>2. Goal' = FactoryLogs /\ Range(found') = {}
      BY <1>3 DEF Goal, FactoryLogs, Range
    <2> QED BY <1>2, <2>1, <2>2 DEF Accounted
  <1> QED BY <1>3, <1>4, <1>5, InPassOnly DEF IInv

\* An answer moves logs from the outstanding to the received.
LEMMA AnswerMoves ==
  ASSUME Typed, jobs # <<>>
  PROVE  LET logs == found \o InOrder(Matching(Head(jobs), fork))
         IN /\ logs \in Seq(Served)
            /\ Tail(jobs) \in Seq(Jobs) /\ \A j \in Range(Tail(jobs)) : InRange(j)
            /\ Range(logs) \cup Outstanding(Tail(jobs)) = Range(found) \cup Outstanding(jobs)
  <1> DEFINE M == Matching(Head(jobs), fork)
             m == InOrder(M)
             logs == found \o m
  <1>1. /\ Head(jobs) \in Jobs /\ Tail(jobs) \in Seq(Jobs)
        /\ \A x : x \in Range(jobs) <=> x = Head(jobs) \/ x \in Range(Tail(jobs))
    BY RangeOfTail DEF Typed
  <1>2. InRange(Head(jobs)) /\ \A j \in Range(Tail(jobs)) : InRange(j)
    BY <1>1 DEF Typed
  <1>3. M \subseteq Served /\ M \subseteq fork
    BY <1>1, <1>2, MatchingServed, MatchingLogs DEF Typed
  <1>4. IsFiniteSet(M) /\ (\A log \in M : IsLog(log)) /\ Unambiguous(M)
    BY MatchingLogs DEF Typed
  <1>5. \A log : log \in M <=> log \in Matching(Head(jobs), fork)
    OBVIOUS
  <1> HIDE DEF M
  <1>6. m \in Seq(M) /\ Range(m) = M
    BY <1>4, InOrderLists
  <1> HIDE DEF m
  <1>7. m \in Seq(Served)
    BY <1>3, <1>6
  <1>8. logs \in Seq(Served) /\ \A x : x \in Range(logs) <=> x \in Range(found) \/ x \in Range(m)
    <2>1. found \in Seq(Served)
      BY DEF Typed
    <2> QED BY <1>7, <2>1, RangeOfConcat
  <1> HIDE DEF logs
  <1>9. \A log \in fork : Pending(jobs, log) <=> log \in M \/ Pending(Tail(jobs), log)
    BY <1>1, <1>5 DEF Pending
  <1>10. Range(logs) \cup Outstanding(Tail(jobs)) = Range(found) \cup Outstanding(jobs)
    BY <1>3, <1>6, <1>8, <1>9 DEF Outstanding
  <1> QED BY <1>1, <1>2, <1>8, <1>10 DEF logs, m, M

\* The queries after the factory's logs are in the range.
LEMMA RefetchInRange ==
  ASSUME known \in SUBSET Tokens, NEW logs \in Seq(Served)
  PROVE  /\ AfterFactory(Range(logs)) \in Seq(Jobs)
         /\ \A j \in Range(AfterFactory(Range(logs))) : InRange(j)
  <1> DEFINE S == Range(logs)
  <1>1. IsFiniteSet(S) /\ \A log \in S : IsLog(log) /\ From <= log.block /\ log.block <= To
    BY ReceivedLogs
  <1> HIDE DEF S
  <1>2. /\ AfterFactory(S) \in Seq(Jobs)
        /\ \A j \in Range(AfterFactory(S)) : Justified(j, S)
    BY <1>1, RefetchCovers
  <1>3. ASSUME NEW j, Justified(j, S) PROVE InRange(j)
    <2>1. To <= To
      BY DiscoveryAssumption
    <2>2. PICK k \in EmitterKinds : \A a \in j.addresses : a.kind = k
      BY <1>3 DEF Justified
    <2> QED BY <1>3, <2>1, <2>2 DEF Justified, InRange
  <1> QED BY <1>2, <1>3 DEF S

LEMMA AnswerStep ==
  ASSUME IInv, InPass, Answered, UNCHANGED <<fork, moved, known>>
  PROVE  IInv'
  <1> DEFINE logs == found \o InOrder(Matching(Head(jobs), fork))
  <1>1. Typed /\ Accounted /\ jobs # <<>> /\ stage \in {"factory", "emitters"}
    BY DEF IInv, InPass
  <1>2. /\ logs \in Seq(Served)
        /\ Tail(jobs) \in Seq(Jobs) /\ (\A j \in Range(Tail(jobs)) : InRange(j))
        /\ Range(logs) \cup Outstanding(Tail(jobs)) = Range(found) \cup Outstanding(jobs)
    BY <1>1, AnswerMoves
  <1>3. /\ found' = logs /\ reply'.then # "capacity"
        /\ \/ /\ stage = "factory" /\ Len(jobs) = 1
              /\ stage' = "emitters" /\ jobs' = AfterFactory(Range(logs))
           \/ stage' = stage /\ jobs' = Tail(jobs)
    BY DEF Answered, NoReply
  <1>4. \A js : Outstanding(js)' = {log \in fork : \E j \in Range(js') : log \in Matching(j, fork)}
    BY DEF Outstanding, Pending
  <1>5. FactoryLogs' = FactoryLogs /\ Wanted' = Wanted /\ fork' = fork /\ known' = known /\ moved' = moved
    BY DEF FactoryLogs, Wanted
  <1> HIDE DEF logs
  <1>6. CASE stage' = stage /\ jobs' = Tail(jobs)
    <2>1. Typed'
      BY <1>1, <1>2, <1>3, <1>5, <1>6 DEF Typed
    <2>2. Outstanding(jobs)' = Outstanding(Tail(jobs))
      BY <1>5, <1>6 DEF Outstanding, Pending
    <2>3. Goal' = Goal
      BY <1>5, <1>6 DEF Goal
    <2>4. Accounted'
      BY <1>1, <1>2, <1>3, <1>5, <1>6, <2>2, <2>3 DEF Accounted
    <2> QED BY <1>1, <1>6, <2>1, <2>4, InPassOnly DEF IInv
  <1>7. CASE /\ stage = "factory" /\ Len(jobs) = 1
             /\ stage' = "emitters" /\ jobs' = AfterFactory(Range(logs))
    <2>1. /\ jobs' \in Seq(Jobs)
          /\ \A j \in Range(jobs') : InRange(j)
      BY <1>1, <1>2, <1>7, RefetchInRange DEF Typed
    <2>2. Typed'
      BY <1>1, <1>2, <1>3, <1>5, <1>7, <2>1 DEF Typed
    <2>3. ASSUME ~moved PROVE Range(found') \cup Outstanding(jobs)' = Wanted
      <3>1. Outstanding(Tail(jobs)) = {}
        <4>1. Tail(jobs) \in Seq(Jobs) /\ Len(Tail(jobs)) = 0
          <5>1. jobs \in Seq(Jobs)
            BY <1>1 DEF Typed
          <5> QED BY <1>1, <1>7, <5>1, HeadTailProperties
        <4>2. Tail(jobs) = <<>>
          BY <4>1, EmptySeq
        <4> QED BY <4>2 DEF Outstanding, Pending, Range
      <3>2. Range(logs) = FactoryLogs
        BY <1>1, <1>2, <1>7, <2>3, <3>1 DEF Accounted, Goal
      <3>3. Outstanding(jobs)' = Outstanding(AfterFactory(FactoryLogs))
        BY <1>5, <1>7, <3>2 DEF Outstanding, Pending
      <3>4. \A log : log \in FactoryLogs \/ Pending(AfterFactory(FactoryLogs), log) <=> log \in Wanted
        BY <1>1, RefetchIsWanted DEF Typed
      <3>5. \A log \in Wanted : log \in fork
        BY DEF Wanted
      <3>6. FactoryLogs \cup Outstanding(AfterFactory(FactoryLogs)) = Wanted
        BY <3>4, <3>5 DEF Outstanding
      <3> QED BY <1>3, <3>2, <3>3, <3>6
    <2>4. Accounted'
      BY <1>5, <1>7, <2>3 DEF Accounted, Goal
    <2> QED BY <1>7, <2>2, <2>4, InPassOnly DEF IInv
  <1> QED BY <1>3, <1>6, <1>7

\* A query that is too large is replaced by its halves.
LEMMA SplitStep ==
  ASSUME IInv, InPass, Head(jobs).from < Head(jobs).to,
         jobs' = Halves(Head(jobs)) \o Tail(jobs), reply'.then = "split",
         UNCHANGED <<stage, found, fork, moved, known>>
  PROVE  IInv'
  <1> DEFINE hs == Halves(Head(jobs))
             js == hs \o Tail(jobs)
  <1>1. Typed /\ Accounted /\ jobs # <<>> /\ stage \in {"factory", "emitters"}
    BY DEF IInv, InPass
  <1>2. /\ Head(jobs) \in Jobs /\ Tail(jobs) \in Seq(Jobs)
        /\ \A x : x \in Range(jobs) <=> x = Head(jobs) \/ x \in Range(Tail(jobs))
    BY <1>1, RangeOfTail DEF Typed
  <1>3. InRange(Head(jobs)) /\ \A j \in Range(Tail(jobs)) : InRange(j)
    BY <1>1, <1>2 DEF Typed
  <1>4. /\ hs \in Seq(Jobs)
        /\ \A h \in Range(hs) : InRange(h)
        /\ \A log : log \in Matching(Head(jobs), fork) <=> Pending(hs, log)
    BY <1>1, <1>2, <1>3, HalvesCover DEF Typed
  <1>5. jobs' = js
    OBVIOUS
  <1> HIDE DEF hs
  <1>6. js \in Seq(Jobs) /\ \A x : x \in Range(js) <=> x \in Range(hs) \/ x \in Range(Tail(jobs))
    BY <1>2, <1>4, RangeOfConcat
  <1> HIDE DEF js
  <1>7. Typed'
    BY <1>1, <1>3, <1>4, <1>5, <1>6 DEF Typed
  <1>8. Accounted'
    <2>1. \A log \in fork : Pending(js, log) <=> Pending(jobs, log)
      BY <1>2, <1>4, <1>6 DEF Pending
    <2>2. Outstanding(js) = Outstanding(jobs)
      BY <2>1 DEF Outstanding
    <2>3. Outstanding(jobs)' = Outstanding(js)
      BY <1>5 DEF Outstanding, Pending
    <2>4. Goal' = Goal
      BY DEF Goal, FactoryLogs, Wanted
    <2> QED BY <1>1, <2>2, <2>3, <2>4 DEF Accounted
  <1> QED BY <1>1, <1>7, <1>8, InPassOnly DEF IInv

\* A pass that fails keeps its state typed.
LEMMA FailedTyped ==
  ASSUME Typed, Failed, UNCHANGED <<fork, known>>
  PROVE  Typed' /\ stage' = "failed"
  <1>1. stage' = "failed" /\ jobs' = <<>> /\ found' = found
    BY DEF Failed
  <1>2. \A j : j \notin Range(<<>>)
    BY DEF Range
  <1>3. jobs' \in Seq(Jobs) /\ \A j \in Range(jobs') : InRange(j)
    BY <1>1, <1>2
  <1> QED BY <1>1, <1>3 DEF Typed

\* An error that is not about capacity, or is another one than the provider's limit.
LEMMA ErrorStep ==
  ASSUME IInv, InPass, NEW e, OnError(e), UNCHANGED <<fork, moved, known>>,
         e # TooLarge \/ Head(jobs).from # Head(jobs).to, e = TooLarge => IsCapacityError(e)
  PROVE  IInv'
  <1>1. Typed /\ Accounted /\ stage \in {"factory", "emitters"}
    BY DEF IInv, InPass
  <1>2. CASE /\ IsCapacityError(e) /\ Head(jobs).from < Head(jobs).to
             /\ Then(e, "split") /\ jobs' = Halves(Head(jobs)) \o Tail(jobs)
             /\ UNCHANGED <<stage, found>>
    <2>1. reply'.then = "split"
      BY <1>2 DEF Then
    <2> QED BY <1>2, <2>1, SplitStep
  <1>3. CASE /\ IsCapacityError(e) /\ Head(jobs).from = Head(jobs).to
             /\ Then(e, "capacity") /\ Failed
    <2>1. reply'.error # TooLarge
      BY <1>3 DEF Then
    <2>2. Typed' /\ stage' = "failed"
      BY <1>1, <1>3, FailedTyped
    <2> QED BY <2>1, <2>2, FailedOtherwise DEF IInv
  <1>4. CASE Then(e, "retry") /\ UNCHANGED <<jobs, stage, found>>
    <2>1. reply'.then # "capacity"
      BY <1>4 DEF Then
    <2>2. Typed'
      BY <1>1, <1>4, <2>1 DEF Typed
    <2>3. Accounted'
      BY <1>1, <1>4 DEF Accounted, Outstanding, Pending, Goal, FactoryLogs, Wanted
    <2> QED BY <1>1, <1>4, <2>2, <2>3, InPassOnly DEF IInv
  <1>5. CASE Then(e, "fail") /\ Failed
    <2>1. reply'.then # "capacity"
      BY <1>5 DEF Then
    <2>2. Typed' /\ stage' = "failed"
      BY <1>1, <1>5, FailedTyped
    <2> QED BY <2>1, <2>2, FailedOtherwise DEF IInv
  <1> QED BY <1>2, <1>3, <1>4, <1>5 DEF OnError

\* The provider refuses a single block: it has too many logs of one kind of contract.
LEMMA BlockTooLarge ==
  ASSUME Typed, jobs # <<>>, Head(jobs).from = Head(jobs).to,
         Cardinality(Matching(Head(jobs), fork)) > MaxLogs
  PROVE  \E b \in From..To, a \in {AddressOf(log) : log \in fork} :
           Cardinality({log \in fork : log.block = b /\ AddressOf(log).kind = a.kind}) > MaxLogs
  <1> DEFINE j == Head(jobs)
             M == Matching(j, fork)
             b == j.from
  <1>1. j \in Jobs /\ j \in Range(jobs)
    BY RangeOfTail DEF Typed
  <1>2. InRange(j)
    BY <1>1 DEF Typed
  <1>3. IsFiniteSet(fork) /\ \A log \in fork : log.block \in Nat
    BY ChainAssumption DEF Typed, IsLog
  <1>4. j.from \in Nat /\ j.to = b /\ From \in Nat /\ To \in Nat /\ MaxLogs \in Nat
    BY <1>1, DiscoveryAssumption DEF Jobs
  <1>5. b \in From..To
    BY <1>2, <1>4 DEF InRange
  <1>6. PICK k \in EmitterKinds \cup {"factory"} : \A a \in j.addresses : a.kind = k
    BY <1>2 DEF InRange
  <1>7. \A log \in M : log \in fork /\ log.block = b /\ AddressOf(log).kind = k
    BY <1>3, <1>4, <1>6 DEF Matching
  <1>8. M # {}
    <2>1. Cardinality({}) = 0
      BY FS_EmptySet
    <2> HIDE DEF M
    <2>2. Cardinality(M) > MaxLogs
      BY DEF M
    <2>3. Cardinality({}) > MaxLogs => FALSE
      BY <1>4, <2>1
    <2> QED BY <2>2, <2>3
  <1>9. PICK l \in M : TRUE
    BY <1>8
  <1> DEFINE N == {log \in fork : log.block = b /\ AddressOf(log).kind = AddressOf(l).kind}
  <1>10. M \subseteq N /\ N \subseteq fork
    BY <1>7, <1>9
  <1>11. Cardinality(M) > MaxLogs
    OBVIOUS
  <1>12. l \in fork
    BY <1>7, <1>9
  <1> HIDE DEF M, N, b
  <1>13. IsFiniteSet(N)
    BY <1>3, <1>10, FS_Subset
  <1>14. /\ Cardinality(M) <= Cardinality(N)
         /\ Cardinality(M) \in Nat /\ Cardinality(N) \in Nat
    BY <1>10, <1>13, FS_Subset, FS_CardinalityType
  <1>15. Cardinality(N) > MaxLogs
    BY <1>4, <1>11, <1>14
  <1> QED BY <1>5, <1>12, <1>15 DEF N

LEMMA TooLargeStep ==
  ASSUME IInv, InPass, Cardinality(Matching(Head(jobs), fork)) > MaxLogs, OnError(TooLarge),
         UNCHANGED <<fork, moved, known>>
  PROVE  IInv'
  <1>1. IsCapacityError(TooLarge)
    BY DEF IsCapacityError, TooLarge, Error
  <1>2. CASE Head(jobs).from # Head(jobs).to
    BY <1>1, <1>2, ErrorStep
  <1>3. CASE Head(jobs).from = Head(jobs).to
    <2>1. Typed /\ jobs # <<>>
      BY DEF IInv, InPass
    <2>2. Head(jobs).from \in Nat
      <3>1. Head(jobs) \in Jobs
        BY <2>1, RangeOfTail DEF Typed
      <3> QED BY <3>1 DEF Jobs
    <2>3. Failed
      <3>1. ~(Head(jobs).from < Head(jobs).to)
        BY <1>3, <2>2
      <3> QED BY <1>1, <3>1 DEF OnError
    <2>4. Typed' /\ stage' = "failed"
      BY <2>1, <2>3, FailedTyped
    <2>5. Accounted' /\ LogsOnceInOrder'
      BY <2>4 DEF Accounted, LogsOnceInOrder, DiscoversExactly, OnePerPosition
    <2>6. SplitsUntilAccepted'
      <3>1. \E b \in From..To, a \in {AddressOf(log) : log \in fork} :
              Cardinality({log \in fork : log.block = b /\ AddressOf(log).kind = a.kind}) > MaxLogs
        BY <1>3, <2>1, BlockTooLarge
      <3>2. fork' = fork
        OBVIOUS
      <3> QED BY <3>1, <3>2 DEF SplitsUntilAccepted
    <2> QED BY <2>4, <2>5, <2>6 DEF IInv
  <1> QED BY <1>2, <1>3

LEMMA FinishStep ==
  ASSUME IInv, Finish
  PROVE  IInv'
  <1>1. Typed /\ Accounted /\ stage = "emitters" /\ jobs = <<>> /\ reply.then # "capacity"
    BY DEF IInv, Finish, Typed
  <1>2. UNCHANGED <<fork, moved, known, jobs, attempt, reply>>
    BY DEF Finish
  <1>3. CASE stage' = "failed" /\ found' = found
    <2>1. Typed'
      BY <1>1, <1>2, <1>3 DEF Typed
    <2> QED BY <1>1, <1>2, <1>3, <2>1, FailedOtherwise DEF IInv
  <1>4. CASE ~Conflicting(found) /\ stage' = "done" /\ found' = DeduplicateAndSort(found)
    <2> DEFINE S == Range(found)
    <2>1. IsFiniteSet(S) /\ S \subseteq Served /\ \A log \in S : IsLog(log)
      BY <1>1, ReceivedLogs DEF Typed
    <2>2. Unambiguous(S)
      BY <1>4 DEF Unambiguous, Conflicting, Range
    <2>3. ~moved => S = Wanted
      <3>1. Outstanding(jobs) = {}
        BY <1>1 DEF Outstanding, Pending, Range
      <3> QED BY <1>1, <3>1 DEF Accounted, Goal
    <2>4. found' = InOrder(S)
      BY <1>4 DEF DeduplicateAndSort
    <2> HIDE DEF S
    <2>5. /\ InOrder(S) \in Seq(S) /\ Range(InOrder(S)) = S
          /\ \A i, j \in 1..Len(InOrder(S)) : i < j => Earlier(InOrder(S)[i], InOrder(S)[j])
      BY <2>1, <2>2, InOrderLists
    <2>6. /\ found' \in Seq(Served) /\ Range(found') = S
          /\ DOMAIN found' = 1..Len(found')
          /\ \A i, j \in 1..Len(found') : i < j => Earlier(found'[i], found'[j])
      <3>1. found' \in Seq(S)
        BY <2>4, <2>5
      <3>2. found' \in Seq(Served)
        BY <2>1, <3>1
      <3>3. DOMAIN found' = 1..Len(found')
        BY <3>1, LenProperties
      <3> QED BY <2>4, <2>5, <3>2, <3>3
    <2>7. Typed'
      BY <1>1, <1>2, <1>4, <2>6 DEF Typed
    <2>8. DiscoversExactly'
      <3>1. Wanted' = Wanted
        BY <1>2 DEF Wanted
      <3>2. ~moved => found' = InOrder(Wanted)
        BY <2>3, <2>4
      <3>3. InOrder(Wanted)' = InOrder(Wanted)
        BY <3>1 DEF InOrder
      <3> QED BY <1>2, <3>2, <3>3 DEF DiscoversExactly
    <2>9. OnePerPosition'
      <3>1. Served \subseteq UNION Forks
        BY DEF Served
      <3> QED BY <2>1, <2>6, <3>1 DEF OnePerPosition, Earlier
    <2>10. Accounted' /\ SplitsUntilAccepted'
      BY <1>4 DEF Accounted, SplitsUntilAccepted
    <2> QED BY <2>7, <2>8, <2>9, <2>10 DEF IInv, LogsOnceInOrder
  <1> QED BY <1>3, <1>4 DEF Finish

LEMMA ReorgStep ==
  ASSUME IInv, Reorg
  PROVE  IInv'
  <1>1. Typed /\ stage \in {"factory", "emitters"}
    BY DEF IInv, Reorg, InPass
  <1>2. fork' \in Forks /\ moved' = TRUE /\ UNCHANGED <<known, jobs, stage, attempt, found, reply>>
    BY DEF Reorg
  <1>3. Typed'
    BY <1>1, <1>2 DEF Typed
  <1>4. Accounted'
    BY <1>2 DEF Accounted
  <1> QED BY <1>1, <1>2, <1>3, <1>4, InPassOnly DEF IInv

LEMMA DiscoveryStep ==
  ASSUME IInv, [Next]_vars
  PROVE  IInv'
  <1>1. CASE Discover
    BY <1>1, DiscoverStep
  <1>2. CASE Query
    <2>1. InPass /\ UNCHANGED <<fork, moved, known>>
      BY <1>2 DEF Query
    <2>2. CASE Answered
      BY <2>1, <2>2, AnswerStep
    <2>3. CASE Cardinality(Matching(Head(jobs), fork)) > MaxLogs /\ OnError(TooLarge)
      BY <2>1, <2>3, TooLargeStep
    <2> QED BY <1>2, <2>2, <2>3 DEF Query
  <1>3. CASE ProviderError
    <2>1. InPass /\ UNCHANGED <<fork, moved, known>>
      BY <1>3 DEF ProviderError
    <2>2. PICK e \in Errors : OnError(e)
      BY <1>3 DEF ProviderError
    <2>3. e # TooLarge
      BY ErrorsAssumption
    <2> QED BY <2>1, <2>2, <2>3, ErrorStep
  <1>4. CASE BadLog
    <2>1. Failed /\ UNCHANGED <<fork, moved, known>> /\ reply'.then # "capacity"
      BY <1>4 DEF BadLog, Then
    <2>2. Typed' /\ stage' = "failed"
      BY <2>1, FailedTyped DEF IInv
    <2> QED BY <2>1, <2>2, FailedOtherwise DEF IInv
  <1>5. CASE Finish
    BY <1>5, FinishStep
  <1>6. CASE Reorg
    BY <1>6, ReorgStep
  <1>7. CASE UNCHANGED vars
    <2>1. /\ fork' = fork /\ moved' = moved /\ known' = known /\ jobs' = jobs
          /\ stage' = stage /\ found' = found /\ reply' = reply
      BY <1>7 DEF vars
    <2>2. Typed'
      BY <2>1 DEF IInv, Typed
    <2>3. Accounted'
      BY <2>1 DEF IInv, Accounted, Outstanding, Pending, Goal, FactoryLogs, Wanted
    <2>4. LogsOnceInOrder'
      BY <2>1 DEF IInv, LogsOnceInOrder, DiscoversExactly, OnePerPosition, Wanted
    <2>5. SplitsUntilAccepted'
      BY <2>1 DEF IInv, SplitsUntilAccepted
    <2> QED BY <2>2, <2>3, <2>4, <2>5 DEF IInv
  <1> QED BY <1>1, <1>2, <1>3, <1>4, <1>5, <1>6, <1>7 DEF Next

\* In every pass each query asks for contracts of one kind within the range, and, while the
\* chain does not change, the logs received and those still to be fetched are the logs that
\* Discover is after: no split, batch or retry loses or adds one.
THEOREM DiscoveryInvariant == Spec => []IInv
  <1>1. Init => IInv
    BY DiscoveryInit
  <1>2. IInv /\ [Next]_vars => IInv'
    BY DiscoveryStep
  <1> QED BY <1>1, <1>2, PTL DEF Spec

\* A pass of Discover over an unchanged chain returns exactly the wanted logs in order, and
\* any pass returns at most one log for each position.
THEOREM LogsAreOnceInOrder == Spec => []LogsOnceInOrder
  <1>1. IInv => LogsOnceInOrder
    BY DEF IInv
  <1> QED BY <1>1, DiscoveryInvariant, PTL

\* fetchRange gives up on a range only for a single block with too many logs for a query.
THEOREM SplittingSuffices == Spec => []SplitsUntilAccepted
  <1>1. IInv => SplitsUntilAccepted
    BY DEF IInv
  <1> QED BY <1>1, DiscoveryInvariant, PTL
=============================================================================
