----------------------------- MODULE PatchProofs ----------------------------
(***************************************************************************)
(* What the patch engine makes of a source, for any source: about ranks    *)
(* and sequences, about how often fragments occur, about which patch works *)
(* on a fragment in its turn, that a set is taken whole or not at all, and *)
(* that over a release the sets know each finds what it looks for.  The    *)
(* theorems of FileProofs about ApplyCommand rest on these lemmas.         *)
(***************************************************************************)
EXTENDS ApplyCommand, FiniteSetTheorems, SequenceTheorems, WellFoundedInduction, TLAPS

-----------------------------------------------------------------------------
(* Naturals. *)

\* A set of naturals has a least element.
LEMMA Least ==
  ASSUME NEW T, T \subseteq Nat, T # {}
  PROVE  \E x \in T : \A y \in T : ~ (y < x)
<1>1. IsWellFoundedOn(OpToRel(<, Nat), Nat)
  BY NatLessThanWellFounded
<1>2. \E x \in T : \A y \in T : ~ (<<y, x>> \in OpToRel(<, Nat))
  BY <1>1, WFMin
<1>3. QED
  BY <1>2 DEF OpToRel

\* What follows for a place from the place before it follows for all.
LEMMA Stepwise ==
  ASSUME NEW n \in Nat, NEW T, 0 \in T, \A k \in 1..n : k - 1 \in T => k \in T
  PROVE  \A k \in 0..n : k \in T
<1> SUFFICES ASSUME NEW b \in 0..n, b \notin T PROVE FALSE
  OBVIOUS
<1> DEFINE bad == {k \in 0..n : k \notin T}
<1>1. bad \subseteq Nat /\ bad # {}
  OBVIOUS
<1>2. PICK x \in bad : \A y \in bad : ~ (y < x)
  BY <1>1, Least
<1>3. x \in 1..n /\ x - 1 \in 0..n /\ x - 1 < x
  <2>1. x \in 0..n /\ x # 0
    BY <1>2
  <2>2. QED
    BY <2>1
<1>4. x - 1 \in T
  BY <1>2, <1>3
<1>5. QED
  BY <1>2, <1>3, <1>4

-----------------------------------------------------------------------------
(* Ranks: the places of a set of positions, counted from the front. *)

\* A finite set of positions that has one of every rank.
Ranked(positions, length) ==
  /\ positions \subseteq 1 .. length
  /\ \A n \in 1 .. Cardinality(positions) : \E i \in positions : Rank(positions, i) = n

\* Positions of a sequence are finitely many.
LEMMA FinitePositions ==
  ASSUME NEW length \in Nat, NEW positions \in SUBSET (1 .. length)
  PROVE  IsFiniteSet(positions) /\ Cardinality(positions) \in Nat
<1>1. IsFiniteSet(1 .. length)
  <2>1. 1 \in Int /\ length \in Int
    OBVIOUS
  <2>2. QED
    BY <2>1, FS_Interval
<1>2. IsFiniteSet(positions)
  BY <1>1, FS_Subset
<1>3. QED
  BY <1>2, FS_CardinalityType

\* A rank is between one and the number of positions.
LEMMA RankBounds ==
  ASSUME NEW length \in Nat, NEW positions \in SUBSET (1 .. length), NEW i \in positions
  PROVE  /\ IsFiniteSet(positions) /\ Cardinality(positions) \in Nat
         /\ Rank(positions, i) \in 1 .. Cardinality(positions)
<1> DEFINE upto == {j \in positions : j <= i}
<1>1. IsFiniteSet(positions) /\ Cardinality(positions) \in Nat
  BY FinitePositions
<1>2. upto \in SUBSET positions /\ i \in upto
  OBVIOUS
<1>3. /\ IsFiniteSet(upto) /\ Cardinality(upto) \in Nat
      /\ Cardinality(upto) <= Cardinality(positions)
  BY <1>1, <1>2, FS_Subset, FS_CardinalityType
<1>4. Cardinality(upto) # 0
  BY <1>2, <1>3, FS_EmptySet
<1>5. Rank(positions, i) = Cardinality(upto)
  BY DEF Rank
<1> HIDE DEF upto
<1>6. QED
  BY <1>1, <1>3, <1>4, <1>5

\* A later position has a higher rank.
LEMMA RankGrows ==
  ASSUME NEW length \in Nat, NEW positions \in SUBSET (1 .. length),
         NEW i \in positions, NEW k \in positions, i < k
  PROVE  Rank(positions, i) < Rank(positions, k)
<1> DEFINE low == {j \in positions : j <= i}
           high == {j \in positions : j <= k}
<1>1. IsFiniteSet(positions)
  BY RankBounds
<1>2. high \in SUBSET positions /\ low \in SUBSET high /\ k \in high /\ k \notin low
  <2>1. i \in Int /\ k \in Int /\ \A j \in positions : j \in Int
    OBVIOUS
  <2>2. k <= k /\ ~ (k <= i) /\ \A j \in positions : j <= i => j <= k
    BY <2>1
  <2>3. QED
    BY <2>2
<1>3. IsFiniteSet(high) /\ IsFiniteSet(low)
  BY <1>1, <1>2, FS_Subset
<1>4. /\ Cardinality(high) \in Nat /\ Cardinality(low) \in Nat
      /\ Cardinality(low) <= Cardinality(high) /\ Cardinality(low) # Cardinality(high)
  BY <1>2, <1>3, FS_Subset, FS_CardinalityType
<1>5. Rank(positions, i) = Cardinality(low) /\ Rank(positions, k) = Cardinality(high)
  BY DEF Rank
<1> HIDE DEF low, high
<1>6. QED
  BY <1>4, <1>5

\* Each rank has one position, and they are in the same order.
LEMMA AtRank ==
  ASSUME NEW length \in Nat, NEW positions, Ranked(positions, length)
  PROVE  /\ \A n \in 1 .. Cardinality(positions) :
              At(positions, n) \in positions /\ Rank(positions, At(positions, n)) = n
         /\ \A i \in positions : At(positions, Rank(positions, i)) = i
         /\ \A m, n \in 1 .. Cardinality(positions) : m < n =>
              At(positions, m) < At(positions, n)
<1> USE DEF Ranked
<1>1. ASSUME NEW n \in 1 .. Cardinality(positions)
      PROVE  At(positions, n) \in positions /\ Rank(positions, At(positions, n)) = n
  BY DEF At
<1>2. ASSUME NEW i \in positions PROVE At(positions, Rank(positions, i)) = i
  <2> DEFINE k == At(positions, Rank(positions, i))
  <2>1. Rank(positions, i) \in 1 .. Cardinality(positions)
    BY RankBounds
  <2>2. k \in positions /\ Rank(positions, k) = Rank(positions, i)
    BY <1>1, <2>1
  <2> HIDE DEF k
  <2>3. Rank(positions, i) \in Int
    BY <2>1, RankBounds
  <2>4. k \in Int /\ i \in Int /\ positions \in SUBSET (1 .. length)
    BY <2>2
  <2>5. ~ (k < i) /\ ~ (i < k)
    <3>1. k < i => Rank(positions, k) < Rank(positions, i)
      BY <2>2, <2>4, RankGrows
    <3>2. i < k => Rank(positions, i) < Rank(positions, k)
      BY <2>2, <2>4, RankGrows
    <3>3. QED
      BY <2>2, <2>3, <3>1, <3>2
  <2>6. QED
    BY <2>4, <2>5 DEF k
<1>3. ASSUME NEW m \in 1 .. Cardinality(positions), NEW n \in 1 .. Cardinality(positions), m < n
      PROVE  At(positions, m) < At(positions, n)
  <2> DEFINE i == At(positions, m)
             k == At(positions, n)
  <2>1. i \in positions /\ k \in positions /\ Rank(positions, i) = m /\ Rank(positions, k) = n
    BY <1>1
  <2> HIDE DEF i, k
  <2>2. k \in Int /\ i \in Int /\ positions \in SUBSET (1 .. length) /\ m \in Int /\ n \in Int
    BY <2>1, FinitePositions
  <2>3. ~ (k < i) /\ i # k
    <3>1. k < i => n < m
      BY <2>1, <2>2, RankGrows
    <3>2. QED
      BY <1>3, <2>1, <2>2, <3>1
  <2>4. QED
    BY <2>2, <2>3 DEF i, k
<1>4. QED
  BY <1>1, <1>2, <1>3

\* A set of positions has one of every rank.
LEMMA AlwaysRanked ==
  ASSUME NEW length \in Nat, NEW positions \in SUBSET (1 .. length)
  PROVE  Ranked(positions, length)
<1> DEFINE ranks == 1 .. Cardinality(positions)
           rank == [i \in positions |-> Rank(positions, i)]
<1>1. IsFiniteSet(positions) /\ Cardinality(positions) \in Nat
  BY FinitePositions
<1>2. IsFiniteSet(ranks) /\ Cardinality(ranks) = Cardinality(positions)
  <2>1. 1 \in Int /\ Cardinality(positions) \in Int
    BY <1>1
  <2>2. QED
    BY <1>1, <2>1, FS_Interval
<1>3. rank \in [positions -> ranks]
  BY RankBounds
<1>4. ASSUME NEW i \in positions, NEW k \in positions, rank[i] = rank[k] PROVE i = k
  <2>1. Rank(positions, i) = Rank(positions, k) /\ Rank(positions, i) \in Int
    <3>1. Rank(positions, i) \in 1 .. Cardinality(positions)
      BY RankBounds
    <3>2. Rank(positions, i) = Rank(positions, k)
      BY <1>4
    <3>3. QED
      BY <1>1, <3>1, <3>2
  <2>2. ~ (i < k) /\ ~ (k < i)
    <3>1. i < k => Rank(positions, i) < Rank(positions, k)
      BY RankGrows
    <3>2. k < i => Rank(positions, k) < Rank(positions, i)
      BY RankGrows
    <3>3. QED
      BY <2>1, <3>1, <3>2
  <2>3. i \in Int /\ k \in Int
    OBVIOUS
  <2>4. QED
    BY <2>2, <2>3
<1>5. rank \in Injection(positions, ranks)
  BY <1>3, <1>4 DEF Injection, IsInjective
<1>6. rank \in Surjection(positions, ranks)
  <2> HIDE DEF ranks, rank
  <2>1. QED
    BY <1>2, <1>5, FS_Injection
<1>7. ASSUME NEW n \in ranks PROVE \E i \in positions : Rank(positions, i) = n
  BY <1>6 DEF Surjection
<1>8. QED
  BY <1>7 DEF Ranked

\* What is kept are the entries at the positions, in their order.
LEMMA KeptEntries ==
  ASSUME NEW S, NEW s \in Seq(S), NEW positions \in SUBSET DOMAIN s
  PROVE  /\ Kept(s, positions) \in Seq(S)
         /\ Len(Kept(s, positions)) = Cardinality(positions) /\ Cardinality(positions) \in Nat
         /\ \A n \in 1 .. Cardinality(positions) :
              At(positions, n) \in positions /\ Kept(s, positions)[n] = s[At(positions, n)]
         /\ \A i \in positions : \E n \in 1 .. Cardinality(positions) : At(positions, n) = i
         /\ \A m, n \in 1 .. Cardinality(positions) :
              At(positions, m) = At(positions, n) => m = n
<1> DEFINE size == Cardinality(positions)
<1>1. Len(s) \in Nat /\ positions \in SUBSET (1 .. Len(s))
  OBVIOUS
<1>2. size \in Nat /\ Ranked(positions, Len(s))
  BY <1>1, FinitePositions, AlwaysRanked
<1>3. /\ \A n \in 1 .. size : At(positions, n) \in positions /\ Rank(positions, At(positions, n)) = n
      /\ \A i \in positions : At(positions, Rank(positions, i)) = i
  BY <1>1, <1>2, AtRank
<1>4. \A i \in positions : Rank(positions, i) \in 1 .. size
  BY <1>1, RankBounds
<1> HIDE DEF size
<1>5. Kept(s, positions) = [n \in 1 .. size |-> s[At(positions, n)]]
  BY DEF Kept, size
<1>6. \A n \in 1 .. size : s[At(positions, n)] \in S
  BY <1>3
<1>7. Kept(s, positions) \in Seq(S) /\ Len(Kept(s, positions)) = size
  BY <1>2, <1>5, <1>6
<1>8. \A i \in positions : \E n \in 1 .. size : At(positions, n) = i
  BY <1>3, <1>4
<1>9. \A m, n \in 1 .. size : At(positions, m) = At(positions, n) => m = n
  BY <1>3
<1>10. QED
  BY <1>2, <1>3, <1>5, <1>7, <1>8, <1>9 DEF size

-----------------------------------------------------------------------------
(* Sequences: what the engine makes of one is one. *)

\* The two ways to say that a value is a sequence.
LEMMA AsSeq ==
  ASSUME NEW s
  PROVE  /\ IsSequence(s) => /\ DOMAIN s = 1..Len(s) /\ Len(s) \in Nat
                             /\ s \in Seq({s[i] : i \in 1..Len(s)})
         /\ \A S : s \in Seq(S) => IsSequence(s)
<1>1. ASSUME IsSequence(s)
      PROVE  DOMAIN s = 1..Len(s) /\ Len(s) \in Nat /\ s \in Seq({s[i] : i \in 1..Len(s)})
  <2> DEFINE n == Len(s)
  <2>1. n \in Nat /\ s = [i \in 1..n |-> s[i]]
    BY <1>1 DEF IsSequence
  <2> HIDE DEF n
  <2>2. s \in [1..n -> {s[i] : i \in 1..n}]
    BY <2>1
  <2>3. QED
    BY <2>1, <2>2 DEF n
<1>2. ASSUME NEW S, s \in Seq(S) PROVE IsSequence(s)
  BY <1>2 DEF IsSequence
<1>3. QED
  BY <1>1, <1>2

\* A function on 1..n is a sequence.
LEMMA MadeSequence ==
  ASSUME NEW n \in Nat, NEW s, s = [i \in 1..n |-> s[i]]
  PROVE  IsSequence(s) /\ Len(s) = n /\ DOMAIN s = 1..n
<1>1. s \in [1..n -> {s[i] : i \in 1..n}]
  OBVIOUS
<1>2. Len(s) = n /\ DOMAIN s = 1..n
  BY <1>1
<1>3. QED
  BY <1>2 DEF IsSequence

\* The entries of a concatenation.
LEMMA Joined ==
  ASSUME NEW s, NEW t, IsSequence(s), IsSequence(t)
  PROVE  /\ IsSequence(s \o t) /\ Len(s \o t) = Len(s) + Len(t)
         /\ \A i \in 1..Len(s) : (s \o t)[i] = s[i]
         /\ \A i \in 1..Len(t) : (s \o t)[Len(s) + i] = t[i]
<1> DEFINE S == {s[i] : i \in 1..Len(s)} \cup {t[i] : i \in 1..Len(t)}
<1>1. s \in Seq(S) /\ t \in Seq(S)
  <2>1. /\ Len(s) \in Nat /\ s = [i \in 1..Len(s) |-> s[i]]
        /\ Len(t) \in Nat /\ t = [i \in 1..Len(t) |-> t[i]]
    BY DEF IsSequence
  <2>2. s \in [1..Len(s) -> S] /\ t \in [1..Len(t) -> S]
    BY <2>1
  <2> HIDE DEF S
  <2>3. QED
    BY <2>1, <2>2
<1> HIDE DEF S
<1>2. s \o t \in Seq(S) /\ Len(s \o t) = Len(s) + Len(t) /\ Len(s) \in Nat /\ Len(t) \in Nat
  BY <1>1
<1>3. IsSequence(s \o t)
  BY <1>2, AsSeq
<1>4. \A i \in 1..Len(s) : (s \o t)[i] = s[i]
  BY <1>1, <1>2
<1>5. ASSUME NEW i \in 1..Len(t) PROVE (s \o t)[Len(s) + i] = t[i]
  <2>1. Len(s) + i \in 1..Len(s) + Len(t) /\ Len(s) + i > Len(s) /\ (Len(s) + i) - Len(s) = i
    BY <1>2
  <2>2. QED
    BY <1>1, <1>2, <2>1
<1>6. QED
  BY <1>2, <1>3, <1>4, <1>5

\* The entries of a part.
LEMMA Part ==
  ASSUME NEW s, NEW m \in Int, NEW n \in Int
  PROVE  /\ IsSequence(SubSeq(s, m, n))
         /\ Len(SubSeq(s, m, n)) = IF m <= n THEN n - m + 1 ELSE 0
         /\ \A i \in 1..n - m + 1 : SubSeq(s, m, n)[i] = s[m + i - 1]
<1> DEFINE S == {s[i] : i \in m..n}
<1>1. \A i \in m..n : s[i] \in S
  OBVIOUS
<1> HIDE DEF S
<1>2. /\ SubSeq(s, m, n) \in Seq(S)
      /\ Len(SubSeq(s, m, n)) = IF m <= n THEN n - m + 1 ELSE 0
      /\ \A i \in 1..n - m + 1 : SubSeq(s, m, n)[i] = s[m + i - 1]
  BY <1>1, SubSeqProperties
<1>3. QED
  BY <1>2, AsSeq

\* The entries of a selection, and where they come from.
LEMMA KeptIs ==
  ASSUME NEW s, IsSequence(s), NEW positions \in SUBSET DOMAIN s
  PROVE  /\ IsSequence(Kept(s, positions))
         /\ Len(Kept(s, positions)) = Cardinality(positions) /\ Cardinality(positions) \in Nat
         /\ \A n \in 1..Cardinality(positions) :
              At(positions, n) \in positions /\ Kept(s, positions)[n] = s[At(positions, n)]
         /\ \A i \in positions : \E n \in 1..Cardinality(positions) : At(positions, n) = i
         /\ \A m, n \in 1..Cardinality(positions) : m < n => At(positions, m) < At(positions, n)
<1> DEFINE S == {s[i] : i \in 1..Len(s)}
<1>1. s \in Seq(S) /\ DOMAIN s = 1..Len(s) /\ Len(s) \in Nat
  BY AsSeq
<1> HIDE DEF S
<1>2. /\ Kept(s, positions) \in Seq(S)
      /\ Len(Kept(s, positions)) = Cardinality(positions) /\ Cardinality(positions) \in Nat
      /\ \A n \in 1..Cardinality(positions) :
           At(positions, n) \in positions /\ Kept(s, positions)[n] = s[At(positions, n)]
      /\ \A i \in positions : \E n \in 1..Cardinality(positions) : At(positions, n) = i
  BY <1>1, KeptEntries
<1>3. \A m, n \in 1..Cardinality(positions) : m < n => At(positions, m) < At(positions, n)
  BY <1>1, AlwaysRanked, AtRank
<1>4. QED
  BY <1>2, <1>3, AsSeq

\* One sequence after the other: what holds of each prefix of the parts.
IsJoin(f, parts, n) ==
  f = [i \in 1..n |-> IF i = 1 THEN parts[i] ELSE f[i - 1] \o parts[i]]

\* The recursion that flattens has a solution.
LEMMA JoinExists ==
  ASSUME NEW parts, NEW n \in Nat
  PROVE  \E f : IsJoin(f, parts, n)
<1> DEFINE T == {m \in 0..n : \E f : IsJoin(f, parts, m)}
<1>1. 0 \in T
  <2>1. IsJoin(<<>>, parts, 0)
    BY DEF IsJoin
  <2>2. QED
    BY <2>1
<1>2. ASSUME NEW m \in 1..n, m - 1 \in T PROVE m \in T
  <2>1. PICK e : IsJoin(e, parts, m - 1)
    BY <1>2
  <2> DEFINE last == IF m = 1 THEN parts[m] ELSE e[m - 1] \o parts[m]
             f == [i \in 1..m |-> IF i = m THEN last ELSE e[i]]
  <2>2. \A i \in 1..m - 1 : f[i] = e[i]
    OBVIOUS
  <2>3. \A i \in 1..m - 1 : i # 1 => i - 1 \in 1..m - 1
    OBVIOUS
  <2>4. \A i \in 1..m - 1 : e[i] = IF i = 1 THEN parts[i] ELSE e[i - 1] \o parts[i]
    BY <2>1 DEF IsJoin
  <2>5. f[m] = last /\ (m # 1 => f[m - 1] = e[m - 1])
    BY <2>2
  <2>6. f = [i \in 1..m |-> f[i]]
    OBVIOUS
  <2> HIDE DEF f
  <2>7. ASSUME NEW i \in 1..m PROVE f[i] = IF i = 1 THEN parts[i] ELSE f[i - 1] \o parts[i]
    <3>1. CASE i = m
      BY <2>5, <3>1
    <3>2. CASE i # m
      <4>1. i \in 1..m - 1
        BY <3>2
      <4>2. i # 1 => f[i - 1] = e[i - 1]
        BY <2>2, <2>3, <4>1
      <4>3. QED
        BY <2>2, <2>4, <4>1, <4>2
    <3>3. QED
      BY <3>1, <3>2
  <2>8. IsJoin(f, parts, m)
    BY <2>6, <2>7 DEF IsJoin
  <2>9. QED
    BY <2>8
<1> HIDE DEF T
<1>3. \A k \in 0..n : k \in T
  BY <1>1, <1>2, Stepwise
<1>4. QED
  BY <1>3 DEF T

\* What FlattenSeq returns, one part after the other.
LEMMA FlattenIs ==
  ASSUME NEW parts, IsSequence(parts)
  PROVE  /\ Len(parts) = 0 => FlattenSeq(parts) = <<>>
         /\ Len(parts) # 0 =>
              \E f : /\ FlattenSeq(parts) = f[Len(parts)] /\ f[1] = parts[1]
                     /\ \A i \in 2..Len(parts) : f[i] = f[i - 1] \o parts[i]
<1> DEFINE n == Len(parts)
           flatten == CHOOSE f : IsJoin(f, parts, n)
<1>1. n \in Nat /\ parts = [i \in 1..n |-> parts[i]]
  BY DEF IsSequence
<1>2. FlattenSeq(parts) = IF n = 0 THEN parts ELSE flatten[n]
  BY Zenon DEF FlattenSeq, IsJoin
<1>3. n = 0 => parts = <<>>
  BY <1>1
<1>4. \E f : IsJoin(f, parts, n)
  BY <1>1, JoinExists
<1>5. IsJoin(flatten, parts, n)
  BY <1>4
<1> HIDE DEF flatten
<1>6. \A i \in 1..n : flatten[i] = IF i = 1 THEN parts[i] ELSE flatten[i - 1] \o parts[i]
  BY <1>5 DEF IsJoin
<1>7. ASSUME n # 0
      PROVE  flatten[1] = parts[1] /\ \A i \in 2..n : flatten[i] = flatten[i - 1] \o parts[i]
  <2>1. 1 \in 1..n /\ \A i \in 2..n : i \in 1..n /\ i # 1
    BY <1>1, <1>7
  <2>2. QED
    BY <1>6, <2>1
<1>8. QED
  BY <1>2, <1>3, <1>7

\* Sequences flatten into a sequence.
LEMMA Flattened ==
  ASSUME NEW parts, IsSequence(parts), \A i \in DOMAIN parts : IsSequence(parts[i])
  PROVE  IsSequence(FlattenSeq(parts))
<1> DEFINE n == Len(parts)
<1>1. n \in Nat /\ DOMAIN parts = 1..n
  BY AsSeq
<1>2. CASE n = 0
  <2>1. IsSequence(<<>>)
    BY DEF IsSequence
  <2>2. QED
    BY <1>2, <2>1, FlattenIs
<1>3. CASE n # 0
  <2>1. PICK f : /\ FlattenSeq(parts) = f[n] /\ f[1] = parts[1]
                 /\ \A i \in 2..n : f[i] = f[i - 1] \o parts[i]
    BY <1>3, FlattenIs
  <2> DEFINE T == {k \in 0..n : k # 0 => IsSequence(f[k])}
  <2> HIDE DEF n
  <2>2. 0 \in T
    BY <1>1
  <2>3. ASSUME NEW k \in 1..n, k - 1 \in T PROVE k \in T
    <3>1. CASE k = 1
      BY <1>1, <2>1, <3>1
    <3>2. CASE k # 1
      <4>4. k \in 2..n /\ k - 1 # 0
        BY <1>1, <3>2
      <4>1. IsSequence(f[k - 1]) /\ IsSequence(parts[k]) /\ f[k] = f[k - 1] \o parts[k]
        BY <1>1, <2>1, <2>3, <4>4
      <4>2. IsSequence(f[k])
        BY <4>1, Joined
      <4>3. QED
        BY <1>1, <4>2
    <3>3. QED
      BY <3>1, <3>2
  <2> HIDE DEF T
  <2>4. \A k \in 0..n : k \in T
    BY <1>1, <2>2, <2>3, Stepwise
  <2>5. n \in T
    BY <1>1, <2>4
  <2>6. QED
    BY <1>3, <2>1, <2>5 DEF T
<1>4. QED
  BY <1>2, <1>3

\* A sequence of one.
LEMMA OneEntry ==
  ASSUME NEW x
  PROVE  IsSequence(<<x>>) /\ Len(<<x>>) = 1 /\ <<x>>[1] = x
BY DEF IsSequence

\* The empty sequence.
LEMMA NoEntry == IsSequence(<<>>) /\ Len(<<>>) = 0
BY DEF IsSequence

\* The steps of the engine keep the source a sequence: replacing, dropping,
LEMMA Replaced ==
  ASSUME NEW src, IsSequence(src), NEW F, NEW by, IsSequence(by)
  PROVE  IsSequence(ReplaceFragment(src, F, by))
<1> DEFINE parts == [i \in DOMAIN src |-> IF src[i] \in F THEN by ELSE <<src[i]>>]
<1>1. DOMAIN src = 1..Len(src) /\ Len(src) \in Nat
  BY AsSeq
<1>2. \A i \in DOMAIN src : IsSequence(parts[i])
  BY OneEntry
<1>3. parts = [i \in 1..Len(src) |-> parts[i]] /\ DOMAIN parts = DOMAIN src
  BY <1>1
<1>4. ReplaceFragment(src, F, by) = FlattenSeq(parts)
  BY DEF ReplaceFragment
<1> HIDE DEF parts
<1>5. IsSequence(parts)
  BY <1>1, <1>3, MadeSequence
<1>6. QED
  BY <1>2, <1>3, <1>4, <1>5, Flattened

LEMMA Dropped ==
  ASSUME NEW src, IsSequence(src), NEW fragments
  PROVE  IsSequence(Dropping(src, fragments))
BY KeptIs DEF Dropping

IsPatchSet(set) ==
  IsSequence(set.patches) /\ \A i \in DOMAIN set.patches : IsSequence(set.patches[i].to)

\* The patches of a set, one after the other.
IsRun(f, set, src, n) ==
  f = [i \in 0..n |-> IF i = 0 THEN Outcome(TRUE, src) ELSE ApplyPatch(set.patches[i], f[i - 1])]

\* The recursion of ApplySet has a solution.
LEMMA RunExists ==
  ASSUME NEW set, NEW src, NEW n \in Nat
  PROVE  \E f : IsRun(f, set, src, n)
<1> DEFINE T == {m \in 0..n : \E f : IsRun(f, set, src, m)}
           Value(e, k) == ApplyPatch(set.patches[k], e[k - 1])
<1>1. 0 \in T
  <2>1. IsRun([k \in 0..0 |-> Outcome(TRUE, src)], set, src, 0)
    BY DEF IsRun
  <2>2. QED
    BY <2>1
<1>2. ASSUME NEW m \in 1..n, m - 1 \in T PROVE m \in T
  <2>1. PICK e : IsRun(e, set, src, m - 1)
    BY <1>2
  <2> DEFINE f == [k \in 0..m |-> IF k = m THEN Value(e, m) ELSE e[k]]
  <2>2. \A k \in 0..m - 1 : f[k] = e[k]
    OBVIOUS
  <2>3. \A k \in 0..m - 1 : k # 0 => k - 1 \in 0..m - 1
    OBVIOUS
  <2>4. \A k \in 0..m - 1 : e[k] = IF k = 0 THEN Outcome(TRUE, src) ELSE Value(e, k)
    BY <2>1 DEF IsRun
  <2>5. f[m] = Value(e, m) /\ m # 0 /\ f[m - 1] = e[m - 1]
    BY <2>2
  <2>6. f = [k \in 0..m |-> f[k]]
    OBVIOUS
  <2> HIDE DEF f
  <2>7. ASSUME NEW k \in 0..m
        PROVE  f[k] = IF k = 0 THEN Outcome(TRUE, src) ELSE Value(f, k)
    <3>1. CASE k = m
      BY <2>5, <3>1
    <3>2. CASE k # m
      <4>1. k \in 0..m - 1
        BY <3>2
      <4>2. k # 0 => f[k - 1] = e[k - 1]
        BY <2>2, <2>3, <4>1
      <4>3. QED
        BY <2>2, <2>4, <4>1, <4>2
    <3>3. QED
      BY <3>1, <3>2
  <2>8. IsRun(f, set, src, m)
    BY <2>6, <2>7 DEF IsRun
  <2>9. QED
    BY <2>8
<1> HIDE DEF T
<1>3. \A k \in 0..n : k \in T
  BY <1>1, <1>2, Stepwise
<1>4. QED
  BY <1>3 DEF T

\* a patch,
LEMMA PatchedSequence ==
  ASSUME NEW patch, IsSequence(patch.to), NEW before, before.ok => IsSequence(before.source)
  PROVE  ApplyPatch(patch, before).ok => IsSequence(ApplyPatch(patch, before).source)
BY Replaced DEF ApplyPatch, Outcome

\* a registration,
LEMMA Registered ==
  ASSUME NEW src, IsSequence(src), NEW set
  PROVE  IsSequence(Register(src, set))
<1> DEFINE kept == Dropping(src, set.moves)
           at == IF Split(kept) THEN 2 ELSE 1
<1>1. IsSequence(kept) /\ Len(kept) \in Nat
  BY Dropped, AsSeq
<1>2. at \in Int /\ at - 1 \in Int
  OBVIOUS
<1>3. Register(src, set) = src \/ Register(src, set) = InsertAt(kept, at, Boots[set.key])
  BY DEF Register
<1> HIDE DEF kept, at
<1>4. /\ IsSequence(SubSeq(kept, 1, at - 1)) /\ IsSequence(SubSeq(kept, at, Len(kept)))
      /\ IsSequence(<<Boots[set.key]>>)
  BY <1>1, <1>2, Part, OneEntry
<1>5. IsSequence(InsertAt(kept, at, Boots[set.key]))
  BY <1>4, Joined DEF InsertAt
<1>6. QED
  BY <1>3, <1>5

\* a whole set,
LEMMA SetApplied ==
  ASSUME NEW set, IsPatchSet(set), NEW src, IsSequence(src), ApplySet(set, src).ok
  PROVE  IsSequence(ApplySet(set, src).source)
<1> DEFINE n == Len(set.patches)
           after == CHOOSE f : IsRun(f, set, src, n)
           T == {k \in 0..n : after[k].ok => IsSequence(after[k].source)}
<1>1. n \in Nat /\ DOMAIN set.patches = 1..n /\ \A i \in 1..n : IsSequence(set.patches[i].to)
  BY AsSeq DEF IsPatchSet
<1>2. ApplySet(set, src) =
        IF after[n].ok /\ (\A f \in set.present : Count(after[n].source, f) > 0)
                       /\ (\A f \in set.absent : Count(after[n].source, f) = 0)
          THEN Outcome(TRUE, Register(after[n].source, set))
          ELSE Outcome(FALSE, <<>>)
  BY Zenon DEF ApplySet, IsRun
<1>3. IsRun(after, set, src, n)
  BY <1>1, RunExists
<1> HIDE DEF after, n
<1>4. \A k \in 0..n :
        after[k] = IF k = 0 THEN Outcome(TRUE, src) ELSE ApplyPatch(set.patches[k], after[k - 1])
  BY <1>3 DEF IsRun
<1>5. 0 \in 0..n /\ \A k \in 1..n : k \in 0..n /\ k # 0
  BY <1>1
<1>6. 0 \in T
  <2>1. after[0] = Outcome(TRUE, src) /\ 0 \in 0..n
    BY Zenon, <1>4, <1>5
  <2>2. QED
    BY <2>1 DEF Outcome
<1>7. ASSUME NEW k \in 1..n, k - 1 \in T PROVE k \in T
  <2>1. after[k] = ApplyPatch(set.patches[k], after[k - 1]) /\ k \in 0..n
    BY Zenon, <1>4, <1>5
  <2>2. after[k - 1].ok => IsSequence(after[k - 1].source)
    BY <1>7
  <2>3. IsSequence(set.patches[k].to)
    BY <1>1
  <2>4. QED
    BY <2>1, <2>2, <2>3, PatchedSequence
<1> HIDE DEF T
<1>8. n \in T
  <2>1. \A k \in 0..n : k \in T
    BY <1>1, <1>6, <1>7, Stepwise
  <2>2. QED
    BY <1>1, <2>1
<1>9. after[n].ok /\ ApplySet(set, src).source = Register(after[n].source, set)
  BY <1>2 DEF Outcome
<1>10. IsSequence(after[n].source)
  BY <1>8, <1>9 DEF T
<1>11. QED
  BY <1>9, <1>10, Registered

\* and the runtime's prelude.
LEMMA FinalSequence ==
  ASSUME NEW src, IsSequence(src)
  PROVE  IsSequence(Finalized(src))
<1> DEFINE native == Dropping(src, BootFragments)
           parts == [i \in DOMAIN native |->
                       IF native[i] \in Boundaries THEN <<native[i], Prelude>> ELSE <<native[i]>>]
<1>1. IsSequence(native) /\ DOMAIN native = 1..Len(native) /\ Len(native) \in Nat
  BY Dropped, AsSeq
<1>2. \A x, y : IsSequence(<<x, y>>)
  BY DEF IsSequence
<1>3. \A i \in DOMAIN native : IsSequence(parts[i])
  BY <1>2, OneEntry
<1>4. DOMAIN parts = DOMAIN native /\ parts = [i \in 1..Len(native) |-> parts[i]]
  BY <1>1
<1>5. \/ Finalized(src) = src
      \/ Finalized(src) = FlattenSeq(parts)
      \/ Finalized(src) = <<Prelude>> \o native
  BY DEF Finalized
<1> HIDE DEF parts, native
<1>6. IsSequence(parts)
  BY <1>1, <1>4, MadeSequence
<1>7. IsSequence(FlattenSeq(parts))
  BY <1>3, <1>4, <1>6, Flattened
<1>8. IsSequence(<<Prelude>> \o native)
  BY <1>1, OneEntry, Joined
<1>9. QED
  BY <1>5, <1>7, <1>8

-----------------------------------------------------------------------------
(* How often fragments occur. *)

\* The places of a sequence that hold a fragment of a kind, and their number.
Places(s, W) == {i \in DOMAIN s : s[i] \in W}
Amount(s, W) == Cardinality(Places(s, W))

LEMMA AmountIs ==
  ASSUME NEW s, IsSequence(s)
  PROVE  \A W : /\ Places(s, W) \in SUBSET (1..Len(s)) /\ IsFiniteSet(Places(s, W))
                /\ Amount(s, W) \in Nat
                /\ Amount(s, W) = 0 <=> \A i \in DOMAIN s : s[i] \notin W
<1> SUFFICES ASSUME NEW W
    PROVE  /\ Places(s, W) \in SUBSET (1..Len(s)) /\ IsFiniteSet(Places(s, W))
           /\ Amount(s, W) \in Nat
           /\ Amount(s, W) = 0 <=> \A i \in DOMAIN s : s[i] \notin W
  OBVIOUS
<1>1. DOMAIN s = 1..Len(s) /\ Len(s) \in Nat
  BY AsSeq
<1>2. Places(s, W) \in SUBSET (1..Len(s))
  BY <1>1 DEF Places
<1>3. IsFiniteSet(Places(s, W)) /\ Cardinality(Places(s, W)) \in Nat
  BY <1>1, <1>2, FinitePositions
<1>4. Cardinality(Places(s, W)) = 0 <=> Places(s, W) = {}
  BY <1>3, FS_EmptySet
<1>5. Places(s, W) = {} <=> \A i \in DOMAIN s : s[i] \notin W
  BY DEF Places
<1>6. QED
  BY <1>2, <1>3, <1>4, <1>5 DEF Amount

\* The count of one fragment.
LEMMA CountIs == \A s, f : Count(s, f) = Amount(s, {f})
<1> TAKE s, f
<1>1. {i \in DOMAIN s : s[i] = f} = {i \in DOMAIN s : s[i] \in {f}}
  OBVIOUS
<1>2. QED
  BY <1>1 DEF Count, Amount, Places

\* The matches of a pattern.
LEMMA MatchesIs == \A s, W : Matches(s, W) = Amount(s, W)
BY DEF Matches, Amount, Places

\* As many places elsewhere, one for one.
LEMMA SameAmount ==
  ASSUME NEW P, IsFiniteSet(P), NEW Q, NEW f \in [P -> Q],
         \A i, k \in P : f[i] = f[k] => i = k, \A j \in Q : \E i \in P : f[i] = j
  PROVE  IsFiniteSet(Q) /\ Cardinality(Q) = Cardinality(P)
<1>1. f \in Bijection(P, Q)
  BY DEF Bijection, Injection, IsInjective, Surjection
<1>2. ExistsBijection(P, Q)
  BY <1>1 DEF ExistsBijection
<1>3. QED
  BY <1>2, FS_Bijection

\* A concatenation has what its parts have,
LEMMA AmountJoined ==
  ASSUME NEW s, NEW t, IsSequence(s), IsSequence(t)
  PROVE  \A W : Amount(s \o t, W) = Amount(s, W) + Amount(t, W)
<1> SUFFICES ASSUME NEW W PROVE Amount(s \o t, W) = Amount(s, W) + Amount(t, W)
  OBVIOUS
<1> DEFINE A == Places(s, W)
           B == Places(t, W)
           n == Len(s)
           m == Len(t)
           C == {n + i : i \in B}
           f == [i \in B |-> n + i]
<1>1. /\ DOMAIN s = 1..n /\ n \in Nat /\ DOMAIN t = 1..m /\ m \in Nat
      /\ A \in SUBSET (1..n) /\ B \in SUBSET (1..m) /\ IsFiniteSet(A) /\ IsFiniteSet(B)
  BY AsSeq, AmountIs
<1>2. /\ IsSequence(s \o t) /\ Len(s \o t) = n + m
      /\ \A i \in 1..n : (s \o t)[i] = s[i]
      /\ \A i \in 1..m : (s \o t)[n + i] = t[i]
  BY Joined
<1>3. DOMAIN (s \o t) = 1..n + m
  BY <1>2, AsSeq
<1>4. Places(s \o t, W) = A \cup C
  <2>1. ASSUME NEW i \in 1..n + m PROVE i \in Places(s \o t, W) <=> i \in A \cup C
    <3>1. CASE i \in 1..n
      <4>1. i \in Places(s \o t, W) <=> i \in A
        BY <1>1, <1>2, <1>3, <3>1, <2>1 DEF Places
      <4>2. \A j \in B : n + j # i
        BY <1>1, <3>1
      <4>3. QED
        BY <4>1, <4>2
    <3>2. CASE i \notin 1..n
      <4> DEFINE j == i - n
      <4>1. j \in 1..m /\ n + j = i /\ i \notin A
        BY <1>1, <3>2
      <4>2. i \in Places(s \o t, W) <=> j \in B
        BY <1>1, <1>2, <1>3, <4>1 DEF Places
      <4>3. i \in C <=> j \in B
        <5>1. \A k \in B : n + k = i => k = j
          BY <1>1
        <5>2. QED
          BY <4>1, <5>1
      <4>4. QED
        BY <4>1, <4>2, <4>3
    <3>3. QED
      BY <3>1, <3>2
  <2>2. A \cup C \subseteq 1..n + m
    BY <1>1
  <2>3. Places(s \o t, W) \subseteq 1..n + m
    BY <1>3 DEF Places
  <2> HIDE DEF A, C
  <2>4. QED
    BY <2>1, <2>2, <2>3
<1>5. IsFiniteSet(C) /\ Cardinality(C) = Cardinality(B)
  <2>1. f \in [B -> C] /\ \A j \in C : \E i \in B : f[i] = j
    OBVIOUS
  <2>2. \A i, k \in B : f[i] = f[k] => i = k
    BY <1>1
  <2> HIDE DEF B, C, f
  <2>3. QED
    BY <1>1, <2>1, <2>2, SameAmount
<1>6. A \cap C = {}
  BY <1>1
<1> HIDE DEF A, B, C
<1>7. /\ Cardinality(A \cup C) = Cardinality(A) + Cardinality(C) - Cardinality(A \cap C)
      /\ Cardinality(A) \in Nat /\ Cardinality(C) \in Nat
  BY <1>1, <1>5, FS_Union, FS_CardinalityType
<1>8. Cardinality(A \cap C) = 0
  BY <1>6, FS_EmptySet
<1>9. Cardinality(A \cup C) = Cardinality(A) + Cardinality(B)
  BY <1>5, <1>7, <1>8
<1>10. QED
  BY <1>4, <1>9 DEF Amount, A, B

\* a flattened sequence one for each part that has one.
LEMMA AmountFlat ==
  ASSUME NEW parts, IsSequence(parts), NEW W, NEW P \in SUBSET DOMAIN parts,
         \A i \in DOMAIN parts :
           IsSequence(parts[i]) /\ Amount(parts[i], W) = IF i \in P THEN 1 ELSE 0
  PROVE  Amount(FlattenSeq(parts), W) = Cardinality(P)
<1> DEFINE n == Len(parts)
           Upto(k) == {i \in P : i <= k}
<1>1. n \in Nat /\ DOMAIN parts = 1..n /\ IsFiniteSet(P) /\ Cardinality(P) \in Nat
  BY AsSeq, FinitePositions
<1>2. CASE n = 0
  <2>4. FlattenSeq(parts) = <<>>
    BY <1>2, FlattenIs
  <2>5. DOMAIN parts = {}
    BY <1>1, <1>2
  <2>1. P = {} /\ FlattenSeq(parts) = <<>>
    BY <2>4, <2>5
  <2>2. Places(<<>>, W) = {}
    BY DEF Places
  <2>3. QED
    BY <2>1, <2>2 DEF Amount
<1>3. CASE n # 0
  <2>1. PICK f : /\ FlattenSeq(parts) = f[n] /\ f[1] = parts[1]
                 /\ \A i \in 2..n : f[i] = f[i - 1] \o parts[i]
    BY <1>3, FlattenIs
  <2> DEFINE T == {k \in 0..n : k # 0 => IsSequence(f[k]) /\ Amount(f[k], W) = Cardinality(Upto(k))}
  <2>2. 0 \in T
    BY <1>1
  <2>3. ASSUME NEW k \in 1..n, k - 1 \in T PROVE k \in T
    <3>1. Upto(k) = IF k \in P THEN Upto(k - 1) \cup {k} ELSE Upto(k - 1)
      BY <1>1
    <3>2. IsFiniteSet(Upto(k - 1)) /\ k \notin Upto(k - 1)
      BY <1>1, FS_Subset
    <3>3. Cardinality(Upto(k - 1)) \in Nat
      BY <3>2, FS_CardinalityType
    <3> HIDE DEF Upto, n
    <3>4. Cardinality(Upto(k)) = Cardinality(Upto(k - 1)) + (IF k \in P THEN 1 ELSE 0)
      BY SMTT(20), <3>1, <3>2, <3>3, FS_AddElement
    <3>5. IsSequence(parts[k]) /\ Amount(parts[k], W) = IF k \in P THEN 1 ELSE 0
      BY <1>1
    <3>6. CASE k = 1
      <4>1. Upto(0) = {}
        BY <1>1 DEF Upto
      <4>2. Cardinality(Upto(k - 1)) = 0
        BY <3>6, <4>1, FS_EmptySet
      <4>3. f[k] = parts[k]
        BY <2>1, <3>6
      <4>4. QED
        BY <1>1, <3>4, <3>5, <4>2, <4>3
    <3>7. CASE k # 1
      <4>1. k \in 2..n /\ k - 1 # 0
        BY <1>1, <3>7
      <4>2. /\ f[k] = f[k - 1] \o parts[k] /\ IsSequence(f[k - 1])
            /\ Amount(f[k - 1], W) = Cardinality(Upto(k - 1))
        BY <2>1, <2>3, <4>1
      <4>3. IsSequence(f[k]) /\ Amount(f[k], W) = Amount(f[k - 1], W) + Amount(parts[k], W)
        BY <3>5, <4>2, Joined, AmountJoined
      <4>4. Amount(f[k], W) = Cardinality(Upto(k))
        BY <3>3, <3>4, <3>5, <4>2, <4>3
      <4>5. QED
        BY <1>1, <4>3, <4>4
    <3>8. QED
      BY <3>6, <3>7
  <2> HIDE DEF T, Upto
  <2>4. \A k \in 0..n : k \in T
    BY <1>1, <2>2, <2>3, Stepwise
  <2>5. n \in T
    BY <1>1, <2>4
  <2>6. Upto(n) = P
    BY <1>1 DEF Upto
  <2>7. QED
    BY <1>3, <2>1, <2>5, <2>6 DEF T
<1>4. QED
  BY <1>2, <1>3

\* Literals.
LEMMA AmountFew ==
  /\ \A W : Amount(<<>>, W) = 0
  /\ \A x, W : Amount(<<x>>, W) = IF x \in W THEN 1 ELSE 0
<1>1. ASSUME NEW W PROVE Amount(<<>>, W) = 0
  <2>1. Places(<<>>, W) = {}
    BY DEF Places
  <2>2. QED
    BY <2>1, FS_EmptySet DEF Amount
<1>2. ASSUME NEW x, NEW W PROVE Amount(<<x>>, W) = IF x \in W THEN 1 ELSE 0
  <2>1. Places(<<x>>, W) = IF x \in W THEN {1} ELSE {}
    BY DEF Places
  <2>2. Cardinality({1}) = 1 /\ Cardinality({}) = 0
    BY FS_EmptySet, FS_Singleton
  <2>3. QED
    BY <2>1, <2>2 DEF Amount
<1>3. QED
  BY <1>1, <1>2

LEMMA AmountPair ==
  ASSUME NEW x, NEW y
  PROVE  /\ IsSequence(<<x, y>>)
         /\ \A W : Amount(<<x, y>>, W) = (IF x \in W THEN 1 ELSE 0) + (IF y \in W THEN 1 ELSE 0)
<1> DEFINE s == <<x>> \o <<y>>
<1>1. IsSequence(<<x>>) /\ Len(<<x>>) = 1 /\ <<x>>[1] = x /\ IsSequence(<<y>>) /\ Len(<<y>>) = 1 /\ <<y>>[1] = y
  BY OneEntry
<1>2. /\ IsSequence(s) /\ Len(s) = Len(<<x>>) + Len(<<y>>)
      /\ \A i \in 1..Len(<<x>>) : s[i] = <<x>>[i]
      /\ \A i \in 1..Len(<<y>>) : s[Len(<<x>>) + i] = <<y>>[i]
      /\ \A W : Amount(s, W) = Amount(<<x>>, W) + Amount(<<y>>, W)
  BY <1>1, Joined, AmountJoined
<1> HIDE DEF s
<1>3. Len(s) = 2 /\ s[1] = x /\ s[2] = y
  <2> DEFINE a == <<x>>
             b == <<y>>
  <2>1. Len(a) = 1 /\ a[1] = x /\ Len(b) = 1 /\ b[1] = y
    BY <1>1
  <2>2. /\ Len(s) = Len(a) + Len(b) /\ \A i \in 1..Len(a) : s[i] = a[i]
        /\ \A i \in 1..Len(b) : s[Len(a) + i] = b[i]
    BY <1>2
  <2> HIDE DEF a, b
  <2>3. Len(s) = 2 /\ 1 \in 1..Len(a) /\ 1 \in 1..Len(b) /\ Len(a) + 1 = 2
    BY <2>1, <2>2
  <2>4. s[1] = a[1] /\ s[Len(a) + 1] = b[1]
    BY <2>2, <2>3
  <2>5. QED
    BY <2>1, <2>3, <2>4
<1>4. s = [i \in 1..2 |-> s[i]]
  BY <1>2, <1>3 DEF IsSequence
<1>5. s = <<x, y>>
  BY <1>3, <1>4
<1>6. \A W : /\ Amount(<<x>>, W) = IF x \in W THEN 1 ELSE 0
             /\ Amount(<<y>>, W) = IF y \in W THEN 1 ELSE 0
  BY AmountFew
<1>7. \A W : Amount(s, W) = (IF x \in W THEN 1 ELSE 0) + (IF y \in W THEN 1 ELSE 0)
  BY <1>2, <1>6
<1>8. QED
  BY <1>2, <1>5, <1>7

\* A kind that is not in the sites or the replacement occurs as often as before; a site
\* is gone unless the replacement has it; and what the replacement has once, and was
\* not there, is there as often as the sites were.
LEMMA AmountReplaced ==
  ASSUME NEW src, IsSequence(src), NEW F, NEW by, IsSequence(by)
  PROVE  LET new == ReplaceFragment(src, F, by)
         IN /\ IsSequence(new)
            /\ \A W : W \cap F = {} /\ Amount(by, W) = 0 => Amount(new, W) = Amount(src, W)
            /\ \A W : F \subseteq W /\ Amount(by, W) = 1 => Amount(new, W) = Amount(src, W)
            /\ \A W : W \subseteq F /\ Amount(by, W) = 0 => Amount(new, W) = 0
            /\ \A m : m \notin F /\ Count(src, m) = 0 /\ Count(by, m) = 1 =>
                 Count(new, m) = Amount(src, F)
<1> DEFINE parts == [i \in DOMAIN src |-> IF src[i] \in F THEN by ELSE <<src[i]>>]
           new == ReplaceFragment(src, F, by)
<1>1. DOMAIN src = 1..Len(src) /\ Len(src) \in Nat
  BY AsSeq
<1>2. \A i \in DOMAIN src : IsSequence(parts[i])
  BY OneEntry
<1>3. parts = [i \in 1..Len(src) |-> parts[i]] /\ DOMAIN parts = DOMAIN src
  BY <1>1
<1>4. new = FlattenSeq(parts)
  BY DEF ReplaceFragment
<1>5. \A i \in DOMAIN src : parts[i] = IF src[i] \in F THEN by ELSE <<src[i]>>
  OBVIOUS
<1> HIDE DEF parts, new
<1>6. IsSequence(parts)
  BY <1>1, <1>3, MadeSequence
<1>7. ASSUME NEW W PROVE
        \A i \in DOMAIN src : Amount(parts[i], W) =
          IF src[i] \in F THEN Amount(by, W) ELSE IF src[i] \in W THEN 1 ELSE 0
  <2> TAKE i \in DOMAIN src
  <2>1. parts[i] = IF src[i] \in F THEN by ELSE <<src[i]>>
    BY <1>5
  <2>2. Amount(<<src[i]>>, W) = IF src[i] \in W THEN 1 ELSE 0
    BY AmountFew
  <2>3. QED
    BY <2>1, <2>2
<1>14. ASSUME NEW W, NEW P \in SUBSET DOMAIN src,
              \A i \in DOMAIN src : Amount(parts[i], W) = IF i \in P THEN 1 ELSE 0
       PROVE  Amount(new, W) = Cardinality(P)
  <2>1. \A i \in DOMAIN parts :
          IsSequence(parts[i]) /\ Amount(parts[i], W) = IF i \in P THEN 1 ELSE 0
    BY <1>2, <1>3, <1>14
  <2>2. P \in SUBSET DOMAIN parts
    BY <1>3
  <2>3. Amount(FlattenSeq(parts), W) = Cardinality(P)
    BY <1>6, <2>1, <2>2, AmountFlat
  <2>4. QED
    BY <1>4, <2>3
<1>8. ASSUME NEW W, W \cap F = {}, Amount(by, W) = 0 PROVE Amount(new, W) = Amount(src, W)
  <2>1. \A i \in DOMAIN src : Amount(parts[i], W) = IF i \in Places(src, W) THEN 1 ELSE 0
    BY <1>7, <1>8 DEF Places
  <2>2. Places(src, W) \in SUBSET DOMAIN src
    BY DEF Places
  <2>3. QED
    BY <1>14, <2>1, <2>2 DEF Amount
<1>9. ASSUME NEW W, F \subseteq W, Amount(by, W) = 1 PROVE Amount(new, W) = Amount(src, W)
  <2>1. \A i \in DOMAIN src : Amount(parts[i], W) = IF i \in Places(src, W) THEN 1 ELSE 0
    BY <1>7, <1>9 DEF Places
  <2>2. Places(src, W) \in SUBSET DOMAIN src
    BY DEF Places
  <2>3. QED
    BY <1>14, <2>1, <2>2 DEF Amount
<1>10. ASSUME NEW W, W \subseteq F, Amount(by, W) = 0 PROVE Amount(new, W) = 0
  <2>1. \A i \in DOMAIN src : Amount(parts[i], W) = IF i \in {} THEN 1 ELSE 0
    BY <1>7, <1>10
  <2>2. {} \in SUBSET DOMAIN src
    OBVIOUS
  <2>3. Amount(new, W) = Cardinality({})
    BY <1>14, <2>1, <2>2
  <2>4. QED
    BY <2>3, FS_EmptySet
<1>11. ASSUME NEW m, m \notin F, Count(src, m) = 0, Count(by, m) = 1
       PROVE  Count(new, m) = Amount(src, F)
  <2>1. Amount(by, {m}) = 1 /\ \A i \in DOMAIN src : src[i] \notin {m}
    BY <1>11, CountIs, AmountIs
  <2>2. \A i \in DOMAIN src : Amount(parts[i], {m}) = IF i \in Places(src, F) THEN 1 ELSE 0
    BY <1>7, <2>1 DEF Places
  <2>3. Places(src, F) \in SUBSET DOMAIN src
    BY DEF Places
  <2>4. Amount(new, {m}) = Amount(src, F)
    BY <1>14, <2>2, <2>3 DEF Amount
  <2>5. QED
    BY <2>4, CountIs
<1>12. IsSequence(new)
  BY Replaced DEF new
<1>13. QED
  BY <1>8, <1>9, <1>10, <1>11, <1>12 DEF new

\* What is kept is there as often as before, and the rest is gone.
LEMMA AmountDropped ==
  ASSUME NEW src, IsSequence(src), NEW fragments
  PROVE  LET new == Dropping(src, fragments)
         IN /\ IsSequence(new)
            /\ \A W : W \cap fragments = {} => Amount(new, W) = Amount(src, W)
            /\ \A W : W \subseteq fragments => Amount(new, W) = 0
            /\ \A i \in DOMAIN new : new[i] \notin fragments
<1> DEFINE positions == {i \in DOMAIN src : src[i] \notin fragments}
           new == Dropping(src, fragments)
           n == Cardinality(positions)
<1>1. DOMAIN src = 1..Len(src) /\ Len(src) \in Nat
  BY AsSeq
<1>2. /\ IsSequence(new) /\ Len(new) = n /\ n \in Nat
      /\ \A k \in 1..n : At(positions, k) \in positions /\ new[k] = src[At(positions, k)]
      /\ \A i \in positions : \E k \in 1..n : At(positions, k) = i
      /\ \A j, k \in 1..n : j < k => At(positions, j) < At(positions, k)
  BY ZenonT(30), KeptIs DEF Dropping
<1>3. DOMAIN new = 1..n
  BY <1>2, AsSeq
<1>4. positions \subseteq 1..Len(src) /\ \A i \in positions : src[i] \notin fragments
  BY <1>1
<1>5. \A W : W \cap fragments = {} => Places(src, W) \subseteq positions
  BY DEF Places
<1> HIDE DEF positions, new, n
<1>6. \A i \in DOMAIN new : new[i] \notin fragments
  BY <1>2, <1>3, <1>4
<1>7. ASSUME NEW W, W \cap fragments = {} PROVE Amount(new, W) = Amount(src, W)
  <2> DEFINE P == Places(new, W)
             Q == Places(src, W)
             f == [k \in P |-> At(positions, k)]
  <2>1. P \subseteq 1..n /\ IsFiniteSet(P)
    BY <1>2, <1>3, AmountIs
  <2>2. \A k \in P : f[k] \in Q
    BY <1>1, <1>2, <1>3, <1>4, <2>1 DEF Places
  <2>3. \A j \in Q : \E k \in P : f[k] = j
    <3> SUFFICES ASSUME NEW j \in Q PROVE \E k \in P : f[k] = j
      OBVIOUS
    <3>1. PICK k \in 1..n : At(positions, k) = j
      BY <1>2, <1>5, <1>7
    <3>2. new[k] = src[j] /\ src[j] \in W
      BY <1>2, <3>1 DEF Places
    <3>3. k \in P
      BY <1>3, <3>2 DEF Places
    <3>4. QED
      BY <3>1, <3>3
  <2>4. \A i, k \in P : f[i] = f[k] => i = k
    <3> SUFFICES ASSUME NEW i \in P, NEW k \in P, f[i] = f[k] PROVE i = k
      OBVIOUS
    <3>1. i \in 1..n /\ k \in 1..n /\ At(positions, i) = At(positions, k)
      BY <2>1
    <3>5. At(positions, i) \in 1..Len(src)
      BY <1>2, <1>4, <3>1
    <3>2. At(positions, i) \in Int
      BY <1>1, <3>5
    <3>3. ~ (i < k) /\ ~ (k < i)
      BY <1>2, <3>1, <3>2
    <3>4. QED
      BY <1>2, <3>1, <3>3
  <2>5. f \in [P -> Q]
    BY <2>2
  <2> HIDE DEF P, Q, f
  <2>6. Cardinality(Q) = Cardinality(P)
    BY <2>1, <2>3, <2>4, <2>5, SameAmount
  <2>7. QED
    BY <2>6 DEF P, Q, Amount
<1>8. ASSUME NEW W, W \subseteq fragments PROVE Amount(new, W) = 0
  BY <1>2, <1>6, <1>8, AmountIs
<1>9. QED
  BY <1>2, <1>6, <1>7, <1>8 DEF new

\* An insertion has before and behind it what was there.
InsertedBetween(low, high, src, at, x) ==
  /\ IsSequence(low) /\ IsSequence(high) /\ Len(low) = at - 1 /\ src = low \o high
  /\ InsertAt(src, at, x) = (low \o <<x>>) \o high

LEMMA InsertedIs ==
  ASSUME NEW src, IsSequence(src), NEW at \in 1..Len(src) + 1, NEW x
  PROVE  \E low, high : InsertedBetween(low, high, src, at, x)
<1> DEFINE low == SubSeq(src, 1, at - 1)
           high == SubSeq(src, at, Len(src))
<1>1. DOMAIN src = 1..Len(src) /\ Len(src) \in Nat /\ at \in Int /\ at - 1 \in Int
  BY AsSeq
<1>2. /\ IsSequence(low) /\ Len(low) = at - 1 /\ \A i \in 1..at - 1 : low[i] = src[i]
  <2>1. (at - 1) - 1 + 1 = at - 1 /\ \A i \in 1..at - 1 : 1 + i - 1 = i
    BY <1>1
  <2>2. /\ IsSequence(low) /\ Len(low) = IF 1 <= at - 1 THEN (at - 1) - 1 + 1 ELSE 0
        /\ \A i \in 1..(at - 1) - 1 + 1 : low[i] = src[1 + i - 1]
    BY <1>1, Part
  <2>3. Len(low) = at - 1
    BY <1>1, <2>2
  <2>4. QED
    BY <2>1, <2>2, <2>3
<1>3. /\ IsSequence(high) /\ Len(high) = Len(src) - at + 1
      /\ \A i \in 1..Len(src) - at + 1 : high[i] = src[at + i - 1]
  <2>1. /\ IsSequence(high) /\ Len(high) = IF at <= Len(src) THEN Len(src) - at + 1 ELSE 0
        /\ \A i \in 1..Len(src) - at + 1 : high[i] = src[at + i - 1]
    BY <1>1, Part
  <2>2. Len(high) = Len(src) - at + 1
    BY <1>1, <2>1
  <2>3. QED
    BY <2>1, <2>2
<1>4. InsertAt(src, at, x) = (low \o <<x>>) \o high
  BY DEF InsertAt
<1> HIDE DEF low, high
<1>5. src = low \o high
  <2>1. /\ IsSequence(low \o high) /\ Len(low \o high) = Len(low) + Len(high)
        /\ \A i \in 1..Len(low) : (low \o high)[i] = low[i]
        /\ \A i \in 1..Len(high) : (low \o high)[Len(low) + i] = high[i]
    <3> HIDE DEF low, high
    <3>1. IsSequence(low) /\ IsSequence(high)
      BY <1>2, <1>3
    <3>2. QED
      BY <3>1, Joined
  <2>2. Len(low \o high) = Len(src)
    BY <1>1, <1>2, <1>3, <2>1
  <2>3. ASSUME NEW i \in 1..Len(src) PROVE src[i] = (low \o high)[i]
    <3>1. CASE i <= at - 1
      BY <1>1, <1>2, <2>1, <3>1
    <3>2. CASE ~ (i <= at - 1)
      <4> DEFINE j == i - (at - 1)
      <4>1. j \in 1..Len(src) - at + 1 /\ at - 1 + j = i /\ at + j - 1 = i
        BY <1>1, <3>2
      <4>2. (low \o high)[at - 1 + j] = high[j] /\ high[j] = src[at + j - 1]
        BY <1>2, <1>3, <2>1, <4>1
      <4>3. QED
        BY <4>1, <4>2
    <3>3. QED
      BY <1>1, <3>1, <3>2
  <2>4. src = [i \in 1..Len(src) |-> src[i]] /\ low \o high = [i \in 1..Len(src) |-> (low \o high)[i]]
    BY <2>1, <2>2 DEF IsSequence
  <2> HIDE DEF low, high
  <2>5. QED
    BY <2>3, <2>4
<1>6. InsertedBetween(low, high, src, at, x)
  BY <1>2, <1>3, <1>4, <1>5 DEF InsertedBetween
<1>7. QED
  BY <1>6

\* It adds one of its kind.
LEMMA AmountInserted ==
  ASSUME NEW src, IsSequence(src), NEW at \in 1..Len(src) + 1, NEW x
  PROVE  /\ IsSequence(InsertAt(src, at, x))
         /\ \A W : Amount(InsertAt(src, at, x), W) = Amount(src, W) + (IF x \in W THEN 1 ELSE 0)
<1>9. PICK low, high : InsertedBetween(low, high, src, at, x)
  BY InsertedIs
<1>1. /\ IsSequence(low) /\ IsSequence(high) /\ src = low \o high
      /\ InsertAt(src, at, x) = (low \o <<x>>) \o high
  BY <1>9 DEF InsertedBetween
<1>2. IsSequence(<<x>>)
  BY OneEntry
<1>3. IsSequence(low \o <<x>>) /\ \A W : Amount(low \o <<x>>, W) = Amount(low, W) + Amount(<<x>>, W)
  BY <1>1, <1>2, Joined, AmountJoined
<1>4. /\ IsSequence((low \o <<x>>) \o high)
      /\ \A W : Amount((low \o <<x>>) \o high, W) = Amount(low \o <<x>>, W) + Amount(high, W)
  BY <1>1, <1>3, Joined, AmountJoined
<1>5. \A W : Amount(src, W) = Amount(low, W) + Amount(high, W)
  BY <1>1, AmountJoined
<1>6. \A W : Amount(low, W) \in Nat /\ Amount(high, W) \in Nat
  BY <1>1, AmountIs
<1>7. ASSUME NEW W
      PROVE  Amount(InsertAt(src, at, x), W) = Amount(src, W) + (IF x \in W THEN 1 ELSE 0)
  <2>1. Amount(<<x>>, W) = IF x \in W THEN 1 ELSE 0
    BY AmountFew
  <2>2. Amount(src, W) = Amount(low, W) + Amount(high, W)
    BY <1>5
  <2>3. Amount(InsertAt(src, at, x), W) = (Amount(low, W) + Amount(<<x>>, W)) + Amount(high, W)
    BY <1>1, <1>3, <1>4
  <2>4. QED
    BY <1>6, <2>1, <2>2, <2>3
<1>8. QED
  BY <1>1, <1>4, <1>7

-----------------------------------------------------------------------------
(* Which patch works on a fragment.  The turn of a site is the place of its *)
(* patch among all there are: its set's place times twenty, and its own in  *)
(* the set.  A fragment a replacement writes is made at its patch's turn.   *)

Turn(w) ==
  CASE w = "thinking-guard" -> 21 [] w = "thinking-render" -> 22
    [] w = "thinking-group" -> 23 [] w = "channels-gate" -> 41 [] w = "harbor-flag" -> 42
    [] w = "respawn-flags" -> 61 [] w = "dispatch-array" -> 62 [] w = "worker-parse" -> 63
    [] w = "native-launch" -> 81 [] w = "channels-serialized" -> 82
    [] w = "agents-launch" -> 83 [] w = "agents-config" -> 84 [] w = "legacy-mount" -> 85
    [] w = "provider-snapshot" -> 101 [] w = "persisted-env" -> 102
    [] w = "respawn-guard" -> 103 [] w = "host-provider" -> 104
    [] w = "provider-socket" -> 105 [] w = "provider-ack" -> 106
    [] w = "provider-control" -> 107 [] w = "worker-class" -> 108 [] w = "worker-env" -> 109
    [] w = "worker-tail" -> 110 [] w = "claimed-entry" -> 111
    [] w = "settings-restores" -> 112 [] w = "class-with-field" -> 113
    [] w = "native-settings" -> 114 [] w = "settings-filter" -> 115
    [] w = "provider-capture" -> 116 [] w = "agents-settings" -> 117
    [] w = "claimed-apply-final" -> 118 [] w = "dispatch-launch" -> 119
    [] w = "model-costs" -> 121 [] w = "sdk-tail" -> 122 [] w = "requests" -> 123
    [] w = "agent-model" -> 124 [] w = "account-storage" -> 125
    [] w = "message-threads" -> 126 [] w = "syntax-map" -> 141 [] w = "summary-gate" -> 161
    [] w = "display-helper" -> 162 [] w = "subagent-filter" -> 163 [] w = "todo-tool" -> 181
    [] w = "tool-registry" -> 182 [] w = "compact-guard" -> 183
    [] w = "stream-events" -> 201 [] w = "stream-view" -> 202 [] w = "turn-reset" -> 203
    [] w = "stream-provider" -> 204 [] w = "model-save" -> 221
    [] w = "picker-default" -> 222 [] w = "message-removal" -> 241 [] w = "arbiter" -> 261
    [] w = "low-memory" -> 281 [] OTHER -> 0

Made(w) ==
  CASE w = "thinking-always" -> 21 [] w = "expanded-render" -> 22
    [] w = "thinking-alone" -> 23 [] w = "channels-on" -> 41 [] w = "harbor-on" -> 42
    [] w = "respawn-dev-flags" -> 61 [] w = "dispatch-dev-array" -> 62
    [] w = "worker-dev-parse" -> 63 [] w = "dispatch-args" -> 83
    [] w = "dispatch-launch" -> 83 [] w = "agents-helper" -> 84
    [] w = "legacy-options" -> 85 [] w = "patched-snapshot" -> 101
    [] w = "provider-capture" -> 101 [] w = "state-without-env" -> 102
    [] w = "respawn-unguarded" -> 103 [] w = "live-host-required" -> 104
    [] w = "socket-provider-env" -> 105 [] w = "versioned-ack" -> 106
    [] w = "control-checked" -> 107 [] w = "provider-field" -> 108
    [] w = "class-with-field" -> 108 [] w = "worker-scrubbed" -> 109
    [] w = "worker-tail" -> 109 [] w = "worker-restored" -> 110
    [] w = "claimed-provider" -> 111 [] w = "claimed-apply-final" -> 111
    [] w = "settings-restored" -> 112 [] w = "provider-lifecycle" -> 113
    [] w = "settings-initialize" -> 114 [] w = "provider-filter" -> 115
    [] w = "agents-capture" -> 116 [] w = "policy-boundary" -> 116
    [] w = "agents-restored" -> 117 [] w = "claim-reset" -> 118
    [] w = "agents-provider-env" -> 119 [] w = "provider-costs" -> 121
    [] w = "sdk-captured" -> 122 [] w = "sdk-helper" -> 122 [] w = "requests-routed" -> 123
    [] w = "agent-catalogue" -> 124 [] w = "accounts-installed" -> 125
    [] w = "threads-native-only" -> 126 [] w = "syntax-macchiato" -> 141
    [] w = "summary-ungated" -> 161 [] w = "setting-first" -> 162
    [] w = "subagent-kept" -> 163 [] w = "compact-tool" -> 181
    [] w = "compact-listed" -> 182 [] w = "compact-flag" -> 183
    [] w = "thinking-accumulated" -> 201 [] w = "thinking-preview" -> 202
    [] w = "preview-reset" -> 203 [] w = "preview-mounted" -> 204
    [] w = "model-not-saved" -> 221 [] w = "picker-session" -> 222
    [] w = "removal-archived" -> 241 [] w = "arbiter-fallback" -> 261
    [] w = "low-memory-env" -> 281 [] OTHER -> 0

\* What is no fragment of a patch: the boundaries, and what the runtime writes.
Reserved == Boundaries \cup BootFragments \cup {Prelude}

\* What replacements write besides their marks.
Helpers == {"agents-helper", "agents-capture", "policy-boundary", "sdk-helper"}

\* The launch of an agent as it came, as the agents view rewrote it, and the native one;
\* and the marks that the respawn guard would take for itself, were they there yet.
Launches == {"agents-launch", "dispatch-launch", "native-launch"}
Guarded == {"control-checked", "provider-lifecycle"}

\* A fragment that no patch works on: as often as its patch left it, it stays.
Plain(w) == Turn(w) = 0 /\ w \notin Helpers \cup Reserved

GoodPatch(p) ==
  /\ IsSequence(p.to)
  /\ Turn(p.at) \in Nat /\ Made(p.at) \in Nat /\ Made(p.at) < Turn(p.at) /\ p.at \notin Reserved
  /\ \A w \in ToSet(p.to) :
       /\ w \notin Reserved
       /\ w = p.at \/ Made(w) = Turn(p.at)
       /\ Plain(w) => w \in Marks(p)
       /\ Count(p.to, w) = 1
  /\ \A m \in Marks(p) : Plain(m)
  /\ p.counts \subseteq Nat \ {0}
  /\ \/ p.also = {}
     \/ p.at = "respawn-guard" /\ p.also = Guarded
     \/ p.at = "dispatch-launch" /\ p.also = Launches \ {"dispatch-launch"}
  /\ p.also # {} => p.at \notin ToSet(p.to)
  /\ p.at \in {"agents-launch", "native-launch"} => Amount(p.to, Launches) = 1

\* What patches left in a source: their sites are gone, unless they wrote them back
\* or a site is the mark of another,
\* their marks are there as often as the sites were, and no mark of another patch is.
Applied(P, src) ==
  /\ IsSequence(src)
  /\ \A p \in P : \A f \in Sites(p) : f \in ToSet(p.to) \cup Guarded \/ Count(src, f) = 0
  /\ \A p \in P : \A m \in Marks(p) :
       Count(src, m) \in p.counts \/ (~p.required /\ Count(src, m) = 0)
  /\ \A w \in Left : Plain(w) /\ (\A p \in P : w \notin Marks(p)) => Count(src, w) = 0

\* Patches whose turn is past.
Past(P, turn) ==
  \A q \in P : GoodPatch(q) /\ Marks(q) \subseteq Left /\ Turn(q.at) < turn

\* Every word has a turn.
LEMMA TurnType == \A w : Turn(w) \in Nat /\ Made(w) \in Nat
BY DEF Turn, Made

\* One site has the turn at which the agents view rewrites the launch.
LEMMA LaunchTurn == \A w : Turn(w) = 83 => w = "agents-launch"
BY SMTT(60) DEF Turn

\* A mark is in the replacement, and is not the site.
LEMMA MarkIs ==
  ASSUME NEW p, IsSequence(p.to), NEW m \in Marks(p)
  PROVE  m \in ToSet(p.to) /\ m # p.at
<1>1. p.to # <<>> /\ m = Head(p.to) /\ m # p.at
  BY DEF Marks
<1>2. DOMAIN p.to = 1..Len(p.to) /\ Len(p.to) \in Nat /\ p.to = [i \in 1..Len(p.to) |-> p.to[i]]
  BY AsSeq DEF IsSequence
<1>3. Len(p.to) # 0
  <2>1. Len(p.to) = 0 => p.to = <<>>
    BY <1>2
  <2>2. QED
    BY <1>1, <2>1
<1>4. Head(p.to) = p.to[1]
  OBVIOUS
<1>5. QED
  BY <1>1, <1>2, <1>3, <1>4 DEF ToSet

\* A word that is not in a replacement is not written.
LEMMA NotWritten ==
  ASSUME NEW s, IsSequence(s)
  PROVE  \A W : (\A w \in ToSet(s) : w \notin W) => Amount(s, W) = 0
BY AmountIs DEF ToSet

\* What a pattern takes besides its site: marks of later patches, or launches, which
\* are the sites of earlier ones.
LEMMA AlsoIs ==
  ASSUME NEW p, GoodPatch(p), NEW f \in p.also
  PROVE  /\ f \notin Reserved /\ f \notin ToSet(p.to) /\ f # p.at
         /\ \/ f \in Guarded /\ Plain(f) /\ Turn(p.at) < Made(f)
            \/ f \in Launches /\ Made(f) = 0 /\ Turn(f) # 0 /\ Turn(f) < Turn(p.at)
<1>1. CASE p.at = "respawn-guard" /\ p.also = Guarded
  <2>1. f \in Guarded /\ Turn(f) = 0 /\ Made(f) > 103 /\ f \notin Helpers \cup Reserved
    <3>1. f \in Guarded
      BY <1>1
    <3>2. Turn("control-checked") = 0 /\ Turn("provider-lifecycle") = 0
      BY DEF Turn
    <3>3. Made("control-checked") = 107 /\ Made("provider-lifecycle") = 113
      BY DEF Made
    <3>4. f \notin Helpers \cup Reserved
      BY <3>1 DEF Guarded, Helpers, Reserved, Boundaries, BootFragments, Boots, Prelude
    <3>5. QED
      BY <3>1, <3>2, <3>3, <3>4 DEF Guarded
  <2>2. Turn(p.at) = 103
    BY <1>1 DEF Turn
  <2>3. f # p.at /\ Made(f) # Turn(p.at) /\ Turn(p.at) < Made(f)
    BY <2>1, <2>2
  <2>4. f \notin ToSet(p.to)
    BY <2>3 DEF GoodPatch
  <2>5. QED
    BY <2>1, <2>3, <2>4 DEF Plain
<1>2. CASE p.at = "dispatch-launch" /\ p.also = Launches \ {"dispatch-launch"}
  <2>1. f \in Launches /\ f # p.at /\ f \in {"agents-launch", "native-launch"}
    BY <1>2 DEF Launches
  <2>2. Made(f) = 0 /\ Turn(f) # 0 /\ Turn(f) < 119 /\ f \notin Reserved
    <3>1. Made("agents-launch") = 0 /\ Made("native-launch") = 0
      BY DEF Made
    <3>2. Turn("agents-launch") = 83 /\ Turn("native-launch") = 81
      BY DEF Turn
    <3>3. f \notin Reserved
      BY <2>1 DEF Reserved, Boundaries, BootFragments, Boots, Prelude
    <3>4. QED
      BY <2>1, <3>1, <3>2, <3>3
  <2>3. Turn(p.at) = 119
    BY <1>2 DEF Turn
  <2>4. f \notin ToSet(p.to)
    BY <2>1, <2>2, <2>3 DEF GoodPatch
  <2>5. QED
    BY <2>1, <2>2, <2>3, <2>4
<1>3. QED
  BY <1>1, <1>2 DEF GoodPatch

\* A patch does not touch what is reserved.
LEMMA PatchReserved ==
  ASSUME NEW src, IsSequence(src), NEW p, GoodPatch(p), NEW W, W \subseteq Reserved
  PROVE  Amount(ReplaceFragment(src, Sites(p), p.to), W) = Amount(src, W)
<1>1. (\A w \in ToSet(p.to) : w \notin W) /\ p.at \notin W /\ IsSequence(p.to)
  BY DEF GoodPatch
<1>2. Amount(p.to, W) = 0
  BY <1>1, NotWritten
<1>3. W \cap Sites(p) = {}
  BY <1>1, AlsoIs DEF Sites
<1>4. QED
  BY <1>1, <1>2, <1>3, AmountReplaced

\* The next patch leaves what the earlier ones left, and its own.
LEMMA PatchStep ==
  ASSUME NEW P, NEW src, Applied(P, src), NEW p, Past(P, Turn(p.at)),
         GoodPatch(p), Marks(p) \subseteq Left, ~Fails(p, src)
  PROVE  Applied(P \cup {p}, ReplaceFragment(src, Sites(p), p.to))
<1> DEFINE new == ReplaceFragment(src, Sites(p), p.to)
<1>1. /\ IsSequence(src) /\ IsSequence(p.to) /\ p.at \in Sites(p) /\ Turn(p.at) \in Nat
      /\ \A q \in P : GoodPatch(q) /\ Marks(q) \subseteq Left /\ Turn(q.at) < Turn(p.at)
  BY DEF Applied, GoodPatch, Past, Sites
<1>2. /\ IsSequence(new)
      /\ \A W : W \cap Sites(p) = {} /\ Amount(p.to, W) = 0 => Amount(new, W) = Amount(src, W)
      /\ \A W : W \subseteq Sites(p) /\ Amount(p.to, W) = 0 => Amount(new, W) = 0
      /\ \A m : m \notin Sites(p) /\ Count(src, m) = 0 /\ Count(p.to, m) = 1 =>
           Count(new, m) = Amount(src, Sites(p))
  BY <1>1, AmountReplaced
<1> HIDE DEF new
<1>3. \A f \in Sites(p) : f = p.at \/ f \in p.also
  BY DEF Sites
<1>4. ASSUME NEW w, w \notin ToSet(p.to)
      PROVE  Count(new, w) = IF w \in Sites(p) THEN 0 ELSE Count(src, w)
  <2>1. Amount(p.to, {w}) = 0
    BY <1>1, <1>4, NotWritten
  <2>2. CASE w \in Sites(p)
    BY <1>2, <2>1, <2>2, CountIs
  <2>3. CASE w \notin Sites(p)
    BY <1>2, <2>1, <2>3, CountIs
  <2>4. QED
    BY <2>2, <2>3
<1>5. ASSUME NEW q \in P, NEW f \in Sites(q), f \notin ToSet(q.to) \cup Guarded,
             Count(src, f) = 0
      PROVE  Count(new, f) = 0
  <2>1. f \notin ToSet(p.to)
    <3>1. Turn(q.at) < Turn(p.at) /\ GoodPatch(q) /\ Turn(q.at) \in Nat /\ Made(f) \in Nat
      BY <1>1, TurnType
    <3>2. f # q.at => Made(f) = 0 /\ Turn(f) < Turn(q.at)
      BY <1>5, <3>1, AlsoIs DEF Sites
    <3>3. f = q.at => Made(f) < Turn(q.at) /\ Turn(f) = Turn(q.at)
      BY <3>1 DEF GoodPatch
    <3>4. Turn(f) \in Nat
      BY TurnType
    <3>5. Made(f) # Turn(p.at) /\ f # p.at
      BY <1>1, <3>1, <3>2, <3>3, <3>4
    <3>6. QED
      BY <3>5 DEF GoodPatch
  <2>2. QED
    BY <1>4, <1>5, <2>1
<1>6. ASSUME NEW q \in P, NEW m \in Marks(q) PROVE Count(new, m) = Count(src, m)
  <2>1. m \in ToSet(q.to) /\ m # q.at /\ Plain(m)
    BY <1>1, MarkIs DEF GoodPatch
  <2>2. Made(m) = Turn(q.at) /\ Turn(q.at) < Turn(p.at) /\ Turn(m) = 0 /\ Turn(p.at) # 0
    <3>1. Made(p.at) < Turn(p.at)
      BY DEF GoodPatch
    <3>2. QED
      BY <1>1, <2>1, <3>1, TurnType DEF GoodPatch, Plain
  <2>3. m \notin ToSet(p.to) /\ m # p.at
    BY <2>2, TurnType DEF GoodPatch
  <2>4. m \notin p.also
    <3>1. Turn(q.at) \in Nat
      BY TurnType
    <3>2. QED
      BY <1>1, <2>2, <3>1, AlsoIs
  <2>5. QED
    BY <1>3, <1>4, <2>3, <2>4
<1>7. ASSUME NEW m \in Marks(p)
      PROVE  Count(new, m) = Matches(src, Sites(p))
  <2>4. m # p.at /\ m \in ToSet(p.to)
    BY <1>1, MarkIs
  <2>1. Plain(m) /\ Count(p.to, m) = 1 /\ m # p.at /\ m \in ToSet(p.to) /\ m \in Left
    BY <2>4 DEF GoodPatch
  <2>2. \A q \in P : m \notin Marks(q)
    <3> SUFFICES ASSUME NEW q \in P, m \in Marks(q) PROVE FALSE
      OBVIOUS
    <3>1. m \in ToSet(q.to) /\ m # q.at
      BY <1>1, MarkIs DEF GoodPatch
    <3>2. Made(m) = Turn(q.at) /\ Made(m) = Turn(p.at) /\ Turn(q.at) < Turn(p.at)
      BY <1>1, <2>1, <3>1 DEF GoodPatch
    <3>3. QED
      BY <3>2, TurnType
  <2>3. Count(src, m) = 0
    BY <2>1, <2>2 DEF Applied
  <2>5. m \notin Sites(p)
    BY <1>3, <2>1, AlsoIs
  <2>6. QED
    BY <1>2, <2>1, <2>3, <2>5, MatchesIs
<1>8. LET n == Matches(src, Sites(p)) IN n \in p.counts \/ (~p.required /\ n = 0)
  BY DEF Fails
<1>9. ASSUME NEW q \in P \cup {p}, NEW f \in Sites(q)
      PROVE  f \in ToSet(q.to) \cup Guarded \/ Count(new, f) = 0
  <2>1. CASE q = p
    BY <1>4, <2>1
  <2>2. CASE q # p
    <3>1. q \in P
      BY <2>2
    <3>2. f \in ToSet(q.to) \cup Guarded \/ Count(src, f) = 0
      BY <3>1 DEF Applied
    <3>3. QED
      BY <1>5, <3>1, <3>2
  <2>3. QED
    BY <2>1, <2>2
<1>10. ASSUME NEW q \in P \cup {p}, NEW m \in Marks(q)
       PROVE  Count(new, m) \in q.counts \/ (~q.required /\ Count(new, m) = 0)
  <2>1. CASE q = p
    BY <1>7, <1>8, <1>10, <2>1
  <2>2. CASE q # p
    <3>1. q \in P
      BY <2>2
    <3>2. Count(src, m) \in q.counts \/ (~q.required /\ Count(src, m) = 0)
      BY <1>10, <3>1 DEF Applied
    <3>3. Count(new, m) = Count(src, m)
      BY <1>6, <1>10, <3>1
    <3>4. QED
      BY <3>2, <3>3
  <2>3. QED
    BY <2>1, <2>2
<1>11. ASSUME NEW w \in Left, Plain(w), \A q \in P \cup {p} : w \notin Marks(q)
       PROVE  Count(new, w) = 0
  <2>1. w \notin ToSet(p.to)
    BY <1>11 DEF GoodPatch
  <2>2. Count(src, w) = 0
    BY <1>11 DEF Applied
  <2>3. QED
    BY <1>4, <2>1, <2>2
<1>12. Applied(P \cup {p}, new)
  BY <1>2, <1>9, <1>10, <1>11 DEF Applied
<1>13. QED
  BY <1>12 DEF new

-----------------------------------------------------------------------------
(* A set, patch by patch. *)

\* Patches in turn, between two turns.
InTurn(patches, low, high) ==
  /\ IsSequence(patches)
  /\ \A i \in DOMAIN patches :
       GoodPatch(patches[i]) /\ low <= Turn(patches[i].at) /\ Turn(patches[i].at) <= high
  /\ \A i, k \in DOMAIN patches : i < k => Turn(patches[i].at) < Turn(patches[k].at)

\* A set of the engine: what it moves into the runtime is no mark.
GoodSet(set, low, high) ==
  /\ InTurn(set.patches, low, high)
  /\ \A w \in set.moves : ~Plain(w) /\ w \notin Reserved /\ Made(w) # 0 /\ w \notin Launches
  /\ set.boot = "never" \/ (set.boot \in {"always", "split"} /\ set.key \in DOMAIN Boots)

Registers(set, src) == set.boot = "always" \/ (set.boot = "split" /\ Split(src))

\* What ApplySet goes through.
LEMMA SetRun ==
  ASSUME NEW set, IsSequence(set.patches), NEW src
  PROVE  \E after : LET result == after[Len(set.patches)]
                    IN /\ after[0] = Outcome(TRUE, src)
                       /\ \A k \in 1..Len(set.patches) :
                            after[k] = ApplyPatch(set.patches[k], after[k - 1])
                       /\ ApplySet(set, src) =
                            IF result.ok /\ (\A f \in set.present : Count(result.source, f) > 0)
                                         /\ (\A f \in set.absent : Count(result.source, f) = 0)
                              THEN Outcome(TRUE, Register(result.source, set))
                              ELSE Outcome(FALSE, <<>>)
<1> DEFINE n == Len(set.patches)
           after == CHOOSE f : IsRun(f, set, src, n)
<1>1. n \in Nat
  BY AsSeq
<1>2. ApplySet(set, src) =
        IF after[n].ok /\ (\A f \in set.present : Count(after[n].source, f) > 0)
                       /\ (\A f \in set.absent : Count(after[n].source, f) = 0)
          THEN Outcome(TRUE, Register(after[n].source, set))
          ELSE Outcome(FALSE, <<>>)
  BY Zenon DEF ApplySet, IsRun
<1>3. IsRun(after, set, src, n)
  BY <1>1, RunExists
<1> HIDE DEF after, n
<1>4. \A k \in 0..n :
        after[k] = IF k = 0 THEN Outcome(TRUE, src) ELSE ApplyPatch(set.patches[k], after[k - 1])
  BY <1>3 DEF IsRun
<1>5. 0 \in 0..n /\ \A k \in 1..n : k \in 0..n /\ k # 0
  BY <1>1
<1>6. after[0] = Outcome(TRUE, src)
  BY Zenon, <1>4, <1>5
<1>7. \A k \in 1..n : after[k] = ApplyPatch(set.patches[k], after[k - 1])
  BY Zenon, <1>4, <1>5
<1>8. QED
  BY Zenon, <1>2, <1>6, <1>7 DEF n

\* Whether a source is split is a matter of its boundaries.
LEMMA SplitIs ==
  ASSUME NEW s, IsSequence(s)
  PROVE  Split(s) <=> Amount(s, Boundaries) # 0
BY AmountIs DEF Split

\* The words of the boundaries and of the runtime are not each other's.
LEMMA ReservedApart ==
  /\ Prelude \notin Boundaries /\ Prelude \notin BootFragments
  /\ Boundaries \cap BootFragments = {}
  /\ Boundaries \subseteq Reserved /\ BootFragments \subseteq Reserved /\ Prelude \in Reserved
  /\ \A k \in DOMAIN Boots : Boots[k] \in BootFragments
BY DEF Reserved, Boundaries, BootFragments, Boots, Prelude

\* A registration leaves what the patches left.
LEMMA RegisterStep ==
  ASSUME NEW P, NEW src, Applied(P, src), \A q \in P : GoodPatch(q),
         NEW set, NEW low, NEW high, GoodSet(set, low, high)
  PROVE  LET new == Register(src, set)
         IN /\ Applied(P, new)
            /\ Amount(new, Boundaries) = Amount(src, Boundaries)
            /\ Count(new, Prelude) = Count(src, Prelude)
            /\ Amount(new, BootFragments) =
                 Amount(src, BootFragments) + (IF Registers(set, src) THEN 1 ELSE 0)
<1> DEFINE kept == Dropping(src, set.moves)
           at == IF Split(kept) THEN 2 ELSE 1
           x == Boots[set.key]
           new == Register(src, set)
<1>1. IsSequence(src) /\ Amount(src, BootFragments) \in Nat
  BY AmountIs DEF Applied
<1>2. CASE ~Registers(set, src)
  <2>1. new = src
    BY <1>2 DEF Register, Registers
  <2> HIDE DEF new
  <2>2. QED
    BY <1>1, <1>2, <2>1 DEF new
<1>3. CASE Registers(set, src)
  <2>1. /\ new = InsertAt(kept, at, x) /\ x \in BootFragments
    BY <1>3, ReservedApart DEF Register, Registers, GoodSet
  <2>2. /\ IsSequence(kept)
        /\ \A W : W \cap set.moves = {} => Amount(kept, W) = Amount(src, W)
        /\ \A W : W \subseteq set.moves => Amount(kept, W) = 0
    BY <1>1, AmountDropped
  <2> HIDE DEF kept
  <2>3. at \in 1..Len(kept) + 1
    <3>1. DOMAIN kept = 1..Len(kept) /\ Len(kept) \in Nat
      BY <2>2, AsSeq
    <3>2. Split(kept) => Len(kept) # 0
      BY <3>1 DEF Split
    <3>3. QED
      BY <3>1, <3>2
  <2> HIDE DEF at
  <2>4. /\ IsSequence(new)
        /\ \A W : Amount(new, W) = Amount(kept, W) + (IF x \in W THEN 1 ELSE 0)
    BY <2>1, <2>2, <2>3, AmountInserted
  <2> HIDE DEF new, x
  <2>5. \A W : Amount(kept, W) \in Nat
    BY <2>2, AmountIs
  <2>6. ASSUME NEW W, x \notin W, W \cap set.moves = {} PROVE Amount(new, W) = Amount(src, W)
    BY <2>2, <2>4, <2>5, <2>6
  <2>7. \A w \in set.moves : ~Plain(w) /\ w \notin Reserved
    BY DEF GoodSet
  <2>8. ASSUME NEW w, w # x, w \notin set.moves PROVE Count(new, w) = Count(src, w)
    <3>1. x \notin {w} /\ {w} \cap set.moves = {}
      BY <2>8
    <3>2. QED
      BY <2>6, <3>1, CountIs
  <2>9. x \in Reserved /\ ~Plain(x)
    BY <2>1, ReservedApart DEF Plain
  <2>10. Amount(new, Boundaries) = Amount(src, Boundaries)
    <3>1. x \notin Boundaries /\ Boundaries \cap set.moves = {}
      BY <2>1, <2>7, ReservedApart
    <3>2. QED
      BY <2>6, <3>1
  <2>11. Count(new, Prelude) = Count(src, Prelude)
    <3>1. Prelude # x /\ Prelude \notin set.moves
      BY <2>1, <2>7, ReservedApart
    <3>2. QED
      BY <2>8, <3>1
  <2>12. Amount(new, BootFragments) = Amount(src, BootFragments) + 1
    <3>1. BootFragments \cap set.moves = {}
      BY <2>7, ReservedApart
    <3>2. Amount(kept, BootFragments) = Amount(src, BootFragments)
      BY <2>2, <3>1
    <3>3. QED
      BY <2>1, <2>4, <3>2
  <2>13. ASSUME NEW q \in P, NEW f \in Sites(q), Count(src, f) = 0 PROVE Count(new, f) = 0
    <3>1. f # x
      BY <2>9, AlsoIs DEF GoodPatch, Sites
    <3>2. CASE f \in set.moves
      <4>1. Amount(kept, {f}) = 0
        BY <2>2, <3>2
      <4>2. Amount(new, {f}) = 0
        BY <2>4, <3>1, <4>1
      <4>3. QED
        BY <4>2, CountIs
    <3>3. CASE f \notin set.moves
      BY <2>8, <2>13, <3>1, <3>3
    <3>4. QED
      BY <3>2, <3>3
  <2>14. ASSUME NEW w, Plain(w) PROVE Count(new, w) = Count(src, w)
    BY <2>7, <2>8, <2>9, <2>14
  <2>15. \A q \in P : \A m \in Marks(q) : Plain(m)
    BY DEF GoodPatch
  <2>16. \A q \in P : \A f \in Sites(q) : f \in ToSet(q.to) \cup Guarded \/ Count(new, f) = 0
    BY <2>13 DEF Applied
  <2>17. \A q \in P : \A m \in Marks(q) :
           Count(new, m) \in q.counts \/ (~q.required /\ Count(new, m) = 0)
    <3> SUFFICES ASSUME NEW q \in P, NEW m \in Marks(q)
        PROVE  Count(new, m) \in q.counts \/ (~q.required /\ Count(new, m) = 0)
      OBVIOUS
    <3>1. Count(new, m) = Count(src, m)
      BY <2>14, <2>15
    <3>2. Count(src, m) \in q.counts \/ (~q.required /\ Count(src, m) = 0)
      BY DEF Applied
    <3>3. QED
      BY <3>1, <3>2
  <2>18. \A w \in Left : Plain(w) /\ (\A q \in P : w \notin Marks(q)) => Count(new, w) = 0
    <3> SUFFICES ASSUME NEW w \in Left, Plain(w), \A q \in P : w \notin Marks(q)
        PROVE  Count(new, w) = 0
      OBVIOUS
    <3>1. Count(src, w) = 0
      BY DEF Applied
    <3>2. QED
      BY <2>14, <3>1
  <2>19. Applied(P, new)
    BY <2>4, <2>16, <2>17, <2>18 DEF Applied
  <2>20. QED
    BY <1>3, <2>10, <2>11, <2>12, <2>19 DEF new
<1>4. QED
  BY <1>2, <1>3

\* A set that is applied leaves all of its patches.
LEMMA SetStep ==
  ASSUME NEW P, NEW src, Applied(P, src), NEW set, NEW low \in Nat, NEW high \in Nat,
         GoodSet(set, low, high), MarksOf(set) \subseteq Left, Past(P, low),
         ApplySet(set, src).ok
  PROVE  LET new == ApplySet(set, src).source
         IN /\ Applied(P \cup ToSet(set.patches), new)
            /\ Amount(new, Boundaries) = Amount(src, Boundaries)
            /\ Count(new, Prelude) = Count(src, Prelude)
            /\ Amount(new, BootFragments) =
                 Amount(src, BootFragments) + (IF Registers(set, src) THEN 1 ELSE 0)
<1> DEFINE patches == set.patches
           n == Len(patches)
           Upto(k) == P \cup {patches[i] : i \in 1..k}
<1>1. n \in Nat /\ DOMAIN patches = 1..n /\ IsSequence(patches)
  BY AsSeq DEF GoodSet, InTurn
<1>2. PICK after :
        /\ after[0] = Outcome(TRUE, src)
        /\ \A k \in 1..n : after[k] = ApplyPatch(patches[k], after[k - 1])
        /\ ApplySet(set, src) =
             IF after[n].ok /\ (\A f \in set.present : Count(after[n].source, f) > 0)
                            /\ (\A f \in set.absent : Count(after[n].source, f) = 0)
               THEN Outcome(TRUE, Register(after[n].source, set))
               ELSE Outcome(FALSE, <<>>)
  BY <1>1, SetRun
<1>3. after[n].ok /\ ApplySet(set, src).source = Register(after[n].source, set)
  BY <1>2 DEF Outcome
<1>4. \A k \in 1..n : /\ GoodPatch(patches[k]) /\ Marks(patches[k]) \subseteq Left
                      /\ low <= Turn(patches[k].at)
  <2>1. \A k \in 1..n : GoodPatch(patches[k]) /\ low <= Turn(patches[k].at)
    BY <1>1 DEF GoodSet, InTurn
  <2>2. \A k \in 1..n : Marks(patches[k]) \subseteq MarksOf(set)
    BY <1>1 DEF MarksOf
  <2>3. QED
    BY <2>1, <2>2
<1>5. \A i, k \in 1..n : i < k => Turn(patches[i].at) < Turn(patches[k].at)
  BY <1>1 DEF GoodSet, InTurn
<1> DEFINE Kept_(s) == \A W : W \subseteq Reserved => Amount(s, W) = Amount(src, W)
           T == {k \in 0..n : after[k].ok => Applied(Upto(k), after[k].source) /\ Kept_(after[k].source)}
<1>6. 0 \in T
  <2>1. after[0].source = src
    BY <1>2 DEF Outcome
  <2>2. Upto(0) = P
    OBVIOUS
  <2>3. Applied(Upto(0), after[0].source) /\ Kept_(after[0].source)
    BY <2>1, <2>2
  <2> HIDE DEF Kept_, Upto, n
  <2>4. QED
    BY <1>1, <2>3
<1>7. ASSUME NEW k \in 1..n, k - 1 \in T PROVE k \in T
  <2> DEFINE p == patches[k]
             before == after[k - 1]
  <2>1. after[k] = ApplyPatch(p, before)
    BY <1>2
  <2> SUFFICES ASSUME after[k].ok
               PROVE  Applied(Upto(k), after[k].source) /\ Kept_(after[k].source)
    BY <1>1
  <2>2. /\ before.ok /\ ~Fails(p, before.source)
        /\ after[k].source = ReplaceFragment(before.source, Sites(p), p.to)
    BY <2>1 DEF ApplyPatch, Outcome
  <2>3. Applied(Upto(k - 1), before.source) /\ Kept_(before.source)
    BY <1>7, <2>2
  <2>4. \A q \in Upto(k - 1) :
          GoodPatch(q) /\ Marks(q) \subseteq Left /\ Turn(q.at) < Turn(p.at)
    <3>1. \A i \in 1..k - 1 : i \in 1..n /\ i < k
      BY <1>1
    <3>2. \A q \in P : GoodPatch(q) /\ Marks(q) \subseteq Left /\ Turn(q.at) < Turn(p.at)
      BY <1>4, TurnType DEF Past
    <3> HIDE DEF p, patches, n
    <3>3. \A q \in Upto(k - 1) : q \in P \/ \E i \in 1..k - 1 : q = patches[i]
      OBVIOUS
    <3>4. \A i \in 1..k - 1 : GoodPatch(patches[i]) /\ Marks(patches[i]) \subseteq Left
                              /\ Turn(patches[i].at) < Turn(p.at)
      BY <1>4, <1>5, <3>1 DEF p
    <3>5. QED
      BY <3>2, <3>3, <3>4
  <2>5. Upto(k) = Upto(k - 1) \cup {p}
    <3>1. 1..k = (1..k - 1) \cup {k}
      BY <1>1
    <3>2. QED
      BY <3>1
  <2>6. GoodPatch(p) /\ Marks(p) \subseteq Left
    BY <1>4
  <2> HIDE DEF p, before, Upto
  <2>7. /\ Applied(Upto(k - 1) \cup {p}, after[k].source)
        /\ \A W : W \subseteq Reserved => Amount(after[k].source, W) = Amount(before.source, W)
    <3> DEFINE now == before.source
    <3>1. Applied(Upto(k - 1), now) /\ ~Fails(p, now)
      BY <2>2, <2>3
    <3> HIDE DEF now
    <3>5. Past(Upto(k - 1), Turn(p.at))
      BY <2>4 DEF Past
    <3>2. Applied(Upto(k - 1) \cup {p}, ReplaceFragment(now, Sites(p), p.to))
      BY <2>6, <3>1, <3>5, PatchStep
    <3>6. \A W : W \subseteq Reserved => Amount(ReplaceFragment(now, Sites(p), p.to), W) = Amount(now, W)
      BY <2>6, <3>1, PatchReserved DEF Applied
    <3>3. after[k].source = ReplaceFragment(now, Sites(p), p.to)
      BY <2>2 DEF now
    <3>4. QED
      BY <3>2, <3>3, <3>6 DEF now
  <2>8. QED
    BY <2>3, <2>5, <2>7
<1> HIDE DEF T
<1>8. n \in T
  <2>1. \A k \in 0..n : k \in T
    BY <1>1, <1>6, <1>7, Stepwise
  <2>2. QED
    BY <1>1, <2>1
<1>9. Applied(Upto(n), after[n].source) /\ Kept_(after[n].source)
  BY <1>3, <1>8 DEF T
<1>10. Upto(n) = P \cup ToSet(patches)
  BY <1>1 DEF ToSet
<1> DEFINE mid == after[n].source
<1>11. \A q \in Upto(n) : GoodPatch(q)
  BY <1>4 DEF Past
<1>12. IsSequence(mid) /\ IsSequence(src)
  BY <1>9 DEF Applied
<1>13. /\ Amount(mid, Boundaries) = Amount(src, Boundaries)
       /\ Amount(mid, BootFragments) = Amount(src, BootFragments)
       /\ Count(mid, Prelude) = Count(src, Prelude)
  <2>1. {Prelude} \subseteq Reserved
    BY ReservedApart
  <2>2. QED
    BY <1>9, <2>1, ReservedApart, CountIs
<1> HIDE DEF mid, Upto
<1>14. Registers(set, mid) <=> Registers(set, src)
  BY <1>12, <1>13, SplitIs DEF Registers
<1>15. /\ Applied(Upto(n), Register(mid, set))
       /\ Amount(Register(mid, set), Boundaries) = Amount(mid, Boundaries)
       /\ Count(Register(mid, set), Prelude) = Count(mid, Prelude)
       /\ Amount(Register(mid, set), BootFragments) =
            Amount(mid, BootFragments) + (IF Registers(set, mid) THEN 1 ELSE 0)
  BY <1>9, <1>11, RegisterStep DEF mid
<1>16. QED
  BY <1>3, <1>10, <1>13, <1>14, <1>15 DEF mid

\* The runtime's prelude takes the place of the registrations: once for each module
\* of a split source, once in front of another, and not at all without any.
LEMMA FinalStep ==
  ASSUME NEW src, IsSequence(src), Count(src, Prelude) = 0
  PROVE  LET new == Finalized(src)
             all == Amount(src, Boundaries)
         IN /\ IsSequence(new)
            /\ \A W : W \cap BootFragments = {} /\ Prelude \notin W => Amount(new, W) = Amount(src, W)
            /\ \A f \in BootFragments : Count(new, f) = 0
            /\ Count(new, Prelude) =
                 IF Amount(src, BootFragments) = 0 THEN 0 ELSE IF all = 0 THEN 1 ELSE all
<1> DEFINE native == Dropping(src, BootFragments)
           parts == [i \in DOMAIN native |->
                       IF native[i] \in Boundaries THEN <<native[i], Prelude>> ELSE <<native[i]>>]
           new == Finalized(src)
           all == Amount(src, Boundaries)
<1>1. /\ IsSequence(native) /\ DOMAIN native = 1..Len(native) /\ Len(native) \in Nat
      /\ \A W : W \cap BootFragments = {} => Amount(native, W) = Amount(src, W)
      /\ \A W : W \subseteq BootFragments => Amount(native, W) = 0
  BY AmountDropped, AsSeq
<1>2. (\E i \in DOMAIN src : src[i] \in BootFragments) <=> Amount(src, BootFragments) # 0
  BY AmountIs
<1>3. Amount(native, {Prelude}) = 0 /\ Amount(src, {Prelude}) = 0
  BY <1>1, ReservedApart, CountIs
<1>4. Amount(native, Boundaries) = all
  BY <1>1, ReservedApart
<1>5. Split(native) <=> all # 0
  BY <1>1, <1>4, SplitIs
<1>6. IsSequence(new)
  BY FinalSequence
<1> DEFINE Right(s, x) ==
             /\ \A W : W \cap BootFragments = {} /\ Prelude \notin W => Amount(s, W) = Amount(src, W)
             /\ \A f \in BootFragments : Count(s, f) = 0
             /\ Count(s, Prelude) = x
<1>7. CASE Amount(src, BootFragments) = 0
  <2>1. new = src
    BY <1>2, <1>7 DEF Finalized
  <2>2. \A f \in BootFragments : Count(src, f) = 0
    <3>1. \A i \in DOMAIN src : src[i] \notin BootFragments
      BY <1>2, <1>7
    <3>2. ASSUME NEW f \in BootFragments PROVE Count(src, f) = 0
      <4>1. \A i \in DOMAIN src : src[i] \notin {f}
        BY <3>1
      <4>2. QED
        BY <4>1, AmountIs, CountIs
    <3>3. QED
      BY <3>2
  <2>3. Right(src, 0)
    BY <2>2
  <2> HIDE DEF new
  <2>4. QED
    BY <1>6, <1>7, <2>1, <2>3 DEF new
<1>8. CASE Amount(src, BootFragments) # 0 /\ all = 0
  <2>1. new = <<Prelude>> \o native
    BY <1>2, <1>5, <1>8 DEF Finalized
  <2>2. IsSequence(<<Prelude>>)
    BY OneEntry
  <2> HIDE DEF native, new
  <2>3. \A W : Amount(new, W) = Amount(<<Prelude>>, W) + Amount(native, W)
    BY <1>1, <2>1, <2>2, AmountJoined
  <2>4. \A W : Amount(<<Prelude>>, W) = IF Prelude \in W THEN 1 ELSE 0
    BY AmountFew
  <2>5. \A W : Amount(native, W) \in Nat
    BY <1>1, AmountIs
  <2>6. \A W : Prelude \notin W => Amount(new, W) = Amount(native, W)
    BY <2>3, <2>4, <2>5
  <2>7. Count(new, Prelude) = 1
    <3>1. Amount(new, {Prelude}) = 1
      BY <1>3, <2>3, <2>4
    <3>2. QED
      BY <3>1, CountIs
  <2>8. ASSUME NEW f \in BootFragments PROVE Count(new, f) = 0
    <3>1. Prelude \notin {f} /\ {f} \subseteq BootFragments
      BY ReservedApart
    <3>2. Amount(new, {f}) = 0
      BY <1>1, <2>6, <3>1
    <3>3. QED
      BY <3>2, CountIs
  <2>9. Right(new, 1)
    BY <1>1, <2>6, <2>7, <2>8
  <2> HIDE DEF all
  <2>10. QED
    BY <1>6, <1>8, <2>9 DEF new, all
<1>9. CASE Amount(src, BootFragments) # 0 /\ all # 0
  <2>1. new = FlattenSeq(parts)
    BY <1>2, <1>5, <1>9 DEF Finalized
  <2>2. parts = [i \in 1..Len(native) |-> parts[i]] /\ DOMAIN parts = DOMAIN native
    BY <1>1
  <2>3. \A i \in DOMAIN native : parts[i] =
          IF native[i] \in Boundaries THEN <<native[i], Prelude>> ELSE <<native[i]>>
    OBVIOUS
  <2> HIDE DEF native, new, parts
  <2>4. IsSequence(parts)
    BY <1>1, <2>2, MadeSequence
  <2>5. \A x, y, W : Amount(<<x, y>>, W) = (IF x \in W THEN 1 ELSE 0) + (IF y \in W THEN 1 ELSE 0)
    BY AmountPair
  <2>6. \A i \in DOMAIN native : IsSequence(parts[i])
    <3> TAKE i \in DOMAIN native
    <3>1. IsSequence(<<native[i], Prelude>>) /\ IsSequence(<<native[i]>>)
      BY AmountPair, OneEntry
    <3>2. parts[i] = IF native[i] \in Boundaries THEN <<native[i], Prelude>> ELSE <<native[i]>>
      BY <2>3
    <3>3. QED
      BY <3>1, <3>2
  <2>7. ASSUME NEW W, NEW P \in SUBSET DOMAIN native,
               \A i \in DOMAIN native : Amount(parts[i], W) = IF i \in P THEN 1 ELSE 0
        PROVE  Amount(new, W) = Cardinality(P)
    <3>1. \A i \in DOMAIN parts :
            IsSequence(parts[i]) /\ Amount(parts[i], W) = IF i \in P THEN 1 ELSE 0
      BY <2>2, <2>6, <2>7
    <3>2. P \in SUBSET DOMAIN parts
      BY <2>2
    <3>3. Amount(FlattenSeq(parts), W) = Cardinality(P)
      BY <2>4, <3>1, <3>2, AmountFlat
    <3>4. QED
      BY <2>1, <3>3
  <2>8. ASSUME NEW W, Prelude \notin W PROVE Amount(new, W) = Amount(native, W)
    <3>1. ASSUME NEW i \in DOMAIN native
          PROVE  Amount(parts[i], W) = IF i \in Places(native, W) THEN 1 ELSE 0
      <4>1. i \in Places(native, W) <=> native[i] \in W
        BY DEF Places
      <4>2. Amount(<<native[i], Prelude>>, W) = (IF native[i] \in W THEN 1 ELSE 0)
        BY <2>5, <2>8
      <4>3. Amount(<<native[i]>>, W) = (IF native[i] \in W THEN 1 ELSE 0)
        BY AmountFew
      <4>4. QED
        BY <2>3, <4>1, <4>2, <4>3
    <3>2. Places(native, W) \in SUBSET DOMAIN native
      BY DEF Places
    <3>3. QED
      BY <2>7, <3>1, <3>2 DEF Amount
  <2>9. Count(new, Prelude) = all
    <3>1. \A i \in DOMAIN native : native[i] # Prelude
      BY <1>1, <1>3, AmountIs
    <3>2. ASSUME NEW i \in DOMAIN native
          PROVE  Amount(parts[i], {Prelude}) = IF i \in Places(native, Boundaries) THEN 1 ELSE 0
      <4>1. i \in Places(native, Boundaries) <=> native[i] \in Boundaries
        BY DEF Places
      <4>2. Amount(<<native[i], Prelude>>, {Prelude}) = 1
        BY <2>5, <3>1
      <4>3. Amount(<<native[i]>>, {Prelude}) = 0
        BY <3>1, AmountFew
      <4>4. QED
        BY <2>3, <4>1, <4>2, <4>3
    <3>3. Places(native, Boundaries) \in SUBSET DOMAIN native
      BY DEF Places
    <3>4. Amount(new, {Prelude}) = Amount(native, Boundaries)
      BY <2>7, <3>2, <3>3 DEF Amount
    <3>5. QED
      BY <1>4, <3>4, CountIs
  <2>10. ASSUME NEW f \in BootFragments PROVE Count(new, f) = 0
    <3>1. Prelude \notin {f} /\ {f} \subseteq BootFragments
      BY ReservedApart
    <3>2. Amount(new, {f}) = 0
      BY <1>1, <2>8, <3>1
    <3>3. QED
      BY <3>2, CountIs
  <2>11. Right(new, all)
    BY <1>1, <2>8, <2>9, <2>10
  <2> HIDE DEF all
  <2>12. QED
    BY <1>6, <1>9, <2>11 DEF new, all
<1>10. QED
  BY <1>7, <1>8, <1>9

-----------------------------------------------------------------------------
(* The patches of the engine. *)

\* A site that a set may match, a mark its patch may leave, and what else it may write.
Site(a) == Made(a) < Turn(a) /\ a \notin Reserved
MarkOf(m, a) == Plain(m) /\ Made(m) = Turn(a)
OtherOf(w, a) == ~Plain(w) /\ w \notin Reserved /\ Made(w) = Turn(a)

\* A replacement by nothing.
LEMMA NoneLeft ==
  ASSUME NEW p, Site(p.at), p.counts \subseteq Nat \ {0}, p.also = {},
         p.at \in {"agents-launch", "native-launch"} => Amount(p.to, Launches) = 1,
         p.to = <<>>
  PROVE  GoodPatch(p)
BY TurnType, NoEntry DEF Site, GoodPatch, ToSet, Marks

\* A replacement by one mark, or by the site itself.
LEMMA OneLeft ==
  ASSUME NEW p, Site(p.at), p.counts \subseteq Nat \ {0}, p.also = {},
         p.at \in {"agents-launch", "native-launch"} => Amount(p.to, Launches) = 1,
         NEW m, p.to = <<m>>, MarkOf(m, p.at) \/ m = p.at
  PROVE  GoodPatch(p)
<1>1. Turn(p.at) \in Nat /\ Made(p.at) \in Nat /\ Made(p.at) < Turn(p.at) /\ p.at \notin Reserved
  BY TurnType DEF Site
<1>2. Turn(p.at) # 0 /\ ~Plain(p.at)
  BY <1>1 DEF Plain
<1>3. IsSequence(p.to) /\ ToSet(p.to) = {m}
  BY OneEntry DEF ToSet
<1>4. Count(p.to, m) = 1
  <2>1. Amount(<<m>>, {m}) = 1
    BY AmountFew
  <2>2. QED
    BY <2>1, CountIs
<1>5. Marks(p) = IF m = p.at THEN {} ELSE {m}
  <2>1. <<m>> # <<>> /\ Head(<<m>>) = m
    OBVIOUS
  <2>2. QED
    BY <2>1 DEF Marks
<1>6. m \notin Reserved /\ (m = p.at \/ (Plain(m) /\ Made(m) = Turn(p.at)))
  BY <1>1, <1>2 DEF MarkOf, Plain
<1>7. QED
  BY <1>1, <1>2, <1>3, <1>4, <1>5, <1>6 DEF GoodPatch

\* A replacement by one of these and something else.
LEMMA TwoLeft ==
  ASSUME NEW p, Site(p.at), p.counts \subseteq Nat \ {0}, p.also = {},
         p.at \in {"agents-launch", "native-launch"} => Amount(p.to, Launches) = 1,
         NEW m, NEW x, p.to = <<m, x>>, MarkOf(m, p.at) \/ m = p.at, OtherOf(x, p.at)
  PROVE  GoodPatch(p)
<1>1. Turn(p.at) \in Nat /\ Made(p.at) \in Nat /\ Made(p.at) < Turn(p.at) /\ p.at \notin Reserved
  BY TurnType DEF Site
<1>2. Turn(p.at) # 0 /\ ~Plain(p.at)
  BY <1>1 DEF Plain
<1>3. IsSequence(p.to) /\ ToSet(p.to) = {m, x}
  <2>1. IsSequence(<<m, x>>)
    BY AmountPair
  <2>2. QED
    BY <2>1 DEF ToSet
<1>4. m # x
  BY <1>1, <1>2 DEF MarkOf, OtherOf
<1>5. Count(p.to, m) = 1 /\ Count(p.to, x) = 1
  <2>1. /\ Amount(<<m, x>>, {m}) = (IF m \in {m} THEN 1 ELSE 0) + (IF x \in {m} THEN 1 ELSE 0)
        /\ Amount(<<m, x>>, {x}) = (IF m \in {x} THEN 1 ELSE 0) + (IF x \in {x} THEN 1 ELSE 0)
    BY AmountPair
  <2>2. Amount(<<m, x>>, {m}) = 1 /\ Amount(<<m, x>>, {x}) = 1
    BY <1>4, <2>1
  <2>3. QED
    BY <2>2, CountIs
<1>6. Marks(p) = IF m = p.at THEN {} ELSE {m}
  <2>1. <<m, x>> # <<>> /\ Head(<<m, x>>) = m
    OBVIOUS
  <2>2. QED
    BY <2>1 DEF Marks
<1>7. m \notin Reserved /\ (m = p.at \/ (Plain(m) /\ Made(m) = Turn(p.at)))
  BY <1>1, <1>2 DEF MarkOf, Plain
<1>8. x \notin Reserved /\ ~Plain(x) /\ Made(x) = Turn(p.at)
  BY <1>1 DEF OtherOf
<1>9. QED
  BY <1>1, <1>2, <1>3, <1>5, <1>6, <1>7, <1>8 DEF GoodPatch

\* Patches one after the other, in a list and in two.
LEMMA InTurnNone ==
  ASSUME NEW low, NEW high
  PROVE  InTurn(<<>>, low, high)
BY NoEntry DEF InTurn

LEMMA InTurnOne ==
  ASSUME NEW p, GoodPatch(p), NEW low, NEW high, low <= Turn(p.at), Turn(p.at) <= high
  PROVE  InTurn(<<p>>, low, high)
<1>1. IsSequence(<<p>>) /\ DOMAIN <<p>> = {1} /\ <<p>>[1] = p
  BY OneEntry
<1>2. QED
  BY <1>1 DEF InTurn

LEMMA InTurnJoined ==
  ASSUME NEW s, NEW t, NEW low \in Nat, NEW mid \in Nat, NEW top \in Nat, NEW high \in Nat,
         low <= mid, mid < top, top <= high, InTurn(s, low, mid), InTurn(t, top, high)
  PROVE  InTurn(s \o t, low, high)
<1> DEFINE n == Len(s)
           m == Len(t)
           u == s \o t
<1>1. /\ IsSequence(s) /\ IsSequence(t)
      /\ \A i \in DOMAIN s : GoodPatch(s[i]) /\ low <= Turn(s[i].at) /\ Turn(s[i].at) <= mid
      /\ \A i \in DOMAIN t : GoodPatch(t[i]) /\ top <= Turn(t[i].at) /\ Turn(t[i].at) <= high
      /\ \A i, k \in DOMAIN s : i < k => Turn(s[i].at) < Turn(s[k].at)
      /\ \A i, k \in DOMAIN t : i < k => Turn(t[i].at) < Turn(t[k].at)
  BY DEF InTurn
<1>2. DOMAIN s = 1..n /\ n \in Nat /\ DOMAIN t = 1..m /\ m \in Nat
  BY <1>1, AsSeq
<1>3. /\ IsSequence(u) /\ Len(u) = n + m
      /\ \A i \in 1..n : u[i] = s[i]
      /\ \A i \in 1..m : u[n + i] = t[i]
  BY <1>1, Joined
<1>4. DOMAIN u = 1..n + m
  BY <1>3, AsSeq
<1> HIDE DEF n, m, u
<1>5. \A i \in 1..n : GoodPatch(u[i]) /\ low <= Turn(u[i].at) /\ Turn(u[i].at) <= mid
  BY <1>1, <1>2, <1>3
<1>6. ASSUME NEW i \in n + 1..n + m
      PROVE  i - n \in 1..m /\ u[i] = t[i - n] /\ GoodPatch(u[i])
             /\ top <= Turn(u[i].at) /\ Turn(u[i].at) <= high
  <2>1. i - n \in 1..m /\ n + (i - n) = i
    BY <1>2
  <2>2. u[i] = t[i - n]
    BY <1>3, <2>1
  <2>3. QED
    BY <1>1, <1>2, <2>1, <2>2
<1>7. \A i \in 1..n + m : i \in 1..n \/ i \in n + 1..n + m
  BY <1>2
<1>8. \A i \in 1..n + m : GoodPatch(u[i]) /\ low <= Turn(u[i].at) /\ Turn(u[i].at) <= high
  BY <1>5, <1>6, <1>7, TurnType
<1>9. ASSUME NEW i \in 1..n + m, NEW k \in 1..n + m, i < k PROVE Turn(u[i].at) < Turn(u[k].at)
  <2>1. CASE i \in 1..n /\ k \in 1..n
    BY <1>1, <1>2, <1>3, <1>9, <2>1
  <2>2. CASE i \in 1..n /\ k \in n + 1..n + m
    BY <1>5, <1>6, <2>2, TurnType
  <2>3. CASE i \in n + 1..n + m
    <3>1. k \in n + 1..n + m /\ i - n < k - n
      BY <1>2, <1>9, <2>3
    <3>2. i - n \in 1..m /\ k - n \in 1..m /\ u[i] = t[i - n] /\ u[k] = t[k - n]
      BY <1>6, <2>3, <3>1
    <3>3. QED
      BY <1>1, <1>2, <3>1, <3>2
  <2>4. QED
    BY <1>7, <2>1, <2>2, <2>3
<1>10. QED
  BY <1>3, <1>4, <1>8, <1>9 DEF InTurn, u

\* The patches of each set are in turn, and their turns are the set's own.
LEMMA ThinkingSet == ASSUME NEW v PROVE GoodSet(ThinkingExpanded(v), 21, 39)
<1> DEFINE a == Patch("thinking-guard", <<"thinking-always">>)
           b == Patch("thinking-render", <<"expanded-render">>)
           c == Patch("thinking-group", <<"thinking-alone">>)
<1> DEFINE more == IF v = NoVersion \/ v >= 151 THEN <<c>> ELSE <<>>
<1>1. GoodPatch(a) /\ Turn(a.at) = 21
  <2>1. a.at = "thinking-guard" /\ a.to = <<"thinking-always">> /\ a.counts = {1} /\ a.also = {}
    BY DEF Patch
  <2>2. /\ Site("thinking-guard")
        /\ Turn("thinking-guard") = 21
        /\ MarkOf("thinking-always", "thinking-guard")
    BY DEF Site, MarkOf, OtherOf, Plain, Turn, Made, Reserved, Helpers, Boundaries,
           BootFragments, Boots, Prelude
  <2> HIDE DEF a
  <2>3. QED
    BY <2>1, <2>2, OneLeft
<1>2. GoodPatch(b) /\ Turn(b.at) = 22
  <2>1. b.at = "thinking-render" /\ b.to = <<"expanded-render">> /\ b.counts = {1} /\ b.also = {}
    BY DEF Patch
  <2>2. /\ Site("thinking-render")
        /\ Turn("thinking-render") = 22
        /\ MarkOf("expanded-render", "thinking-render")
    BY DEF Site, MarkOf, OtherOf, Plain, Turn, Made, Reserved, Helpers, Boundaries,
           BootFragments, Boots, Prelude
  <2> HIDE DEF b
  <2>3. QED
    BY <2>1, <2>2, OneLeft
<1>3. GoodPatch(c) /\ Turn(c.at) = 23
  <2>1. c.at = "thinking-group" /\ c.to = <<"thinking-alone">> /\ c.counts = {1} /\ c.also = {}
    BY DEF Patch
  <2>2. /\ Site("thinking-group")
        /\ Turn("thinking-group") = 23
        /\ MarkOf("thinking-alone", "thinking-group")
    BY DEF Site, MarkOf, OtherOf, Plain, Turn, Made, Reserved, Helpers, Boundaries,
           BootFragments, Boots, Prelude
  <2> HIDE DEF c
  <2>3. QED
    BY <2>1, <2>2, OneLeft
<1>4. ThinkingExpanded(v).patches = <<a, b>> \o more
  BY DEF ThinkingExpanded, PatchSet
<1>5. ThinkingExpanded(v).moves = {} /\ ThinkingExpanded(v).boot = "never"
  BY DEF ThinkingExpanded, PatchSet
<1> HIDE DEF a, b, c
<1>6. InTurn(more, 23, 39)
  BY <1>3, InTurnOne, InTurnNone
<1> HIDE DEF more
<1>7. IsSequence(<<a, b>>) /\ DOMAIN <<a, b>> = 1..2
  BY DEF IsSequence
<1>8. InTurn(<<a, b>>, 21, 22)
  BY <1>1, <1>2, <1>7 DEF InTurn
<1>9. InTurn(<<a, b>> \o more, 21, 39)
  BY <1>6, <1>8, InTurnJoined
<1>10. QED
  BY <1>4, <1>5, <1>9 DEF GoodSet

LEMMA ChannelsSet == GoodSet(ChannelsEnabled, 41, 59)
<1> DEFINE a == Patch("channels-gate", <<"channels-on">>)
           b == [Patch("harbor-flag", <<"harbor-on">>) EXCEPT !.counts = {1, 2}]
<1>1. GoodPatch(a) /\ Turn(a.at) = 41
  <2>1. a.at = "channels-gate" /\ a.to = <<"channels-on">> /\ a.counts = {1} /\ a.also = {}
    BY DEF Patch
  <2>2. /\ Site("channels-gate")
        /\ Turn("channels-gate") = 41
        /\ MarkOf("channels-on", "channels-gate")
    BY DEF Site, MarkOf, OtherOf, Plain, Turn, Made, Reserved, Helpers, Boundaries,
           BootFragments, Boots, Prelude
  <2> HIDE DEF a
  <2>3. QED
    BY <2>1, <2>2, OneLeft
<1>2. GoodPatch(b) /\ Turn(b.at) = 42
  <2>1. b.at = "harbor-flag" /\ b.to = <<"harbor-on">> /\ b.counts = {1, 2} /\ b.also = {}
    BY DEF Patch
  <2>2. /\ Site("harbor-flag")
        /\ Turn("harbor-flag") = 42
        /\ MarkOf("harbor-on", "harbor-flag")
    BY DEF Site, MarkOf, OtherOf, Plain, Turn, Made, Reserved, Helpers, Boundaries,
           BootFragments, Boots, Prelude
  <2> HIDE DEF b
  <2>3. QED
    BY <2>1, <2>2, OneLeft
<1>3. ChannelsEnabled.patches = <<a, b>>
  BY DEF ChannelsEnabled, PatchSet
<1>4. ChannelsEnabled.moves = {} /\ ChannelsEnabled.boot = "never"
  BY DEF ChannelsEnabled, PatchSet
<1> HIDE DEF a, b
<1>5. IsSequence(<<a, b>>) /\ DOMAIN <<a, b>> = 1..2
  BY DEF IsSequence
<1>6. InTurn(<<a, b>>, 41, 59)
  BY <1>1, <1>2, <1>5 DEF InTurn
<1>7. QED
  BY <1>3, <1>4, <1>6 DEF GoodSet

LEMMA InheritanceSet == GoodSet(DevChannelInheritance, 61, 79)
<1> DEFINE a == Patch("respawn-flags", <<"respawn-dev-flags">>)
           b == Patch("dispatch-array", <<"dispatch-dev-array">>)
           c == Patch("worker-parse", <<"worker-dev-parse">>)
<1>1. GoodPatch(a) /\ Turn(a.at) = 61
  <2>1. a.at = "respawn-flags" /\ a.to = <<"respawn-dev-flags">> /\ a.counts = {1} /\ a.also = {}
    BY DEF Patch
  <2>2. /\ Site("respawn-flags")
        /\ Turn("respawn-flags") = 61
        /\ MarkOf("respawn-dev-flags", "respawn-flags")
    BY DEF Site, MarkOf, OtherOf, Plain, Turn, Made, Reserved, Helpers, Boundaries,
           BootFragments, Boots, Prelude
  <2> HIDE DEF a
  <2>3. QED
    BY <2>1, <2>2, OneLeft
<1>2. GoodPatch(b) /\ Turn(b.at) = 62
  <2>1. b.at = "dispatch-array" /\ b.to = <<"dispatch-dev-array">> /\ b.counts = {1} /\ b.also = {}
    BY DEF Patch
  <2>2. /\ Site("dispatch-array")
        /\ Turn("dispatch-array") = 62
        /\ MarkOf("dispatch-dev-array", "dispatch-array")
    BY DEF Site, MarkOf, OtherOf, Plain, Turn, Made, Reserved, Helpers, Boundaries,
           BootFragments, Boots, Prelude
  <2> HIDE DEF b
  <2>3. QED
    BY <2>1, <2>2, OneLeft
<1>3. GoodPatch(c) /\ Turn(c.at) = 63
  <2>1. c.at = "worker-parse" /\ c.to = <<"worker-dev-parse">> /\ c.counts = {1} /\ c.also = {}
    BY DEF Patch
  <2>2. /\ Site("worker-parse")
        /\ Turn("worker-parse") = 63
        /\ MarkOf("worker-dev-parse", "worker-parse")
    BY DEF Site, MarkOf, OtherOf, Plain, Turn, Made, Reserved, Helpers, Boundaries,
           BootFragments, Boots, Prelude
  <2> HIDE DEF c
  <2>3. QED
    BY <2>1, <2>2, OneLeft
<1>4. DevChannelInheritance.patches = <<a, b, c>>
  BY DEF DevChannelInheritance, PatchSet
<1>5. DevChannelInheritance.moves = {} /\ DevChannelInheritance.boot = "never"
  BY DEF DevChannelInheritance, PatchSet
<1> HIDE DEF a, b, c
<1>6. IsSequence(<<a, b, c>>) /\ DOMAIN <<a, b, c>> = 1..3
  BY DEF IsSequence
<1>7. InTurn(<<a, b, c>>, 61, 79)
  BY <1>1, <1>2, <1>3, <1>6 DEF InTurn
<1>8. QED
  BY <1>4, <1>5, <1>7 DEF GoodSet

LEMMA NativeAgentsSet == GoodSet(NativeAgents, 81, 99)
<1> DEFINE a == [Patch("native-launch", <<"native-launch">>) EXCEPT !.needs = {"native-forward"}]
<1>1. GoodPatch(a) /\ Turn(a.at) = 81
  <2>1. a.at = "native-launch" /\ a.to = <<"native-launch">> /\ a.counts = {1} /\ a.also = {}
    BY DEF Patch
  <2>2. Site("native-launch") /\ Turn("native-launch") = 81
    BY DEF Site, MarkOf, OtherOf, Plain, Turn, Made, Reserved, Helpers, Boundaries,
           BootFragments, Boots, Prelude
  <2>3. Amount(a.to, Launches) = 1
    BY <2>1, AmountFew DEF Launches
  <2> HIDE DEF a
  <2>4. QED
    BY <2>1, <2>2, <2>3, OneLeft
<1>2. NativeAgents.patches = <<a>>
  BY DEF NativeAgents, PatchSet
<1>3. NativeAgents.moves = {} /\ NativeAgents.boot = "never"
  BY DEF NativeAgents, PatchSet
<1> HIDE DEF a
<1>4. IsSequence(<<a>>) /\ DOMAIN <<a>> = 1..1
  BY DEF IsSequence
<1>5. InTurn(<<a>>, 81, 99)
  BY <1>1, <1>4 DEF InTurn
<1>6. QED
  BY <1>2, <1>3, <1>5 DEF GoodSet

LEMMA PatchedAgentsSet == ASSUME NEW v PROVE GoodSet(PatchedAgents(v), 81, 99)
<1> DEFINE a == [Patch("channels-serialized", <<>>) EXCEPT !.required = (v = NoVersion \/ v >= 187)]
           b == Patch("agents-launch", <<"dispatch-args", "dispatch-launch">>)
           c == [Patch("agents-config", <<"agents-config", "agents-helper">>) EXCEPT !.needs = {"agents-parser", "agents-serializer"}]
           d == Patch("legacy-mount", <<"legacy-options">>)
<1> DEFINE more == IF Below(v, 195) THEN <<d>> ELSE <<>>
<1>1. GoodPatch(a) /\ Turn(a.at) = 82
  <2>1. a.at = "channels-serialized" /\ a.to = <<>> /\ a.counts = {1} /\ a.also = {}
    BY DEF Patch
  <2>2. Site("channels-serialized") /\ Turn("channels-serialized") = 82
    BY DEF Site, MarkOf, OtherOf, Plain, Turn, Made, Reserved, Helpers, Boundaries,
           BootFragments, Boots, Prelude
  <2> HIDE DEF a
  <2>3. QED
    BY <2>1, <2>2, NoneLeft
<1>2. GoodPatch(b) /\ Turn(b.at) = 83
  <2>1. /\ b.at = "agents-launch" /\ b.to = <<"dispatch-args", "dispatch-launch">>
        /\ b.counts = {1} /\ b.also = {}
    BY DEF Patch
  <2>2. /\ Site("agents-launch")
        /\ Turn("agents-launch") = 83
        /\ MarkOf("dispatch-args", "agents-launch")
        /\ OtherOf("dispatch-launch", "agents-launch")
    BY DEF Site, MarkOf, OtherOf, Plain, Turn, Made, Reserved, Helpers, Boundaries,
           BootFragments, Boots, Prelude
  <2>3. Amount(b.to, Launches) = 1
    BY <2>1, AmountPair DEF Launches
  <2> HIDE DEF b
  <2>4. QED
    BY <2>1, <2>2, <2>3, TwoLeft
<1>3. GoodPatch(c) /\ Turn(c.at) = 84
  <2>1. c.at = "agents-config" /\ c.to = <<"agents-config", "agents-helper">> /\ c.counts = {1} /\ c.also = {}
    BY DEF Patch
  <2>2. /\ Site("agents-config")
        /\ Turn("agents-config") = 84
        /\ OtherOf("agents-helper", "agents-config")
    BY DEF Site, MarkOf, OtherOf, Plain, Turn, Made, Reserved, Helpers, Boundaries,
           BootFragments, Boots, Prelude
  <2> HIDE DEF c
  <2>3. QED
    BY <2>1, <2>2, TwoLeft
<1>4. GoodPatch(d) /\ Turn(d.at) = 85
  <2>1. d.at = "legacy-mount" /\ d.to = <<"legacy-options">> /\ d.counts = {1} /\ d.also = {}
    BY DEF Patch
  <2>2. /\ Site("legacy-mount")
        /\ Turn("legacy-mount") = 85
        /\ MarkOf("legacy-options", "legacy-mount")
    BY DEF Site, MarkOf, OtherOf, Plain, Turn, Made, Reserved, Helpers, Boundaries,
           BootFragments, Boots, Prelude
  <2> HIDE DEF d
  <2>3. QED
    BY <2>1, <2>2, OneLeft
<1>5. PatchedAgents(v).patches = <<a, b, c>> \o more
  BY DEF PatchedAgents, PatchSet
<1>6. /\ PatchedAgents(v).moves = {"agents-helper"} /\ PatchedAgents(v).boot = "split"
      /\ PatchedAgents(v).key = "agents"
  BY DEF PatchedAgents, PatchSet
<1> HIDE DEF a, b, c, d
<1>7. InTurn(more, 85, 99)
  BY <1>4, InTurnOne, InTurnNone
<1> HIDE DEF more
<1>8. IsSequence(<<a, b, c>>) /\ DOMAIN <<a, b, c>> = 1..3
  BY DEF IsSequence
<1>9. InTurn(<<a, b, c>>, 81, 84)
  BY <1>1, <1>2, <1>3, <1>8 DEF InTurn
<1>10. InTurn(<<a, b, c>> \o more, 81, 99)
  BY <1>7, <1>9, InTurnJoined
<1>11. /\ \A w \in {"agents-helper"} :
             ~Plain(w) /\ w \notin Reserved /\ Made(w) # 0 /\ w \notin Launches
       /\ "agents" \in DOMAIN Boots
  BY DEF Plain, Turn, Made, Reserved, Helpers, Boundaries, BootFragments, Boots, Prelude, Launches
<1>12. QED
  BY <1>5, <1>6, <1>10, <1>11 DEF GoodSet

LEMMA AgentsSet == ASSUME NEW v PROVE GoodSet(AgentsViewHandoff(v), 81, 99)
BY PatchedAgentsSet, NativeAgentsSet DEF AgentsViewHandoff

\* The guard of the provider environment is one of two, in the same place.
GuardsRespawn(p) == GoodPatch(p) /\ 103 <= Turn(p.at) /\ Turn(p.at) <= 104

LEMMA DispatchingList ==
  ASSUME NEW guard, GuardsRespawn(guard)
  PROVE  InTurn(Dispatching(guard), 101, 107)
<1> DEFINE a == [Patch("provider-snapshot", <<"patched-snapshot", "provider-capture">>) EXCEPT !.needs = {"provider-groups"}]
           b == Patch("persisted-env", <<"state-without-env">>)
           c == [Patch("provider-socket", <<"socket-provider-env">>) EXCEPT !.counts = {2}, !.needs = {"patched-snapshot"}]
           d == [Patch("provider-ack", <<"versioned-ack">>) EXCEPT !.counts = {2}]
           e == Patch("provider-control", <<"control-checked">>)
<1>1. GoodPatch(a) /\ Turn(a.at) = 101
  <2>1. a.at = "provider-snapshot" /\ a.to = <<"patched-snapshot", "provider-capture">> /\ a.counts = {1} /\ a.also = {}
    BY DEF Patch
  <2>2. /\ Site("provider-snapshot")
        /\ Turn("provider-snapshot") = 101
        /\ MarkOf("patched-snapshot", "provider-snapshot")
        /\ OtherOf("provider-capture", "provider-snapshot")
    BY DEF Site, MarkOf, OtherOf, Plain, Turn, Made, Reserved, Helpers, Boundaries,
           BootFragments, Boots, Prelude
  <2> HIDE DEF a
  <2>3. QED
    BY <2>1, <2>2, TwoLeft
<1>2. GoodPatch(b) /\ Turn(b.at) = 102
  <2>1. b.at = "persisted-env" /\ b.to = <<"state-without-env">> /\ b.counts = {1} /\ b.also = {}
    BY DEF Patch
  <2>2. /\ Site("persisted-env")
        /\ Turn("persisted-env") = 102
        /\ MarkOf("state-without-env", "persisted-env")
    BY DEF Site, MarkOf, OtherOf, Plain, Turn, Made, Reserved, Helpers, Boundaries,
           BootFragments, Boots, Prelude
  <2> HIDE DEF b
  <2>3. QED
    BY <2>1, <2>2, OneLeft
<1>3. GoodPatch(c) /\ Turn(c.at) = 105
  <2>1. c.at = "provider-socket" /\ c.to = <<"socket-provider-env">> /\ c.counts = {2} /\ c.also = {}
    BY DEF Patch
  <2>2. /\ Site("provider-socket")
        /\ Turn("provider-socket") = 105
        /\ MarkOf("socket-provider-env", "provider-socket")
    BY DEF Site, MarkOf, OtherOf, Plain, Turn, Made, Reserved, Helpers, Boundaries,
           BootFragments, Boots, Prelude
  <2> HIDE DEF c
  <2>3. QED
    BY <2>1, <2>2, OneLeft
<1>4. GoodPatch(d) /\ Turn(d.at) = 106
  <2>1. d.at = "provider-ack" /\ d.to = <<"versioned-ack">> /\ d.counts = {2} /\ d.also = {}
    BY DEF Patch
  <2>2. /\ Site("provider-ack")
        /\ Turn("provider-ack") = 106
        /\ MarkOf("versioned-ack", "provider-ack")
    BY DEF Site, MarkOf, OtherOf, Plain, Turn, Made, Reserved, Helpers, Boundaries,
           BootFragments, Boots, Prelude
  <2> HIDE DEF d
  <2>3. QED
    BY <2>1, <2>2, OneLeft
<1>5. GoodPatch(e) /\ Turn(e.at) = 107
  <2>1. e.at = "provider-control" /\ e.to = <<"control-checked">> /\ e.counts = {1} /\ e.also = {}
    BY DEF Patch
  <2>2. /\ Site("provider-control")
        /\ Turn("provider-control") = 107
        /\ MarkOf("control-checked", "provider-control")
    BY DEF Site, MarkOf, OtherOf, Plain, Turn, Made, Reserved, Helpers, Boundaries,
           BootFragments, Boots, Prelude
  <2> HIDE DEF e
  <2>3. QED
    BY <2>1, <2>2, OneLeft
<1>6. Dispatching(guard) = <<a, b, guard, c, d, e>>
  BY DEF Dispatching
<1> HIDE DEF a, b, c, d, e
<1>7. IsSequence(<<a, b, guard, c, d, e>>) /\ DOMAIN <<a, b, guard, c, d, e>> = 1..6
  BY DEF IsSequence
<1>8. InTurn(<<a, b, guard, c, d, e>>, 101, 107)
  BY <1>1, <1>2, <1>3, <1>4, <1>5, <1>7, TurnType DEF InTurn, GuardsRespawn
<1>9. QED
  BY <1>6, <1>8

\* Both guards have their turns.
LEMMA Guards ==
  /\ GoodPatch(RespawnGuard) /\ Turn(RespawnGuard.at) = 103
  /\ GoodPatch(HostGuard) /\ Turn(HostGuard.at) = 104
<1> DEFINE alone == Patch("respawn-guard", <<"respawn-unguarded">>)
<1>1. GoodPatch(alone) /\ Turn(alone.at) = 103
  <2>1. alone.at = "respawn-guard" /\ alone.to = <<"respawn-unguarded">> /\ alone.counts = {1} /\ alone.also = {}
    BY DEF Patch
  <2>2. /\ Site("respawn-guard")
        /\ Turn("respawn-guard") = 103
        /\ MarkOf("respawn-unguarded", "respawn-guard")
    BY DEF Site, MarkOf, OtherOf, Plain, Turn, Made, Reserved, Helpers, Boundaries,
           BootFragments, Boots, Prelude
  <2> HIDE DEF alone
  <2>3. QED
    BY <2>1, <2>2, OneLeft
<1>2. GoodPatch(RespawnGuard) /\ Turn(RespawnGuard.at) = 103
  <2>1. /\ RespawnGuard.at = alone.at /\ RespawnGuard.to = alone.to
        /\ RespawnGuard.counts = alone.counts /\ RespawnGuard.also = Guarded
        /\ alone.at = "respawn-guard" /\ alone.to = <<"respawn-unguarded">>
    BY DEF RespawnGuard, Patch, Guarded
  <2>2. Marks(RespawnGuard) = Marks(alone)
    BY <2>1 DEF Marks
  <2>3. ToSet(alone.to) = {"respawn-unguarded"}
    BY <2>1 DEF ToSet
  <2> HIDE DEF alone
  <2>4. RespawnGuard.at \notin ToSet(RespawnGuard.to)
    BY <2>1, <2>3
  <2>5. RespawnGuard.at \notin {"agents-launch", "native-launch"}
    BY <2>1
  <2>6. QED
    BY <1>1, <2>1, <2>2, <2>4, <2>5 DEF GoodPatch
<1>3. GoodPatch(HostGuard) /\ Turn(HostGuard.at) = 104
  <2>1. HostGuard.at = "host-provider" /\ HostGuard.to = <<"live-host-required">> /\ HostGuard.counts = {1} /\ HostGuard.also = {}
    BY DEF Patch, HostGuard
  <2>2. /\ Site("host-provider")
        /\ Turn("host-provider") = 104
        /\ MarkOf("live-host-required", "host-provider")
    BY DEF Site, MarkOf, OtherOf, Plain, Turn, Made, Reserved, Helpers, Boundaries,
           BootFragments, Boots, Prelude
  <2>3. QED
    BY <2>1, <2>2, OneLeft
<1>4. QED
  BY <1>2, <1>3

\* What follows them, in each release.
LEMMA WorkingList == InTurn(Working, 108, 111)
<1> DEFINE a == Patch("worker-class", <<"provider-field", "class-with-field">>)
           b == Patch("worker-env", <<"worker-scrubbed", "worker-tail">>)
           c == Patch("worker-tail", <<"worker-restored">>)
           d == Patch("claimed-entry", <<"claimed-provider", "claimed-apply-final">>)
<1>1. GoodPatch(a) /\ Turn(a.at) = 108
  <2>1. a.at = "worker-class" /\ a.to = <<"provider-field", "class-with-field">> /\ a.counts = {1} /\ a.also = {}
    BY DEF Patch
  <2>2. /\ Site("worker-class")
        /\ Turn("worker-class") = 108
        /\ MarkOf("provider-field", "worker-class")
        /\ OtherOf("class-with-field", "worker-class")
    BY DEF Site, MarkOf, OtherOf, Plain, Turn, Made, Reserved, Helpers, Boundaries,
           BootFragments, Boots, Prelude
  <2> HIDE DEF a
  <2>3. QED
    BY <2>1, <2>2, TwoLeft
<1>2. GoodPatch(b) /\ Turn(b.at) = 109
  <2>1. b.at = "worker-env" /\ b.to = <<"worker-scrubbed", "worker-tail">> /\ b.counts = {1} /\ b.also = {}
    BY DEF Patch
  <2>2. /\ Site("worker-env")
        /\ Turn("worker-env") = 109
        /\ MarkOf("worker-scrubbed", "worker-env")
        /\ OtherOf("worker-tail", "worker-env")
    BY DEF Site, MarkOf, OtherOf, Plain, Turn, Made, Reserved, Helpers, Boundaries,
           BootFragments, Boots, Prelude
  <2> HIDE DEF b
  <2>3. QED
    BY <2>1, <2>2, TwoLeft
<1>3. GoodPatch(c) /\ Turn(c.at) = 110
  <2>1. c.at = "worker-tail" /\ c.to = <<"worker-restored">> /\ c.counts = {1} /\ c.also = {}
    BY DEF Patch
  <2>2. /\ Site("worker-tail")
        /\ Turn("worker-tail") = 110
        /\ MarkOf("worker-restored", "worker-tail")
    BY DEF Site, MarkOf, OtherOf, Plain, Turn, Made, Reserved, Helpers, Boundaries,
           BootFragments, Boots, Prelude
  <2> HIDE DEF c
  <2>3. QED
    BY <2>1, <2>2, OneLeft
<1>4. GoodPatch(d) /\ Turn(d.at) = 111
  <2>1. d.at = "claimed-entry" /\ d.to = <<"claimed-provider", "claimed-apply-final">> /\ d.counts = {1} /\ d.also = {}
    BY DEF Patch
  <2>2. /\ Site("claimed-entry")
        /\ Turn("claimed-entry") = 111
        /\ MarkOf("claimed-provider", "claimed-entry")
        /\ OtherOf("claimed-apply-final", "claimed-entry")
    BY DEF Site, MarkOf, OtherOf, Plain, Turn, Made, Reserved, Helpers, Boundaries,
           BootFragments, Boots, Prelude
  <2> HIDE DEF d
  <2>3. QED
    BY <2>1, <2>2, TwoLeft
<1>5. Working = <<a, b, c, d>>
  BY DEF Working
<1> HIDE DEF a, b, c, d
<1>6. IsSequence(<<a, b, c, d>>) /\ DOMAIN <<a, b, c, d>> = 1..4
  BY DEF IsSequence
<1>7. InTurn(<<a, b, c, d>>, 108, 111)
  BY <1>1, <1>2, <1>3, <1>4, <1>6 DEF InTurn
<1>8. QED
  BY <1>5, <1>7

LEMMA RestoresList == InTurn(Restores, 112, 112)
<1> DEFINE a == Patch("settings-restores", <<"settings-restored">>)
<1>1. GoodPatch(a) /\ Turn(a.at) = 112
  <2>1. a.at = "settings-restores" /\ a.to = <<"settings-restored">> /\ a.counts = {1} /\ a.also = {}
    BY DEF Patch
  <2>2. /\ Site("settings-restores")
        /\ Turn("settings-restores") = 112
        /\ MarkOf("settings-restored", "settings-restores")
    BY DEF Site, MarkOf, OtherOf, Plain, Turn, Made, Reserved, Helpers, Boundaries,
           BootFragments, Boots, Prelude
  <2> HIDE DEF a
  <2>3. QED
    BY <2>1, <2>2, OneLeft
<1>2. Restores = <<a>>
  BY DEF Restores
<1> HIDE DEF a
<1>3. IsSequence(<<a>>) /\ DOMAIN <<a>> = 1..1
  BY DEF IsSequence
<1>4. InTurn(<<a>>, 112, 112)
  BY <1>1, <1>3 DEF InTurn
<1>5. QED
  BY <1>2, <1>4

LEMMA LifecycleList == InTurn(Lifecycle, 113, 113)
<1> DEFINE a == Patch("class-with-field", <<"provider-lifecycle">>)
<1>1. GoodPatch(a) /\ Turn(a.at) = 113
  <2>1. a.at = "class-with-field" /\ a.to = <<"provider-lifecycle">> /\ a.counts = {1} /\ a.also = {}
    BY DEF Patch
  <2>2. /\ Site("class-with-field")
        /\ Turn("class-with-field") = 113
        /\ MarkOf("provider-lifecycle", "class-with-field")
    BY DEF Site, MarkOf, OtherOf, Plain, Turn, Made, Reserved, Helpers, Boundaries,
           BootFragments, Boots, Prelude
  <2> HIDE DEF a
  <2>3. QED
    BY <2>1, <2>2, OneLeft
<1>2. Lifecycle = <<a>>
  BY DEF Lifecycle
<1> HIDE DEF a
<1>3. IsSequence(<<a>>) /\ DOMAIN <<a>> = 1..1
  BY DEF IsSequence
<1>4. InTurn(<<a>>, 113, 113)
  BY <1>1, <1>3 DEF InTurn
<1>5. QED
  BY <1>2, <1>4

LEMMA FallbackGood == GoodPatch(AgentsFallback) /\ Turn(AgentsFallback.at) = 119
<1> DEFINE alone == Patch("dispatch-launch", <<"agents-provider-env">>)
<1>1. GoodPatch(alone) /\ Turn(alone.at) = 119
  <2>1. alone.at = "dispatch-launch" /\ alone.to = <<"agents-provider-env">> /\ alone.counts = {1} /\ alone.also = {}
    BY DEF Patch
  <2>2. /\ Site("dispatch-launch")
        /\ Turn("dispatch-launch") = 119
        /\ MarkOf("agents-provider-env", "dispatch-launch")
    BY DEF Site, MarkOf, OtherOf, Plain, Turn, Made, Reserved, Helpers, Boundaries,
           BootFragments, Boots, Prelude
  <2> HIDE DEF alone
  <2>3. QED
    BY <2>1, <2>2, OneLeft
<1>2. /\ AgentsFallback.at = alone.at /\ AgentsFallback.to = alone.to
      /\ AgentsFallback.counts = alone.counts
      /\ AgentsFallback.also = Launches \ {"dispatch-launch"}
      /\ alone.at = "dispatch-launch" /\ alone.to = <<"agents-provider-env">>
  BY DEF AgentsFallback, Patch, Launches
<1>3. Marks(AgentsFallback) = Marks(alone)
  BY <1>2 DEF Marks
<1>4. ToSet(alone.to) = {"agents-provider-env"}
  BY <1>2 DEF ToSet
<1> HIDE DEF alone
<1>5. AgentsFallback.at \notin ToSet(AgentsFallback.to)
  BY <1>2, <1>4
<1>6. AgentsFallback.at \notin {"agents-launch", "native-launch"}
  BY <1>2
<1>7. QED
  BY <1>1, <1>2, <1>3, <1>5, <1>6 DEF GoodPatch

LEMMA AuthorityList == InTurn(AgentsAuthority, 114, 119)
<1> DEFINE a == Patch("provider-capture", <<"provider-capture", "agents-capture">>)
           b == [Patch("agents-settings", <<"agents-restored">>) EXCEPT !.counts = {2}]
<1>1. GoodPatch(a) /\ Turn(a.at) = 116
  <2>1. a.at = "provider-capture" /\ a.to = <<"provider-capture", "agents-capture">> /\ a.counts = {1} /\ a.also = {}
    BY DEF Patch
  <2>2. /\ Site("provider-capture")
        /\ Turn("provider-capture") = 116
        /\ OtherOf("agents-capture", "provider-capture")
    BY DEF Site, MarkOf, OtherOf, Plain, Turn, Made, Reserved, Helpers, Boundaries,
           BootFragments, Boots, Prelude
  <2> HIDE DEF a
  <2>3. QED
    BY <2>1, <2>2, TwoLeft
<1>2. GoodPatch(b) /\ Turn(b.at) = 117
  <2>1. b.at = "agents-settings" /\ b.to = <<"agents-restored">> /\ b.counts = {2} /\ b.also = {}
    BY DEF Patch
  <2>2. /\ Site("agents-settings")
        /\ Turn("agents-settings") = 117
        /\ MarkOf("agents-restored", "agents-settings")
    BY DEF Site, MarkOf, OtherOf, Plain, Turn, Made, Reserved, Helpers, Boundaries,
           BootFragments, Boots, Prelude
  <2> HIDE DEF b
  <2>3. QED
    BY <2>1, <2>2, OneLeft
<1>3. AgentsAuthority = <<a, b, AgentsFallback>>
  BY DEF AgentsAuthority
<1> HIDE DEF a, b
<1>4. IsSequence(<<a, b, AgentsFallback>>) /\ DOMAIN <<a, b, AgentsFallback>> = 1..3
  BY DEF IsSequence
<1>5. InTurn(<<a, b, AgentsFallback>>, 114, 119)
  BY <1>1, <1>2, <1>4, FallbackGood DEF InTurn
<1>6. QED
  BY <1>3, <1>5

LEMMA PolicyList == InTurn(NativePolicy, 114, 119)
<1> DEFINE a == [Patch("native-settings", <<"settings-initialize">>) EXCEPT !.counts = {2}]
           b == Patch("settings-filter", <<"provider-filter">>)
           c == Patch("provider-capture", <<"provider-capture", "policy-boundary">>)
           d == Patch("claimed-apply-final", <<"claim-reset">>)
<1>1. GoodPatch(a) /\ Turn(a.at) = 114
  <2>1. a.at = "native-settings" /\ a.to = <<"settings-initialize">> /\ a.counts = {2} /\ a.also = {}
    BY DEF Patch
  <2>2. /\ Site("native-settings")
        /\ Turn("native-settings") = 114
        /\ MarkOf("settings-initialize", "native-settings")
    BY DEF Site, MarkOf, OtherOf, Plain, Turn, Made, Reserved, Helpers, Boundaries,
           BootFragments, Boots, Prelude
  <2> HIDE DEF a
  <2>3. QED
    BY <2>1, <2>2, OneLeft
<1>2. GoodPatch(b) /\ Turn(b.at) = 115
  <2>1. b.at = "settings-filter" /\ b.to = <<"provider-filter">> /\ b.counts = {1} /\ b.also = {}
    BY DEF Patch
  <2>2. /\ Site("settings-filter")
        /\ Turn("settings-filter") = 115
        /\ MarkOf("provider-filter", "settings-filter")
    BY DEF Site, MarkOf, OtherOf, Plain, Turn, Made, Reserved, Helpers, Boundaries,
           BootFragments, Boots, Prelude
  <2> HIDE DEF b
  <2>3. QED
    BY <2>1, <2>2, OneLeft
<1>3. GoodPatch(c) /\ Turn(c.at) = 116
  <2>1. c.at = "provider-capture" /\ c.to = <<"provider-capture", "policy-boundary">> /\ c.counts = {1} /\ c.also = {}
    BY DEF Patch
  <2>2. /\ Site("provider-capture")
        /\ Turn("provider-capture") = 116
        /\ OtherOf("policy-boundary", "provider-capture")
    BY DEF Site, MarkOf, OtherOf, Plain, Turn, Made, Reserved, Helpers, Boundaries,
           BootFragments, Boots, Prelude
  <2> HIDE DEF c
  <2>3. QED
    BY <2>1, <2>2, TwoLeft
<1>4. GoodPatch(d) /\ Turn(d.at) = 118
  <2>1. d.at = "claimed-apply-final" /\ d.to = <<"claim-reset">> /\ d.counts = {1} /\ d.also = {}
    BY DEF Patch
  <2>2. /\ Site("claimed-apply-final")
        /\ Turn("claimed-apply-final") = 118
        /\ MarkOf("claim-reset", "claimed-apply-final")
    BY DEF Site, MarkOf, OtherOf, Plain, Turn, Made, Reserved, Helpers, Boundaries,
           BootFragments, Boots, Prelude
  <2> HIDE DEF d
  <2>3. QED
    BY <2>1, <2>2, OneLeft
<1>5. NativePolicy = <<a, b, c, d, AgentsFallback>>
  BY DEF NativePolicy
<1> HIDE DEF a, b, c, d
<1>6. IsSequence(<<a, b, c, d, AgentsFallback>>) /\ DOMAIN <<a, b, c, d, AgentsFallback>> = 1..5
  BY DEF IsSequence
<1>7. InTurn(<<a, b, c, d, AgentsFallback>>, 114, 119)
  BY <1>1, <1>2, <1>3, <1>4, <1>6, FallbackGood DEF InTurn
<1>8. QED
  BY <1>5, <1>7

LEMMA BackgroundSet == ASSUME NEW v PROVE GoodSet(BackgroundProviderEnvironment(v), 101, 119)
<1>1. ASSUME NEW restores, NEW more, InTurn(restores, 112, 112), InTurn(more, 114, 119)
      PROVE  InTurn(BackgroundBase(v, restores, more).patches, 101, 119)
  <2> DEFINE all(guard) == Dispatching(guard) \o Working \o restores \o Lifecycle \o more
  <2>1. \/ BackgroundBase(v, restores, more).patches = all(HostGuard)
        \/ BackgroundBase(v, restores, more).patches = all(RespawnGuard)
    BY DEF BackgroundBase, Background, PatchSet
  <2>2. ASSUME NEW guard, GuardsRespawn(guard) PROVE InTurn(all(guard), 101, 119)
    <3>1. InTurn(Dispatching(guard) \o Working, 101, 111)
      BY <2>2, DispatchingList, WorkingList, InTurnJoined
    <3>2. InTurn(Dispatching(guard) \o Working \o restores, 101, 112)
      BY <1>1, <3>1, InTurnJoined
    <3>3. InTurn(Dispatching(guard) \o Working \o restores \o Lifecycle, 101, 113)
      BY <3>2, LifecycleList, InTurnJoined
    <3>4. QED
      BY <1>1, <3>3, InTurnJoined
  <2> HIDE DEF all
  <2>3. InTurn(all(HostGuard), 101, 119) /\ InTurn(all(RespawnGuard), 101, 119)
    BY <2>2, Guards DEF GuardsRespawn
  <2>4. QED
    BY <2>1, <2>3
<1>2. InTurn(<<>>, 112, 112) /\ InTurn(<<>>, 114, 119)
  BY InTurnNone
<1>3. ASSUME NEW restores, NEW more
      PROVE  /\ BackgroundBase(v, restores, more).moves = {}
             /\ BackgroundBase(v, restores, more).boot = "never"
  BY DEF BackgroundBase, Background, PatchSet
<1>4. CASE AtLeast(v, 207)
  <2> DEFINE base == BackgroundBase(v, <<>>, NativePolicy)
             moved == {"provider-capture", "policy-boundary"}
             set == [base EXCEPT !.boot = "always", !.key = "provider", !.moves = moved]
  <2>1. BackgroundProviderEnvironment(v) = set
    BY <1>4 DEF BackgroundProviderEnvironment
  <2>2. set.patches = base.patches /\ set.boot = "always" /\ set.key = "provider" /\ set.moves = moved
    BY DEF BackgroundBase, Background, PatchSet
  <2>3. InTurn(base.patches, 101, 119)
    BY <1>1, <1>2, PolicyList
  <2>4. /\ \A w \in moved : ~Plain(w) /\ w \notin Reserved /\ Made(w) # 0 /\ w \notin Launches
        /\ "provider" \in DOMAIN Boots
    BY DEF Plain, Turn, Made, Reserved, Helpers, Boundaries, BootFragments, Boots, Prelude, Launches
  <2> HIDE DEF set, base, moved
  <2>5. QED
    BY <2>1, <2>2, <2>3, <2>4 DEF GoodSet
<1>5. CASE ~AtLeast(v, 207)
  <2>1. \/ BackgroundProviderEnvironment(v) = BackgroundBase(v, Restores, <<>>)
        \/ BackgroundProviderEnvironment(v) = BackgroundBase(v, Restores, AgentsAuthority)
    BY <1>5 DEF BackgroundProviderEnvironment
  <2>2. /\ InTurn(BackgroundBase(v, Restores, <<>>).patches, 101, 119)
        /\ InTurn(BackgroundBase(v, Restores, AgentsAuthority).patches, 101, 119)
    BY <1>1, <1>2, RestoresList, AuthorityList
  <2>3. QED
    BY <1>3, <2>1, <2>2 DEF GoodSet
<1>6. QED
  BY <1>4, <1>5

LEMMA SdkSet == GoodSet(MultiProviderSDK, 121, 139)
<1> DEFINE a == Patch("model-costs", <<"provider-costs">>)
           b == Patch("sdk-tail", <<"sdk-captured", "sdk-helper">>)
           c == Patch("requests", <<"requests-routed">>)
           d == [Patch("agent-model", <<"agent-catalogue">>) EXCEPT !.needs = {"agent-names"}]
           e == Patch("account-storage", <<"accounts-installed">>)
           f == Patch("message-threads", <<"threads-native-only">>)
<1>1. GoodPatch(a) /\ Turn(a.at) = 121
  <2>1. a.at = "model-costs" /\ a.to = <<"provider-costs">> /\ a.counts = {1} /\ a.also = {}
    BY DEF Patch
  <2>2. /\ Site("model-costs")
        /\ Turn("model-costs") = 121
        /\ MarkOf("provider-costs", "model-costs")
    BY DEF Site, MarkOf, OtherOf, Plain, Turn, Made, Reserved, Helpers, Boundaries,
           BootFragments, Boots, Prelude
  <2> HIDE DEF a
  <2>3. QED
    BY <2>1, <2>2, OneLeft
<1>2. GoodPatch(b) /\ Turn(b.at) = 122
  <2>1. b.at = "sdk-tail" /\ b.to = <<"sdk-captured", "sdk-helper">> /\ b.counts = {1} /\ b.also = {}
    BY DEF Patch
  <2>2. /\ Site("sdk-tail")
        /\ Turn("sdk-tail") = 122
        /\ MarkOf("sdk-captured", "sdk-tail")
        /\ OtherOf("sdk-helper", "sdk-tail")
    BY DEF Site, MarkOf, OtherOf, Plain, Turn, Made, Reserved, Helpers, Boundaries,
           BootFragments, Boots, Prelude
  <2> HIDE DEF b
  <2>3. QED
    BY <2>1, <2>2, TwoLeft
<1>3. GoodPatch(c) /\ Turn(c.at) = 123
  <2>1. c.at = "requests" /\ c.to = <<"requests-routed">> /\ c.counts = {1} /\ c.also = {}
    BY DEF Patch
  <2>2. /\ Site("requests")
        /\ Turn("requests") = 123
        /\ MarkOf("requests-routed", "requests")
    BY DEF Site, MarkOf, OtherOf, Plain, Turn, Made, Reserved, Helpers, Boundaries,
           BootFragments, Boots, Prelude
  <2> HIDE DEF c
  <2>3. QED
    BY <2>1, <2>2, OneLeft
<1>4. GoodPatch(d) /\ Turn(d.at) = 124
  <2>1. d.at = "agent-model" /\ d.to = <<"agent-catalogue">> /\ d.counts = {1} /\ d.also = {}
    BY DEF Patch
  <2>2. /\ Site("agent-model")
        /\ Turn("agent-model") = 124
        /\ MarkOf("agent-catalogue", "agent-model")
    BY DEF Site, MarkOf, OtherOf, Plain, Turn, Made, Reserved, Helpers, Boundaries,
           BootFragments, Boots, Prelude
  <2> HIDE DEF d
  <2>3. QED
    BY <2>1, <2>2, OneLeft
<1>5. GoodPatch(e) /\ Turn(e.at) = 125
  <2>1. e.at = "account-storage" /\ e.to = <<"accounts-installed">> /\ e.counts = {1} /\ e.also = {}
    BY DEF Patch
  <2>2. /\ Site("account-storage")
        /\ Turn("account-storage") = 125
        /\ MarkOf("accounts-installed", "account-storage")
    BY DEF Site, MarkOf, OtherOf, Plain, Turn, Made, Reserved, Helpers, Boundaries,
           BootFragments, Boots, Prelude
  <2> HIDE DEF e
  <2>3. QED
    BY <2>1, <2>2, OneLeft
<1>6. GoodPatch(f) /\ Turn(f.at) = 126
  <2>1. f.at = "message-threads" /\ f.to = <<"threads-native-only">> /\ f.counts = {1} /\ f.also = {}
    BY DEF Patch
  <2>2. /\ Site("message-threads")
        /\ Turn("message-threads") = 126
        /\ MarkOf("threads-native-only", "message-threads")
    BY DEF Site, MarkOf, OtherOf, Plain, Turn, Made, Reserved, Helpers, Boundaries,
           BootFragments, Boots, Prelude
  <2> HIDE DEF f
  <2>3. QED
    BY <2>1, <2>2, OneLeft
<1>7. MultiProviderSDK.patches = <<a, b, c, d, e, f>>
  BY DEF MultiProviderSDK, PatchSet
<1>8. MultiProviderSDK.moves = {"sdk-helper"} /\ MultiProviderSDK.boot = "split" /\ MultiProviderSDK.key = "sdk"
  BY DEF MultiProviderSDK, PatchSet
<1> HIDE DEF a, b, c, d, e, f
<1>9. IsSequence(<<a, b, c, d, e, f>>) /\ DOMAIN <<a, b, c, d, e, f>> = 1..6
  BY DEF IsSequence
<1>10. InTurn(<<a, b, c, d, e, f>>, 121, 139)
  BY <1>1, <1>2, <1>3, <1>4, <1>5, <1>6, <1>9 DEF InTurn
<1>11. (\A w \in {"sdk-helper"} : ~Plain(w) /\ w \notin Reserved /\ Made(w) # 0 /\ w \notin Launches) /\ "sdk" \in DOMAIN Boots
  BY DEF Plain, Turn, Made, Reserved, Helpers, Boundaries, BootFragments, Boots, Prelude, Launches
<1>12. QED
  BY <1>7, <1>8, <1>10, <1>11 DEF GoodSet

LEMMA SyntaxSet == GoodSet(CatppuccinSyntax, 141, 159)
<1> DEFINE a == Patch("syntax-map", <<"syntax-macchiato">>)
<1>1. GoodPatch(a) /\ Turn(a.at) = 141
  <2>1. a.at = "syntax-map" /\ a.to = <<"syntax-macchiato">> /\ a.counts = {1} /\ a.also = {}
    BY DEF Patch
  <2>2. /\ Site("syntax-map")
        /\ Turn("syntax-map") = 141
        /\ MarkOf("syntax-macchiato", "syntax-map")
    BY DEF Site, MarkOf, OtherOf, Plain, Turn, Made, Reserved, Helpers, Boundaries,
           BootFragments, Boots, Prelude
  <2> HIDE DEF a
  <2>3. QED
    BY <2>1, <2>2, OneLeft
<1>2. CatppuccinSyntax.patches = <<a>>
  BY DEF CatppuccinSyntax, PatchSet
<1>3. CatppuccinSyntax.moves = {} /\ CatppuccinSyntax.boot = "never"
  BY DEF CatppuccinSyntax, PatchSet
<1> HIDE DEF a
<1>4. IsSequence(<<a>>) /\ DOMAIN <<a>> = 1..1
  BY DEF IsSequence
<1>5. InTurn(<<a>>, 141, 159)
  BY <1>1, <1>4 DEF InTurn
<1>6. QED
  BY <1>2, <1>3, <1>5 DEF GoodSet

LEMMA SummariesSet == GoodSet(Summaries, 161, 179)
<1> DEFINE a == Patch("summary-gate", <<"summary-ungated">>)
<1>1. GoodPatch(a) /\ Turn(a.at) = 161
  <2>1. a.at = "summary-gate" /\ a.to = <<"summary-ungated">> /\ a.counts = {1} /\ a.also = {}
    BY DEF Patch
  <2>2. /\ Site("summary-gate")
        /\ Turn("summary-gate") = 161
        /\ MarkOf("summary-ungated", "summary-gate")
    BY DEF Site, MarkOf, OtherOf, Plain, Turn, Made, Reserved, Helpers, Boundaries,
           BootFragments, Boots, Prelude
  <2> HIDE DEF a
  <2>3. QED
    BY <2>1, <2>2, OneLeft
<1>2. Summaries.patches = <<a>>
  BY DEF Summaries, PatchSet
<1>3. Summaries.moves = {} /\ Summaries.boot = "never"
  BY DEF Summaries, PatchSet
<1> HIDE DEF a
<1>4. IsSequence(<<a>>) /\ DOMAIN <<a>> = 1..1
  BY DEF IsSequence
<1>5. InTurn(<<a>>, 161, 179)
  BY <1>1, <1>4 DEF InTurn
<1>6. QED
  BY <1>2, <1>3, <1>5 DEF GoodSet

LEMMA Summaries198Set == GoodSet(Summaries198, 161, 179)
<1> DEFINE a == Patch("display-helper", <<"setting-first">>)
           b == [Patch("subagent-filter", <<"subagent-kept">>) EXCEPT !.needs = {"show-summaries"}]
<1>1. GoodPatch(a) /\ Turn(a.at) = 162
  <2>1. a.at = "display-helper" /\ a.to = <<"setting-first">> /\ a.counts = {1} /\ a.also = {}
    BY DEF Patch
  <2>2. /\ Site("display-helper")
        /\ Turn("display-helper") = 162
        /\ MarkOf("setting-first", "display-helper")
    BY DEF Site, MarkOf, OtherOf, Plain, Turn, Made, Reserved, Helpers, Boundaries,
           BootFragments, Boots, Prelude
  <2> HIDE DEF a
  <2>3. QED
    BY <2>1, <2>2, OneLeft
<1>2. GoodPatch(b) /\ Turn(b.at) = 163
  <2>1. b.at = "subagent-filter" /\ b.to = <<"subagent-kept">> /\ b.counts = {1} /\ b.also = {}
    BY DEF Patch
  <2>2. /\ Site("subagent-filter")
        /\ Turn("subagent-filter") = 163
        /\ MarkOf("subagent-kept", "subagent-filter")
    BY DEF Site, MarkOf, OtherOf, Plain, Turn, Made, Reserved, Helpers, Boundaries,
           BootFragments, Boots, Prelude
  <2> HIDE DEF b
  <2>3. QED
    BY <2>1, <2>2, OneLeft
<1>3. Summaries198.patches = <<a, b>>
  BY DEF Summaries198, PatchSet
<1>4. Summaries198.moves = {} /\ Summaries198.boot = "never"
  BY DEF Summaries198, PatchSet
<1> HIDE DEF a, b
<1>5. IsSequence(<<a, b>>) /\ DOMAIN <<a, b>> = 1..2
  BY DEF IsSequence
<1>6. InTurn(<<a, b>>, 161, 179)
  BY <1>1, <1>2, <1>5 DEF InTurn
<1>7. QED
  BY <1>3, <1>4, <1>6 DEF GoodSet

LEMMA CompactSet == GoodSet(CompactSession, 181, 199)
<1> DEFINE a == Patch("todo-tool", <<"compact-tool">>)
           b == Patch("tool-registry", <<"compact-listed">>)
           c == Patch("compact-guard", <<"compact-flag">>)
<1>1. GoodPatch(a) /\ Turn(a.at) = 181
  <2>1. a.at = "todo-tool" /\ a.to = <<"compact-tool">> /\ a.counts = {1} /\ a.also = {}
    BY DEF Patch
  <2>2. /\ Site("todo-tool")
        /\ Turn("todo-tool") = 181
        /\ MarkOf("compact-tool", "todo-tool")
    BY DEF Site, MarkOf, OtherOf, Plain, Turn, Made, Reserved, Helpers, Boundaries,
           BootFragments, Boots, Prelude
  <2> HIDE DEF a
  <2>3. QED
    BY <2>1, <2>2, OneLeft
<1>2. GoodPatch(b) /\ Turn(b.at) = 182
  <2>1. b.at = "tool-registry" /\ b.to = <<"compact-listed">> /\ b.counts = {1} /\ b.also = {}
    BY DEF Patch
  <2>2. /\ Site("tool-registry")
        /\ Turn("tool-registry") = 182
        /\ MarkOf("compact-listed", "tool-registry")
    BY DEF Site, MarkOf, OtherOf, Plain, Turn, Made, Reserved, Helpers, Boundaries,
           BootFragments, Boots, Prelude
  <2> HIDE DEF b
  <2>3. QED
    BY <2>1, <2>2, OneLeft
<1>3. GoodPatch(c) /\ Turn(c.at) = 183
  <2>1. c.at = "compact-guard" /\ c.to = <<"compact-flag">> /\ c.counts = {1} /\ c.also = {}
    BY DEF Patch
  <2>2. /\ Site("compact-guard")
        /\ Turn("compact-guard") = 183
        /\ MarkOf("compact-flag", "compact-guard")
    BY DEF Site, MarkOf, OtherOf, Plain, Turn, Made, Reserved, Helpers, Boundaries,
           BootFragments, Boots, Prelude
  <2> HIDE DEF c
  <2>3. QED
    BY <2>1, <2>2, OneLeft
<1>4. CompactSession.patches = <<a, b, c>>
  BY DEF CompactSession, PatchSet
<1>5. CompactSession.moves = {} /\ CompactSession.boot = "never"
  BY DEF CompactSession, PatchSet
<1> HIDE DEF a, b, c
<1>6. IsSequence(<<a, b, c>>) /\ DOMAIN <<a, b, c>> = 1..3
  BY DEF IsSequence
<1>7. InTurn(<<a, b, c>>, 181, 199)
  BY <1>1, <1>2, <1>3, <1>6 DEF InTurn
<1>8. QED
  BY <1>4, <1>5, <1>7 DEF GoodSet

LEMMA StreamingSet == GoodSet(StreamingThinking, 201, 219)
<1> DEFINE a == Patch("stream-events", <<"thinking-accumulated">>)
           b == [Patch("stream-view", <<"thinking-preview">>) EXCEPT !.needs = {"expanded-render", "is-loading", "deferred"}]
           c == [Patch("turn-reset", <<"preview-reset">>) EXCEPT !.counts = {2}]
           d == Patch("stream-provider", <<"preview-mounted">>)
<1>1. GoodPatch(a) /\ Turn(a.at) = 201
  <2>1. a.at = "stream-events" /\ a.to = <<"thinking-accumulated">> /\ a.counts = {1} /\ a.also = {}
    BY DEF Patch
  <2>2. /\ Site("stream-events")
        /\ Turn("stream-events") = 201
        /\ MarkOf("thinking-accumulated", "stream-events")
    BY DEF Site, MarkOf, OtherOf, Plain, Turn, Made, Reserved, Helpers, Boundaries,
           BootFragments, Boots, Prelude
  <2> HIDE DEF a
  <2>3. QED
    BY <2>1, <2>2, OneLeft
<1>2. GoodPatch(b) /\ Turn(b.at) = 202
  <2>1. b.at = "stream-view" /\ b.to = <<"thinking-preview">> /\ b.counts = {1} /\ b.also = {}
    BY DEF Patch
  <2>2. /\ Site("stream-view")
        /\ Turn("stream-view") = 202
        /\ MarkOf("thinking-preview", "stream-view")
    BY DEF Site, MarkOf, OtherOf, Plain, Turn, Made, Reserved, Helpers, Boundaries,
           BootFragments, Boots, Prelude
  <2> HIDE DEF b
  <2>3. QED
    BY <2>1, <2>2, OneLeft
<1>3. GoodPatch(c) /\ Turn(c.at) = 203
  <2>1. c.at = "turn-reset" /\ c.to = <<"preview-reset">> /\ c.counts = {2} /\ c.also = {}
    BY DEF Patch
  <2>2. /\ Site("turn-reset")
        /\ Turn("turn-reset") = 203
        /\ MarkOf("preview-reset", "turn-reset")
    BY DEF Site, MarkOf, OtherOf, Plain, Turn, Made, Reserved, Helpers, Boundaries,
           BootFragments, Boots, Prelude
  <2> HIDE DEF c
  <2>3. QED
    BY <2>1, <2>2, OneLeft
<1>4. GoodPatch(d) /\ Turn(d.at) = 204
  <2>1. d.at = "stream-provider" /\ d.to = <<"preview-mounted">> /\ d.counts = {1} /\ d.also = {}
    BY DEF Patch
  <2>2. /\ Site("stream-provider")
        /\ Turn("stream-provider") = 204
        /\ MarkOf("preview-mounted", "stream-provider")
    BY DEF Site, MarkOf, OtherOf, Plain, Turn, Made, Reserved, Helpers, Boundaries,
           BootFragments, Boots, Prelude
  <2> HIDE DEF d
  <2>3. QED
    BY <2>1, <2>2, OneLeft
<1>5. StreamingThinking.patches = <<a, b, c, d>>
  BY DEF StreamingThinking, PatchSet
<1>6. StreamingThinking.moves = {} /\ StreamingThinking.boot = "never"
  BY DEF StreamingThinking, PatchSet
<1> HIDE DEF a, b, c, d
<1>7. IsSequence(<<a, b, c, d>>) /\ DOMAIN <<a, b, c, d>> = 1..4
  BY DEF IsSequence
<1>8. InTurn(<<a, b, c, d>>, 201, 219)
  BY <1>1, <1>2, <1>3, <1>4, <1>7 DEF InTurn
<1>9. QED
  BY <1>5, <1>6, <1>8 DEF GoodSet

LEMMA SessionSet == GoodSet(ModelSessionOnly, 221, 239)
<1> DEFINE a == Patch("model-save", <<"model-not-saved">>)
           b == Patch("picker-default", <<"picker-session">>)
<1>1. GoodPatch(a) /\ Turn(a.at) = 221
  <2>1. a.at = "model-save" /\ a.to = <<"model-not-saved">> /\ a.counts = {1} /\ a.also = {}
    BY DEF Patch
  <2>2. /\ Site("model-save")
        /\ Turn("model-save") = 221
        /\ MarkOf("model-not-saved", "model-save")
    BY DEF Site, MarkOf, OtherOf, Plain, Turn, Made, Reserved, Helpers, Boundaries,
           BootFragments, Boots, Prelude
  <2> HIDE DEF a
  <2>3. QED
    BY <2>1, <2>2, OneLeft
<1>2. GoodPatch(b) /\ Turn(b.at) = 222
  <2>1. b.at = "picker-default" /\ b.to = <<"picker-session">> /\ b.counts = {1} /\ b.also = {}
    BY DEF Patch
  <2>2. /\ Site("picker-default")
        /\ Turn("picker-default") = 222
        /\ MarkOf("picker-session", "picker-default")
    BY DEF Site, MarkOf, OtherOf, Plain, Turn, Made, Reserved, Helpers, Boundaries,
           BootFragments, Boots, Prelude
  <2> HIDE DEF b
  <2>3. QED
    BY <2>1, <2>2, OneLeft
<1>3. ModelSessionOnly.patches = <<a, b>>
  BY DEF ModelSessionOnly, PatchSet
<1>4. ModelSessionOnly.moves = {} /\ ModelSessionOnly.boot = "never"
  BY DEF ModelSessionOnly, PatchSet
<1> HIDE DEF a, b
<1>5. IsSequence(<<a, b>>) /\ DOMAIN <<a, b>> = 1..2
  BY DEF IsSequence
<1>6. InTurn(<<a, b>>, 221, 239)
  BY <1>1, <1>2, <1>5 DEF InTurn
<1>7. QED
  BY <1>3, <1>4, <1>6 DEF GoodSet

LEMMA RetractionSet == GoodSet(RetractionArchive, 241, 259)
<1> DEFINE a == Patch("message-removal", <<"removal-archived">>)
<1>1. GoodPatch(a) /\ Turn(a.at) = 241
  <2>1. a.at = "message-removal" /\ a.to = <<"removal-archived">> /\ a.counts = {1} /\ a.also = {}
    BY DEF Patch
  <2>2. /\ Site("message-removal")
        /\ Turn("message-removal") = 241
        /\ MarkOf("removal-archived", "message-removal")
    BY DEF Site, MarkOf, OtherOf, Plain, Turn, Made, Reserved, Helpers, Boundaries,
           BootFragments, Boots, Prelude
  <2> HIDE DEF a
  <2>3. QED
    BY <2>1, <2>2, OneLeft
<1>2. RetractionArchive.patches = <<a>>
  BY DEF RetractionArchive, PatchSet
<1>3. RetractionArchive.moves = {} /\ RetractionArchive.boot = "never"
  BY DEF RetractionArchive, PatchSet
<1> HIDE DEF a
<1>4. IsSequence(<<a>>) /\ DOMAIN <<a>> = 1..1
  BY DEF IsSequence
<1>5. InTurn(<<a>>, 241, 259)
  BY <1>1, <1>4 DEF InTurn
<1>6. QED
  BY <1>2, <1>3, <1>5 DEF GoodSet

LEMMA FallbackSet == GoodSet(AutoModeLocalFallback, 261, 279)
<1> DEFINE a == Patch("arbiter", <<"arbiter-fallback">>)
<1>1. GoodPatch(a) /\ Turn(a.at) = 261
  <2>1. a.at = "arbiter" /\ a.to = <<"arbiter-fallback">> /\ a.counts = {1} /\ a.also = {}
    BY DEF Patch
  <2>2. /\ Site("arbiter")
        /\ Turn("arbiter") = 261
        /\ MarkOf("arbiter-fallback", "arbiter")
    BY DEF Site, MarkOf, OtherOf, Plain, Turn, Made, Reserved, Helpers, Boundaries,
           BootFragments, Boots, Prelude
  <2> HIDE DEF a
  <2>3. QED
    BY <2>1, <2>2, OneLeft
<1>2. AutoModeLocalFallback.patches = <<a>>
  BY DEF AutoModeLocalFallback, PatchSet
<1>3. AutoModeLocalFallback.moves = {} /\ AutoModeLocalFallback.boot = "never"
  BY DEF AutoModeLocalFallback, PatchSet
<1> HIDE DEF a
<1>4. IsSequence(<<a>>) /\ DOMAIN <<a>> = 1..1
  BY DEF IsSequence
<1>5. InTurn(<<a>>, 261, 279)
  BY <1>1, <1>4 DEF InTurn
<1>6. QED
  BY <1>2, <1>3, <1>5 DEF GoodSet

LEMMA ThresholdSet == GoodSet(LowMemoryThreshold, 281, 299)
<1> DEFINE a == Patch("low-memory", <<"low-memory-env">>)
<1>1. GoodPatch(a) /\ Turn(a.at) = 281
  <2>1. a.at = "low-memory" /\ a.to = <<"low-memory-env">> /\ a.counts = {1} /\ a.also = {}
    BY DEF Patch
  <2>2. /\ Site("low-memory")
        /\ Turn("low-memory") = 281
        /\ MarkOf("low-memory-env", "low-memory")
    BY DEF Site, MarkOf, OtherOf, Plain, Turn, Made, Reserved, Helpers, Boundaries,
           BootFragments, Boots, Prelude
  <2> HIDE DEF a
  <2>3. QED
    BY <2>1, <2>2, OneLeft
<1>2. LowMemoryThreshold.patches = <<a>>
  BY DEF LowMemoryThreshold, PatchSet
<1>3. LowMemoryThreshold.moves = {} /\ LowMemoryThreshold.boot = "never"
  BY DEF LowMemoryThreshold, PatchSet
<1> HIDE DEF a
<1>4. IsSequence(<<a>>) /\ DOMAIN <<a>> = 1..1
  BY DEF IsSequence
<1>5. InTurn(<<a>>, 281, 299)
  BY <1>1, <1>4 DEF InTurn
<1>6. QED
  BY <1>2, <1>3, <1>5 DEF GoodSet

-----------------------------------------------------------------------------
(* The sets of the engine, in their order. *)

\* The place of a set, by its name: the turns of its patches come after it.
Seat(set) ==
  CASE set.name = "thinking-expanded" -> 1
    [] set.name = "channels-enabled" -> 2
    [] set.name = "dev-channel-inheritance" -> 3
    [] set.name = "agents-view-handoff" -> 4
    [] set.name = "background-provider-environment" -> 5
    [] set.name = "multi-provider-sdk" -> 6
    [] set.name = "catppuccin-syntax-scopes" -> 7
    [] set.name = "thinking-summaries-noninteractive" -> 8
    [] set.name = "compact-session-tool" -> 9
    [] set.name = "streaming-thinking" -> 10
    [] set.name = "model-session-only" -> 11
    [] set.name = "retraction-archive" -> 12
    [] set.name = "auto-mode-local-fallback" -> 13
    [] set.name = "background-low-memory-threshold" -> 14
    [] OTHER -> 0

InEngine(set) == GoodSet(set, 20 * Seat(set) + 1, 20 * Seat(set) + 19)

LEMMA SeatType == \A set : Seat(set) \in Nat
BY DEF Seat

\* A set is found by its name.
LEMMA ByName ==
  ASSUME NEW set
  PROVE  /\ set.name = "thinking-expanded" => Seat(set) = 1
         /\ set.name = "channels-enabled" => Seat(set) = 2
         /\ set.name = "dev-channel-inheritance" => Seat(set) = 3
         /\ set.name = "agents-view-handoff" => Seat(set) = 4
         /\ set.name = "background-provider-environment" => Seat(set) = 5
         /\ set.name = "multi-provider-sdk" => Seat(set) = 6
         /\ set.name = "catppuccin-syntax-scopes" => Seat(set) = 7
         /\ set.name = "thinking-summaries-noninteractive" => Seat(set) = 8
         /\ set.name = "compact-session-tool" => Seat(set) = 9
         /\ set.name = "streaming-thinking" => Seat(set) = 10
         /\ set.name = "model-session-only" => Seat(set) = 11
         /\ set.name = "retraction-archive" => Seat(set) = 12
         /\ set.name = "auto-mode-local-fallback" => Seat(set) = 13
         /\ set.name = "background-low-memory-threshold" => Seat(set) = 14
BY DEF Seat

\* Every set has its place.
LEMMA EverySeat ==
  ASSUME NEW v
  PROVE  /\ InEngine(ThinkingExpanded(v)) /\ Seat(ThinkingExpanded(v)) = 1
         /\ InEngine(ChannelsEnabled) /\ Seat(ChannelsEnabled) = 2
         /\ InEngine(DevChannelInheritance) /\ Seat(DevChannelInheritance) = 3
         /\ InEngine(AgentsViewHandoff(v)) /\ Seat(AgentsViewHandoff(v)) = 4
         /\ InEngine(BackgroundProviderEnvironment(v)) /\ Seat(BackgroundProviderEnvironment(v)) = 5
         /\ InEngine(MultiProviderSDK) /\ Seat(MultiProviderSDK) = 6
         /\ InEngine(CatppuccinSyntax) /\ Seat(CatppuccinSyntax) = 7
         /\ InEngine(SelectPatchVariant(v, Summaries, Summaries198)) /\ Seat(SelectPatchVariant(v, Summaries, Summaries198)) = 8
         /\ InEngine(CompactSession) /\ Seat(CompactSession) = 9
         /\ InEngine(StreamingThinking) /\ Seat(StreamingThinking) = 10
         /\ InEngine(ModelSessionOnly) /\ Seat(ModelSessionOnly) = 11
         /\ InEngine(RetractionArchive) /\ Seat(RetractionArchive) = 12
         /\ InEngine(AutoModeLocalFallback) /\ Seat(AutoModeLocalFallback) = 13
         /\ InEngine(LowMemoryThreshold) /\ Seat(LowMemoryThreshold) = 14
<1>1. InEngine(ThinkingExpanded(v)) /\ Seat(ThinkingExpanded(v)) = 1
  <2>1. ThinkingExpanded(v).name = "thinking-expanded"
    BY DEF ThinkingExpanded, PatchSet
  <2>2. QED
    BY <2>1, ByName, ThinkingSet DEF InEngine
<1>2. InEngine(ChannelsEnabled) /\ Seat(ChannelsEnabled) = 2
  <2>1. ChannelsEnabled.name = "channels-enabled"
    BY DEF ChannelsEnabled, PatchSet
  <2>2. QED
    BY <2>1, ByName, ChannelsSet DEF InEngine
<1>3. InEngine(DevChannelInheritance) /\ Seat(DevChannelInheritance) = 3
  <2>1. DevChannelInheritance.name = "dev-channel-inheritance"
    BY DEF DevChannelInheritance, PatchSet
  <2>2. QED
    BY <2>1, ByName, InheritanceSet DEF InEngine
<1>4. InEngine(AgentsViewHandoff(v)) /\ Seat(AgentsViewHandoff(v)) = 4
  <2>1. AgentsViewHandoff(v).name = "agents-view-handoff"
    BY DEF AgentsViewHandoff, NativeAgents, PatchedAgents, PatchSet
  <2>2. QED
    BY <2>1, ByName, AgentsSet DEF InEngine
<1>5. InEngine(BackgroundProviderEnvironment(v)) /\ Seat(BackgroundProviderEnvironment(v)) = 5
  <2>1. BackgroundProviderEnvironment(v).name = "background-provider-environment"
    BY DEF BackgroundProviderEnvironment, BackgroundBase, Background, PatchSet
  <2>2. QED
    BY <2>1, ByName, BackgroundSet DEF InEngine
<1>6. InEngine(MultiProviderSDK) /\ Seat(MultiProviderSDK) = 6
  <2>1. MultiProviderSDK.name = "multi-provider-sdk"
    BY DEF MultiProviderSDK, PatchSet
  <2>2. QED
    BY <2>1, ByName, SdkSet DEF InEngine
<1>7. InEngine(CatppuccinSyntax) /\ Seat(CatppuccinSyntax) = 7
  <2>1. CatppuccinSyntax.name = "catppuccin-syntax-scopes"
    BY DEF CatppuccinSyntax, PatchSet
  <2>2. QED
    BY <2>1, ByName, SyntaxSet DEF InEngine
<1>8. InEngine(SelectPatchVariant(v, Summaries, Summaries198)) /\ Seat(SelectPatchVariant(v, Summaries, Summaries198)) = 8
  <2>1. SelectPatchVariant(v, Summaries, Summaries198).name = "thinking-summaries-noninteractive"
    BY DEF SelectPatchVariant, Summaries, Summaries198, PatchSet
  <2>2. GoodSet(SelectPatchVariant(v, Summaries, Summaries198), 161, 179)
    BY SummariesSet, Summaries198Set DEF SelectPatchVariant
  <2>3. QED
    BY <2>1, <2>2, ByName DEF InEngine
<1>9. InEngine(CompactSession) /\ Seat(CompactSession) = 9
  <2>1. CompactSession.name = "compact-session-tool"
    BY DEF CompactSession, PatchSet
  <2>2. QED
    BY <2>1, ByName, CompactSet DEF InEngine
<1>10. InEngine(StreamingThinking) /\ Seat(StreamingThinking) = 10
  <2>1. StreamingThinking.name = "streaming-thinking"
    BY DEF StreamingThinking, PatchSet
  <2>2. QED
    BY <2>1, ByName, StreamingSet DEF InEngine
<1>11. InEngine(ModelSessionOnly) /\ Seat(ModelSessionOnly) = 11
  <2>1. ModelSessionOnly.name = "model-session-only"
    BY DEF ModelSessionOnly, PatchSet
  <2>2. QED
    BY <2>1, ByName, SessionSet DEF InEngine
<1>12. InEngine(RetractionArchive) /\ Seat(RetractionArchive) = 12
  <2>1. RetractionArchive.name = "retraction-archive"
    BY DEF RetractionArchive, PatchSet
  <2>2. QED
    BY <2>1, ByName, RetractionSet DEF InEngine
<1>13. InEngine(AutoModeLocalFallback) /\ Seat(AutoModeLocalFallback) = 13
  <2>1. AutoModeLocalFallback.name = "auto-mode-local-fallback"
    BY DEF AutoModeLocalFallback, PatchSet
  <2>2. QED
    BY <2>1, ByName, FallbackSet DEF InEngine
<1>14. InEngine(LowMemoryThreshold) /\ Seat(LowMemoryThreshold) = 14
  <2>1. LowMemoryThreshold.name = "background-low-memory-threshold"
    BY DEF LowMemoryThreshold, PatchSet
  <2>2. QED
    BY <2>1, ByName, ThresholdSet DEF InEngine
<1>15. QED
  BY <1>1, <1>2, <1>3, <1>4, <1>5, <1>6, <1>7, <1>8, <1>9, <1>10, <1>11, <1>12, <1>13, <1>14

\* Sets in order, from one place to another.
InOrder(sets, low, high) ==
  /\ IsSequence(sets)
  /\ \A i \in DOMAIN sets :
       InEngine(sets[i]) /\ low <= Seat(sets[i]) /\ Seat(sets[i]) <= high
  /\ \A i, k \in DOMAIN sets : i < k => Seat(sets[i]) < Seat(sets[k])

\* A release leaves some of them out,
LEMMA OrderKept ==
  ASSUME NEW sets, NEW low, NEW high, InOrder(sets, low, high), NEW v
  PROVE  InOrder(ForVersion(sets, v), low, high)
<1> DEFINE positions == {i \in DOMAIN sets : AppliesTo(sets[i], v)}
           kept == Kept(sets, positions)
           size == Cardinality(positions)
<1>1. /\ IsSequence(sets)
      /\ \A i \in DOMAIN sets :
           InEngine(sets[i]) /\ low <= Seat(sets[i]) /\ Seat(sets[i]) <= high
      /\ \A i, k \in DOMAIN sets : i < k => Seat(sets[i]) < Seat(sets[k])
  BY DEF InOrder
<1>2. /\ IsSequence(kept) /\ Len(kept) = size
      /\ \A n \in 1..size : At(positions, n) \in positions /\ kept[n] = sets[At(positions, n)]
      /\ \A m, n \in 1..size : m < n => At(positions, m) < At(positions, n)
  BY <1>1, KeptIs
<1>3. DOMAIN kept = 1..size
  BY <1>2, AsSeq
<1>4. \A i \in positions : i \in DOMAIN sets
  OBVIOUS
<1>5. ForVersion(sets, v) = kept
  BY DEF ForVersion
<1> HIDE DEF positions, kept, size
<1>6. \A n \in 1..size :
        InEngine(kept[n]) /\ low <= Seat(kept[n]) /\ Seat(kept[n]) <= high
  BY <1>1, <1>2, <1>4
<1>7. ASSUME NEW m \in 1..size, NEW n \in 1..size, m < n PROVE Seat(kept[m]) < Seat(kept[n])
  <2>1. At(positions, m) < At(positions, n)
    BY <1>2, <1>7
  <2>2. At(positions, m) \in DOMAIN sets /\ At(positions, n) \in DOMAIN sets
    BY <1>2, <1>4
  <2>3. Seat(sets[At(positions, m)]) < Seat(sets[At(positions, n)])
    BY <1>1, <2>1, <2>2
  <2>4. QED
    BY <1>2, <2>3
<1>8. QED
  BY <1>2, <1>3, <1>5, <1>6, <1>7 DEF InOrder

\* and two lists follow each other.
LEMMA OrderJoined ==
  ASSUME NEW s, NEW t, NEW low \in Nat, NEW mid \in Nat, NEW top \in Nat, NEW high \in Nat,
         low <= mid, mid < top, top <= high, InOrder(s, low, mid), InOrder(t, top, high)
  PROVE  InOrder(s \o t, low, high)
<1> DEFINE n == Len(s)
           m == Len(t)
           u == s \o t
<1>1. /\ IsSequence(s) /\ IsSequence(t)
      /\ \A i \in DOMAIN s : InEngine(s[i]) /\ low <= Seat(s[i]) /\ Seat(s[i]) <= mid
      /\ \A i \in DOMAIN t : InEngine(t[i]) /\ top <= Seat(t[i]) /\ Seat(t[i]) <= high
      /\ \A i, k \in DOMAIN s : i < k => Seat(s[i]) < Seat(s[k])
      /\ \A i, k \in DOMAIN t : i < k => Seat(t[i]) < Seat(t[k])
  BY DEF InOrder
<1>2. DOMAIN s = 1..n /\ n \in Nat /\ DOMAIN t = 1..m /\ m \in Nat
  BY <1>1, AsSeq
<1>3. /\ IsSequence(u) /\ Len(u) = n + m
      /\ \A i \in 1..n : u[i] = s[i]
      /\ \A i \in 1..m : u[n + i] = t[i]
  BY <1>1, Joined
<1>4. DOMAIN u = 1..n + m
  BY <1>3, AsSeq
<1> HIDE DEF n, m, u
<1>5. \A i \in 1..n : InEngine(u[i]) /\ low <= Seat(u[i]) /\ Seat(u[i]) <= mid
  BY <1>1, <1>2, <1>3
<1>6. ASSUME NEW i \in n + 1..n + m
      PROVE  i - n \in 1..m /\ u[i] = t[i - n] /\ InEngine(u[i])
             /\ top <= Seat(u[i]) /\ Seat(u[i]) <= high
  <2>1. i - n \in 1..m /\ n + (i - n) = i
    BY <1>2
  <2>2. u[i] = t[i - n]
    BY <1>3, <2>1
  <2>3. QED
    BY <1>1, <1>2, <2>1, <2>2
<1>7. \A i \in 1..n + m : i \in 1..n \/ i \in n + 1..n + m
  BY <1>2
<1>8. \A i \in 1..n + m : InEngine(u[i]) /\ low <= Seat(u[i]) /\ Seat(u[i]) <= high
  BY <1>5, <1>6, <1>7, SeatType
<1>9. ASSUME NEW i \in 1..n + m, NEW k \in 1..n + m, i < k PROVE Seat(u[i]) < Seat(u[k])
  <2>1. CASE i \in 1..n /\ k \in 1..n
    BY <1>1, <1>2, <1>3, <1>9, <2>1
  <2>2. CASE i \in 1..n /\ k \in n + 1..n + m
    BY <1>5, <1>6, <2>2, SeatType
  <2>3. CASE i \in n + 1..n + m
    <3>1. k \in n + 1..n + m /\ i - n < k - n
      BY <1>2, <1>9, <2>3
    <3>2. i - n \in 1..m /\ k - n \in 1..m /\ u[i] = t[i - n] /\ u[k] = t[k - n]
      BY <1>6, <2>3, <3>1
    <3>3. QED
      BY <1>1, <1>2, <3>1, <3>2
  <2>4. QED
    BY <1>7, <2>1, <2>2, <2>3
<1>10. QED
  BY <1>3, <1>4, <1>8, <1>9 DEF InOrder, u

\* The default sets are in order, and thinking-expanded is the first.
LEMMA DefaultOrder ==
  ASSUME NEW v
  PROVE  /\ InOrder(DefaultPatchSets(v), 1, 14)
         /\ DefaultPatchSets(v)[1] = ThinkingExpanded(v) /\ Len(DefaultPatchSets(v)) # 0
<1> DEFINE a == ThinkingExpanded(v)
           b == ChannelsEnabled
           c == DevChannelInheritance
           d == AgentsViewHandoff(v)
           e == BackgroundProviderEnvironment(v)
           f == MultiProviderSDK
           g == CatppuccinSyntax
           h == SelectPatchVariant(v, Summaries, Summaries198)
           i == CompactSession
           j == StreamingThinking
           k == ModelSessionOnly
           l == RetractionArchive
           m == AutoModeLocalFallback
           n == LowMemoryThreshold
           nine == <<a, b, c, d, e, f, g, h, i>>
           five == <<j, k, l, m, n>>
<1>1. /\ InEngine(a) /\ Seat(a) = 1 /\ InEngine(b) /\ Seat(b) = 2
      /\ InEngine(c) /\ Seat(c) = 3 /\ InEngine(d) /\ Seat(d) = 4
      /\ InEngine(e) /\ Seat(e) = 5 /\ InEngine(f) /\ Seat(f) = 6
      /\ InEngine(g) /\ Seat(g) = 7 /\ InEngine(h) /\ Seat(h) = 8
      /\ InEngine(i) /\ Seat(i) = 9
  BY EverySeat
<1>2. /\ InEngine(j) /\ Seat(j) = 10 /\ InEngine(k) /\ Seat(k) = 11
      /\ InEngine(l) /\ Seat(l) = 12 /\ InEngine(m) /\ Seat(m) = 13
      /\ InEngine(n) /\ Seat(n) = 14
  BY EverySeat
<1>3. DefaultPatchSets(v) = nine \o ForVersion(five, v)
  BY DEF DefaultPatchSets
<1> HIDE DEF a, b, c, d, e, f, g, h, i, j, k, l, m, n
<1>4. /\ IsSequence(nine) /\ DOMAIN nine = 1..9 /\ Len(nine) = 9 /\ nine[1] = a
      /\ \A x \in 1..9 : InEngine(nine[x]) /\ Seat(nine[x]) = x
  <2>1. IsSequence(nine) /\ DOMAIN nine = 1..9 /\ Len(nine) = 9 /\ nine[1] = a
    BY DEF IsSequence
  <2>2. QED
    BY <1>1, <2>1
<1>5. /\ IsSequence(five) /\ DOMAIN five = 1..5
      /\ \A x \in 1..5 : InEngine(five[x]) /\ Seat(five[x]) = 9 + x
  <2>1. IsSequence(five) /\ DOMAIN five = 1..5
    BY DEF IsSequence
  <2>2. QED
    BY <1>2, <2>1
<1> HIDE DEF nine, five
<1>6. InOrder(nine, 1, 9)
  BY <1>4 DEF InOrder
<1>7. InOrder(five, 10, 14)
  BY <1>5 DEF InOrder
<1>8. InOrder(ForVersion(five, v), 10, 14)
  BY <1>7, OrderKept
<1>9. InOrder(nine \o ForVersion(five, v), 1, 14)
  BY <1>6, <1>8, OrderJoined
<1>10. /\ (nine \o ForVersion(five, v))[1] = nine[1]
       /\ Len(nine \o ForVersion(five, v)) # 0
  <2> DEFINE rest == ForVersion(five, v)
  <2>1. IsSequence(rest) /\ Len(rest) \in Nat
    BY <1>8, AsSeq DEF InOrder
  <2> HIDE DEF rest
  <2>2. /\ Len(nine \o rest) = Len(nine) + Len(rest)
        /\ \A x \in 1..Len(nine) : (nine \o rest)[x] = nine[x]
    <3>1. IsSequence(nine) /\ IsSequence(rest)
      BY <1>4, <2>1
    <3>2. QED
      BY <3>1, Joined
  <2>3. (nine \o rest)[1] = nine[1] /\ Len(nine \o rest) # 0
    BY <1>4, <2>1, <2>2
  <2>4. QED
    BY <2>3 DEF rest
<1>11. QED
  BY <1>3, <1>4, <1>9, <1>10 DEF a

\* So are the sets of a run, which begins with thinking-expanded.
LEMMA AdmittedOrder ==
  ASSUME NEW v \in NoVersion..NoMax - 1
  PROVE  /\ InOrder(Admitted(v), 1, 14)
         /\ \A i \in DOMAIN Admitted(v) : Admitted(v)[i] \in EverySet
         /\ Len(Admitted(v)) # 0 /\ Admitted(v)[1] = ThinkingExpanded(v)
<1> DEFINE sets == DefaultPatchSets(v)
           positions == {i \in DOMAIN sets : AppliesTo(sets[i], v)}
           size == Cardinality(positions)
<1>1. InOrder(sets, 1, 14) /\ sets[1] = ThinkingExpanded(v) /\ Len(sets) # 0
  BY DefaultOrder
<1>2. InOrder(Admitted(v), 1, 14)
  BY <1>1, OrderKept DEF Admitted
<1>3. Admitted(v) = Kept(sets, positions)
  BY DEF Admitted, ForVersion
<1>4. IsSequence(sets) /\ DOMAIN sets = 1..Len(sets) /\ Len(sets) \in Nat
  BY <1>1, AsSeq DEF InOrder
<1>5. 1 \in positions
  <2>1. /\ ThinkingExpanded(v).min = 0 /\ ThinkingExpanded(v).max = NoMax
        /\ ThinkingExpanded(v).requires = FALSE
    BY DEF ThinkingExpanded, PatchSet
  <2>2. AppliesTo(ThinkingExpanded(v), v)
    BY <2>1 DEF AppliesTo, NoVersion, NoMax
  <2>3. 1 \in DOMAIN sets
    BY <1>1, <1>4
  <2> HIDE DEF sets
  <2>4. QED
    BY <1>1, <2>2, <2>3
<1>6. positions \subseteq DOMAIN sets
  OBVIOUS
<1> HIDE DEF sets, positions
<1>7. /\ IsSequence(Kept(sets, positions)) /\ Len(Kept(sets, positions)) = size /\ size \in Nat
      /\ \A n \in 1..size : At(positions, n) \in positions
                            /\ Kept(sets, positions)[n] = sets[At(positions, n)]
      /\ \A i \in positions : \E n \in 1..size : At(positions, n) = i
      /\ \A m, n \in 1..size : m < n => At(positions, m) < At(positions, n)
  BY <1>4, <1>6, KeptIs
<1>8. PICK one \in 1..size : At(positions, one) = 1
  BY <1>5, <1>7
<1>9. one = 1
  <2>1. 1 \in 1..size /\ At(positions, 1) \in 1..Len(sets)
    BY <1>4, <1>6, <1>7, <1>8
  <2>2. 1 < one => At(positions, 1) < 1
    BY <1>7, <1>8, <2>1
  <2>3. QED
    BY <1>4, <2>1, <2>2
<1>10. Len(Admitted(v)) # 0 /\ Admitted(v)[1] = ThinkingExpanded(v)
  <2>1. size # 0
    BY <1>7, <1>8
  <2>2. Kept(sets, positions)[1] = sets[1]
    BY <1>7, <1>8, <1>9
  <2>3. QED
    BY <1>1, <1>3, <1>7, <2>1, <2>2
<1>11. DOMAIN Admitted(v) = 1..size
  BY <1>3, <1>7, AsSeq
<1>12. ASSUME NEW i \in 1..size PROVE Admitted(v)[i] \in EverySet
  <2>1. Admitted(v)[i] = sets[At(positions, i)] /\ At(positions, i) \in DOMAIN sets
    BY <1>3, <1>6, <1>7
  <2>2. Admitted(v)[i] \in ToSet(DefaultPatchSets(v))
    BY <2>1 DEF ToSet, sets
  <2>3. QED
    BY <2>2 DEF EverySet
<1>13. QED
  BY <1>2, <1>10, <1>11, <1>12

\* The fragments of short replacements.
LEMMA ShortLists ==
  /\ ToSet(<<>>) = {}
  /\ \A x : ToSet(<<x>>) = {x}
  /\ \A x, y : ToSet(<<x, y>>) = {x, y}
BY DEF ToSet

LEMMA ToSetJoined ==
  ASSUME NEW s, IsSequence(s), NEW t, IsSequence(t)
  PROVE  ToSet(s \o t) = ToSet(s) \cup ToSet(t)
<1> DEFINE u == s \o t
<1>1. /\ IsSequence(u) /\ Len(u) = Len(s) + Len(t)
      /\ \A i \in 1..Len(s) : u[i] = s[i]
      /\ \A i \in 1..Len(t) : u[Len(s) + i] = t[i]
  BY Joined
<1>2. /\ DOMAIN s = 1..Len(s) /\ Len(s) \in Nat /\ DOMAIN t = 1..Len(t) /\ Len(t) \in Nat
      /\ DOMAIN u = 1..Len(u)
  BY <1>1, AsSeq
<1> HIDE DEF u
<1>3. ASSUME NEW i \in 1..Len(s) PROVE s[i] \in ToSet(u)
  <2>1. i \in DOMAIN u /\ u[i] = s[i]
    BY <1>1, <1>2
  <2>2. QED
    BY <2>1 DEF ToSet
<1>4. ASSUME NEW i \in 1..Len(t) PROVE t[i] \in ToSet(u)
  <2>1. Len(s) + i \in DOMAIN u /\ u[Len(s) + i] = t[i]
    BY <1>1, <1>2
  <2>2. QED
    BY <2>1 DEF ToSet
<1>5. ASSUME NEW i \in 1..Len(u) PROVE u[i] \in ToSet(s) \cup ToSet(t)
  <2>1. CASE i \in 1..Len(s)
    <3>1. i \in DOMAIN s /\ u[i] = s[i]
      BY <1>1, <1>2, <2>1
    <3>2. QED
      BY <3>1 DEF ToSet
  <2>2. CASE i \notin 1..Len(s)
    <3> DEFINE k == i - Len(s)
    <3>1. k \in 1..Len(t) /\ Len(s) + k = i
      BY <1>1, <1>2, <2>2
    <3>2. k \in DOMAIN t /\ u[i] = t[k]
      BY <1>1, <1>2, <3>1
    <3> HIDE DEF k
    <3>3. QED
      BY <3>2 DEF ToSet
  <2>3. QED
    BY <2>1, <2>2
<1>6. \A x \in ToSet(u) : x \in ToSet(s) \cup ToSet(t)
  BY <1>2, <1>5 DEF ToSet
<1>7. \A x \in ToSet(s) \cup ToSet(t) : x \in ToSet(u)
  BY <1>2, <1>3, <1>4 DEF ToSet
<1>8. ToSet(u) = ToSet(s) \cup ToSet(t)
  BY <1>6, <1>7
<1>9. QED
  BY <1>8 DEF u

\* The patches of the provider environment, in any release.
LEMMA BackgroundIs ==
  ASSUME NEW v, NEW restores, IsSequence(restores), NEW more, IsSequence(more)
  PROVE  \E guard \in {RespawnGuard, HostGuard} :
           /\ AtLeast(v, 198) => guard = HostGuard
           /\ ToSet(BackgroundBase(v, restores, more).patches) =
                ToSet(Dispatching(guard)) \cup ToSet(Working) \cup ToSet(restores)
                  \cup ToSet(Lifecycle) \cup ToSet(more)
<1> DEFINE all(guard) == Dispatching(guard) \o Working \o restores \o Lifecycle \o more
<1>1. \E guard \in {RespawnGuard, HostGuard} :
        /\ AtLeast(v, 198) => guard = HostGuard
        /\ BackgroundBase(v, restores, more).patches = all(guard)
  BY DEF BackgroundBase, Background, PatchSet
<1>2. ASSUME NEW guard \in {RespawnGuard, HostGuard}
      PROVE  ToSet(all(guard)) = ToSet(Dispatching(guard)) \cup ToSet(Working)
               \cup ToSet(restores) \cup ToSet(Lifecycle) \cup ToSet(more)
  <2>1. IsSequence(Dispatching(guard)) /\ IsSequence(Working) /\ IsSequence(Lifecycle)
    BY DEF Dispatching, Working, Lifecycle, IsSequence
  <2>2. /\ IsSequence(Dispatching(guard) \o Working)
        /\ IsSequence(Dispatching(guard) \o Working \o restores)
        /\ IsSequence(Dispatching(guard) \o Working \o restores \o Lifecycle)
    BY <2>1, Joined
  <2>3. QED
    BY <2>1, <2>2, ToSetJoined
<1> HIDE DEF all
<1>3. QED
  BY <1>1, <1>2

\* The marks that the respawn guard would take are marks of its set.
LEMMA GuardedMarks == \E set \in EverySet : Guarded \subseteq MarksOf(set)
<1> DEFINE v == NoVersion
           set == BackgroundProviderEnvironment(v)
           control == Patch("provider-control", <<"control-checked">>)
           cycle == Patch("class-with-field", <<"provider-lifecycle">>)
<1>1. set \in EverySet
  <2>1. v \in NoVersion..NoMax - 1
    BY DEF NoVersion, NoMax
  <2>2. set \in ToSet(DefaultPatchSets(v))
    <3> DEFINE first == <<ThinkingExpanded(v), ChannelsEnabled, DevChannelInheritance,
                          AgentsViewHandoff(v), set, MultiProviderSDK, CatppuccinSyntax,
                          SelectPatchVariant(v, Summaries, Summaries198), CompactSession>>
               rest == ForVersion(<<StreamingThinking, ModelSessionOnly, RetractionArchive,
                                    AutoModeLocalFallback, LowMemoryThreshold>>, v)
    <3>1. DefaultPatchSets(v) = first \o rest
      BY DEF DefaultPatchSets
    <3>2. IsSequence(first) /\ set \in ToSet(first)
      <4>1. 5 \in DOMAIN first /\ first[5] = set
        OBVIOUS
      <4>2. IsSequence(first)
        BY DEF IsSequence
      <4> HIDE DEF first
      <4>3. QED
        BY <4>1, <4>2 DEF ToSet
    <3>3. IsSequence(rest)
      <4> DEFINE five == <<StreamingThinking, ModelSessionOnly, RetractionArchive,
                           AutoModeLocalFallback, LowMemoryThreshold>>
      <4>1. IsSequence(five)
        BY DEF IsSequence
      <4> HIDE DEF five
      <4>2. IsSequence(Kept(five, {i \in DOMAIN five : AppliesTo(five[i], v)}))
        BY <4>1, KeptIs
      <4>3. QED
        BY <4>2 DEF ForVersion, five
    <3> HIDE DEF first, rest
    <3>4. QED
      BY <3>1, <3>2, <3>3, ToSetJoined
  <2>3. QED
    BY <2>1, <2>2 DEF EverySet
<1>2. control \in ToSet(set.patches) /\ cycle \in ToSet(set.patches)
  <2>1. set = BackgroundBase(v, Restores, AgentsAuthority)
    BY DEF BackgroundProviderEnvironment, AtLeast, Below
  <2>2. IsSequence(Restores) /\ IsSequence(AgentsAuthority)
    BY DEF Restores, AgentsAuthority, IsSequence
  <2>3. ASSUME NEW guard PROVE control \in ToSet(Dispatching(guard))
    <3>1. 6 \in DOMAIN Dispatching(guard) /\ Dispatching(guard)[6] = control
      BY DEF Dispatching
    <3>2. QED
      BY <3>1 DEF ToSet
  <2>4. cycle \in ToSet(Lifecycle)
    BY DEF Lifecycle, ToSet
  <2> HIDE DEF set, control, cycle, v
  <2>5. PICK guard \in {RespawnGuard, HostGuard} :
          ToSet(BackgroundBase(v, Restores, AgentsAuthority).patches) =
            ToSet(Dispatching(guard)) \cup ToSet(Working) \cup ToSet(Restores)
              \cup ToSet(Lifecycle) \cup ToSet(AgentsAuthority)
    BY <2>2, BackgroundIs
  <2>6. control \in ToSet(Dispatching(guard))
    BY <2>3
  <2>7. QED
    BY <2>1, <2>4, <2>5, <2>6
<1>3. Marks(control) = {"control-checked"} /\ Marks(cycle) = {"provider-lifecycle"}
  BY DEF Marks, Patch
<1> HIDE DEF control, cycle, set
<1>4. Guarded \subseteq MarksOf(set)
  BY <1>2, <1>3 DEF MarksOf, ToSet, Guarded
<1>5. QED
  BY <1>1, <1>4

\* A set of the engine leaves marks that no patch works on.
LEMMA MarksLeft ==
  ASSUME NEW set \in EverySet
  PROVE  /\ InEngine(set)
         /\ MarksOf(set) \subseteq Left
         /\ \A m \in MarksOf(set) : Plain(m)
<1>1. PICK v \in NoVersion..NoMax - 1 : set \in ToSet(DefaultPatchSets(v))
  BY DEF EverySet
<1>2. PICK k \in DOMAIN DefaultPatchSets(v) : set = DefaultPatchSets(v)[k]
  BY <1>1 DEF ToSet
<1>3. InEngine(set)
  BY <1>2, DefaultOrder DEF InOrder
<1>4. \A i \in DOMAIN set.patches : GoodPatch(set.patches[i])
  BY <1>3 DEF InEngine, GoodSet, InTurn
<1>5. ASSUME NEW i \in DOMAIN set.patches, NEW m \in Marks(set.patches[i])
      PROVE  Plain(m) /\ m \in Written(set.patches[i])
  <2>1. GoodPatch(set.patches[i])
    BY <1>4
  <2> DEFINE p == set.patches[i]
  <2>2. GoodPatch(p) /\ m \in Marks(p)
    BY <1>5, <2>1
  <2> HIDE DEF p
  <2>3. IsSequence(p.to) /\ Plain(m)
    BY <2>2 DEF GoodPatch
  <2>4. m \in ToSet(p.to) /\ m # p.at
    BY <2>2, <2>3, MarkIs
  <2>5. m \in Written(p) /\ Plain(m)
    BY <2>3, <2>4 DEF Written
  <2>6. QED
    BY <2>5 DEF p
<1>6. \A m \in MarksOf(set) : Plain(m) /\ m \in WrittenBy(set)
  BY <1>5 DEF MarksOf, WrittenBy
<1>7. WrittenBy(set) \subseteq Left
  BY DEF Left
<1>8. QED
  BY <1>3, <1>6, <1>7

-----------------------------------------------------------------------------
(* A run of the engine, set by set. *)

Upto(sets, n) == UNION {ToSet(sets[i].patches) : i \in 1..n}

\* What a run has made of a source after n sets.
Reached(sets, n, taken, src) ==
  /\ Applied(Upto(sets, n), src)
  /\ Amount(src, Boundaries) = Amount(taken, Boundaries)
  /\ Count(src, Prelude) = 0
  /\ Amount(src, BootFragments) # 0 <=> \E i \in 1..n : Registers(sets[i], taken)

\* Nothing, at first.
LEMMA NoSetYet ==
  ASSUME NEW taken, IsSequence(taken), \A f \in Left : Count(taken, f) = 0, NEW sets
  PROVE  Reached(sets, 0, taken, taken)
<1>1. Upto(sets, 0) = {}
  BY DEF Upto
<1>2. Prelude \in Left /\ BootFragments \subseteq Left
  <2> DEFINE words == UNION {WrittenBy(s) : s \in EverySet}
  <2>1. Left = words \cup BootFragments \cup {Prelude}
    BY DEF Left
  <2> HIDE DEF words
  <2>2. QED
    BY <2>1
<1>3. Amount(taken, BootFragments) = 0
  <2>1. \A f \in BootFragments : Amount(taken, {f}) = 0
    BY <1>2, CountIs
  <2>2. \A i \in DOMAIN taken : taken[i] \notin BootFragments
    <3>1. ASSUME NEW i \in DOMAIN taken, taken[i] \in BootFragments PROVE FALSE
      <4>1. taken[i] \in {taken[i]} /\ Amount(taken, {taken[i]}) = 0
        BY <2>1, <3>1
      <4>2. QED
        BY <4>1, AmountIs
    <3>2. QED
      BY <3>1
  <2>3. QED
    BY <2>2, AmountIs
<1>4. Applied({}, taken)
  BY DEF Applied
<1>5. QED
  BY <1>1, <1>2, <1>3, <1>4 DEF Reached

\* The patches of the sets so far are good, and their turn is past.
LEMMA SetsPast ==
  ASSUME NEW v \in NoVersion..NoMax - 1, NEW n \in 0..Len(Admitted(v))
  PROVE  /\ Len(Admitted(v)) \in Nat /\ DOMAIN Admitted(v) = 1..Len(Admitted(v))
         /\ \A q \in Upto(Admitted(v), n) : GoodPatch(q)
         /\ n < Len(Admitted(v)) =>
              Past(Upto(Admitted(v), n), 20 * Seat(Admitted(v)[n + 1]) + 1)
<1> DEFINE sets == Admitted(v)
<1>1. /\ InOrder(sets, 1, 14) /\ \A i \in DOMAIN sets : sets[i] \in EverySet
  BY AdmittedOrder
<1>2. IsSequence(sets) /\ DOMAIN sets = 1..Len(sets) /\ Len(sets) \in Nat
  BY <1>1, AsSeq DEF InOrder
<1> HIDE DEF sets
<1>3. ASSUME NEW i \in 1..n, NEW q \in ToSet(sets[i].patches)
      PROVE  /\ GoodPatch(q) /\ Marks(q) \subseteq Left
             /\ Turn(q.at) <= 20 * Seat(sets[i]) + 19
  <2>1. i \in DOMAIN sets
    BY <1>2 DEF sets
  <2>2. InEngine(sets[i]) /\ sets[i] \in EverySet
    BY <1>1, <2>1 DEF InOrder
  <2>3. PICK k \in DOMAIN sets[i].patches : q = sets[i].patches[k]
    BY <1>3 DEF ToSet
  <2>4. GoodPatch(q) /\ Turn(q.at) <= 20 * Seat(sets[i]) + 19
    BY <2>2, <2>3 DEF InEngine, GoodSet, InTurn
  <2>5. MarksOf(sets[i]) \subseteq Left
    BY <2>2, MarksLeft
  <2>6. Marks(q) \subseteq MarksOf(sets[i])
    BY <2>3 DEF MarksOf
  <2>7. QED
    BY <2>4, <2>5, <2>6
<1>4. \A q \in Upto(sets, n) : GoodPatch(q)
  BY <1>3 DEF Upto
<1>5. ASSUME n < Len(sets)
      PROVE  Past(Upto(sets, n), 20 * Seat(sets[n + 1]) + 1)
  <2>1. ASSUME NEW q \in Upto(sets, n)
        PROVE  GoodPatch(q) /\ Marks(q) \subseteq Left /\ Turn(q.at) < 20 * Seat(sets[n + 1]) + 1
    <3>1. PICK i \in 1..n : q \in ToSet(sets[i].patches)
      BY <2>1 DEF Upto
    <3>2. i \in DOMAIN sets /\ n + 1 \in DOMAIN sets /\ i < n + 1
      BY <1>2, <1>5 DEF sets
    <3>3. Seat(sets[i]) < Seat(sets[n + 1])
      BY <1>1, <3>2 DEF InOrder
    <3>4. 20 * Seat(sets[i]) + 19 < 20 * Seat(sets[n + 1]) + 1
      BY <3>3, SeatType
    <3>5. GoodPatch(q) /\ Marks(q) \subseteq Left /\ Turn(q.at) <= 20 * Seat(sets[i]) + 19
      BY <1>3, <3>1
    <3>6. Turn(q.at) < 20 * Seat(sets[n + 1]) + 1
      BY <3>4, <3>5, SeatType, TurnType
    <3>7. QED
      BY <3>5, <3>6
  <2>2. QED
    BY <2>1 DEF Past
<1>6. QED
  BY <1>2, <1>4, <1>5 DEF sets

\* Then one set after the other.
LEMMA NextSet ==
  ASSUME NEW v \in NoVersion..NoMax - 1, NEW n \in Nat, n < Len(Admitted(v)),
         NEW taken, IsSequence(taken), NEW src, Reached(Admitted(v), n, taken, src),
         ApplySet(Admitted(v)[n + 1], src).ok
  PROVE  Reached(Admitted(v), n + 1, taken, ApplySet(Admitted(v)[n + 1], src).source)
<1> DEFINE sets == Admitted(v)
           set == sets[n + 1]
           new == ApplySet(set, src).source
           low == 20 * Seat(set) + 1
<1>1. Len(sets) \in Nat /\ DOMAIN sets = 1..Len(sets) /\ Past(Upto(sets, n), low)
  BY AdmittedOrder, SetsPast, AsSeq DEF InOrder
<1>2. n + 1 \in DOMAIN sets
  BY <1>1
<1>3. InEngine(set) /\ set \in EverySet
  BY <1>2, AdmittedOrder DEF InOrder
<1>4. GoodSet(set, low, low + 18) /\ MarksOf(set) \subseteq Left /\ low \in Nat /\ low + 18 \in Nat
  <2>1. low + 18 = 20 * Seat(set) + 19 /\ low \in Nat /\ low + 18 \in Nat
    BY SeatType
  <2>2. QED
    BY <1>3, <2>1, MarksLeft DEF InEngine
<1>5. /\ Applied(Upto(sets, n), src)
      /\ Amount(src, Boundaries) = Amount(taken, Boundaries)
      /\ Count(src, Prelude) = 0
      /\ Amount(src, BootFragments) # 0 <=> \E i \in 1..n : Registers(sets[i], taken)
  BY DEF Reached
<1>6. ApplySet(set, src).ok
  OBVIOUS
<1> HIDE DEF set, low
<1>7. /\ Applied(Upto(sets, n) \cup ToSet(set.patches), new)
      /\ Amount(new, Boundaries) = Amount(src, Boundaries)
      /\ Count(new, Prelude) = Count(src, Prelude)
      /\ Amount(new, BootFragments) =
           Amount(src, BootFragments) + (IF Registers(set, src) THEN 1 ELSE 0)
  BY ZenonT(30), <1>1, <1>4, <1>5, <1>6, SetStep
<1> HIDE DEF new
<1>8. Upto(sets, n + 1) = Upto(sets, n) \cup ToSet(set.patches)
  <2>1. 1..n + 1 = 1..n \cup {n + 1}
    OBVIOUS
  <2>2. QED
    BY <2>1 DEF Upto, set
<1>9. Registers(set, src) <=> Registers(set, taken)
  <2>1. IsSequence(src)
    BY <1>5 DEF Applied
  <2>2. Split(src) <=> Split(taken)
    BY <1>5, <2>1, SplitIs
  <2>3. QED
    BY <2>2 DEF Registers
<1>10. Amount(new, BootFragments) # 0 <=> \E i \in 1..n + 1 : Registers(sets[i], taken)
  <2>1. Amount(src, BootFragments) \in Nat
    <3>1. IsSequence(src)
      BY <1>5 DEF Applied
    <3>2. QED
      BY <3>1, AmountIs
  <2>2. Amount(new, BootFragments) # 0 <=> Amount(src, BootFragments) # 0 \/ Registers(set, taken)
    BY <1>7, <1>9, <2>1
  <2>3. 1..n + 1 = 1..n \cup {n + 1}
    OBVIOUS
  <2>4. (\E i \in 1..n + 1 : Registers(sets[i], taken))
          <=> (\E i \in 1..n : Registers(sets[i], taken)) \/ Registers(set, taken)
    BY <2>3 DEF set
  <2>5. QED
    BY <1>5, <2>2, <2>4
<1>11. Reached(sets, n + 1, taken, new)
  BY <1>5, <1>7, <1>8, <1>10 DEF Reached
<1>12. QED
  BY <1>11 DEF new, set

\* What two entries and whatever follows them begin with.
LEMMA TwoThen ==
  ASSUME NEW a, NEW b, NEW more, IsSequence(more)
  PROVE  LET s == <<a, b>> \o more
         IN IsSequence(s) /\ Len(s) # 0 /\ 1 \in DOMAIN s /\ s[1] = a
<1> DEFINE two == <<a, b>>
<1>1. two \in Seq({a, b}) /\ Len(two) = 2 /\ two[1] = a
  OBVIOUS
<1> HIDE DEF two
<1>2. IsSequence(two)
  BY <1>1 DEF IsSequence
<1>3. /\ IsSequence(two \o more) /\ Len(two \o more) = Len(two) + Len(more)
      /\ \A i \in 1..Len(two) : (two \o more)[i] = two[i]
  BY <1>2, Joined
<1>4. Len(more) \in Nat
  BY AsSeq
<1>5. DOMAIN (two \o more) = 1..Len(two \o more)
  BY <1>3, AsSeq
<1>6. Len(two \o more) # 0 /\ 1 \in 1..Len(two \o more) /\ 1 \in 1..Len(two)
  BY <1>1, <1>3, <1>4
<1>7. (two \o more)[1] = a
  BY <1>1, <1>3, <1>6
<1>8. QED
  BY <1>3, <1>5, <1>6, <1>7 DEF two

\* A text without its first site is refused by the first set.
LEMMA SpentFails ==
  ASSUME NEW v, NEW src, Count(src, "thinking-guard") = 0
  PROVE  ~ApplySet(ThinkingExpanded(v), src).ok
<1> DEFINE set == ThinkingExpanded(v)
           patches == set.patches
           n == Len(patches)
<1>1. InTurn(patches, 21, 39)
  BY ThinkingSet DEF GoodSet
<1>2. IsSequence(patches) /\ n \in Nat
  BY <1>1, AsSeq DEF InTurn
<1>3. /\ n # 0 /\ patches[1].at = "thinking-guard" /\ patches[1].also = {}
      /\ patches[1].counts = {1} /\ patches[1].required = TRUE
  <2> DEFINE a == Patch("thinking-guard", <<"thinking-always">>)
             b == Patch("thinking-render", <<"expanded-render">>)
             more == IF v = NoVersion \/ v >= 151
                       THEN <<Patch("thinking-group", <<"thinking-alone">>)>> ELSE <<>>
  <2>1. patches = <<a, b>> \o more
    BY DEF ThinkingExpanded, PatchSet
  <2>2. a.at = "thinking-guard" /\ a.also = {} /\ a.counts = {1} /\ a.required = TRUE
    BY DEF Patch
  <2>3. IsSequence(more)
    BY OneEntry, NoEntry
  <2> HIDE DEF a, b, more, patches
  <2>4. patches[1] = a /\ Len(patches) # 0
    BY <2>1, <2>3, TwoThen
  <2>5. QED
    BY <2>2, <2>4
<1> HIDE DEF patches
<1>4. PICK after :
        /\ after[0] = Outcome(TRUE, src)
        /\ \A k \in 1..n : after[k] = ApplyPatch(patches[k], after[k - 1])
        /\ ApplySet(set, src) =
             IF after[n].ok /\ (\A f \in set.present : Count(after[n].source, f) > 0)
                            /\ (\A f \in set.absent : Count(after[n].source, f) = 0)
               THEN Outcome(TRUE, Register(after[n].source, set))
               ELSE Outcome(FALSE, <<>>)
  BY <1>2, SetRun DEF patches
<1> HIDE DEF set, n
<1>5. Outcome(FALSE, <<>>).ok = FALSE /\ Outcome(TRUE, src).source = src
  BY DEF Outcome
<1> DEFINE T == {k \in 0..n : k = 0 \/ after[k].ok = FALSE}
<1>6. 0 \in T /\ \A k \in 1..n : after[k].ok = FALSE => k \in T
  BY <1>2 DEF n
<1>7. ASSUME NEW k \in 1..n, k - 1 \in T PROVE k \in T
  <2>1. CASE k = 1
    <3> DEFINE p == patches[1]
    <3>1. p.at = "thinking-guard" /\ p.also = {} /\ p.counts = {1} /\ p.required = TRUE
      BY <1>3
    <3>2. after[k] = ApplyPatch(p, after[0])
      <4>1. after[k] = ApplyPatch(patches[k], after[k - 1])
        BY <1>4
      <4>2. k - 1 = 0 /\ patches[k] = p
        BY <2>1
      <4>3. QED
        BY <4>1, <4>2
    <3> HIDE DEF p
    <3>3. 0 \notin p.counts \cup (IF p.required THEN {} ELSE {0})
      BY <3>1
    <3>4. Fails(p, src)
      <4>1. Sites(p) = {"thinking-guard"}
        BY <3>1 DEF Sites
      <4>2. Matches(src, Sites(p)) = 0
        BY <4>1, MatchesIs, CountIs
      <4>3. QED
        BY <3>3, <4>2 DEF Fails
    <3>5. after[0].source = src
      BY <1>4, <1>5
    <3>6. ApplyPatch(p, after[0]) = Outcome(FALSE, <<>>)
      BY <3>4, <3>5 DEF ApplyPatch
    <3>7. after[k].ok = FALSE
      BY <1>5, <3>2, <3>6
    <3>8. QED
      BY <1>6, <3>7
  <2>2. CASE k # 1
    <3>1. after[k - 1].ok = FALSE
      BY <1>7, <2>2
    <3>2. after[k] = ApplyPatch(patches[k], after[k - 1])
      BY <1>4
    <3>3. ApplyPatch(patches[k], after[k - 1]) = Outcome(FALSE, <<>>)
      BY <3>1 DEF ApplyPatch
    <3>4. after[k].ok = FALSE
      BY <1>5, <3>2, <3>3
    <3>5. QED
      BY <1>6, <3>4
  <2>3. QED
    BY <2>1, <2>2
<1>8. n \in Nat /\ n # 0
  BY <1>2, <1>3 DEF n
<1> HIDE DEF T
<1>9. \A k \in 0..n : k \in T
  BY <1>6, <1>7, <1>8, Stepwise
<1>10. after[n].ok = FALSE
  BY <1>8, <1>9 DEF T
<1>11. ~ApplySet(set, src).ok
  BY <1>4, <1>5, <1>10
<1>12. QED
  BY <1>11 DEF set

\* Once it has been through all of them, and the runtime is in place.
LEMMA Completed ==
  ASSUME NEW v \in NoVersion..NoMax - 1, NEW taken, IsSequence(taken), NEW src,
         Reached(Admitted(v), Len(Admitted(v)), taken, src)
  PROVE  LET code == Finalized(src)
             sets == ToSet(Admitted(v))
             marks == UNION {MarksOf(s) : s \in sets}
             registers == \E s \in sets : Registers(s, code)
             all == Amount(taken, Boundaries)
         IN /\ IsSequence(code)
            /\ \A s \in sets : \A i \in DOMAIN s.patches :
                 LET p == s.patches[i]
                 IN /\ \A f \in Sites(p) \ (ToSet(p.to) \cup marks) : Count(code, f) = 0
                    /\ \A m \in Marks(p) :
                         \/ Count(code, m) \in p.counts
                         \/ (~p.required /\ Count(code, m) = 0)
            /\ \A s \in EverySet : \A m \in MarksOf(s) \ marks : Count(code, m) = 0
            /\ \A f \in BootFragments : Count(code, f) = 0
            /\ Count(code, Prelude) = IF registers THEN IF all = 0 THEN 1 ELSE all ELSE 0
            /\ Amount(code, Boundaries) = all
            /\ Split(code) <=> Split(taken)
            /\ Count(code, "thinking-guard") = 0
<1> DEFINE list == Admitted(v)
           sets == ToSet(list)
           marks == UNION {MarksOf(s) : s \in sets}
           code == Finalized(src)
           all == Amount(taken, Boundaries)
           P == Upto(list, Len(list))
           registers == \E s \in sets : Registers(s, code)
<1>1. /\ Applied(P, src) /\ Amount(src, Boundaries) = all /\ Count(src, Prelude) = 0
      /\ Amount(src, BootFragments) # 0 <=> \E i \in 1..Len(list) : Registers(list[i], taken)
  BY DEF Reached
<1>2. /\ IsSequence(src)
      /\ \A p \in P : \A f \in Sites(p) : f \in ToSet(p.to) \cup Guarded \/ Count(src, f) = 0
      /\ \A p \in P : \A m \in Marks(p) :
           Count(src, m) \in p.counts \/ (~p.required /\ Count(src, m) = 0)
      /\ \A w \in Left : Plain(w) /\ (\A p \in P : w \notin Marks(p)) => Count(src, w) = 0
  BY <1>1 DEF Applied
<1>3. /\ Len(list) \in Nat /\ DOMAIN list = 1..Len(list) /\ IsSequence(list)
      /\ \A i \in DOMAIN list : list[i] \in EverySet
      /\ Len(list) # 0 /\ list[1] = ThinkingExpanded(v)
  BY AdmittedOrder, AsSeq DEF InOrder
<1>4. \A q \in P : GoodPatch(q)
  <2>1. Len(list) \in 0..Len(list)
    BY <1>3
  <2>2. QED
    BY <2>1, SetsPast
<1> HIDE DEF list, all
<1>5. ToSet(list) = {list[i] : i \in 1..Len(list)}
  BY <1>3 DEF ToSet
<1>6. /\ IsSequence(code)
      /\ \A W : W \cap BootFragments = {} /\ Prelude \notin W => Amount(code, W) = Amount(src, W)
      /\ \A f \in BootFragments : Count(code, f) = 0
      /\ Count(code, Prelude) =
           IF Amount(src, BootFragments) = 0 THEN 0
           ELSE IF Amount(src, Boundaries) = 0 THEN 1 ELSE Amount(src, Boundaries)
  BY <1>1, <1>2, FinalStep
<1> HIDE DEF code
<1>7. \A w : w \notin Reserved => Count(code, w) = Count(src, w)
  <2>1. ASSUME NEW w, w \notin Reserved PROVE Count(code, w) = Count(src, w)
    <3>1. {w} \cap BootFragments = {} /\ Prelude \notin {w}
      BY <2>1 DEF Reserved
    <3>2. Amount(code, {w}) = Amount(src, {w})
      BY <1>6, <3>1
    <3>3. QED
      BY <3>2, CountIs
  <2>2. QED
    BY <2>1
<1>8. Amount(code, Boundaries) = all
  BY <1>1, <1>6, ReservedApart
<1>9. Split(code) <=> Split(taken)
  BY <1>6, <1>8, SplitIs DEF all
<1>10. ASSUME NEW s \in EverySet, NEW m \in MarksOf(s) \ marks PROVE Count(code, m) = 0
  <2>1. m \in Left /\ Plain(m)
    BY <1>10, MarksLeft
  <2>2. ASSUME NEW p \in P PROVE m \notin Marks(p)
    <3>1. PICK k \in 1..Len(list) : p \in ToSet(list[k].patches)
      BY <2>2 DEF Upto
    <3>2. Marks(p) \subseteq MarksOf(list[k])
      BY <3>1 DEF MarksOf, ToSet
    <3>3. list[k] \in sets
      BY <1>5, <3>1
    <3>4. QED
      BY <1>10, <3>2, <3>3
  <2>3. Count(src, m) = 0
    BY <1>2, <2>1, <2>2
  <2>4. QED
    BY <1>7, <2>1, <2>3 DEF Plain
<1>11. ASSUME NEW s \in sets, NEW i \in DOMAIN s.patches
       PROVE  LET p == s.patches[i]
              IN /\ \A f \in Sites(p) \ (ToSet(p.to) \cup marks) : Count(code, f) = 0
                 /\ \A m \in Marks(p) :
                      \/ Count(code, m) \in p.counts
                      \/ (~p.required /\ Count(code, m) = 0)
  <2> DEFINE p == s.patches[i]
  <2>1. p \in P
    <3>1. PICK k \in 1..Len(list) : s = list[k]
      BY <1>5, <1>11
    <3>2. p \in ToSet(list[k].patches)
      BY <3>1 DEF ToSet
    <3>3. QED
      BY <3>2 DEF Upto
  <2> HIDE DEF p, P
  <2>2. GoodPatch(p)
    BY <1>4, <2>1
  <2>3. p.at \notin Reserved /\ \A m \in Marks(p) : m \notin Reserved
    BY <2>2 DEF GoodPatch, Plain
  <2>4. ASSUME NEW f \in Sites(p) \ (ToSet(p.to) \cup marks) PROVE Count(code, f) = 0
    <3>1. CASE f \in Guarded
      <4>1. PICK other \in EverySet : Guarded \subseteq MarksOf(other)
        BY GuardedMarks
      <4>2. QED
        BY <1>10, <2>4, <3>1, <4>1
    <3>2. CASE f \notin Guarded
      <4>1. f \notin Reserved
        BY <2>2, <2>3, <2>4, AlsoIs DEF Sites
      <4>2. Count(src, f) = 0
        BY <1>2, <2>1, <2>4, <3>2
      <4>3. QED
        BY <1>7, <4>1, <4>2
    <3>3. QED
      BY <3>1, <3>2
  <2>5. ASSUME NEW m \in Marks(p)
        PROVE  Count(code, m) \in p.counts \/ (~p.required /\ Count(code, m) = 0)
    <3>1. Count(code, m) = Count(src, m)
      BY <1>7, <2>3
    <3>2. QED
      BY <1>2, <2>1, <3>1
  <2>6. QED
    BY <2>4, <2>5 DEF p
<1>12. registers <=> \E i \in 1..Len(list) : Registers(list[i], taken)
  <2>1. \A s : Registers(s, code) <=> Registers(s, taken)
    BY <1>9 DEF Registers
  <2>2. QED
    BY <1>5, <2>1
<1>13. Count(code, Prelude) = IF registers THEN IF all = 0 THEN 1 ELSE all ELSE 0
  BY <1>1, <1>6, <1>12
<1>14. Count(code, "thinking-guard") = 0
  <2> DEFINE a == Patch("thinking-guard", <<"thinking-always">>)
             b == Patch("thinking-render", <<"expanded-render">>)
             more == IF v = NoVersion \/ v >= 151
                       THEN <<Patch("thinking-group", <<"thinking-alone">>)>> ELSE <<>>
             patches == ThinkingExpanded(v).patches
  <2>1. patches = <<a, b>> \o more
    BY DEF ThinkingExpanded, PatchSet
  <2>2. a.at = "thinking-guard" /\ a.to = <<"thinking-always">> /\ "thinking-guard" \in Sites(a)
    BY DEF Patch, Sites
  <2>3. IsSequence(more)
    BY OneEntry, NoEntry
  <2> HIDE DEF a, b, more, patches
  <2>4. patches[1] = a /\ 1 \in DOMAIN patches
    BY <2>1, <2>3, TwoThen
  <2>5. list[1] \in sets /\ 1 \in DOMAIN list[1].patches /\ list[1].patches[1] = a
    BY <1>3, <1>5, <2>4 DEF patches
  <2>6. "thinking-guard" \notin ToSet(a.to)
    BY <2>2 DEF ToSet
  <2>7. "thinking-guard" \notin marks
    <3>1. ASSUME NEW other \in sets PROVE "thinking-guard" \notin MarksOf(other)
      <4>1. other \in EverySet
        BY <1>3, <1>5
      <4>2. ~Plain("thinking-guard")
        BY DEF Plain, Turn
      <4>3. QED
        BY <4>1, <4>2, MarksLeft
    <3>2. QED
      BY <3>1
  <2>8. QED
    BY <1>11, <2>2, <2>5, <2>6, <2>7
<1>15. QED
  BY <1>6, <1>8, <1>9, <1>10, <1>11, <1>13, <1>14 DEF code, list, all

\* The sets a run goes through are sets of patches.
AreSets(sets) == IsSequence(sets) /\ \A i \in DOMAIN sets : IsPatchSet(sets[i])

LEMMA AdmittedSets == ASSUME NEW v PROVE AreSets(Admitted(v))
<1>1. InOrder(Admitted(v), 1, 14)
  BY DefaultOrder, OrderKept DEF Admitted
<1>2. ASSUME NEW i \in DOMAIN Admitted(v) PROVE IsPatchSet(Admitted(v)[i])
  <2> DEFINE set == Admitted(v)[i]
  <2>1. InEngine(set)
    BY <1>1 DEF InOrder
  <2> HIDE DEF set
  <2>2. InTurn(set.patches, 20 * Seat(set) + 1, 20 * Seat(set) + 19)
    BY <2>1 DEF InEngine, GoodSet
  <2>3. IsPatchSet(set)
    BY <2>2 DEF InTurn, GoodPatch, IsPatchSet
  <2>4. QED
    BY <2>3 DEF set
<1>3. QED
  BY <1>1, <1>2 DEF InOrder, AreSets

\* The cuts are the boundaries, in their order.
LEMMA CutsAre ==
  ASSUME NEW src, IsSequence(src)
  PROVE  /\ IsSequence(Cuts(src))
         /\ \A n \in 1..Len(Cuts(src)) :
              Cuts(src)[n] \in 1..Len(src) /\ src[Cuts(src)[n]] \in Boundaries
         /\ \A m, n \in 1..Len(Cuts(src)) : m < n => Cuts(src)[m] < Cuts(src)[n]
         /\ \A i \in 1..Len(src) : src[i] \in Boundaries =>
              \E n \in 1..Len(Cuts(src)) : Cuts(src)[n] = i
<1> DEFINE cuts == {i \in DOMAIN src : src[i] \in Boundaries}
<1>1. DOMAIN src = 1..Len(src) /\ Len(src) \in Nat
  BY AsSeq
<1>2. cuts \in SUBSET DOMAIN src
  OBVIOUS
<1>3. /\ Cardinality(cuts) \in Nat
      /\ \A n \in 1..Cardinality(cuts) : At(cuts, n) \in cuts
      /\ \A i \in cuts : \E n \in 1..Cardinality(cuts) : At(cuts, n) = i
      /\ \A m, n \in 1..Cardinality(cuts) : m < n => At(cuts, m) < At(cuts, n)
  BY <1>2, KeptIs
<1>4. Cuts(src) = [n \in 1..Cardinality(cuts) |-> At(cuts, n)]
  BY DEF Cuts
<1>5. \A n \in 1..Cardinality(cuts) : Cuts(src)[n] = At(cuts, n)
  BY <1>4
<1>6. \A i \in cuts : i \in 1..Len(src) /\ src[i] \in Boundaries
  BY <1>1
<1>7. \A i \in 1..Len(src) : src[i] \in Boundaries => i \in cuts
  BY <1>1
<1>8. Cuts(src) = [n \in 1..Cardinality(cuts) |-> Cuts(src)[n]]
  BY <1>4
<1> HIDE DEF cuts
<1>9. IsSequence(Cuts(src)) /\ Len(Cuts(src)) = Cardinality(cuts)
  BY <1>3, <1>8, MadeSequence
<1>10. \A n \in 1..Cardinality(cuts) :
         Cuts(src)[n] \in 1..Len(src) /\ src[Cuts(src)[n]] \in Boundaries
  BY <1>3, <1>5, <1>6
<1>11. \A m, n \in 1..Cardinality(cuts) : m < n => Cuts(src)[m] < Cuts(src)[n]
  BY <1>3, <1>5
<1>12. \A i \in 1..Len(src) : src[i] \in Boundaries =>
         \E n \in 1..Cardinality(cuts) : Cuts(src)[n] = i
  BY <1>3, <1>5, <1>7
<1>13. QED
  BY <1>9, <1>10, <1>11, <1>12

\* Sequences of one length with the same entries are the same.
LEMMA SameSequence ==
  ASSUME NEW s, NEW t, IsSequence(s), IsSequence(t), Len(s) = Len(t),
         \A i \in 1..Len(s) : s[i] = t[i]
  PROVE  s = t
BY DEF IsSequence

-----------------------------------------------------------------------------
(* The boundaries of a source, in their order. *)

Seams(s) == [n \in 1..Len(Cuts(s)) |-> s[Cuts(s)[n]]]
Opens(s) == 1 \in DOMAIN s /\ s[1] \in Boundaries

\* The places of the boundaries from the first to the last.
AreCuts(c, s) ==
  /\ IsSequence(c)
  /\ \A n \in 1..Len(c) : c[n] \in 1..Len(s) /\ s[c[n]] \in Boundaries
  /\ \A m, n \in 1..Len(c) : m < n => c[m] < c[n]
  /\ \A i \in 1..Len(s) : s[i] \in Boundaries => \E n \in 1..Len(c) : c[n] = i

LEMMA Interval ==
  ASSUME NEW n \in Nat
  PROVE  IsFiniteSet(1..n) /\ Cardinality(1..n) = n
<1>1. 1 \in Int /\ n \in Int
  OBVIOUS
<1>2. QED
  BY <1>1, FS_Interval

\* There is one such list.
LEMMA OneOrder ==
  ASSUME NEW s, IsSequence(s), NEW c, AreCuts(c, s)
  PROVE  Cuts(s) = c
<1> DEFINE P == {i \in DOMAIN s : s[i] \in Boundaries}
           size == Len(c)
<1>1. DOMAIN s = 1..Len(s) /\ Len(s) \in Nat
  BY AsSeq
<1>2. P \in SUBSET (1..Len(s)) /\ IsFiniteSet(P) /\ Cardinality(P) \in Nat
  BY <1>1, FinitePositions
<1>3. size \in Nat /\ c = [n \in 1..size |-> c[n]] /\ DOMAIN c = 1..size
  BY AsSeq DEF AreCuts, IsSequence
<1>4. /\ \A n \in 1..size : c[n] \in P
      /\ \A m, n \in 1..size : m < n => c[m] < c[n]
      /\ \A i \in P : \E n \in 1..size : c[n] = i
  BY <1>1 DEF AreCuts
<1>5. Cuts(s) = [n \in 1..Cardinality(P) |-> At(P, n)]
  BY DEF Cuts
<1> HIDE DEF P, size
<1>6. \A n \in 1..size : c[n] \in Nat
  <2>1. \A i \in P : i \in Nat
    BY <1>1, <1>2
  <2>2. QED
    BY <1>4, <2>1
<1>7. ASSUME NEW m \in 1..size, NEW n \in 1..size, c[m] <= c[n] PROVE m <= n
  <2>1. ~(n < m)
    BY <1>4, <1>6, <1>7
  <2>2. QED
    BY <1>3, <2>1
<1>8. Cardinality(P) = size
  <2>1. \A i, k \in 1..size : c[i] = c[k] => i = k
    BY <1>3, <1>6, <1>7
  <2>2. c \in [1..size -> P]
    BY <1>3, <1>4
  <2>3. IsFiniteSet(1..size) /\ Cardinality(1..size) = size
    BY <1>3, Interval
  <2>4. QED
    BY <1>4, <2>1, <2>2, <2>3, SameAmount
<1>9. ASSUME NEW n \in 1..size PROVE Rank(P, c[n]) = n
  <2> DEFINE Q == {j \in P : j <= c[n]}
             f == [m \in 1..n |-> c[m]]
  <2>1. \A m \in 1..n : m \in 1..size
    BY <1>3
  <2>2. f \in [1..n -> Q]
    <3>1. ASSUME NEW m \in 1..n PROVE c[m] \in Q
      <4>1. m = n \/ m < n
        BY <1>3
      <4>2. c[m] <= c[n]
        BY <1>4, <1>6, <2>1, <4>1
      <4>3. QED
        BY <1>4, <2>1, <4>2
    <3>2. QED
      BY <3>1
  <2>3. \A i, k \in 1..n : f[i] = f[k] => i = k
    <3>1. ASSUME NEW i \in 1..n, NEW k \in 1..n, c[i] = c[k] PROVE i = k
      <4>1. i <= k /\ k <= i
        BY <1>6, <1>7, <2>1, <3>1
      <4>2. QED
        BY <1>3, <4>1
    <3>2. QED
      BY <3>1
  <2>4. \A j \in Q : \E i \in 1..n : f[i] = j
    <3>1. ASSUME NEW j \in Q PROVE \E i \in 1..n : f[i] = j
      <4>1. PICK m \in 1..size : c[m] = j
        BY <1>4
      <4>2. m <= n
        BY <1>7, <4>1
      <4>3. m \in 1..n
        BY <1>3, <4>2
      <4>4. QED
        BY <4>1, <4>3
    <3>2. QED
      BY <3>1
  <2>5. n \in Nat
    BY <1>3
  <2>6. IsFiniteSet(1..n) /\ Cardinality(1..n) = n
    BY <2>5, Interval
  <2> HIDE DEF f, Q
  <2>7. Cardinality(Q) = n
    BY <2>2, <2>3, <2>4, <2>6, SameAmount
  <2>8. QED
    BY <2>7 DEF Q, Rank
<1>10. \A n \in 1..size : At(P, n) = c[n]
  <2>1. Ranked(P, Len(s))
    BY <1>1, <1>2, AlwaysRanked
  <2>2. \A i \in P : At(P, Rank(P, i)) = i
    BY <1>1, <2>1, AtRank
  <2>3. QED
    BY <1>4, <1>9, <2>2
<1>11. QED
  BY <1>3, <1>5, <1>8, <1>10

LEMMA CutsAreCuts ==
  ASSUME NEW s, IsSequence(s)
  PROVE  AreCuts(Cuts(s), s) /\ Len(Cuts(s)) \in Nat
BY CutsAre, AsSeq DEF AreCuts

\* Boundaries that are moved without passing each other are as they were.
Shifts(g, s, t) ==
  /\ \A i \in 1..Len(s) : s[i] \in Boundaries => g[i] \in 1..Len(t) /\ t[g[i]] = s[i]
  /\ \A i, k \in 1..Len(s) :
       i < k /\ s[i] \in Boundaries /\ s[k] \in Boundaries => g[i] < g[k]
  /\ \A j \in 1..Len(t) :
       t[j] \in Boundaries => \E i \in 1..Len(s) : s[i] \in Boundaries /\ g[i] = j

LEMMA SeamsMoved ==
  ASSUME NEW s, IsSequence(s), NEW t, IsSequence(t), NEW g, Shifts(g, s, t)
  PROVE  Seams(t) = Seams(s)
<1> DEFINE d == Cuts(s)
           c == [n \in 1..Len(d) |-> g[d[n]]]
<1>1. AreCuts(d, s) /\ Len(d) \in Nat
  BY CutsAreCuts
<1>2. IsSequence(c) /\ Len(c) = Len(d)
  BY <1>1, MadeSequence
<1>3. \A n \in 1..Len(d) : c[n] = g[d[n]] /\ d[n] \in 1..Len(s) /\ s[d[n]] \in Boundaries
  BY <1>1 DEF AreCuts
<1> HIDE DEF d, c
<1>4. \A n \in 1..Len(d) : c[n] \in 1..Len(t) /\ t[c[n]] = s[d[n]]
  BY <1>3 DEF Shifts
<1>5. \A m, n \in 1..Len(d) : m < n => c[m] < c[n]
  <2>1. \A m, n \in 1..Len(d) : m < n => d[m] < d[n]
    BY <1>1 DEF AreCuts
  <2>2. \A i, k \in 1..Len(s) : i < k /\ s[i] \in Boundaries /\ s[k] \in Boundaries => g[i] < g[k]
    BY DEF Shifts
  <2> TAKE m, n \in 1..Len(d)
  <2> HAVE m < n
  <2>3. d[m] < d[n]
    BY <2>1
  <2>4. g[d[m]] < g[d[n]]
    BY <1>3, <2>2, <2>3
  <2>5. QED
    BY <1>3, <2>4
<1>6. ASSUME NEW j \in 1..Len(t), t[j] \in Boundaries PROVE \E n \in 1..Len(d) : c[n] = j
  <2>1. PICK i \in 1..Len(s) : s[i] \in Boundaries /\ g[i] = j
    BY <1>6 DEF Shifts
  <2>2. PICK n \in 1..Len(d) : d[n] = i
    BY <1>1, <2>1 DEF AreCuts
  <2>3. QED
    BY <1>3, <2>1, <2>2
<1>7. \A n \in 1..Len(d) : t[c[n]] \in Boundaries
  BY <1>3, <1>4
<1>8. AreCuts(c, t)
  BY <1>2, <1>4, <1>5, <1>6, <1>7 DEF AreCuts
<1>9. Cuts(t) = c
  BY <1>8, OneOrder
<1>10. QED
  BY <1>2, <1>4, <1>9 DEF Seams, d

\* What is put behind one another has the boundaries of one and then of the other.
LEMMA SeamsJoined ==
  ASSUME NEW s, IsSequence(s), NEW t, IsSequence(t)
  PROVE  Seams(s \o t) = Seams(s) \o Seams(t)
<1> DEFINE d == Cuts(s)
           e == Cuts(t)
           moved == [n \in 1..Len(e) |-> Len(s) + e[n]]
           c == d \o moved
           all == s \o t
<1>1. AreCuts(d, s) /\ Len(d) \in Nat /\ AreCuts(e, t) /\ Len(e) \in Nat
  BY CutsAreCuts
<1>2. Len(s) \in Nat /\ Len(t) \in Nat
  BY AsSeq
<1>3. IsSequence(moved) /\ Len(moved) = Len(e)
  BY <1>1, MadeSequence
<1>4. \A n \in 1..Len(e) : moved[n] = Len(s) + e[n]
  OBVIOUS
<1>5. IsSequence(d)
  BY <1>1 DEF AreCuts
<1> HIDE DEF d, e, moved
<1>6. /\ IsSequence(c) /\ Len(c) = Len(d) + Len(e)
      /\ \A n \in 1..Len(d) : c[n] = d[n]
      /\ \A n \in 1..Len(e) : c[Len(d) + n] = Len(s) + e[n]
  BY <1>3, <1>4, <1>5, Joined
<1>7. /\ IsSequence(all) /\ Len(all) = Len(s) + Len(t)
      /\ \A i \in 1..Len(s) : all[i] = s[i]
      /\ \A i \in 1..Len(t) : all[Len(s) + i] = t[i]
  BY Joined
<1> HIDE DEF c, all
<1>8. \A n \in 1..Len(c) : n \in 1..Len(d) \/ \E m \in 1..Len(e) : n = Len(d) + m
  <2> TAKE n \in 1..Len(c)
  <2>1. CASE n <= Len(d)
    BY <1>1, <2>1
  <2>2. CASE n > Len(d)
    <3>1. n - Len(d) \in 1..Len(e) /\ n = Len(d) + (n - Len(d))
      BY <1>1, <1>6, <2>2
    <3>2. QED
      BY <3>1
  <2>3. QED
    BY <1>1, <1>6, <2>1, <2>2
<1>9. /\ \A n \in 1..Len(d) : d[n] \in 1..Len(s) /\ s[d[n]] \in Boundaries
      /\ \A n \in 1..Len(e) : e[n] \in 1..Len(t) /\ t[e[n]] \in Boundaries
  BY <1>1 DEF AreCuts
<1>10. /\ \A n \in 1..Len(d) : c[n] \in 1..Len(s) /\ all[c[n]] = s[d[n]]
       /\ \A n \in 1..Len(e) :
            /\ c[Len(d) + n] \in 1..Len(all) /\ c[Len(d) + n] > Len(s)
            /\ all[c[Len(d) + n]] = t[e[n]]
  <2>1. ASSUME NEW n \in 1..Len(d) PROVE c[n] \in 1..Len(s) /\ all[c[n]] = s[d[n]]
    <3>1. c[n] = d[n] /\ d[n] \in 1..Len(s)
      BY <1>6, <1>9
    <3>2. QED
      BY <1>7, <3>1
  <2>2. ASSUME NEW n \in 1..Len(e)
        PROVE  /\ c[Len(d) + n] \in 1..Len(all) /\ c[Len(d) + n] > Len(s)
               /\ all[c[Len(d) + n]] = t[e[n]]
    <3>1. c[Len(d) + n] = Len(s) + e[n] /\ e[n] \in 1..Len(t)
      BY <1>6, <1>9
    <3>2. all[Len(s) + e[n]] = t[e[n]]
      BY <1>7, <3>1
    <3>3. Len(s) + e[n] \in 1..Len(s) + Len(t) /\ Len(s) + e[n] > Len(s)
      BY <1>2, <3>1
    <3>4. QED
      BY <1>7, <3>1, <3>2, <3>3
  <2>3. QED
    BY <2>1, <2>2
<1>11. \A n \in 1..Len(c) : c[n] \in 1..Len(all) /\ all[c[n]] \in Boundaries
  <2> TAKE n \in 1..Len(c)
  <2>1. CASE n \in 1..Len(d)
    <3>1. c[n] \in 1..Len(s) /\ all[c[n]] \in Boundaries
      BY <1>9, <1>10, <2>1
    <3>2. QED
      BY <1>2, <1>7, <3>1
  <2>2. CASE \E m \in 1..Len(e) : n = Len(d) + m
    BY <1>9, <1>10, <2>2
  <2>3. QED
    BY <1>8, <2>1, <2>2
<1>12. ASSUME NEW m \in 1..Len(c), NEW n \in 1..Len(c), m < n PROVE c[m] < c[n]
  <2>1. CASE m \in 1..Len(d) /\ n \in 1..Len(d)
    BY <1>1, <1>6, <1>12, <2>1 DEF AreCuts
  <2>2. CASE m \in 1..Len(d) /\ n \notin 1..Len(d)
    <3>1. c[m] \in 1..Len(s) /\ c[n] \in 1..Len(all) /\ c[n] > Len(s)
      BY <1>8, <1>10, <2>2
    <3>2. QED
      BY <1>2, <1>7, <3>1
  <2>3. CASE m \notin 1..Len(d)
    <3>1. PICK i \in 1..Len(e) : m = Len(d) + i
      BY <1>8, <2>3
    <3>2. n \notin 1..Len(d)
      BY <1>1, <1>6, <1>12, <2>3
    <3>3. PICK k \in 1..Len(e) : n = Len(d) + k
      BY <1>8, <3>2
    <3>4. i < k
      BY <1>1, <1>12, <3>1, <3>3
    <3>5. e[i] < e[k]
      BY <1>1, <3>4 DEF AreCuts
    <3>6. c[m] = Len(s) + e[i] /\ c[n] = Len(s) + e[k] /\ e[i] \in Nat /\ e[k] \in Nat
      BY SMTT(20), <1>2, <1>6, <1>9, <3>1, <3>3
    <3>7. QED
      BY <1>2, <3>5, <3>6
  <2>4. QED
    BY <2>1, <2>2, <2>3
<1>13. ASSUME NEW i \in 1..Len(all), all[i] \in Boundaries PROVE \E n \in 1..Len(c) : c[n] = i
  <2>1. CASE i <= Len(s)
    <3>1. i \in 1..Len(s) /\ s[i] \in Boundaries
      BY <1>2, <1>7, <1>13, <2>1
    <3>2. PICK n \in 1..Len(d) : d[n] = i
      BY <1>1, <3>1 DEF AreCuts
    <3>3. n \in 1..Len(c) /\ c[n] = i
      BY <1>1, <1>6, <3>2
    <3>4. QED
      BY <3>3
  <2>2. CASE i > Len(s)
    <3> DEFINE k == i - Len(s)
    <3>1. k \in 1..Len(t) /\ i = Len(s) + k
      BY <1>2, <1>7, <2>2
    <3> HIDE DEF k
    <3>2. t[k] \in Boundaries
      BY <1>7, <1>13, <3>1
    <3>3. PICK n \in 1..Len(e) : e[n] = k
      BY <1>1, <3>1, <3>2 DEF AreCuts
    <3>4. Len(d) + n \in 1..Len(c) /\ c[Len(d) + n] = i
      BY <1>1, <1>6, <3>1, <3>3
    <3>5. QED
      BY <3>4
  <2>3. QED
    BY <1>2, <1>7, <2>1, <2>2
<1>14. AreCuts(c, all)
  BY <1>6, <1>11, <1>12, <1>13 DEF AreCuts
<1>15. Cuts(all) = c
  BY <1>7, <1>14, OneOrder
<1> DEFINE x == Seams(s)
           y == Seams(t)
           z == Seams(all)
<1>16. /\ IsSequence(x) /\ Len(x) = Len(d) /\ \A n \in 1..Len(d) : x[n] = s[d[n]]
  BY <1>1, MadeSequence DEF Seams, d
<1>17. /\ IsSequence(y) /\ Len(y) = Len(e) /\ \A n \in 1..Len(e) : y[n] = t[e[n]]
  BY <1>1, MadeSequence DEF Seams, e
<1>18. Len(c) \in Nat
  BY <1>1, <1>6
<1>19. /\ IsSequence(z) /\ Len(z) = Len(c) /\ \A n \in 1..Len(c) : z[n] = all[c[n]]
  BY <1>15, <1>18, MadeSequence DEF Seams
<1> HIDE DEF x, y, z
<1>20. /\ IsSequence(x \o y) /\ Len(x \o y) = Len(d) + Len(e)
       /\ \A n \in 1..Len(d) : (x \o y)[n] = s[d[n]]
       /\ \A n \in 1..Len(e) : (x \o y)[Len(d) + n] = t[e[n]]
  BY SMTT(20), <1>16, <1>17, Joined
<1>21. \A n \in 1..Len(c) : z[n] = (x \o y)[n]
  <2> TAKE n \in 1..Len(c)
  <2>1. CASE n \in 1..Len(d)
    BY <1>6, <1>10, <1>19, <1>20, <2>1
  <2>2. CASE \E m \in 1..Len(e) : n = Len(d) + m
    <3>1. PICK m \in 1..Len(e) : n = Len(d) + m
      BY <2>2
    <3>2. z[n] = all[c[n]]
      BY <1>19
    <3>3. all[c[Len(d) + m]] = t[e[m]] /\ (x \o y)[Len(d) + m] = t[e[m]]
      BY <1>10, <1>20
    <3>4. QED
      BY <3>1, <3>2, <3>3
  <2>3. QED
    BY <1>8, <2>1, <2>2
<1>22. z = x \o y
  <2>1. Len(z) = Len(x \o y)
    BY <1>6, <1>19, <1>20
  <2>2. QED
    BY <1>19, <1>20, <1>21, <2>1, SameSequence
<1>23. QED
  BY <1>22 DEF x, y, z, all

\* Nothing has no boundaries, nor has what has none in it.
LEMMA NoSeams ==
  ASSUME NEW s, IsSequence(s), \A i \in DOMAIN s : s[i] \notin Boundaries
  PROVE  Seams(s) = <<>>
<1>1. DOMAIN s = 1..Len(s)
  BY AsSeq
<1>2. IsSequence(<<>>) /\ Len(<<>>) = 0
  BY NoEntry
<1>3. AreCuts(<<>>, s)
  BY <1>1, <1>2 DEF AreCuts
<1>4. Cuts(s) = <<>>
  BY <1>3, OneOrder
<1> DEFINE x == Seams(s)
<1>5. x = [n \in 1..0 |-> s[Cuts(s)[n]]]
  BY <1>2, <1>4 DEF Seams
<1>6. IsSequence(x) /\ Len(x) = 0
  <2>1. x = [n \in 1..0 |-> x[n]]
    BY <1>5
  <2> HIDE DEF x
  <2>2. QED
    BY <2>1, MadeSequence
<1> HIDE DEF x
<1>7. x = <<>>
  BY <1>2, <1>6, SameSequence
<1>8. QED
  BY <1>7 DEF x

\* A text of which each entry is replaced by something with its boundaries has the
\* boundaries it had.
LEMMA SeamsFlat ==
  ASSUME NEW src, IsSequence(src), NEW parts, IsSequence(parts), Len(parts) = Len(src),
         \A i \in DOMAIN src : IsSequence(parts[i]) /\ Seams(parts[i]) = Seams(<<src[i]>>)
  PROVE  Seams(FlattenSeq(parts)) = Seams(src)
<1> DEFINE n == Len(parts)
           pre(k) == [i \in 1..k |-> src[i]]
<1>1. n \in Nat /\ DOMAIN src = 1..n /\ Len(src) = n
  BY AsSeq
<1>2. CASE n = 0
  <2>1. FlattenSeq(parts) = <<>>
    BY <1>1, <1>2, FlattenIs
  <2>2. src = <<>>
    BY <1>1, <1>2, NoEntry, SameSequence
  <2>3. QED
    BY <2>1, <2>2
<1>3. CASE n # 0
  <2>1. PICK f : /\ FlattenSeq(parts) = f[n] /\ f[1] = parts[1]
                 /\ \A i \in 2..n : f[i] = f[i - 1] \o parts[i]
    BY <1>1, <1>3, FlattenIs
  <2>2. \A k \in 1..n : IsSequence(parts[k]) /\ Seams(parts[k]) = Seams(<<src[k]>>)
    BY <1>1
  <2>3. ASSUME NEW k \in 0..n
        PROVE  IsSequence(pre(k)) /\ Len(pre(k)) = k /\ \A i \in 1..k : pre(k)[i] = src[i]
    <3>1. k \in Nat /\ pre(k) = [i \in 1..k |-> pre(k)[i]]
      OBVIOUS
    <3>2. QED
      BY <3>1, MadeSequence
  <2>4. ASSUME NEW k \in 1..n
        PROVE  /\ k = 1 => pre(k) = <<src[k]>>
               /\ pre(k) = pre(k - 1) \o <<src[k]>>
    <3> DEFINE one == <<src[k]>>
    <3>1. IsSequence(one) /\ Len(one) = 1 /\ one[1] = src[k]
      BY OneEntry
    <3>2. k - 1 \in 0..n /\ k \in 0..n /\ k \in Nat
      OBVIOUS
    <3>3. IsSequence(pre(k - 1)) /\ Len(pre(k - 1)) = k - 1 /\ \A i \in 1..k - 1 : pre(k - 1)[i] = src[i]
      BY <2>3, <3>2
    <3>4. IsSequence(pre(k)) /\ Len(pre(k)) = k /\ \A i \in 1..k : pre(k)[i] = src[i]
      BY <2>3, <3>2
    <3> HIDE DEF pre, one, n
        <3> DEFINE p == pre(k - 1)
               both == p \o one
    <3>5. IsSequence(p) /\ Len(p) = k - 1 /\ \A i \in 1..k - 1 : p[i] = src[i]
      BY <3>3
    <3> HIDE DEF p
    <3>6. /\ IsSequence(both) /\ Len(both) = k - 1 + 1
          /\ \A i \in 1..k - 1 : both[i] = src[i]
          /\ \A i \in 1..1 : both[k - 1 + i] = one[i]
      <4>1. IsSequence(p) /\ IsSequence(one)
        BY <3>1, <3>5
      <4>2. /\ IsSequence(both) /\ Len(both) = Len(p) + Len(one)
            /\ \A i \in 1..Len(p) : both[i] = p[i]
            /\ \A i \in 1..Len(one) : both[Len(p) + i] = one[i]
        BY <4>1, Joined
      <4> HIDE DEF both
      <4>3. QED
        BY <3>1, <3>5, <4>2
    <3> HIDE DEF both
    <3>7. both[k] = src[k] /\ Len(both) = k
      BY <3>1, <3>2, <3>6
    <3>8. \A i \in 1..k : i \in 1..k - 1 \/ i = k
      BY <3>2
    <3>9. \A i \in 1..k : both[i] = pre(k)[i]
      BY <3>4, <3>6, <3>7, <3>8
    <3>10. pre(k) = both
      BY <3>4, <3>6, <3>7, <3>9, SameSequence
    <3>11. k = 1 => pre(k) = one
      BY <3>1, <3>4, SameSequence
    <3>12. QED
      BY <3>10, <3>11 DEF both, one, p
  <2> HIDE DEF pre
  <2> DEFINE T == {k \in 0..n : k # 0 => IsSequence(f[k]) /\ Seams(f[k]) = Seams(pre(k))}
  <2>5. 0 \in T
    BY <1>1
  <2>6. ASSUME NEW k \in 1..n, k - 1 \in T PROVE k \in T
    <3>1. CASE k = 1
      <4>1. IsSequence(f[k]) /\ Seams(f[k]) = Seams(pre(k))
        BY <2>1, <2>2, <2>4, <3>1
      <4>2. QED
        BY <1>1, <4>1
    <3>2. CASE k # 1
      <4>1. k \in 2..n /\ k - 1 # 0 /\ k - 1 \in 0..n
        BY <1>1, <3>2
      <4>2. IsSequence(f[k - 1]) /\ Seams(f[k - 1]) = Seams(pre(k - 1))
        BY <2>6, <4>1
      <4>3. f[k] = f[k - 1] \o parts[k]
        BY <2>1, <4>1
      <4>4. IsSequence(f[k]) /\ Seams(f[k]) = Seams(f[k - 1]) \o Seams(parts[k])
        <5> DEFINE s == f[k - 1]
                   t == parts[k]
        <5>1. IsSequence(s) /\ IsSequence(t) /\ f[k] = s \o t
          BY <2>2, <4>2, <4>3
        <5> HIDE DEF s, t, T, n
        <5>2. IsSequence(s \o t)
          BY <5>1, Joined
        <5>3. Seams(s \o t) = Seams(s) \o Seams(t)
          BY <5>1, SeamsJoined
        <5>4. QED
          BY <5>1, <5>2, <5>3 DEF s, t
      <4>5. IsSequence(pre(k - 1)) /\ IsSequence(<<src[k]>>)
        BY <2>3, <4>1, OneEntry
      <4>6. Seams(pre(k)) = Seams(pre(k - 1)) \o Seams(<<src[k]>>)
        BY <2>4, <4>5, SeamsJoined
      <4>7. Seams(f[k]) = Seams(pre(k))
        BY <2>2, <4>2, <4>4, <4>6
      <4>8. QED
        BY <1>1, <4>4, <4>7
    <3>3. QED
      BY <3>1, <3>2
  <2> HIDE DEF T
  <2>7. \A k \in 0..n : k \in T
    BY <1>1, <2>5, <2>6, Stepwise
  <2>8. Seams(f[n]) = Seams(pre(n))
    BY <1>1, <1>3, <2>7 DEF T
  <2>9. pre(n) = src
    <3>1. IsSequence(pre(n)) /\ Len(pre(n)) = n /\ \A i \in 1..n : pre(n)[i] = src[i]
      BY <1>1, <2>3
    <3>2. QED
      BY <3>1, SameSequence
  <2>10. QED
    BY <2>1, <2>8, <2>9
<1>4. QED
  BY <1>2, <1>3

\* It begins with what its first part begins with.
LEMMA OpensFlat ==
  ASSUME NEW parts, IsSequence(parts), Len(parts) # 0,
         \A i \in DOMAIN parts : IsSequence(parts[i]), Opens(parts[1])
  PROVE  Opens(FlattenSeq(parts))
<1> DEFINE n == Len(parts)
<1>1. n \in Nat /\ n # 0 /\ DOMAIN parts = 1..n
  BY AsSeq
<1>2. PICK f : /\ FlattenSeq(parts) = f[n] /\ f[1] = parts[1]
               /\ \A i \in 2..n : f[i] = f[i - 1] \o parts[i]
  BY <1>1, FlattenIs
<1> DEFINE T == {k \in 0..n : k # 0 => IsSequence(f[k]) /\ Opens(f[k])}
<1>3. 0 \in T
  BY <1>1
<1>4. ASSUME NEW k \in 1..n, k - 1 \in T PROVE k \in T
  <2>1. CASE k = 1
    <3>1. IsSequence(f[k]) /\ Opens(f[k])
      BY <1>1, <1>2, <2>1
    <3>2. QED
      BY <1>1, <3>1
  <2>2. CASE k # 1
    <3>1. k \in 2..n /\ k - 1 # 0 /\ k - 1 \in 0..n
      BY <1>1, <2>2
    <3> DEFINE s == f[k - 1]
               t == parts[k]
    <3>2. IsSequence(s) /\ Opens(s) /\ IsSequence(t)
      BY <1>1, <1>4, <3>1
    <3>3. f[k] = s \o t
      BY <1>2, <3>1
    <3> HIDE DEF s, t, T, n
    <3>4. DOMAIN s = 1..Len(s) /\ Len(s) \in Nat /\ Len(t) \in Nat
      BY <3>2, AsSeq
    <3>5. IsSequence(s \o t) /\ Len(s \o t) = Len(s) + Len(t) /\ \A i \in 1..Len(s) : (s \o t)[i] = s[i]
      BY <3>2, Joined
    <3>6. DOMAIN (s \o t) = 1..Len(s \o t)
      BY <3>5, AsSeq
    <3>7. 1 \in 1..Len(s)
      BY <3>2, <3>4 DEF Opens
    <3>8. 1 \in DOMAIN (s \o t) /\ (s \o t)[1] = s[1]
      BY <3>4, <3>5, <3>6, <3>7
    <3>9. IsSequence(f[k]) /\ Opens(f[k])
      BY <3>2, <3>3, <3>5, <3>8 DEF Opens
    <3>10. QED
      BY <1>1, <3>9 DEF T, n
  <2>3. QED
    BY <2>1, <2>2
<1> HIDE DEF T
<1>5. \A k \in 0..n : k \in T
  BY <1>1, <1>3, <1>4, Stepwise
<1>6. QED
  BY <1>1, <1>2, <1>5 DEF T

\* What a step of the engine does to them.
SameSeams(s, t) == Seams(t) = Seams(s) /\ (Opens(s) => Opens(t))

LEMMA SeamsReplaced ==
  ASSUME NEW src, IsSequence(src), NEW F, F \cap Boundaries = {},
         NEW by, IsSequence(by), \A i \in DOMAIN by : by[i] \notin Boundaries
  PROVE  SameSeams(src, ReplaceFragment(src, F, by))
<1> DEFINE parts == [i \in DOMAIN src |-> IF src[i] \in F THEN by ELSE <<src[i]>>]
           new == ReplaceFragment(src, F, by)
<1>1. DOMAIN src = 1..Len(src) /\ Len(src) \in Nat
  BY AsSeq
<1>2. new = FlattenSeq(parts)
  BY DEF ReplaceFragment
<1>3. IsSequence(parts) /\ Len(parts) = Len(src) /\ DOMAIN parts = DOMAIN src
  BY <1>1, MadeSequence
<1>4. \A i \in DOMAIN src : parts[i] = IF src[i] \in F THEN by ELSE <<src[i]>>
  OBVIOUS
<1> HIDE DEF parts, new
<1>5. Seams(by) = <<>>
  BY NoSeams
<1>6. ASSUME NEW f \in F PROVE Seams(<<f>>) = <<>>
  <2>1. IsSequence(<<f>>) /\ \A i \in DOMAIN <<f>> : <<f>>[i] \notin Boundaries
    BY OneEntry
  <2>2. QED
    BY <2>1, NoSeams
<1>7. \A i \in DOMAIN src : IsSequence(parts[i]) /\ Seams(parts[i]) = Seams(<<src[i]>>)
  BY <1>4, <1>5, <1>6, OneEntry
<1>8. Seams(new) = Seams(src)
  BY <1>2, <1>3, <1>7, SeamsFlat
<1>9. ASSUME Opens(src) PROVE Opens(new)
  <2>1. 1 \in DOMAIN src /\ src[1] \in Boundaries
    BY <1>9 DEF Opens
  <2>2. parts[1] = <<src[1]>>
    BY <1>4, <2>1
  <2>3. Opens(parts[1])
    BY <2>1, <2>2 DEF Opens
  <2>4. \A i \in DOMAIN parts : IsSequence(parts[i])
    BY <1>3, <1>7
  <2>5. Len(parts) # 0
    BY <1>1, <1>3, <2>1
  <2>6. QED
    BY <1>2, <1>3, <2>3, <2>4, <2>5, OpensFlat
<1>10. QED
  BY <1>8, <1>9 DEF SameSeams, new

LEMMA SeamsDropped ==
  ASSUME NEW src, IsSequence(src), NEW fragments, fragments \cap Boundaries = {}
  PROVE  SameSeams(src, Dropping(src, fragments))
<1> DEFINE P == {i \in DOMAIN src : src[i] \notin fragments}
           new == Dropping(src, fragments)
           size == Cardinality(P)
           g == [n \in 1..size |-> At(P, n)]
<1>1. DOMAIN src = 1..Len(src) /\ Len(src) \in Nat
  BY AsSeq
<1>2. new = Kept(src, P)
  BY DEF Dropping
<1>3. P \in SUBSET DOMAIN src
  OBVIOUS
<1>4. \A i \in DOMAIN src : i \in P <=> src[i] \notin fragments
  OBVIOUS
<1> HIDE DEF P, new
<1>5. /\ IsSequence(new) /\ Len(new) = size /\ size \in Nat
      /\ \A n \in 1..size : At(P, n) \in P /\ new[n] = src[At(P, n)]
      /\ \A i \in P : \E n \in 1..size : At(P, n) = i
      /\ \A m, n \in 1..size : m < n => At(P, m) < At(P, n)
  BY <1>2, <1>3, KeptIs
<1>6. \A n \in 1..size : g[n] = At(P, n)
  OBVIOUS
<1> HIDE DEF g, size
<1>7. \A n \in 1..Len(new) : new[n] \in Boundaries => g[n] \in 1..Len(src) /\ src[g[n]] = new[n]
  BY <1>1, <1>3, <1>5, <1>6
<1>8. \A i, k \in 1..Len(new) : i < k => g[i] < g[k]
  BY <1>5, <1>6
<1>9. ASSUME NEW j \in 1..Len(src), src[j] \in Boundaries
      PROVE  \E n \in 1..Len(new) : new[n] \in Boundaries /\ g[n] = j
  <2>1. j \in P
    BY <1>1, <1>4, <1>9
  <2>2. PICK n \in 1..size : At(P, n) = j
    BY <1>5, <2>1
  <2>3. new[n] = src[j] /\ g[n] = j
    BY <1>5, <1>6, <2>2
  <2>4. QED
    BY <1>5, <1>9, <2>2, <2>3
<1>10. Shifts(g, new, src)
  BY <1>7, <1>8, <1>9 DEF Shifts
<1>11. Seams(src) = Seams(new)
  BY <1>5, <1>10, SeamsMoved
<1>12. ASSUME Opens(src) PROVE Opens(new)
  <2>1. 1 \in DOMAIN src /\ src[1] \in Boundaries
    BY <1>12 DEF Opens
  <2>2. 1 \in P
    BY <1>4, <2>1
  <2>3. PICK n \in 1..size : At(P, n) = 1
    BY <1>5, <2>2
  <2>4. n = 1
    <3>1. CASE n > 1
      <4>1. 1 \in 1..size /\ 1 < n
        BY <1>5, <3>1
      <4>2. At(P, 1) < At(P, n) /\ At(P, 1) \in P
        BY <1>5, <4>1
      <4>3. At(P, 1) \in 1..Len(src)
        BY <1>1, <1>3, <4>2
      <4>4. QED
        BY <1>1, <2>3, <4>2, <4>3
    <3>2. QED
      BY <1>5, <3>1
  <2>5. new[1] = src[1] /\ 1 \in 1..Len(new)
    BY <1>5, <2>3, <2>4
  <2>6. DOMAIN new = 1..Len(new)
    BY <1>5, AsSeq
  <2>7. QED
    BY <2>1, <2>5, <2>6 DEF Opens
<1>13. QED
  BY <1>11, <1>12 DEF SameSeams, new

-----------------------------------------------------------------------------
(* Why a set finds what it looks for. *)

\* A fragment that no patch works on or writes.
Ordinary(w) == Turn(w) = 0 /\ Made(w) = 0 /\ w \notin Reserved

\* From a turn on, what patches match is as it was taken out, the launches are as many,
\* whichever of their forms they have, and nothing of what patches write is there.
Untouched(taken, src, turn) ==
  /\ \A w : w \notin Left /\ (Turn(w) = 0 \/ turn <= Turn(w)) => Count(src, w) = Count(taken, w)
  /\ turn <= Turn("dispatch-launch") =>
       Amount(src, Launches) = Amount(taken, Launches \ Left)
Fresh(src, turn) ==
  \A w \in Left : turn <= Made(w) => Count(src, w) = 0

\* What the patches of a set wrote and none of them took is there as often as its site was.
Taken(D, w) == \E q \in D : q.at = w /\ w \notin ToSet(q.to)
Carried(D, src) ==
  \A p \in D : p.required => \A w \in Written(p) : Taken(D, w) \/ Count(src, w) \in p.counts

\* All of that, once the patches of D were applied after those of P.
Serving(P, D, taken, first, src, turn) ==
  /\ Applied(P \cup D, src)
  /\ Untouched(taken, src, turn) /\ Fresh(src, turn)
  /\ Carried(D, src)
  /\ SameSeams(first, src)

\* What is left was made by a patch or by the runtime.
LEMMA LeftMade ==
  /\ \A w \in Left : Made(w) # 0 \/ w \in Reserved
  /\ \A s \in EverySet : WrittenBy(s) \subseteq Left
  /\ BootFragments \subseteq Left
<1> DEFINE words == UNION {WrittenBy(s) : s \in EverySet}
<1>1. Left = words \cup BootFragments \cup {Prelude}
  BY DEF Left
<1>2. \A s \in EverySet : WrittenBy(s) \subseteq words
  OBVIOUS
<1>3. ASSUME NEW w \in words PROVE Made(w) # 0
  <2>1. PICK s \in EverySet : w \in WrittenBy(s)
    BY <1>3
  <2>2. PICK i \in DOMAIN s.patches : w \in Written(s.patches[i])
    BY <2>1 DEF WrittenBy
  <2> DEFINE p == s.patches[i]
  <2>3. GoodPatch(p)
    BY MarksLeft DEF InEngine, GoodSet, InTurn
  <2>4. w \in Written(p)
    BY <2>2
  <2> HIDE DEF p
  <2>5. w \in ToSet(p.to) /\ w # p.at
    BY <2>4 DEF Written
  <2>6. Made(w) = Turn(p.at) /\ Made(p.at) < Turn(p.at)
    BY <2>3, <2>5 DEF GoodPatch
  <2>7. QED
    BY <2>6, TurnType
<1> HIDE DEF words
<1>4. QED
  BY <1>1, <1>2, <1>3, ReservedApart

\* What a patch does to each fragment.
LEMMA PatchCounts ==
  ASSUME NEW src, IsSequence(src), NEW p, GoodPatch(p)
  PROVE  LET new == ReplaceFragment(src, Sites(p), p.to)
         IN /\ \A w : w \notin ToSet(p.to) =>
                 Count(new, w) = IF w \in Sites(p) THEN 0 ELSE Count(src, w)
            /\ p.at \in ToSet(p.to) => Count(new, p.at) = Count(src, p.at)
            /\ \A w \in Written(p) : Count(src, w) = 0 =>
                 Count(new, w) = Matches(src, Sites(p))
<1> DEFINE new == ReplaceFragment(src, Sites(p), p.to)
<1>1. IsSequence(p.to) /\ \A w \in ToSet(p.to) : Count(p.to, w) = 1
  BY DEF GoodPatch
<1>2. /\ \A W : W \cap Sites(p) = {} /\ Amount(p.to, W) = 0 => Amount(new, W) = Amount(src, W)
      /\ \A W : Sites(p) \subseteq W /\ Amount(p.to, W) = 1 => Amount(new, W) = Amount(src, W)
      /\ \A W : W \subseteq Sites(p) /\ Amount(p.to, W) = 0 => Amount(new, W) = 0
      /\ \A m : m \notin Sites(p) /\ Count(src, m) = 0 /\ Count(p.to, m) = 1 =>
           Count(new, m) = Amount(src, Sites(p))
  BY <1>1, AmountReplaced
<1> HIDE DEF new
<1>3. ASSUME NEW w, w \notin ToSet(p.to)
      PROVE  Count(new, w) = IF w \in Sites(p) THEN 0 ELSE Count(src, w)
  <2>1. Amount(p.to, {w}) = 0
    BY <1>1, <1>3, NotWritten
  <2>2. CASE w \in Sites(p)
    BY <1>2, <2>1, <2>2, CountIs
  <2>3. CASE w \notin Sites(p)
    BY <1>2, <2>1, <2>3, CountIs
  <2>4. QED
    BY <2>2, <2>3
<1>4. ASSUME p.at \in ToSet(p.to) PROVE Count(new, p.at) = Count(src, p.at)
  <2>1. Amount(p.to, {p.at}) = 1
    BY <1>1, <1>4, CountIs
  <2>2. Sites(p) = {p.at}
    BY <1>4 DEF GoodPatch, Sites
  <2>3. Amount(new, {p.at}) = Amount(src, {p.at})
    BY <1>2, <2>1, <2>2
  <2>4. QED
    BY <2>3, CountIs
<1>5. ASSUME NEW w \in Written(p), Count(src, w) = 0
      PROVE  Count(new, w) = Matches(src, Sites(p))
  <2>1. w \in ToSet(p.to) /\ w # p.at
    BY DEF Written
  <2>2. w \notin Sites(p)
    BY <2>1, AlsoIs DEF Sites
  <2>3. QED
    BY <1>1, <1>2, <1>5, <2>1, <2>2, MatchesIs
<1>6. QED
  BY <1>3, <1>4, <1>5 DEF new

\* Before its fallback, patches rewrite a launch into one.
LEMMA LaunchesKept ==
  ASSUME NEW src, IsSequence(src), NEW p, GoodPatch(p), Turn(p.at) < Turn("dispatch-launch")
  PROVE  Amount(ReplaceFragment(src, Sites(p), p.to), Launches) = Amount(src, Launches)
<1>1. IsSequence(p.to) /\ Turn(p.at) # 0 /\ p.at # "dispatch-launch"
  <2>1. Made(p.at) < Turn(p.at) /\ IsSequence(p.to)
    BY DEF GoodPatch
  <2>2. p.at # "dispatch-launch"
    BY TurnType
  <2>3. QED
    BY <2>1, <2>2, TurnType
<1>2. CASE p.at \in {"agents-launch", "native-launch"}
  <2>1. p.also = {}
    BY <1>1, <1>2 DEF GoodPatch
  <2>2. Sites(p) \subseteq Launches
    BY <1>2, <2>1 DEF Sites, Launches
  <2>3. Amount(p.to, Launches) = 1
    BY <1>2 DEF GoodPatch
  <2>4. QED
    BY <1>1, <2>2, <2>3, AmountReplaced
<1>3. CASE p.at \notin {"agents-launch", "native-launch"}
  <2>1. p.at \notin Launches
    BY <1>1, <1>3 DEF Launches
  <2>2. Launches \cap Sites(p) = {}
    <3>1. p.also = {} \/ p.also = Guarded
      BY <1>1 DEF GoodPatch
    <3>2. QED
      BY <2>1, <3>1 DEF Sites, Launches, Guarded
  <2>3. ASSUME NEW w \in ToSet(p.to) PROVE w \notin Launches
    <3>1. w = p.at \/ Made(w) = Turn(p.at)
      BY DEF GoodPatch
    <3>2. Made("agents-launch") = 0 /\ Made("native-launch") = 0 /\ Made("dispatch-launch") = 83
      BY DEF Made
    <3>3. Turn(p.at) = 83 => p.at = "agents-launch"
      BY LaunchTurn
    <3>4. QED
      BY <1>1, <1>3, <2>1, <3>1, <3>2, <3>3 DEF Launches
  <2>4. Amount(p.to, Launches) = 0
    BY <1>1, <2>3, NotWritten
  <2>5. QED
    BY <1>1, <2>2, <2>4, AmountReplaced
<1>4. QED
  BY <1>2, <1>3

\* The marks that the respawn guard would take are left by patches.
LEMMA GuardedLeft == Guarded \subseteq Left
BY GuardedMarks, MarksLeft

\* The next patch of a set.
LEMMA ServingStep ==
  ASSUME NEW P, NEW D, NEW taken, NEW first, NEW src, NEW turn \in Nat,
         Serving(P, D, taken, first, src, turn),
         NEW p, GoodPatch(p), Marks(p) \subseteq Left, Written(p) \subseteq Left,
         turn <= Turn(p.at), Past(P \cup D, Turn(p.at)), ~Fails(p, src)
  PROVE  Serving(P, D \cup {p}, taken, first, ReplaceFragment(src, Sites(p), p.to), Turn(p.at) + 1)
<1> DEFINE new == ReplaceFragment(src, Sites(p), p.to)
           now == Turn(p.at) + 1
           E == D \cup {p}
<1>1. /\ Applied(P \cup D, src) /\ Untouched(taken, src, turn) /\ Fresh(src, turn)
      /\ Carried(D, src) /\ SameSeams(first, src) /\ IsSequence(src)
  BY DEF Serving, Applied
<1>2. Applied(P \cup E, new)
  <2>1. Applied((P \cup D) \cup {p}, new)
    BY <1>1, PatchStep
  <2>2. (P \cup D) \cup {p} = P \cup E
    OBVIOUS
  <2>3. QED
    BY <2>1, <2>2
<1>3. /\ \A w : w \notin ToSet(p.to) =>
           Count(new, w) = IF w \in Sites(p) THEN 0 ELSE Count(src, w)
      /\ p.at \in ToSet(p.to) => Count(new, p.at) = Count(src, p.at)
      /\ \A w \in Written(p) : Count(src, w) = 0 => Count(new, w) = Matches(src, Sites(p))
  BY <1>1, PatchCounts
<1>4. /\ IsSequence(p.to) /\ Made(p.at) < Turn(p.at) /\ Turn(p.at) \in Nat /\ Made(p.at) \in Nat
      /\ \A w \in Written(p) : Made(w) = Turn(p.at)
      /\ \A w \in ToSet(p.to) : w \notin Reserved /\ (w = p.at \/ w \in Written(p))
      /\ p.at \notin Reserved
  BY DEF GoodPatch, Written
<1>5. SameSeams(first, new)
  <2>1. \A i \in DOMAIN p.to : p.to[i] \notin Boundaries
    <3>1. \A i \in DOMAIN p.to : p.to[i] \in ToSet(p.to)
      BY DEF ToSet
    <3>2. QED
      BY <1>4, <3>1, ReservedApart
  <2>2. Sites(p) \cap Boundaries = {}
    BY <1>4, ReservedApart, AlsoIs DEF Sites
  <2>3. SameSeams(src, new)
    BY <1>1, <1>4, <2>1, <2>2, SeamsReplaced
  <2>4. QED
    BY <1>1, <2>3 DEF SameSeams
<1>6. Untouched(taken, new, now)
  <2>1. ASSUME now <= Turn("dispatch-launch")
        PROVE  Amount(new, Launches) = Amount(taken, Launches \ Left)
    <3>1. Turn(p.at) < Turn("dispatch-launch") /\ turn <= Turn("dispatch-launch")
      BY <1>4, <2>1, TurnType
    <3>2. Amount(new, Launches) = Amount(src, Launches)
      BY <1>1, <3>1, LaunchesKept
    <3>3. QED
      BY <1>1, <3>1, <3>2 DEF Untouched
  <2> HIDE DEF new
  <2>2. ASSUME NEW w, w \notin Left, Turn(w) = 0 \/ now <= Turn(w)
        PROVE  Count(new, w) = Count(taken, w)
    <3>1. w # p.at /\ (Turn(w) = 0 \/ turn <= Turn(w))
      BY <1>4, <2>2, TurnType
    <3>2. w \notin ToSet(p.to)
      BY <1>4, <2>2, <3>1
    <3>3. w \notin Sites(p)
      <4>1. w \notin p.also
        BY <1>4, <2>2, TurnType, AlsoIs, GuardedLeft
      <4>2. QED
        BY <3>1, <4>1 DEF Sites
    <3>4. Count(src, w) = Count(taken, w)
      BY <1>1, <2>2, <3>1 DEF Untouched
    <3>5. QED
      BY <1>3, <3>2, <3>3, <3>4
  <2>3. QED
    BY <2>1, <2>2 DEF Untouched
<1> HIDE DEF new
<1>7. Fresh(new, now)
  <2> SUFFICES ASSUME NEW w \in Left, now <= Made(w) PROVE Count(new, w) = 0
    BY DEF Fresh
  <2>1. w # p.at /\ turn <= Made(w) /\ Made(w) # Turn(p.at)
    BY <1>4, TurnType
  <2>2. w \notin ToSet(p.to)
    BY <1>4, <2>1
  <2>3. Count(src, w) = 0
    BY <1>1, <2>1 DEF Fresh
  <2>4. QED
    BY <1>3, <2>1, <2>2, <2>3
<1> HIDE DEF now
<1>8. ASSUME NEW q \in E, q.required, NEW w \in Written(q), ~Taken(E, w)
      PROVE  Count(new, w) \in q.counts
  <2>1. CASE q = p
    <3>1. w \in Written(p) /\ Made(w) = Turn(p.at) /\ w \in Left
      BY <1>4, <1>8, <2>1
    <3>2. Count(src, w) = 0
      BY <1>1, <3>1 DEF Fresh
    <3>3. Count(new, w) = Matches(src, Sites(p))
      BY <1>3, <3>1, <3>2
    <3>4. Matches(src, Sites(p)) \in p.counts
      BY <1>8, <2>1 DEF Fails
    <3>5. QED
      BY <2>1, <3>3, <3>4
  <2>2. CASE q # p
    <3>1. q \in D /\ ~Taken(D, w)
      BY <1>8, <2>2 DEF Taken
    <3>2. Count(src, w) \in q.counts
      BY <1>1, <1>8, <3>1 DEF Carried
    <3>3. GoodPatch(q) /\ Turn(q.at) < Turn(p.at)
      BY <3>1 DEF Past
    <3>4. Made(w) = Turn(q.at)
      BY <1>8, <3>3 DEF GoodPatch, Written
    <3>5. Made(w) # Turn(p.at)
      BY <3>3, <3>4, TurnType
    <3>6. w \notin Written(p)
      BY <1>4, <3>5
    <3>7. CASE w = p.at
      <4>1. p.at \in ToSet(p.to)
        BY <1>8, <3>7 DEF Taken
      <4>2. QED
        BY <1>3, <3>2, <3>7, <4>1
    <3>8. CASE w # p.at
      <4>1. w \notin ToSet(p.to)
        BY <1>4, <3>6, <3>8
      <4>2. w \notin p.also
        <5>1. Made(w) < Turn(p.at) /\ Made(w) # 0
          <6>1. Made(q.at) < Turn(q.at)
            BY <3>3 DEF GoodPatch
          <6>2. QED
            BY <3>3, <3>4, <6>1, TurnType
        <5>2. QED
          BY <5>1, AlsoIs, TurnType
      <4>3. w \notin Sites(p)
        BY <3>8, <4>2 DEF Sites
      <4>4. QED
        BY <1>3, <3>2, <4>1, <4>3
    <3>9. QED
      BY <3>7, <3>8
  <2>3. QED
    BY <2>1, <2>2
<1>9. Carried(E, new)
  BY <1>8 DEF Carried
<1>10. Serving(P, E, taken, first, new, now)
  BY <1>2, <1>5, <1>6, <1>7, <1>9 DEF Serving
<1>11. QED
  BY <1>10 DEF new, now

\* Nothing put behind a sequence.
LEMMA NothingBehind ==
  ASSUME NEW s, IsSequence(s)
  PROVE  s \o <<>> = s
<1>1. /\ IsSequence(s \o <<>>) /\ Len(s \o <<>>) = Len(s) + Len(<<>>)
      /\ \A i \in 1..Len(s) : (s \o <<>>)[i] = s[i]
  <2>1. IsSequence(<<>>)
    BY NoEntry
  <2>2. QED
    BY <2>1, Joined
<1>2. Len(s) \in Nat /\ Len(<<>>) = 0
  BY AsSeq, NoEntry
<1> DEFINE t == s \o <<>>
<1>3. IsSequence(t) /\ Len(t) = Len(s) /\ \A i \in 1..Len(s) : t[i] = s[i]
  BY <1>1, <1>2
<1> HIDE DEF t
<1>4. t = s
  BY <1>3, SameSequence
<1>5. QED
  BY <1>4 DEF t

\* An insertion of no boundary leaves the boundaries, and the first of them in front.
LEMMA SeamsInserted ==
  ASSUME NEW src, IsSequence(src), NEW at \in 1..Len(src) + 1, NEW x, x \notin Boundaries,
         Opens(src) => at # 1
  PROVE  SameSeams(src, InsertAt(src, at, x))
<1>12. PICK low, high : InsertedBetween(low, high, src, at, x)
  BY InsertedIs
<1>1. /\ IsSequence(low) /\ IsSequence(high) /\ Len(low) = at - 1 /\ src = low \o high
      /\ InsertAt(src, at, x) = (low \o <<x>>) \o high
  BY <1>12 DEF InsertedBetween
<1> DEFINE new == InsertAt(src, at, x)
<1>11. new = (low \o <<x>>) \o high
  BY <1>1
<1> HIDE DEF new
<1>2. IsSequence(<<x>>) /\ Len(<<x>>) = 1 /\ <<x>>[1] = x
  BY OneEntry
<1>3. Seams(<<x>>) = <<>>
  <2> DEFINE one == <<x>>
  <2>1. IsSequence(one) /\ DOMAIN one = 1..1 /\ one[1] = x
    BY <1>2, AsSeq
  <2> HIDE DEF one
  <2>2. \A i \in DOMAIN one : one[i] \notin Boundaries
    BY <2>1
  <2>3. Seams(one) = <<>>
    BY <2>1, <2>2, NoSeams
  <2>4. QED
    BY <2>3 DEF one
<1>4. IsSequence(low \o <<x>>)
  BY <1>1, <1>2, Joined
<1>5. Seams(low \o <<x>>) = Seams(low) \o Seams(<<x>>)
  BY <1>1, <1>2, SeamsJoined
<1>6. Seams(low) \o <<>> = Seams(low)
  <2>1. Len(Cuts(low)) \in Nat
    BY <1>1, CutsAreCuts
  <2>2. Seams(low) = [n \in 1..Len(Cuts(low)) |-> Seams(low)[n]]
    BY DEF Seams
  <2>3. IsSequence(Seams(low))
    BY <2>1, <2>2, MadeSequence
  <2>4. QED
    BY <2>3, NothingBehind
<1>7. Seams(new) = Seams(low) \o Seams(high)
  <2>1. Seams((low \o <<x>>) \o high) = Seams(low \o <<x>>) \o Seams(high)
    BY <1>1, <1>4, SeamsJoined
  <2>2. QED
    BY <1>11, <1>3, <1>5, <1>6, <2>1
<1>8. Seams(src) = Seams(low) \o Seams(high)
  BY <1>1, SeamsJoined
<1>9. ASSUME Opens(src) PROVE Opens(new)
  <2> DEFINE two == low \o <<x>>
  <2>1. at # 1 /\ src[1] \in Boundaries
    BY <1>9 DEF Opens
  <2>2. Len(src) \in Nat /\ Len(high) \in Nat
    BY <1>1, AsSeq
  <2>3. 1 \in 1..Len(low) /\ Len(low) \in Nat
    BY <1>1, <2>1, <2>2
  <2>4. \A i \in 1..Len(low) : src[i] = low[i]
    BY <1>1, Joined
  <2>5. Len(two) = Len(low) + 1 /\ \A i \in 1..Len(low) : two[i] = low[i]
    BY <1>1, <1>2, Joined
  <2>6. IsSequence(two) /\ new = two \o high
    BY <1>4, <1>11
  <2> HIDE DEF two
  <2>7. /\ IsSequence(new) /\ Len(new) = Len(two) + Len(high)
        /\ \A i \in 1..Len(two) : new[i] = two[i]
    <3>1. IsSequence(two) /\ IsSequence(high)
      BY <1>1, <2>6
    <3>2. /\ IsSequence(two \o high) /\ Len(two \o high) = Len(two) + Len(high)
          /\ \A i \in 1..Len(two) : (two \o high)[i] = two[i]
      BY <3>1, Joined
    <3>3. QED
      BY <2>6, <3>2
  <2>8. new[1] = src[1] /\ 1 \in 1..Len(new)
    BY <2>2, <2>3, <2>4, <2>5, <2>7
  <2>9. DOMAIN new = 1..Len(new)
    BY <2>7, AsSeq
  <2>10. QED
    BY <2>1, <2>8, <2>9 DEF Opens
<1>10. QED
  BY <1>7, <1>8, <1>9 DEF SameSeams, new

\* A registration is made by no patch.
LEMMA BootMade == \A b \in BootFragments : Made(b) = 0
BY DEF BootFragments, Boots, Made

\* A registration leaves what later sets look for.
LEMMA RegisterServes ==
  ASSUME NEW taken, NEW src, IsSequence(src), NEW turn \in Nat, turn # 0,
         Untouched(taken, src, turn), Fresh(src, turn),
         NEW set, NEW low, NEW high, GoodSet(set, low, high), set.moves \subseteq Left
  PROVE  LET new == Register(src, set)
         IN Untouched(taken, new, turn) /\ Fresh(new, turn) /\ SameSeams(src, new)
<1> DEFINE kept == Dropping(src, set.moves)
           at == IF Split(kept) THEN 2 ELSE 1
           x == Boots[set.key]
           new == Register(src, set)
<1>1. CASE ~Registers(set, src)
  <2>1. new = src
    BY <1>1 DEF Register, Registers
  <2>2. SameSeams(src, src)
    BY DEF SameSeams
  <2> HIDE DEF new
  <2>3. QED
    BY <2>1, <2>2 DEF new
<1>2. CASE Registers(set, src)
  <2>1. /\ new = InsertAt(kept, at, x) /\ x \in BootFragments
    BY <1>2, ReservedApart DEF Register, Registers, GoodSet
  <2>2. /\ IsSequence(kept)
        /\ \A W : W \cap set.moves = {} => Amount(kept, W) = Amount(src, W)
        /\ \A W : W \subseteq set.moves => Amount(kept, W) = 0
    BY AmountDropped
  <2>3. \A w \in set.moves : w \notin Reserved
    BY DEF GoodSet
  <2>4. SameSeams(src, kept)
    <3>1. set.moves \cap Boundaries = {}
      BY <2>3, ReservedApart
    <3>2. QED
      BY <3>1, SeamsDropped
  <2> HIDE DEF kept
  <2>5. at \in 1..Len(kept) + 1 /\ (Opens(kept) => at # 1)
    <3>1. DOMAIN kept = 1..Len(kept) /\ Len(kept) \in Nat
      BY <2>2, AsSeq
    <3>2. Split(kept) => Len(kept) # 0
      BY <3>1 DEF Split
    <3>3. Opens(kept) => Split(kept)
      BY DEF Opens, Split
    <3>4. QED
      BY <3>1, <3>2, <3>3
  <2> HIDE DEF at
  <2>6. /\ IsSequence(new)
        /\ \A W : Amount(new, W) = Amount(kept, W) + (IF x \in W THEN 1 ELSE 0)
    BY <2>1, <2>2, <2>5, AmountInserted
  <2>7. SameSeams(kept, new)
    <3>1. x \notin Boundaries
      BY <2>1, ReservedApart
    <3>2. QED
      BY <2>1, <2>2, <2>5, <3>1, SeamsInserted
  <2>8. x \in Left /\ Made(x) = 0
    BY <2>1, LeftMade, BootMade
  <2> HIDE DEF new, x
  <2>9. \A W : Amount(kept, W) \in Nat
    BY <2>2, AmountIs
  <2>10. ASSUME NEW w, w # x PROVE Count(new, w) = IF w \in set.moves THEN 0 ELSE Count(src, w)
    <3>1. Amount(new, {w}) = Amount(kept, {w})
      BY <2>6, <2>9, <2>10
    <3>2. CASE w \in set.moves
      <4>1. Amount(kept, {w}) = 0
        BY <2>2, <3>2
      <4>2. QED
        BY <3>1, <3>2, <4>1, CountIs
    <3>3. CASE w \notin set.moves
      <4>1. Amount(kept, {w}) = Amount(src, {w})
        BY <2>2, <3>3
      <4>2. QED
        BY <3>1, <3>3, <4>1, CountIs
    <3>4. QED
      BY <3>2, <3>3
  <2>11. Untouched(taken, new, turn)
    <3>1. ASSUME NEW w, w \notin Left, Turn(w) = 0 \/ turn <= Turn(w)
          PROVE  Count(new, w) = Count(taken, w)
      <4>1. w # x /\ w \notin set.moves
        BY <2>8, <3>1
      <4>2. Count(src, w) = Count(taken, w)
        BY <3>1 DEF Untouched
      <4>3. QED
        BY <2>10, <4>1, <4>2
    <3>2. Amount(new, Launches) = Amount(src, Launches)
      <4>1. x \notin Launches
        BY <2>1 DEF BootFragments, Boots, Launches
      <4>2. Launches \cap set.moves = {}
        BY DEF GoodSet
      <4>3. Amount(kept, Launches) = Amount(src, Launches)
        BY <2>2, <4>2
      <4>4. QED
        BY <2>6, <2>9, <4>1, <4>3
    <3>3. QED
      BY <3>1, <3>2 DEF Untouched
  <2>12. Fresh(new, turn)
    <3> SUFFICES ASSUME NEW w \in Left, turn <= Made(w) PROVE Count(new, w) = 0
      BY DEF Fresh
    <3>1. w # x
      BY <2>8
    <3>2. Count(src, w) = 0
      BY DEF Fresh
    <3>3. QED
      BY <2>10, <3>1, <3>2
  <2>13. SameSeams(src, new)
    BY <2>4, <2>7 DEF SameSeams
  <2>14. QED
    BY <2>11, <2>12, <2>13 DEF new
<1>3. QED
  BY <1>1, <1>2

-----------------------------------------------------------------------------
(* A set that finds all of that does not refuse. *)

\* What a patch depends on is in the release, or is the renderer of the first set, or was
\* written by an earlier patch of its set; its site is in the release, or another patch
\* of the set writes it, or it is a launch.
Fits(q, D) ==
  /\ \A id \in q.needs :
       \/ Ordinary(id)
       \/ id = "expanded-render" /\ 39 < Turn(q.at)
       \/ ~Taken(D, id) /\ \E p \in D : /\ p.required /\ p.counts = {1} /\ id \in Written(p)
                                        /\ Turn(p.at) < Turn(q.at)
  /\ \/ Made(q.at) = 0
     \/ q.at = "dispatch-launch" /\ q.also # {}
     \/ /\ q.needs = {} /\ q.also = {} /\ q.counts = {1}
        /\ \E p \in D : p.required /\ p.counts = {1} /\ q.at \in Written(p)

\* What a set looks for at the end is what its patches wrote and did not take.
Stays(f, D) == ~Taken(D, f) /\ \E p \in D : p.required /\ f \in Written(p)
Goes(f, D) == Made(f) = 0 /\ f \notin Reserved /\ (Turn(f) = 0 \/ Taken(D, f))

Serves(set) ==
  LET D == ToSet(set.patches)
  IN /\ \A q \in D : Fits(q, D)
     /\ \A f \in set.present : Stays(f, D)
     /\ \A f \in set.absent : Goes(f, D)
     /\ set.moves \subseteq WrittenBy(set)

\* The renderer is there once, of one patch.
Rendered(P) == \E p \in P : p.required /\ p.counts = {1} /\ "expanded-render" \in Marks(p)

\* What a release has for one patch.
KnownPatch(p, taken) ==
  LET n == Amount(taken, Sites(p) \ Left)
  IN /\ n \in p.counts \/ (~p.required /\ n = 0)
     /\ n > 0 => \A id \in p.needs \ Left : Count(taken, id) = 1

\* A fragment that no patch makes is not among what is left.
LEMMA NotLeft ==
  ASSUME NEW w, Made(w) = 0, w \notin Reserved
  PROVE  w \notin Left
BY LeftMade

\* A patch whose sites the release has, finds them as the release has them.
LEMMA SitesFound ==
  ASSUME NEW taken, NEW src, IsSequence(src), NEW turn \in Nat, Untouched(taken, src, turn),
         Fresh(src, turn), NEW p, GoodPatch(p), turn <= Turn(p.at),
         Made(p.at) = 0 \/ (p.at = "dispatch-launch" /\ p.also # {})
  PROVE  /\ Matches(src, Sites(p)) = Amount(taken, Sites(p) \ Left)
         /\ Sites(p) \ Left # {}
<1>1. CASE p.at = "dispatch-launch" /\ p.also # {}
  <2>1. p.also = Launches \ {"dispatch-launch"}
    BY <1>1 DEF GoodPatch
  <2>2. Sites(p) = Launches /\ "agents-launch" \in Launches
    BY <1>1, <2>1 DEF Sites, Launches
  <2>3. "agents-launch" \notin Left
    <3>1. Made("agents-launch") = 0
      BY DEF Made
    <3>2. "agents-launch" \notin Reserved
      BY DEF Reserved, Boundaries, BootFragments, Boots, Prelude
    <3>3. QED
      BY <3>1, <3>2, NotLeft
  <2>4. Amount(src, Launches) = Amount(taken, Launches \ Left)
    BY <1>1 DEF Untouched
  <2>5. QED
    BY <2>2, <2>3, <2>4, MatchesIs
<1>2. CASE Made(p.at) = 0
  <2>1. p.at \notin Left /\ p.at \notin Reserved
    BY <1>2, NotLeft DEF GoodPatch
  <2>2. \A f \in p.also : f \in Left /\ turn <= Made(f)
    <3>1. p.at # "dispatch-launch"
      <4>1. Made("dispatch-launch") = 83
        BY DEF Made
      <4>2. QED
        BY <1>2, <4>1
    <3>2. p.also \subseteq Guarded
      BY <3>1 DEF GoodPatch
    <3>3. ASSUME NEW f \in p.also PROVE turn <= Made(f)
      <4>1. f \in Guarded
        BY <3>2
      <4>2. f \notin Launches
        BY <4>1 DEF Guarded, Launches
      <4>3. Turn(p.at) < Made(f)
        BY <4>2, AlsoIs
      <4>4. QED
        BY <4>3, TurnType
    <3>4. QED
      BY <3>2, <3>3, GuardedLeft
  <2>3. Sites(p) \ Left = {p.at}
    BY <2>1, <2>2 DEF Sites
  <2>4. \A f \in p.also : Count(src, f) = 0
    BY <2>2 DEF Fresh
  <2>5. \A f \in p.also : \A i \in DOMAIN src : src[i] # f
    BY <2>4, CountIs, AmountIs
  <2>6. Places(src, Sites(p)) = Places(src, {p.at})
    BY <2>5 DEF Places, Sites
  <2>7. Count(src, p.at) = Count(taken, p.at)
    BY <2>1 DEF Untouched
  <2>8. QED
    BY <2>3, <2>6, <2>7, MatchesIs, CountIs DEF Amount
<1>3. QED
  BY <1>1, <1>2

\* A patch finds its sites and what it depends on.
LEMMA NoFailure ==
  ASSUME NEW P, NEW D, NEW E, D \subseteq E, NEW taken, NEW first, NEW src, NEW turn \in Nat,
         Serving(P, D, taken, first, src, turn),
         NEW p, GoodPatch(p), turn <= Turn(p.at), Fits(p, E),
         Past(D, Turn(p.at)), \A q \in E : GoodPatch(q) /\ (Turn(q.at) < Turn(p.at) => q \in D),
         Sites(p) \ Left # {} => KnownPatch(p, taken),
         39 < Turn(p.at) => Rendered(P)
  PROVE  ~Fails(p, src)
<1>1. /\ Applied(P \cup D, src) /\ Untouched(taken, src, turn) /\ Carried(D, src)
      /\ Fresh(src, turn) /\ IsSequence(src)
  BY DEF Serving, Applied
<1>2. p.at \notin Reserved /\ Made(p.at) < Turn(p.at) /\ Turn(p.at) \in Nat
  BY DEF GoodPatch
<1> DEFINE n == Matches(src, Sites(p))
<1>3. CASE Made(p.at) = 0 \/ (p.at = "dispatch-launch" /\ p.also # {})
  <2>1. n = Amount(taken, Sites(p) \ Left) /\ KnownPatch(p, taken)
    BY <1>1, <1>3, SitesFound
  <2> HIDE DEF n
  <2>2. /\ n \in p.counts \/ (~p.required /\ n = 0)
        /\ n > 0 => \A id \in p.needs \ Left : Count(taken, id) = 1
    BY <2>1 DEF KnownPatch
  <2>3. ASSUME n > 0, NEW id \in p.needs PROVE Count(src, id) = 1
    <3>1. CASE Ordinary(id)
      <4>1. Turn(id) = 0 /\ id \notin Left
        BY <3>1, NotLeft DEF Ordinary
      <4>2. Count(src, id) = Count(taken, id)
        BY <1>1, <4>1 DEF Untouched
      <4>3. QED
        BY <2>2, <2>3, <4>1, <4>2
    <3>2. CASE id = "expanded-render" /\ 39 < Turn(p.at)
      <4>1. PICK q \in P : q.required /\ q.counts = {1} /\ "expanded-render" \in Marks(q)
        BY <3>2 DEF Rendered
      <4>2. \/ Count(src, "expanded-render") \in q.counts
            \/ ~q.required /\ Count(src, "expanded-render") = 0
        BY <1>1, <4>1 DEF Applied
      <4>3. QED
        BY <3>2, <4>1, <4>2
    <3>3. ASSUME ~Taken(E, id),
                 NEW q \in E, q.required, q.counts = {1}, id \in Written(q),
                 Turn(q.at) < Turn(p.at)
          PROVE  Count(src, id) = 1
      <4>1. q \in D /\ ~Taken(D, id)
        BY <3>3 DEF Taken
      <4>2. Count(src, id) \in q.counts
        BY <1>1, <3>3, <4>1 DEF Carried
      <4>3. QED
        BY <3>3, <4>2
    <3>4. QED
      BY <3>1, <3>2, <3>3 DEF Fits
  <2>4. QED
    BY <2>2, <2>3 DEF Fails, n
<1>4. CASE ~(Made(p.at) = 0 \/ (p.at = "dispatch-launch" /\ p.also # {}))
  <2>1. p.needs = {} /\ p.also = {} /\ p.counts = {1}
    BY <1>4 DEF Fits
  <2>2. PICK q \in E : q.required /\ q.counts = {1} /\ p.at \in Written(q)
    BY <1>4 DEF Fits
  <2>3. GoodPatch(q) /\ Made(p.at) = Turn(q.at)
    BY <2>2 DEF GoodPatch, Written
  <2>4. q \in D
    BY <1>2, <2>2, <2>3
  <2>5. ~Taken(D, p.at)
    <3> SUFFICES ASSUME NEW r \in D, r.at = p.at PROVE FALSE
      BY DEF Taken
    <3>1. Turn(r.at) < Turn(p.at)
      BY DEF Past
    <3>2. QED
      BY <1>2, <3>1
  <2>6. Count(src, p.at) \in q.counts
    BY <1>1, <2>2, <2>4, <2>5 DEF Carried
  <2>7. n = Count(src, p.at)
    BY <2>1, MatchesIs, CountIs DEF Sites
  <2>8. QED
    BY <2>1, <2>2, <2>6, <2>7 DEF Fails
<1>5. QED
  BY <1>3, <1>4

\* What the set looks for at the end.
LEMMA SetFinds ==
  ASSUME NEW P, NEW D, NEW taken, NEW first, NEW src, NEW turn \in Nat,
         Serving(P, D, taken, first, src, turn), \A q \in D : GoodPatch(q)
  PROVE  /\ \A f : Stays(f, D) => Count(src, f) > 0
         /\ \A f : Goes(f, D) /\ (Turn(f) = 0 => Count(taken, f) = 0) => Count(src, f) = 0
<1>1. Applied(P \cup D, src) /\ Untouched(taken, src, turn) /\ Carried(D, src)
  BY DEF Serving
<1>2. ASSUME NEW f, Stays(f, D) PROVE Count(src, f) > 0
  <2>1. PICK p \in D : p.required /\ f \in Written(p)
    BY <1>2 DEF Stays
  <2>2. Count(src, f) \in p.counts
    BY <1>1, <1>2, <2>1 DEF Carried, Stays
  <2>3. p.counts \subseteq Nat \ {0}
    BY DEF GoodPatch
  <2>4. Count(src, f) \in Nat \ {0}
    BY <2>2, <2>3
  <2>5. QED
    BY <2>4
<1>3. ASSUME NEW f, Goes(f, D), Turn(f) = 0 => Count(taken, f) = 0 PROVE Count(src, f) = 0
  <2>1. CASE Turn(f) = 0
    <3>1. f \notin Left
      BY <1>3, NotLeft DEF Goes
    <3>2. Count(src, f) = Count(taken, f)
      BY <1>1, <2>1, <3>1 DEF Untouched
    <3>3. QED
      BY <1>3, <2>1, <3>2
  <2>2. CASE Turn(f) # 0
    <3>1. PICK q \in D : q.at = f /\ f \notin ToSet(q.to)
      BY <1>3, <2>2 DEF Goes, Taken
    <3>2. f \notin Guarded /\ f \in Sites(q)
      BY <1>3, <3>1 DEF Goes, Guarded, Made, Sites
    <3>3. QED
      BY <1>1, <3>1, <3>2 DEF Applied
  <2>3. QED
    BY <2>1, <2>2
<1>4. QED
  BY <1>2, <1>3

\* What has not been touched from a turn on has not been from a later one on.
LEMMA Later ==
  ASSUME NEW taken, NEW src, NEW turn \in Nat, NEW after \in Nat, turn <= after,
         Untouched(taken, src, turn), Fresh(src, turn)
  PROVE  Untouched(taken, src, after) /\ Fresh(src, after)
<1>1. \A w : after <= Turn(w) => turn <= Turn(w)
  BY TurnType
<1>2. \A w : after <= Made(w) => turn <= Made(w)
  BY TurnType
<1>3. QED
  BY <1>1, <1>2 DEF Untouched, Fresh

\* Once the patches of a set have gone through, the next one finds all of that too.
LEMMA SetServes ==
  ASSUME NEW P, NEW taken, NEW src, Applied(P, src),
         NEW set, NEW low \in Nat, NEW high \in Nat, low # 0, low <= high,
         GoodSet(set, low, high), MarksOf(set) \subseteq Left, WrittenBy(set) \subseteq Left,
         Past(P, low), Untouched(taken, src, low), Fresh(src, low),
         Serves(set), KnownTo(set, taken), 39 < high => Rendered(P)
  PROVE  LET result == ApplySet(set, src)
         IN /\ result.ok
            /\ Untouched(taken, result.source, high + 1) /\ Fresh(result.source, high + 1)
            /\ SameSeams(src, result.source)
<1> DEFINE patches == set.patches
           n == Len(patches)
           D == ToSet(patches)
           Done(k) == {patches[i] : i \in 1..k}
           Turned(k) == IF k = 0 THEN low ELSE Turn(patches[k].at) + 1
<1>1. n \in Nat /\ DOMAIN patches = 1..n /\ IsSequence(patches)
  BY AsSeq DEF GoodSet, InTurn
<1>2. PICK after :
        /\ after[0] = Outcome(TRUE, src)
        /\ \A k \in 1..n : after[k] = ApplyPatch(patches[k], after[k - 1])
        /\ ApplySet(set, src) =
             IF after[n].ok /\ (\A f \in set.present : Count(after[n].source, f) > 0)
                            /\ (\A f \in set.absent : Count(after[n].source, f) = 0)
               THEN Outcome(TRUE, Register(after[n].source, set))
               ELSE Outcome(FALSE, <<>>)
  BY <1>1, SetRun
<1>3. \A k \in 1..n : /\ GoodPatch(patches[k]) /\ Marks(patches[k]) \subseteq Left
                      /\ Written(patches[k]) \subseteq Left
                      /\ low <= Turn(patches[k].at) /\ Turn(patches[k].at) <= high
  <2>1. \A k \in 1..n : /\ GoodPatch(patches[k])
                        /\ low <= Turn(patches[k].at) /\ Turn(patches[k].at) <= high
    BY <1>1 DEF GoodSet, InTurn
  <2>2. \A k \in 1..n : Marks(patches[k]) \subseteq MarksOf(set)
    BY <1>1 DEF MarksOf
  <2>3. \A k \in 1..n : Written(patches[k]) \subseteq WrittenBy(set)
    BY <1>1 DEF WrittenBy
  <2>4. QED
    BY <2>1, <2>2, <2>3
<1>4. \A i, k \in 1..n : i < k => Turn(patches[i].at) < Turn(patches[k].at)
  BY <1>1 DEF GoodSet, InTurn
<1>5. D = Done(n) /\ \A k \in 1..n : patches[k] \in D
  BY <1>1 DEF ToSet
<1>6. ASSUME NEW k \in 1..n, Sites(patches[k]) \ Left # {} PROVE KnownPatch(patches[k], taken)
  BY <1>1, <1>6, MatchesIs DEF KnownTo, KnownPatch
<1>7. \A k \in 1..n : Fits(patches[k], D)
  BY <1>5 DEF Serves
<1>8. \A k \in 0..n : Turned(k) \in Nat /\ low <= Turned(k) /\ Turned(k) <= high + 1
  <2> SUFFICES ASSUME NEW k \in 0..n
      PROVE  Turned(k) \in Nat /\ low <= Turned(k) /\ Turned(k) <= high + 1
    OBVIOUS
  <2>1. CASE k = 0
    BY <2>1
  <2>2. CASE k # 0
    <3> DEFINE w == patches[k].at
    <3>1. k \in 1..n
      BY <1>1, <2>2
    <3>2. Turn(w) \in Nat /\ low <= Turn(w) /\ Turn(w) <= high
      BY <1>3, <3>1, TurnType
    <3>3. Turned(k) = Turn(w) + 1
      BY <2>2
    <3> HIDE DEF w, Turned
    <3>4. QED
      BY <3>2, <3>3
  <2>3. QED
    BY <2>1, <2>2
<1> DEFINE Good(k) ==
             after[k].ok /\ Serving(P, Done(k), taken, src, after[k].source, Turned(k))
           T == {k \in 0..n : Good(k)}
<1>9. 0 \in T
  <2>1. after[0].ok /\ after[0].source = src
    BY <1>2 DEF Outcome
  <2>2. Done(0) = {} /\ Turned(0) = low
    OBVIOUS
  <2>3. SameSeams(src, src)
    BY DEF SameSeams
  <2>4. P \cup {} = P /\ Carried({}, src)
    BY DEF Carried
  <2>5. Serving(P, {}, taken, src, src, low)
    BY <2>3, <2>4 DEF Serving
  <2>6. Good(0)
    BY <2>1, <2>2, <2>5
  <2> HIDE DEF Good
  <2>7. QED
    BY <1>1, <2>6
<1> HIDE DEF Turned
<1>10. ASSUME NEW k \in 1..n, k - 1 \in T PROVE k \in T
  <2> DEFINE p == patches[k]
             now == after[k - 1].source
             turn == Turned(k - 1)
             E == Done(k - 1)
  <2>1. after[k - 1].ok /\ Serving(P, E, taken, src, now, turn)
    BY <1>10
  <2>2. after[k] = ApplyPatch(p, after[k - 1])
    BY <1>2
  <2>3. k - 1 \in 0..n /\ turn \in Nat
    BY <1>1, <1>8
  <2>4. /\ GoodPatch(p) /\ Marks(p) \subseteq Left /\ Written(p) \subseteq Left
        /\ low <= Turn(p.at) /\ Turn(p.at) <= high
    BY <1>3
  <2>5. turn <= Turn(p.at)
    <3>1. CASE k - 1 = 0
      BY <2>4, <3>1 DEF Turned
    <3>2. CASE k - 1 # 0
      <4>1. k - 1 \in 1..n /\ k - 1 < k
        BY <1>1, <3>2
      <4>2. Turn(patches[k - 1].at) < Turn(p.at)
        BY <1>4, <4>1
      <4>3. turn = Turn(patches[k - 1].at) + 1
        BY <3>2 DEF Turned
      <4>4. QED
        BY <4>2, <4>3, TurnType
    <3>3. QED
      BY <3>1, <3>2
  <2>6. Past(E, Turn(p.at))
    <3>1. \A i \in 1..k - 1 : i \in 1..n /\ i < k
      BY <1>1
    <3>2. \A i \in 1..k - 1 : GoodPatch(patches[i]) /\ Marks(patches[i]) \subseteq Left
                              /\ Turn(patches[i].at) < Turn(p.at)
      BY <1>3, <1>4, <3>1
    <3> HIDE DEF p, patches, n
    <3>3. QED
      BY <3>2 DEF Past
  <2>7. Past(P \cup E, Turn(p.at))
    <3>1. \A q \in P : GoodPatch(q) /\ Marks(q) \subseteq Left /\ Turn(q.at) < Turn(p.at)
      BY <2>4, TurnType DEF Past
    <3>2. \A q \in E : GoodPatch(q) /\ Marks(q) \subseteq Left /\ Turn(q.at) < Turn(p.at)
      BY <2>6 DEF Past
    <3> HIDE DEF p, E
    <3>3. QED
      BY <3>1, <3>2 DEF Past
  <2>8. \A q \in D : GoodPatch(q) /\ (Turn(q.at) < Turn(p.at) => q \in E)
    <3> SUFFICES ASSUME NEW q \in D
        PROVE  GoodPatch(q) /\ (Turn(q.at) < Turn(p.at) => q \in E)
      OBVIOUS
    <3>1. PICK i \in 1..n : q = patches[i]
      BY <1>5
    <3>2. i < k => i \in 1..k - 1
      BY <1>1
    <3>3. i < k \/ i = k \/ k < i
      BY <1>1
    <3>4. k < i => Turn(p.at) < Turn(q.at)
      BY <1>4, <3>1
    <3>5. Turn(q.at) < Turn(p.at) => i < k
      <4> HIDE DEF p
      <4>1. i = k => q = p
        BY <3>1 DEF p
      <4>2. QED
        BY <3>3, <3>4, <4>1, TurnType
    <3>6. QED
      BY <1>3, <3>1, <3>2, <3>5
  <2>9. Fits(p, D) /\ (Sites(p) \ Left # {} => KnownPatch(p, taken)) /\ E \subseteq D
    <3>1. \A i \in 1..k - 1 : i \in 1..n
      BY <1>1
    <3>2. QED
      BY <1>5, <1>6, <1>7, <3>1
  <2>10. 39 < Turn(p.at) => Rendered(P)
    BY <2>4, TurnType
  <2>11. Done(k) = E \cup {p}
    <3>1. 1..k = (1..k - 1) \cup {k}
      BY <1>1
    <3>2. QED
      BY <3>1
  <2>12. Turned(k) = Turn(p.at) + 1
    BY <1>1 DEF Turned
  <2> HIDE DEF p, now, turn, E, D
  <2>13. ~Fails(p, now)
    BY <2>1, <2>3, <2>4, <2>5, <2>6, <2>8, <2>9, <2>10, NoFailure
  <2>14. Serving(P, E \cup {p}, taken, src, ReplaceFragment(now, Sites(p), p.to), Turn(p.at) + 1)
    BY <2>1, <2>3, <2>4, <2>5, <2>7, <2>13, ServingStep
  <2>15. after[k].ok /\ after[k].source = ReplaceFragment(now, Sites(p), p.to)
    <3>1. after[k] = Outcome(TRUE, ReplaceFragment(now, Sites(p), p.to))
      BY <2>1, <2>2, <2>13 DEF ApplyPatch, now
    <3>2. QED
      BY <3>1 DEF Outcome
  <2> HIDE DEF Done
  <2>16. Good(k)
    BY <2>11, <2>12, <2>14, <2>15
  <2> HIDE DEF Good
  <2>17. QED
    BY <1>1, <2>16
<1> HIDE DEF T
<1>11. n \in T
  <2>1. \A k \in 0..n : k \in T
    BY <1>1, <1>9, <1>10, Stepwise
  <2>2. QED
    BY <1>1, <2>1
<1> DEFINE end == after[n].source
           turn == Turned(n)
<1>12. after[n].ok /\ Serving(P, D, taken, src, end, turn)
  BY <1>5, <1>11 DEF T
<1>13. turn \in Nat /\ turn <= high + 1
  BY <1>1, <1>8
<1>14. \A q \in D : GoodPatch(q)
  BY <1>3, <1>5
<1>15. /\ \A f \in set.present : Stays(f, D)
       /\ \A f \in set.absent : Goes(f, D)
       /\ set.moves \subseteq Left
  BY DEF Serves
<1>16. ASSUME NEW f \in set.absent, Turn(f) = 0 PROVE Count(taken, f) = 0
  <2>1. f \notin Left
    BY <1>15, NotLeft DEF Goes
  <2>2. \A k \in DOMAIN patches : f \notin Sites(patches[k])
    <3> SUFFICES ASSUME NEW k \in 1..n, f \in Sites(patches[k]) PROVE FALSE
      BY <1>1
    <3>1. Made(f) = 0
      BY <1>15 DEF Goes
    <3>2. GoodPatch(patches[k])
      BY <1>3
    <3>3. f = patches[k].at => Made(f) < Turn(f)
      BY <3>2 DEF GoodPatch
    <3>4. f \notin Guarded
      BY <3>1 DEF Guarded, Made
    <3>5. f \in patches[k].also => Turn(f) # 0
      BY <3>2, <3>4, AlsoIs
    <3>6. QED
      BY <1>16, <3>3, <3>5, TurnType DEF Sites
  <2>3. QED
    BY <2>1, <2>2 DEF KnownTo
<1> HIDE DEF end, turn, D
<1>17. (\A f \in set.present : Count(end, f) > 0) /\ (\A f \in set.absent : Count(end, f) = 0)
  BY <1>12, <1>13, <1>14, <1>15, <1>16, SetFinds
<1>18. ApplySet(set, src).ok /\ ApplySet(set, src).source = Register(end, set)
  <2>1. ApplySet(set, src) = Outcome(TRUE, Register(end, set))
    BY <1>2, <1>12, <1>17 DEF end
  <2>2. QED
    BY <2>1 DEF Outcome
<1>19. IsSequence(end) /\ Untouched(taken, end, turn) /\ Fresh(end, turn) /\ SameSeams(src, end)
  BY <1>12 DEF Serving, Applied
<1>20. Untouched(taken, end, high + 1) /\ Fresh(end, high + 1) /\ high + 1 \in Nat /\ high + 1 # 0
  BY <1>13, <1>19, Later
<1>21. LET new == Register(end, set)
       IN Untouched(taken, new, high + 1) /\ Fresh(new, high + 1) /\ SameSeams(end, new)
  BY <1>15, <1>19, <1>20, RegisterServes
<1>22. SameSeams(src, Register(end, set))
  BY <1>19, <1>21 DEF SameSeams
<1>23. QED
  BY <1>18, <1>21, <1>22

-----------------------------------------------------------------------------
(* What each set rests on is there. *)

LEMMA SitePatch ==
  ASSUME NEW q, \A id \in q.needs : Ordinary(id), Made(q.at) = 0, NEW D
  PROVE  Fits(q, D)
BY DEF Fits

LEMMA StaysPlain ==
  ASSUME NEW D, \A q \in D : GoodPatch(q), NEW p \in D, p.required,
         NEW f \in Written(p), Turn(f) = 0
  PROVE  Stays(f, D)
<1>1. \A q \in D : q.at # f
  <2> SUFFICES ASSUME NEW q \in D, q.at = f PROVE FALSE
    OBVIOUS
  <2>1. Made(f) < Turn(f)
    BY DEF GoodPatch
  <2>2. QED
    BY <2>1, TurnType
<1>2. QED
  BY <1>1 DEF Stays, Taken

LEMMA GoesSite ==
  ASSUME NEW D, NEW q \in D, GoodPatch(q), q.at \notin ToSet(q.to), Made(q.at) = 0
  PROVE  Goes(q.at, D)
BY DEF GoodPatch, Goes, Taken

LEMMA GoesNever ==
  ASSUME NEW f, Ordinary(f), NEW D
  PROVE  Goes(f, D)
BY DEF Ordinary, Goes

LEMMA PatchesGood ==
  ASSUME NEW set, NEW low, NEW high, GoodSet(set, low, high)
  PROVE  \A q \in ToSet(set.patches) : GoodPatch(q)
BY DEF GoodSet, InTurn, ToSet

\* What the patches of a set write is what the set writes.
LEMMA WritesAre ==
  ASSUME NEW set, NEW p \in ToSet(set.patches)
  PROVE  Written(p) \subseteq WrittenBy(set)
BY DEF ToSet, WrittenBy

LEMMA ThinkingServes == ASSUME NEW v PROVE Serves(ThinkingExpanded(v))
<1> DEFINE a == Patch("thinking-guard", <<"thinking-always">>)
           b == Patch("thinking-render", <<"expanded-render">>)
           c == Patch("thinking-group", <<"thinking-alone">>)
           more == IF v = NoVersion \/ v >= 151 THEN <<c>> ELSE <<>>
           D == ToSet(ThinkingExpanded(v).patches)
<1>1. ThinkingExpanded(v).patches = <<a, b>> \o more
  BY DEF ThinkingExpanded, PatchSet
<1>2. ThinkingExpanded(v).present = {"expanded-render"} /\ ThinkingExpanded(v).absent = {"thinking-guard"} /\ ThinkingExpanded(v).moves = {}
  BY DEF ThinkingExpanded, PatchSet
<1>3. \A q \in D : GoodPatch(q)
  BY ThinkingSet, PatchesGood
<1>4. a.at = "thinking-guard" /\ a.to = <<"thinking-always">> /\ a.needs = {} /\ a.required = TRUE
  BY DEF Patch
<1>5. b.at = "thinking-render" /\ b.to = <<"expanded-render">> /\ b.needs = {} /\ b.required = TRUE
  BY DEF Patch
<1>6. c.at = "thinking-group" /\ c.to = <<"thinking-alone">> /\ c.needs = {} /\ c.required = TRUE
  BY DEF Patch
<1> HIDE DEF a, b, c
<1>7. ToSet(more) \subseteq {c} /\ IsSequence(more)
  BY ShortLists, OneEntry, NoEntry
<1> HIDE DEF more
<1>8. D \subseteq {a, b, c} /\ {a, b} \subseteq D
  <2>1. IsSequence(<<a, b>>) /\ ToSet(<<a, b>>) = {a, b}
    BY DEF IsSequence, ToSet
  <2>2. ToSet(<<a, b>> \o more) = ToSet(<<a, b>>) \cup ToSet(more)
    BY <1>7, <2>1, ToSetJoined
  <2>3. QED
    BY <1>1, <1>7, <2>1, <2>2
<1> HIDE DEF D
<1>9. /\ Made("thinking-guard") = 0
      /\ Made("thinking-render") = 0
      /\ Made("thinking-group") = 0
      /\ Turn("expanded-render") = 0
  BY DEF Turn, Made, Ordinary, Reserved, Boundaries, BootFragments, Boots, Prelude
<1>10. Fits(a, D)
  BY <1>4, <1>9, SitePatch
<1>11. Fits(b, D)
  BY <1>5, <1>9, SitePatch
<1>12. Fits(c, D)
  BY <1>6, <1>9, SitePatch
<1>13. Stays("expanded-render", D)
  <2>1. "expanded-render" \in Written(b)
    BY <1>5, ShortLists DEF Written
  <2>2. QED
    BY <1>3, <1>5, <1>8, <1>9, <2>1, StaysPlain
<1>14. Goes("thinking-guard", D)
  <2>1. a.at \notin ToSet(a.to)
    BY <1>4, ShortLists
  <2>2. QED
    BY <1>3, <1>4, <1>8, <1>9, <2>1, GoesSite
<1>15. \A q \in D : Fits(q, D)
  BY <1>8, <1>10, <1>11, <1>12
<1>16. \A f \in ThinkingExpanded(v).present : Stays(f, D)
  BY <1>2, <1>13
<1>17. \A f \in ThinkingExpanded(v).absent : Goes(f, D)
  BY <1>2, <1>14
<1>18. ThinkingExpanded(v).moves \subseteq WrittenBy(ThinkingExpanded(v))
  BY <1>2
<1>19. QED
  BY <1>15, <1>16, <1>17, <1>18 DEF Serves, D

LEMMA ChannelsServe == Serves(ChannelsEnabled)
<1> DEFINE a == Patch("channels-gate", <<"channels-on">>)
           b == [Patch("harbor-flag", <<"harbor-on">>) EXCEPT !.counts = {1, 2}]
           D == ToSet(ChannelsEnabled.patches)
<1>1. ChannelsEnabled.patches = <<a, b>>
  BY DEF ChannelsEnabled, PatchSet
<1>2. ChannelsEnabled.present = {} /\ ChannelsEnabled.absent = {"channels-gate", "harbor-flag"} /\ ChannelsEnabled.moves = {}
  BY DEF ChannelsEnabled, PatchSet
<1>3. \A q \in D : GoodPatch(q)
  BY ChannelsSet, PatchesGood
<1>4. a.at = "channels-gate" /\ a.to = <<"channels-on">> /\ a.needs = {} /\ a.required = TRUE
  BY DEF Patch
<1>5. b.at = "harbor-flag" /\ b.to = <<"harbor-on">> /\ b.needs = {} /\ b.required = TRUE
  BY DEF Patch
<1> HIDE DEF a, b
<1>6. D = {a, b}
  BY <1>1 DEF ToSet
<1> HIDE DEF D
<1>7. /\ Made("channels-gate") = 0
      /\ Made("harbor-flag") = 0
  BY DEF Turn, Made, Ordinary, Reserved, Boundaries, BootFragments, Boots, Prelude
<1>8. Fits(a, D)
  BY <1>4, <1>7, SitePatch
<1>9. Fits(b, D)
  BY <1>5, <1>7, SitePatch
<1>10. Goes("channels-gate", D)
  <2>1. a.at \notin ToSet(a.to)
    BY <1>4, ShortLists
  <2>2. QED
    BY <1>3, <1>4, <1>6, <1>7, <2>1, GoesSite
<1>11. Goes("harbor-flag", D)
  <2>1. b.at \notin ToSet(b.to)
    BY <1>5, ShortLists
  <2>2. QED
    BY <1>3, <1>5, <1>6, <1>7, <2>1, GoesSite
<1>12. \A q \in D : Fits(q, D)
  BY <1>6, <1>8, <1>9
<1>13. \A f \in ChannelsEnabled.present : Stays(f, D)
  BY <1>2
<1>14. \A f \in ChannelsEnabled.absent : Goes(f, D)
  BY <1>2, <1>10, <1>11
<1>15. ChannelsEnabled.moves \subseteq WrittenBy(ChannelsEnabled)
  BY <1>2
<1>16. QED
  BY <1>12, <1>13, <1>14, <1>15 DEF Serves, D

LEMMA InheritanceServes == Serves(DevChannelInheritance)
<1> DEFINE a == Patch("respawn-flags", <<"respawn-dev-flags">>)
           b == Patch("dispatch-array", <<"dispatch-dev-array">>)
           c == Patch("worker-parse", <<"worker-dev-parse">>)
           D == ToSet(DevChannelInheritance.patches)
<1>1. DevChannelInheritance.patches = <<a, b, c>>
  BY DEF DevChannelInheritance, PatchSet
<1>2. DevChannelInheritance.present = {"respawn-dev-flags", "dispatch-dev-array", "worker-dev-parse"} /\ DevChannelInheritance.absent = {"dev-channel-env"} /\ DevChannelInheritance.moves = {}
  BY DEF DevChannelInheritance, PatchSet
<1>3. \A q \in D : GoodPatch(q)
  BY InheritanceSet, PatchesGood
<1>4. a.at = "respawn-flags" /\ a.to = <<"respawn-dev-flags">> /\ a.needs = {} /\ a.required = TRUE
  BY DEF Patch
<1>5. b.at = "dispatch-array" /\ b.to = <<"dispatch-dev-array">> /\ b.needs = {} /\ b.required = TRUE
  BY DEF Patch
<1>6. c.at = "worker-parse" /\ c.to = <<"worker-dev-parse">> /\ c.needs = {} /\ c.required = TRUE
  BY DEF Patch
<1> HIDE DEF a, b, c
<1>7. D = {a, b, c}
  BY <1>1 DEF ToSet
<1> HIDE DEF D
<1>8. /\ Made("respawn-flags") = 0
      /\ Made("dispatch-array") = 0
      /\ Made("worker-parse") = 0
      /\ Turn("respawn-dev-flags") = 0
      /\ Turn("dispatch-dev-array") = 0
      /\ Turn("worker-dev-parse") = 0
      /\ Ordinary("dev-channel-env")
  BY DEF Turn, Made, Ordinary, Reserved, Boundaries, BootFragments, Boots, Prelude
<1>9. Fits(a, D)
  BY <1>4, <1>8, SitePatch
<1>10. Fits(b, D)
  BY <1>5, <1>8, SitePatch
<1>11. Fits(c, D)
  BY <1>6, <1>8, SitePatch
<1>12. Stays("respawn-dev-flags", D)
  <2>1. "respawn-dev-flags" \in Written(a)
    BY <1>4, ShortLists DEF Written
  <2>2. QED
    BY <1>3, <1>4, <1>7, <1>8, <2>1, StaysPlain
<1>13. Stays("dispatch-dev-array", D)
  <2>1. "dispatch-dev-array" \in Written(b)
    BY <1>5, ShortLists DEF Written
  <2>2. QED
    BY <1>3, <1>5, <1>7, <1>8, <2>1, StaysPlain
<1>14. Stays("worker-dev-parse", D)
  <2>1. "worker-dev-parse" \in Written(c)
    BY <1>6, ShortLists DEF Written
  <2>2. QED
    BY <1>3, <1>6, <1>7, <1>8, <2>1, StaysPlain
<1>15. Goes("dev-channel-env", D)
  BY <1>8, GoesNever
<1>16. \A q \in D : Fits(q, D)
  BY <1>7, <1>9, <1>10, <1>11
<1>17. \A f \in DevChannelInheritance.present : Stays(f, D)
  BY <1>2, <1>12, <1>13, <1>14
<1>18. \A f \in DevChannelInheritance.absent : Goes(f, D)
  BY <1>2, <1>15
<1>19. DevChannelInheritance.moves \subseteq WrittenBy(DevChannelInheritance)
  BY <1>2
<1>20. QED
  BY <1>16, <1>17, <1>18, <1>19 DEF Serves, D

LEMMA NativeAgentsServe == Serves(NativeAgents)
<1> DEFINE a == [Patch("native-launch", <<"native-launch">>) EXCEPT !.needs = {"native-forward"}]
           D == ToSet(NativeAgents.patches)
<1>1. NativeAgents.patches = <<a>>
  BY DEF NativeAgents, PatchSet
<1>2. NativeAgents.present = {} /\ NativeAgents.absent = {} /\ NativeAgents.moves = {}
  BY DEF NativeAgents, PatchSet
<1>3. \A q \in D : GoodPatch(q)
  BY NativeAgentsSet, PatchesGood
<1>4. a.at = "native-launch" /\ a.to = <<"native-launch">> /\ a.needs = {"native-forward"} /\ a.required = TRUE
  BY DEF Patch
<1> HIDE DEF a
<1>5. D = {a}
  BY <1>1 DEF ToSet
<1> HIDE DEF D
<1>6. /\ Made("native-launch") = 0
      /\ Ordinary("native-forward")
  BY DEF Turn, Made, Ordinary, Reserved, Boundaries, BootFragments, Boots, Prelude
<1>7. Fits(a, D)
  BY <1>4, <1>6, SitePatch
<1>8. \A q \in D : Fits(q, D)
  BY <1>5, <1>7
<1>9. \A f \in NativeAgents.present : Stays(f, D)
  BY <1>2
<1>10. \A f \in NativeAgents.absent : Goes(f, D)
  BY <1>2
<1>11. NativeAgents.moves \subseteq WrittenBy(NativeAgents)
  BY <1>2
<1>12. QED
  BY <1>8, <1>9, <1>10, <1>11 DEF Serves, D

LEMMA PatchedAgentsServe == ASSUME NEW v PROVE Serves(PatchedAgents(v))
<1> DEFINE a == [Patch("channels-serialized", <<>>) EXCEPT !.required = (v = NoVersion \/ v >= 187)]
           b == Patch("agents-launch", <<"dispatch-args", "dispatch-launch">>)
           c == [Patch("agents-config", <<"agents-config", "agents-helper">>) EXCEPT !.needs = {"agents-parser", "agents-serializer"}]
           d == Patch("legacy-mount", <<"legacy-options">>)
           more == IF Below(v, 195) THEN <<d>> ELSE <<>>
           D == ToSet(PatchedAgents(v).patches)
<1>1. PatchedAgents(v).patches = <<a, b, c>> \o more
  BY DEF PatchedAgents, PatchSet
<1>2. PatchedAgents(v).present = {"dispatch-args"} /\ PatchedAgents(v).absent = {} /\ PatchedAgents(v).moves = {"agents-helper"}
  BY DEF PatchedAgents, PatchSet
<1>3. \A q \in D : GoodPatch(q)
  BY PatchedAgentsSet, PatchesGood
<1>4. a.at = "channels-serialized" /\ a.to = <<>> /\ a.needs = {}
  BY DEF Patch
<1>5. b.at = "agents-launch" /\ b.to = <<"dispatch-args", "dispatch-launch">> /\ b.needs = {} /\ b.required = TRUE
  BY DEF Patch
<1>6. c.at = "agents-config" /\ c.to = <<"agents-config", "agents-helper">> /\ c.needs = {"agents-parser", "agents-serializer"} /\ c.required = TRUE
  BY DEF Patch
<1>7. d.at = "legacy-mount" /\ d.to = <<"legacy-options">> /\ d.needs = {} /\ d.required = TRUE
  BY DEF Patch
<1> HIDE DEF a, b, c, d
<1>8. ToSet(more) \subseteq {d} /\ IsSequence(more)
  BY ShortLists, OneEntry, NoEntry
<1> HIDE DEF more
<1>9. D \subseteq {a, b, c, d} /\ {a, b, c} \subseteq D
  <2>1. IsSequence(<<a, b, c>>) /\ ToSet(<<a, b, c>>) = {a, b, c}
    BY DEF IsSequence, ToSet
  <2>2. ToSet(<<a, b, c>> \o more) = ToSet(<<a, b, c>>) \cup ToSet(more)
    BY <1>8, <2>1, ToSetJoined
  <2>3. QED
    BY <1>1, <1>8, <2>1, <2>2
<1> HIDE DEF D
<1>10. /\ Made("channels-serialized") = 0
      /\ Made("agents-launch") = 0
      /\ Made("agents-config") = 0
      /\ Made("legacy-mount") = 0
      /\ Ordinary("agents-parser")
      /\ Ordinary("agents-serializer")
      /\ Turn("dispatch-args") = 0
  BY DEF Turn, Made, Ordinary, Reserved, Boundaries, BootFragments, Boots, Prelude
<1>11. Fits(a, D)
  BY <1>4, <1>10, SitePatch
<1>12. Fits(b, D)
  BY <1>5, <1>10, SitePatch
<1>13. Fits(c, D)
  BY <1>6, <1>10, SitePatch
<1>14. Fits(d, D)
  BY <1>7, <1>10, SitePatch
<1>15. Stays("dispatch-args", D)
  <2>1. "dispatch-args" \in Written(b)
    BY <1>5, ShortLists DEF Written
  <2>2. QED
    BY <1>3, <1>5, <1>9, <1>10, <2>1, StaysPlain
<1>16. "agents-helper" \in WrittenBy(PatchedAgents(v))
  <2>1. "agents-helper" \in Written(c)
    BY <1>6, ShortLists DEF Written
  <2>2. Written(c) \subseteq WrittenBy(PatchedAgents(v))
    <3>1. c \in ToSet(PatchedAgents(v).patches)
      BY <1>9 DEF D
    <3>2. QED
      BY <3>1, WritesAre
  <2>3. QED
    BY <2>1, <2>2
<1>17. \A q \in D : Fits(q, D)
  BY <1>9, <1>11, <1>12, <1>13, <1>14
<1>18. \A f \in PatchedAgents(v).present : Stays(f, D)
  BY <1>2, <1>15
<1>19. \A f \in PatchedAgents(v).absent : Goes(f, D)
  BY <1>2
<1>20. PatchedAgents(v).moves \subseteq WrittenBy(PatchedAgents(v))
  BY <1>2, <1>16
<1>21. QED
  BY <1>17, <1>18, <1>19, <1>20 DEF Serves, D

LEMMA SdkServes == Serves(MultiProviderSDK)
<1> DEFINE a == Patch("model-costs", <<"provider-costs">>)
           b == Patch("sdk-tail", <<"sdk-captured", "sdk-helper">>)
           c == Patch("requests", <<"requests-routed">>)
           d == [Patch("agent-model", <<"agent-catalogue">>) EXCEPT !.needs = {"agent-names"}]
           e == Patch("account-storage", <<"accounts-installed">>)
           f == Patch("message-threads", <<"threads-native-only">>)
           D == ToSet(MultiProviderSDK.patches)
<1>1. MultiProviderSDK.patches = <<a, b, c, d, e, f>>
  BY DEF MultiProviderSDK, PatchSet
<1>2. MultiProviderSDK.present = {"sdk-captured", "agent-catalogue"} /\ MultiProviderSDK.absent = {} /\ MultiProviderSDK.moves = {"sdk-helper"}
  BY DEF MultiProviderSDK, PatchSet
<1>3. \A q \in D : GoodPatch(q)
  BY SdkSet, PatchesGood
<1>4. a.at = "model-costs" /\ a.to = <<"provider-costs">> /\ a.needs = {} /\ a.required = TRUE
  BY DEF Patch
<1>5. b.at = "sdk-tail" /\ b.to = <<"sdk-captured", "sdk-helper">> /\ b.needs = {} /\ b.required = TRUE
  BY DEF Patch
<1>6. c.at = "requests" /\ c.to = <<"requests-routed">> /\ c.needs = {} /\ c.required = TRUE
  BY DEF Patch
<1>7. d.at = "agent-model" /\ d.to = <<"agent-catalogue">> /\ d.needs = {"agent-names"} /\ d.required = TRUE
  BY DEF Patch
<1>8. e.at = "account-storage" /\ e.to = <<"accounts-installed">> /\ e.needs = {} /\ e.required = TRUE
  BY DEF Patch
<1>9. f.at = "message-threads" /\ f.to = <<"threads-native-only">> /\ f.needs = {} /\ f.required = TRUE
  BY DEF Patch
<1> HIDE DEF a, b, c, d, e, f
<1>10. D = {a, b, c, d, e, f}
  BY <1>1 DEF ToSet
<1> HIDE DEF D
<1>11. /\ Made("model-costs") = 0
      /\ Made("sdk-tail") = 0
      /\ Made("requests") = 0
      /\ Made("agent-model") = 0
      /\ Made("account-storage") = 0
      /\ Made("message-threads") = 0
      /\ Ordinary("agent-names")
      /\ Turn("sdk-captured") = 0
      /\ Turn("agent-catalogue") = 0
  BY DEF Turn, Made, Ordinary, Reserved, Boundaries, BootFragments, Boots, Prelude
<1>12. Fits(a, D)
  BY <1>4, <1>11, SitePatch
<1>13. Fits(b, D)
  BY <1>5, <1>11, SitePatch
<1>14. Fits(c, D)
  BY <1>6, <1>11, SitePatch
<1>15. Fits(d, D)
  BY <1>7, <1>11, SitePatch
<1>16. Fits(e, D)
  BY <1>8, <1>11, SitePatch
<1>17. Fits(f, D)
  BY <1>9, <1>11, SitePatch
<1>18. Stays("sdk-captured", D)
  <2>1. "sdk-captured" \in Written(b)
    BY <1>5, ShortLists DEF Written
  <2>2. QED
    BY <1>3, <1>5, <1>10, <1>11, <2>1, StaysPlain
<1>19. Stays("agent-catalogue", D)
  <2>1. "agent-catalogue" \in Written(d)
    BY <1>7, ShortLists DEF Written
  <2>2. QED
    BY <1>3, <1>7, <1>10, <1>11, <2>1, StaysPlain
<1>20. "sdk-helper" \in WrittenBy(MultiProviderSDK)
  <2>1. "sdk-helper" \in Written(b)
    BY <1>5, ShortLists DEF Written
  <2>2. Written(b) \subseteq WrittenBy(MultiProviderSDK)
    <3>1. b \in ToSet(MultiProviderSDK.patches)
      BY <1>10 DEF D
    <3>2. QED
      BY <3>1, WritesAre
  <2>3. QED
    BY <2>1, <2>2
<1>21. \A q \in D : Fits(q, D)
  BY <1>10, <1>12, <1>13, <1>14, <1>15, <1>16, <1>17
<1>22. \A g \in MultiProviderSDK.present : Stays(g, D)
  BY <1>2, <1>18, <1>19
<1>23. \A g \in MultiProviderSDK.absent : Goes(g, D)
  BY <1>2
<1>24. MultiProviderSDK.moves \subseteq WrittenBy(MultiProviderSDK)
  BY <1>2, <1>20
<1>25. QED
  BY <1>21, <1>22, <1>23, <1>24 DEF Serves, D

LEMMA SyntaxServes == Serves(CatppuccinSyntax)
<1> DEFINE a == Patch("syntax-map", <<"syntax-macchiato">>)
           D == ToSet(CatppuccinSyntax.patches)
<1>1. CatppuccinSyntax.patches = <<a>>
  BY DEF CatppuccinSyntax, PatchSet
<1>2. CatppuccinSyntax.present = {"syntax-macchiato"} /\ CatppuccinSyntax.absent = {} /\ CatppuccinSyntax.moves = {}
  BY DEF CatppuccinSyntax, PatchSet
<1>3. \A q \in D : GoodPatch(q)
  BY SyntaxSet, PatchesGood
<1>4. a.at = "syntax-map" /\ a.to = <<"syntax-macchiato">> /\ a.needs = {} /\ a.required = TRUE
  BY DEF Patch
<1> HIDE DEF a
<1>5. D = {a}
  BY <1>1 DEF ToSet
<1> HIDE DEF D
<1>6. /\ Made("syntax-map") = 0
      /\ Turn("syntax-macchiato") = 0
  BY DEF Turn, Made, Ordinary, Reserved, Boundaries, BootFragments, Boots, Prelude
<1>7. Fits(a, D)
  BY <1>4, <1>6, SitePatch
<1>8. Stays("syntax-macchiato", D)
  <2>1. "syntax-macchiato" \in Written(a)
    BY <1>4, ShortLists DEF Written
  <2>2. QED
    BY <1>3, <1>4, <1>5, <1>6, <2>1, StaysPlain
<1>9. \A q \in D : Fits(q, D)
  BY <1>5, <1>7
<1>10. \A f \in CatppuccinSyntax.present : Stays(f, D)
  BY <1>2, <1>8
<1>11. \A f \in CatppuccinSyntax.absent : Goes(f, D)
  BY <1>2
<1>12. CatppuccinSyntax.moves \subseteq WrittenBy(CatppuccinSyntax)
  BY <1>2
<1>13. QED
  BY <1>9, <1>10, <1>11, <1>12 DEF Serves, D

LEMMA SummariesServe == Serves(Summaries)
<1> DEFINE a == Patch("summary-gate", <<"summary-ungated">>)
           D == ToSet(Summaries.patches)
<1>1. Summaries.patches = <<a>>
  BY DEF Summaries, PatchSet
<1>2. Summaries.present = {"summary-ungated"} /\ Summaries.absent = {"summary-gate"} /\ Summaries.moves = {}
  BY DEF Summaries, PatchSet
<1>3. \A q \in D : GoodPatch(q)
  BY SummariesSet, PatchesGood
<1>4. a.at = "summary-gate" /\ a.to = <<"summary-ungated">> /\ a.needs = {} /\ a.required = TRUE
  BY DEF Patch
<1> HIDE DEF a
<1>5. D = {a}
  BY <1>1 DEF ToSet
<1> HIDE DEF D
<1>6. /\ Made("summary-gate") = 0
      /\ Turn("summary-ungated") = 0
  BY DEF Turn, Made, Ordinary, Reserved, Boundaries, BootFragments, Boots, Prelude
<1>7. Fits(a, D)
  BY <1>4, <1>6, SitePatch
<1>8. Stays("summary-ungated", D)
  <2>1. "summary-ungated" \in Written(a)
    BY <1>4, ShortLists DEF Written
  <2>2. QED
    BY <1>3, <1>4, <1>5, <1>6, <2>1, StaysPlain
<1>9. Goes("summary-gate", D)
  <2>1. a.at \notin ToSet(a.to)
    BY <1>4, ShortLists
  <2>2. QED
    BY <1>3, <1>4, <1>5, <1>6, <2>1, GoesSite
<1>10. \A q \in D : Fits(q, D)
  BY <1>5, <1>7
<1>11. \A f \in Summaries.present : Stays(f, D)
  BY <1>2, <1>8
<1>12. \A f \in Summaries.absent : Goes(f, D)
  BY <1>2, <1>9
<1>13. Summaries.moves \subseteq WrittenBy(Summaries)
  BY <1>2
<1>14. QED
  BY <1>10, <1>11, <1>12, <1>13 DEF Serves, D

LEMMA Summaries198Serve == Serves(Summaries198)
<1> DEFINE a == Patch("display-helper", <<"setting-first">>)
           b == [Patch("subagent-filter", <<"subagent-kept">>) EXCEPT !.needs = {"show-summaries"}]
           D == ToSet(Summaries198.patches)
<1>1. Summaries198.patches = <<a, b>>
  BY DEF Summaries198, PatchSet
<1>2. Summaries198.present = {"setting-first"} /\ Summaries198.absent = {} /\ Summaries198.moves = {}
  BY DEF Summaries198, PatchSet
<1>3. \A q \in D : GoodPatch(q)
  BY Summaries198Set, PatchesGood
<1>4. a.at = "display-helper" /\ a.to = <<"setting-first">> /\ a.needs = {} /\ a.required = TRUE
  BY DEF Patch
<1>5. b.at = "subagent-filter" /\ b.to = <<"subagent-kept">> /\ b.needs = {"show-summaries"} /\ b.required = TRUE
  BY DEF Patch
<1> HIDE DEF a, b
<1>6. D = {a, b}
  BY <1>1 DEF ToSet
<1> HIDE DEF D
<1>7. /\ Made("display-helper") = 0
      /\ Made("subagent-filter") = 0
      /\ Ordinary("show-summaries")
      /\ Turn("setting-first") = 0
  BY DEF Turn, Made, Ordinary, Reserved, Boundaries, BootFragments, Boots, Prelude
<1>8. Fits(a, D)
  BY <1>4, <1>7, SitePatch
<1>9. Fits(b, D)
  BY <1>5, <1>7, SitePatch
<1>10. Stays("setting-first", D)
  <2>1. "setting-first" \in Written(a)
    BY <1>4, ShortLists DEF Written
  <2>2. QED
    BY <1>3, <1>4, <1>6, <1>7, <2>1, StaysPlain
<1>11. \A q \in D : Fits(q, D)
  BY <1>6, <1>8, <1>9
<1>12. \A f \in Summaries198.present : Stays(f, D)
  BY <1>2, <1>10
<1>13. \A f \in Summaries198.absent : Goes(f, D)
  BY <1>2
<1>14. Summaries198.moves \subseteq WrittenBy(Summaries198)
  BY <1>2
<1>15. QED
  BY <1>11, <1>12, <1>13, <1>14 DEF Serves, D

LEMMA CompactServes == Serves(CompactSession)
<1> DEFINE a == Patch("todo-tool", <<"compact-tool">>)
           b == Patch("tool-registry", <<"compact-listed">>)
           c == Patch("compact-guard", <<"compact-flag">>)
           D == ToSet(CompactSession.patches)
<1>1. CompactSession.patches = <<a, b, c>>
  BY DEF CompactSession, PatchSet
<1>2. CompactSession.present = {"compact-tool", "compact-listed", "compact-flag"} /\ CompactSession.absent = {"todo-tool", "tool-registry"} /\ CompactSession.moves = {}
  BY DEF CompactSession, PatchSet
<1>3. \A q \in D : GoodPatch(q)
  BY CompactSet, PatchesGood
<1>4. a.at = "todo-tool" /\ a.to = <<"compact-tool">> /\ a.needs = {} /\ a.required = TRUE
  BY DEF Patch
<1>5. b.at = "tool-registry" /\ b.to = <<"compact-listed">> /\ b.needs = {} /\ b.required = TRUE
  BY DEF Patch
<1>6. c.at = "compact-guard" /\ c.to = <<"compact-flag">> /\ c.needs = {} /\ c.required = TRUE
  BY DEF Patch
<1> HIDE DEF a, b, c
<1>7. D = {a, b, c}
  BY <1>1 DEF ToSet
<1> HIDE DEF D
<1>8. /\ Made("todo-tool") = 0
      /\ Made("tool-registry") = 0
      /\ Made("compact-guard") = 0
      /\ Turn("compact-tool") = 0
      /\ Turn("compact-listed") = 0
      /\ Turn("compact-flag") = 0
  BY DEF Turn, Made, Ordinary, Reserved, Boundaries, BootFragments, Boots, Prelude
<1>9. Fits(a, D)
  BY <1>4, <1>8, SitePatch
<1>10. Fits(b, D)
  BY <1>5, <1>8, SitePatch
<1>11. Fits(c, D)
  BY <1>6, <1>8, SitePatch
<1>12. Stays("compact-tool", D)
  <2>1. "compact-tool" \in Written(a)
    BY <1>4, ShortLists DEF Written
  <2>2. QED
    BY <1>3, <1>4, <1>7, <1>8, <2>1, StaysPlain
<1>13. Stays("compact-listed", D)
  <2>1. "compact-listed" \in Written(b)
    BY <1>5, ShortLists DEF Written
  <2>2. QED
    BY <1>3, <1>5, <1>7, <1>8, <2>1, StaysPlain
<1>14. Stays("compact-flag", D)
  <2>1. "compact-flag" \in Written(c)
    BY <1>6, ShortLists DEF Written
  <2>2. QED
    BY <1>3, <1>6, <1>7, <1>8, <2>1, StaysPlain
<1>15. Goes("todo-tool", D)
  <2>1. a.at \notin ToSet(a.to)
    BY <1>4, ShortLists
  <2>2. QED
    BY <1>3, <1>4, <1>7, <1>8, <2>1, GoesSite
<1>16. Goes("tool-registry", D)
  <2>1. b.at \notin ToSet(b.to)
    BY <1>5, ShortLists
  <2>2. QED
    BY <1>3, <1>5, <1>7, <1>8, <2>1, GoesSite
<1>17. \A q \in D : Fits(q, D)
  BY <1>7, <1>9, <1>10, <1>11
<1>18. \A f \in CompactSession.present : Stays(f, D)
  BY <1>2, <1>12, <1>13, <1>14
<1>19. \A f \in CompactSession.absent : Goes(f, D)
  BY <1>2, <1>15, <1>16
<1>20. CompactSession.moves \subseteq WrittenBy(CompactSession)
  BY <1>2
<1>21. QED
  BY <1>17, <1>18, <1>19, <1>20 DEF Serves, D

LEMMA StreamingServes == Serves(StreamingThinking)
<1> DEFINE a == Patch("stream-events", <<"thinking-accumulated">>)
           b == [Patch("stream-view", <<"thinking-preview">>) EXCEPT !.needs = {"expanded-render", "is-loading", "deferred"}]
           c == [Patch("turn-reset", <<"preview-reset">>) EXCEPT !.counts = {2}]
           d == Patch("stream-provider", <<"preview-mounted">>)
           D == ToSet(StreamingThinking.patches)
<1>1. StreamingThinking.patches = <<a, b, c, d>>
  BY DEF StreamingThinking, PatchSet
<1>2. StreamingThinking.present = {"thinking-preview"} /\ StreamingThinking.absent = {} /\ StreamingThinking.moves = {}
  BY DEF StreamingThinking, PatchSet
<1>3. \A q \in D : GoodPatch(q)
  BY StreamingSet, PatchesGood
<1>4. a.at = "stream-events" /\ a.to = <<"thinking-accumulated">> /\ a.needs = {} /\ a.required = TRUE
  BY DEF Patch
<1>5. b.at = "stream-view" /\ b.to = <<"thinking-preview">> /\ b.needs = {"expanded-render", "is-loading", "deferred"} /\ b.required = TRUE
  BY DEF Patch
<1>6. c.at = "turn-reset" /\ c.to = <<"preview-reset">> /\ c.needs = {} /\ c.required = TRUE
  BY DEF Patch
<1>7. d.at = "stream-provider" /\ d.to = <<"preview-mounted">> /\ d.needs = {} /\ d.required = TRUE
  BY DEF Patch
<1> HIDE DEF a, b, c, d
<1>8. D = {a, b, c, d}
  BY <1>1 DEF ToSet
<1> HIDE DEF D
<1>9. /\ Made("stream-events") = 0
      /\ Made("stream-view") = 0
      /\ Made("turn-reset") = 0
      /\ Made("stream-provider") = 0
      /\ Ordinary("is-loading")
      /\ Ordinary("deferred")
      /\ Turn("thinking-preview") = 0
      /\ 39 < Turn("stream-view")
  BY DEF Turn, Made, Ordinary, Reserved, Boundaries, BootFragments, Boots, Prelude
<1>10. Fits(a, D)
  BY <1>4, <1>9, SitePatch
<1>11. Fits(b, D)
  BY <1>5, <1>9 DEF Fits
<1>12. Fits(c, D)
  BY <1>6, <1>9, SitePatch
<1>13. Fits(d, D)
  BY <1>7, <1>9, SitePatch
<1>14. Stays("thinking-preview", D)
  <2>1. "thinking-preview" \in Written(b)
    BY <1>5, ShortLists DEF Written
  <2>2. QED
    BY <1>3, <1>5, <1>8, <1>9, <2>1, StaysPlain
<1>15. \A q \in D : Fits(q, D)
  BY <1>8, <1>10, <1>11, <1>12, <1>13
<1>16. \A f \in StreamingThinking.present : Stays(f, D)
  BY <1>2, <1>14
<1>17. \A f \in StreamingThinking.absent : Goes(f, D)
  BY <1>2
<1>18. StreamingThinking.moves \subseteq WrittenBy(StreamingThinking)
  BY <1>2
<1>19. QED
  BY <1>15, <1>16, <1>17, <1>18 DEF Serves, D

LEMMA SessionServes == Serves(ModelSessionOnly)
<1> DEFINE a == Patch("model-save", <<"model-not-saved">>)
           b == Patch("picker-default", <<"picker-session">>)
           D == ToSet(ModelSessionOnly.patches)
<1>1. ModelSessionOnly.patches = <<a, b>>
  BY DEF ModelSessionOnly, PatchSet
<1>2. ModelSessionOnly.present = {"picker-session"} /\ ModelSessionOnly.absent = {} /\ ModelSessionOnly.moves = {}
  BY DEF ModelSessionOnly, PatchSet
<1>3. \A q \in D : GoodPatch(q)
  BY SessionSet, PatchesGood
<1>4. a.at = "model-save" /\ a.to = <<"model-not-saved">> /\ a.needs = {} /\ a.required = TRUE
  BY DEF Patch
<1>5. b.at = "picker-default" /\ b.to = <<"picker-session">> /\ b.needs = {} /\ b.required = TRUE
  BY DEF Patch
<1> HIDE DEF a, b
<1>6. D = {a, b}
  BY <1>1 DEF ToSet
<1> HIDE DEF D
<1>7. /\ Made("model-save") = 0
      /\ Made("picker-default") = 0
      /\ Turn("picker-session") = 0
  BY DEF Turn, Made, Ordinary, Reserved, Boundaries, BootFragments, Boots, Prelude
<1>8. Fits(a, D)
  BY <1>4, <1>7, SitePatch
<1>9. Fits(b, D)
  BY <1>5, <1>7, SitePatch
<1>10. Stays("picker-session", D)
  <2>1. "picker-session" \in Written(b)
    BY <1>5, ShortLists DEF Written
  <2>2. QED
    BY <1>3, <1>5, <1>6, <1>7, <2>1, StaysPlain
<1>11. \A q \in D : Fits(q, D)
  BY <1>6, <1>8, <1>9
<1>12. \A f \in ModelSessionOnly.present : Stays(f, D)
  BY <1>2, <1>10
<1>13. \A f \in ModelSessionOnly.absent : Goes(f, D)
  BY <1>2
<1>14. ModelSessionOnly.moves \subseteq WrittenBy(ModelSessionOnly)
  BY <1>2
<1>15. QED
  BY <1>11, <1>12, <1>13, <1>14 DEF Serves, D

LEMMA RetractionServes == Serves(RetractionArchive)
<1> DEFINE a == Patch("message-removal", <<"removal-archived">>)
           D == ToSet(RetractionArchive.patches)
<1>1. RetractionArchive.patches = <<a>>
  BY DEF RetractionArchive, PatchSet
<1>2. RetractionArchive.present = {} /\ RetractionArchive.absent = {} /\ RetractionArchive.moves = {}
  BY DEF RetractionArchive, PatchSet
<1>3. \A q \in D : GoodPatch(q)
  BY RetractionSet, PatchesGood
<1>4. a.at = "message-removal" /\ a.to = <<"removal-archived">> /\ a.needs = {} /\ a.required = TRUE
  BY DEF Patch
<1> HIDE DEF a
<1>5. D = {a}
  BY <1>1 DEF ToSet
<1> HIDE DEF D
<1>6. /\ Made("message-removal") = 0
  BY DEF Turn, Made, Ordinary, Reserved, Boundaries, BootFragments, Boots, Prelude
<1>7. Fits(a, D)
  BY <1>4, <1>6, SitePatch
<1>8. \A q \in D : Fits(q, D)
  BY <1>5, <1>7
<1>9. \A f \in RetractionArchive.present : Stays(f, D)
  BY <1>2
<1>10. \A f \in RetractionArchive.absent : Goes(f, D)
  BY <1>2
<1>11. RetractionArchive.moves \subseteq WrittenBy(RetractionArchive)
  BY <1>2
<1>12. QED
  BY <1>8, <1>9, <1>10, <1>11 DEF Serves, D

LEMMA FallbackServes == Serves(AutoModeLocalFallback)
<1> DEFINE a == Patch("arbiter", <<"arbiter-fallback">>)
           D == ToSet(AutoModeLocalFallback.patches)
<1>1. AutoModeLocalFallback.patches = <<a>>
  BY DEF AutoModeLocalFallback, PatchSet
<1>2. AutoModeLocalFallback.present = {"arbiter-fallback"} /\ AutoModeLocalFallback.absent = {} /\ AutoModeLocalFallback.moves = {}
  BY DEF AutoModeLocalFallback, PatchSet
<1>3. \A q \in D : GoodPatch(q)
  BY FallbackSet, PatchesGood
<1>4. a.at = "arbiter" /\ a.to = <<"arbiter-fallback">> /\ a.needs = {} /\ a.required = TRUE
  BY DEF Patch
<1> HIDE DEF a
<1>5. D = {a}
  BY <1>1 DEF ToSet
<1> HIDE DEF D
<1>6. /\ Made("arbiter") = 0
      /\ Turn("arbiter-fallback") = 0
  BY DEF Turn, Made, Ordinary, Reserved, Boundaries, BootFragments, Boots, Prelude
<1>7. Fits(a, D)
  BY <1>4, <1>6, SitePatch
<1>8. Stays("arbiter-fallback", D)
  <2>1. "arbiter-fallback" \in Written(a)
    BY <1>4, ShortLists DEF Written
  <2>2. QED
    BY <1>3, <1>4, <1>5, <1>6, <2>1, StaysPlain
<1>9. \A q \in D : Fits(q, D)
  BY <1>5, <1>7
<1>10. \A f \in AutoModeLocalFallback.present : Stays(f, D)
  BY <1>2, <1>8
<1>11. \A f \in AutoModeLocalFallback.absent : Goes(f, D)
  BY <1>2
<1>12. AutoModeLocalFallback.moves \subseteq WrittenBy(AutoModeLocalFallback)
  BY <1>2
<1>13. QED
  BY <1>9, <1>10, <1>11, <1>12 DEF Serves, D

LEMMA ThresholdServes == Serves(LowMemoryThreshold)
<1> DEFINE a == Patch("low-memory", <<"low-memory-env">>)
           D == ToSet(LowMemoryThreshold.patches)
<1>1. LowMemoryThreshold.patches = <<a>>
  BY DEF LowMemoryThreshold, PatchSet
<1>2. LowMemoryThreshold.present = {"low-memory-env"} /\ LowMemoryThreshold.absent = {"low-memory"} /\ LowMemoryThreshold.moves = {}
  BY DEF LowMemoryThreshold, PatchSet
<1>3. \A q \in D : GoodPatch(q)
  BY ThresholdSet, PatchesGood
<1>4. a.at = "low-memory" /\ a.to = <<"low-memory-env">> /\ a.needs = {} /\ a.required = TRUE
  BY DEF Patch
<1> HIDE DEF a
<1>5. D = {a}
  BY <1>1 DEF ToSet
<1> HIDE DEF D
<1>6. /\ Made("low-memory") = 0
      /\ Turn("low-memory-env") = 0
  BY DEF Turn, Made, Ordinary, Reserved, Boundaries, BootFragments, Boots, Prelude
<1>7. Fits(a, D)
  BY <1>4, <1>6, SitePatch
<1>8. Stays("low-memory-env", D)
  <2>1. "low-memory-env" \in Written(a)
    BY <1>4, ShortLists DEF Written
  <2>2. QED
    BY <1>3, <1>4, <1>5, <1>6, <2>1, StaysPlain
<1>9. Goes("low-memory", D)
  <2>1. a.at \notin ToSet(a.to)
    BY <1>4, ShortLists
  <2>2. QED
    BY <1>3, <1>4, <1>5, <1>6, <2>1, GoesSite
<1>10. \A q \in D : Fits(q, D)
  BY <1>5, <1>7
<1>11. \A f \in LowMemoryThreshold.present : Stays(f, D)
  BY <1>2, <1>8
<1>12. \A f \in LowMemoryThreshold.absent : Goes(f, D)
  BY <1>2, <1>9
<1>13. LowMemoryThreshold.moves \subseteq WrittenBy(LowMemoryThreshold)
  BY <1>2
<1>14. QED
  BY <1>10, <1>11, <1>12, <1>13 DEF Serves, D

\* The provider environment: some of its patches work on what its own earlier ones
\* write, and two rest on the snapshot as the first one rewrote it.
Snapshot == [Patch("provider-snapshot", <<"patched-snapshot", "provider-capture">>)
               EXCEPT !.needs = {"provider-groups"}]
WorkerClass == Patch("worker-class", <<"provider-field", "class-with-field">>)
WorkerEnv == Patch("worker-env", <<"worker-scrubbed", "worker-tail">>)
Claimed == Patch("claimed-entry", <<"claimed-provider", "claimed-apply-final">>)
Writers == {Snapshot, WorkerClass, WorkerEnv, Claimed}

FitsBackground(q) ==
  /\ \A E : Writers \subseteq E /\ ~Taken(E, "patched-snapshot") => Fits(q, E)
  /\ q.at = "provider-capture" => q.at \in ToSet(q.to)

LEMMA SiteBackground ==
  ASSUME NEW q, \A id \in q.needs : Ordinary(id), Made(q.at) = 0, q.at # "provider-capture"
  PROVE  FitsBackground(q)
BY SitePatch DEF FitsBackground

LEMMA MadeBackground ==
  ASSUME NEW q, q.needs = {}, q.also = {}, q.counts = {1},
         \E p \in Writers : q.at \in Written(p),
         q.at = "provider-capture" => q.at \in ToSet(q.to)
  PROVE  FitsBackground(q)
<1>1. \A p \in Writers : p.required /\ p.counts = {1}
  BY DEF Writers, Snapshot, WorkerClass, WorkerEnv, Claimed, Patch
<1>2. PICK p \in Writers : q.at \in Written(p)
  OBVIOUS
<1>3. p.required /\ p.counts = {1}
  BY <1>1, <1>2
<1> HIDE DEF Writers
<1>4. ASSUME NEW E, Writers \subseteq E PROVE Fits(q, E)
  <2>1. p \in E
    BY <1>4, <1>2
  <2>2. QED
    BY <1>2, <1>3, <2>1 DEF Fits
<1>5. QED
  BY <1>4 DEF FitsBackground

\* What they write.
LEMMA FirstWrites ==
  /\ "patched-snapshot" \in Written(Snapshot) /\ "provider-capture" \in Written(Snapshot)
  /\ "class-with-field" \in Written(WorkerClass) /\ "worker-tail" \in Written(WorkerEnv)
  /\ "claimed-apply-final" \in Written(Claimed)
  /\ Snapshot.required /\ Snapshot.counts = {1} /\ Turn(Snapshot.at) = 101
<1>1. /\ Snapshot.at = "provider-snapshot"
      /\ Snapshot.to = <<"patched-snapshot", "provider-capture">>
  BY DEF Snapshot, Patch
<1>2. /\ WorkerClass.at = "worker-class"
      /\ WorkerClass.to = <<"provider-field", "class-with-field">>
  BY DEF WorkerClass, Patch
<1>3. WorkerEnv.at = "worker-env" /\ WorkerEnv.to = <<"worker-scrubbed", "worker-tail">>
  BY DEF WorkerEnv, Patch
<1>4. Claimed.at = "claimed-entry" /\ Claimed.to = <<"claimed-provider", "claimed-apply-final">>
  BY DEF Claimed, Patch
<1>5. Snapshot.required /\ Snapshot.counts = {1}
  BY DEF Snapshot, Patch
<1>6. Turn("provider-snapshot") = 101
  BY DEF Turn
<1>7. QED
  BY <1>1, <1>2, <1>3, <1>4, <1>5, <1>6, ShortLists DEF Written

\* A patch that calls the snapshot comes after the one that rewrote it.
LEMMA CallerFits ==
  ASSUME NEW q, q.needs = {"patched-snapshot"}, 101 < Turn(q.at),
         Made(q.at) = 0 \/ (q.at = "dispatch-launch" /\ q.also # {}),
         q.at # "provider-capture"
  PROVE  FitsBackground(q)
<1>1. Snapshot \in Writers
  BY DEF Writers
<1> HIDE DEF Writers
<1>2. ASSUME NEW E, Writers \subseteq E, ~Taken(E, "patched-snapshot") PROVE Fits(q, E)
  <2>1. Snapshot \in E
    BY <1>1, <1>2
  <2>2. \A id \in q.needs :
          ~Taken(E, id) /\ \E p \in E : /\ p.required /\ p.counts = {1} /\ id \in Written(p)
                                        /\ Turn(p.at) < Turn(q.at)
    BY <1>2, <2>1, FirstWrites
  <2>3. QED
    BY <2>2 DEF Fits
<1>3. QED
  BY <1>2 DEF FitsBackground

\* The sites that the release has.
LEMMA BackgroundSites ==
  /\ \A w \in {"provider-snapshot", "persisted-env", "respawn-guard", "host-provider",
               "provider-socket", "provider-ack", "provider-control", "worker-class",
               "worker-env", "claimed-entry", "settings-restores", "agents-settings",
               "native-settings", "settings-filter"} : Made(w) = 0 /\ w # "provider-capture"
  /\ 101 < Turn("provider-socket") /\ 101 < Turn("dispatch-launch")
  /\ Ordinary("provider-groups")
BY DEF Made, Turn, Ordinary, Reserved, Boundaries, BootFragments, Boots, Prelude

LEMMA GuardsFit == FitsBackground(RespawnGuard) /\ FitsBackground(HostGuard)
<1>1. RespawnGuard.at = "respawn-guard" /\ RespawnGuard.needs = {}
  BY DEF RespawnGuard, Patch
<1>2. HostGuard.at = "host-provider" /\ HostGuard.needs = {}
  BY DEF HostGuard, Patch
<1>3. FitsBackground(RespawnGuard)
  BY <1>1, SiteBackground, BackgroundSites
<1>4. FitsBackground(HostGuard)
  BY <1>2, SiteBackground, BackgroundSites
<1>5. QED
  BY <1>3, <1>4

LEMMA FallbackFits == FitsBackground(AgentsFallback)
<1>1. /\ AgentsFallback.at = "dispatch-launch" /\ AgentsFallback.needs = {"patched-snapshot"}
      /\ AgentsFallback.also # {}
  BY DEF AgentsFallback, Patch
<1>2. QED
  BY <1>1, CallerFits, BackgroundSites

\* What its first patches leave is there at the end.
DispatchMarks == {"patched-snapshot", "state-without-env", "socket-provider-env",
                  "versioned-ack", "control-checked"}

LEMMA DispatchingFits ==
  ASSUME NEW guard, FitsBackground(guard)
  PROVE  LET D == ToSet(Dispatching(guard))
         IN /\ \A q \in D : FitsBackground(q)
            /\ Snapshot \in D /\ guard \in D
            /\ \A f \in DispatchMarks : \E p \in D : p.required /\ f \in Written(p)
            /\ \E p \in D : p.at = "persisted-env" /\ p.to = <<"state-without-env">>
<1> DEFINE a == Snapshot
           b == Patch("persisted-env", <<"state-without-env">>)
           c == [Patch("provider-socket", <<"socket-provider-env">>)
                   EXCEPT !.counts = {2}, !.needs = {"patched-snapshot"}]
           d == [Patch("provider-ack", <<"versioned-ack">>) EXCEPT !.counts = {2}]
           e == Patch("provider-control", <<"control-checked">>)
           D == ToSet(Dispatching(guard))
<1>1. Dispatching(guard) = <<a, b, guard, c, d, e>>
  BY DEF Dispatching, Snapshot
<1>2. a.at = "provider-snapshot" /\ a.needs = {"provider-groups"}
  BY DEF Snapshot, Patch
<1>3. b.at = "persisted-env" /\ b.to = <<"state-without-env">> /\ b.needs = {} /\ b.required = TRUE
  BY DEF Patch
<1>4. /\ c.at = "provider-socket" /\ c.to = <<"socket-provider-env">>
      /\ c.needs = {"patched-snapshot"} /\ c.required = TRUE
  BY DEF Patch
<1>5. d.at = "provider-ack" /\ d.to = <<"versioned-ack">> /\ d.needs = {} /\ d.required = TRUE
  BY DEF Patch
<1>6. e.at = "provider-control" /\ e.to = <<"control-checked">> /\ e.needs = {} /\ e.required = TRUE
  BY DEF Patch
<1> HIDE DEF a, b, c, d, e
<1>7. D = {a, b, guard, c, d, e}
  BY <1>1 DEF ToSet
<1>8. FitsBackground(a)
  BY <1>2, SiteBackground, BackgroundSites
<1>9. FitsBackground(b) /\ FitsBackground(d) /\ FitsBackground(e)
  BY <1>3, <1>5, <1>6, SiteBackground, BackgroundSites
<1>10. FitsBackground(c)
  BY <1>4, CallerFits, BackgroundSites
<1>11. "patched-snapshot" \in Written(a) /\ a.required
  BY FirstWrites DEF a
<1>12. /\ "state-without-env" \in Written(b) /\ "socket-provider-env" \in Written(c)
       /\ "versioned-ack" \in Written(d) /\ "control-checked" \in Written(e)
  BY <1>3, <1>4, <1>5, <1>6, ShortLists DEF Written
<1> HIDE DEF D
<1>13. \A q \in D : FitsBackground(q)
  BY <1>7, <1>8, <1>9, <1>10
<1>14. Snapshot \in D /\ guard \in D
  BY <1>7 DEF a
<1>15. \A f \in DispatchMarks : \E p \in D : p.required /\ f \in Written(p)
  <2>1. a \in D /\ b \in D /\ c \in D /\ d \in D /\ e \in D
    BY <1>7
  <2>2. QED
    BY <1>3, <1>4, <1>5, <1>6, <1>11, <1>12, <2>1 DEF DispatchMarks
<1>16. \E p \in D : p.at = "persisted-env" /\ p.to = <<"state-without-env">>
  BY <1>3, <1>7
<1>17. QED
  BY <1>13, <1>14, <1>15, <1>16 DEF D

LEMMA WorkingFits ==
  LET D == ToSet(Working)
  IN (\A q \in D : FitsBackground(q)) /\ WorkerClass \in D /\ WorkerEnv \in D /\ Claimed \in D
<1> DEFINE a == WorkerClass
           b == WorkerEnv
           c == Patch("worker-tail", <<"worker-restored">>)
           d == Claimed
           D == ToSet(Working)
<1>1. Working = <<a, b, c, d>>
  BY DEF Working, WorkerClass, WorkerEnv, Claimed
<1>2. /\ a.at = "worker-class" /\ a.needs = {} /\ b.at = "worker-env" /\ b.needs = {}
      /\ d.at = "claimed-entry" /\ d.needs = {}
  BY DEF WorkerClass, WorkerEnv, Claimed, Patch
<1>3. c.at = "worker-tail" /\ c.needs = {} /\ c.also = {} /\ c.counts = {1}
  BY DEF Patch
<1> HIDE DEF a, b, c, d
<1>4. D = {a, b, c, d}
  BY <1>1 DEF ToSet
<1>5. FitsBackground(a) /\ FitsBackground(b) /\ FitsBackground(d)
  BY <1>2, SiteBackground, BackgroundSites
<1>6. FitsBackground(c)
  <2>1. WorkerEnv \in Writers
    BY DEF Writers
  <2>2. \E p \in Writers : c.at \in Written(p)
    BY <1>3, <2>1, FirstWrites
  <2>3. QED
    BY <1>3, <2>2, MadeBackground
<1> HIDE DEF D
<1>7. \A q \in D : FitsBackground(q)
  BY <1>4, <1>5, <1>6
<1>8. WorkerClass \in D /\ WorkerEnv \in D /\ Claimed \in D
  BY <1>4 DEF a, b, d
<1>9. QED
  BY <1>7, <1>8 DEF D

LEMMA RestoresFit == \A q \in ToSet(Restores) : FitsBackground(q)
<1> DEFINE a == Patch("settings-restores", <<"settings-restored">>)
<1>1. Restores = <<a>>
  BY DEF Restores
<1>2. a.at = "settings-restores" /\ a.needs = {}
  BY DEF Patch
<1> HIDE DEF a
<1>3. ToSet(Restores) = {a}
  BY <1>1, ShortLists
<1>4. FitsBackground(a)
  BY <1>2, SiteBackground, BackgroundSites
<1>5. QED
  BY <1>3, <1>4

LEMMA LifecycleFits ==
  /\ \A q \in ToSet(Lifecycle) : FitsBackground(q)
  /\ \E p \in ToSet(Lifecycle) : p.required /\ "provider-lifecycle" \in Written(p)
<1> DEFINE a == Patch("class-with-field", <<"provider-lifecycle">>)
<1>1. Lifecycle = <<a>>
  BY DEF Lifecycle
<1>2. /\ a.at = "class-with-field" /\ a.to = <<"provider-lifecycle">>
      /\ a.needs = {} /\ a.also = {} /\ a.counts = {1} /\ a.required = TRUE
  BY DEF Patch
<1> HIDE DEF a
<1>3. ToSet(Lifecycle) = {a}
  BY <1>1, ShortLists
<1>4. FitsBackground(a)
  <2>1. WorkerClass \in Writers
    BY DEF Writers
  <2>2. \E p \in Writers : a.at \in Written(p)
    BY <1>2, <2>1, FirstWrites
  <2>3. QED
    BY <1>2, <2>2, MadeBackground
<1>5. "provider-lifecycle" \in Written(a)
  BY <1>2, ShortLists DEF Written
<1>6. QED
  BY <1>2, <1>3, <1>4, <1>5

LEMMA AuthorityFits == \A q \in ToSet(AgentsAuthority) : FitsBackground(q)
<1> DEFINE a == Patch("provider-capture", <<"provider-capture", "agents-capture">>)
           b == [Patch("agents-settings", <<"agents-restored">>) EXCEPT !.counts = {2}]
<1>1. AgentsAuthority = <<a, b, AgentsFallback>>
  BY DEF AgentsAuthority
<1>2. /\ a.at = "provider-capture" /\ a.to = <<"provider-capture", "agents-capture">>
      /\ a.needs = {} /\ a.also = {} /\ a.counts = {1}
  BY DEF Patch
<1>3. b.at = "agents-settings" /\ b.needs = {}
  BY DEF Patch
<1> HIDE DEF a, b
<1>4. ToSet(AgentsAuthority) = {a, b, AgentsFallback}
  BY <1>1 DEF ToSet
<1>5. FitsBackground(b)
  BY <1>3, SiteBackground, BackgroundSites
<1>6. FitsBackground(a)
  <2>1. Snapshot \in Writers
    BY DEF Writers
  <2>2. (\E p \in Writers : a.at \in Written(p)) /\ a.at \in ToSet(a.to)
    BY <1>2, <2>1, FirstWrites, ShortLists
  <2>3. QED
    BY <1>2, <2>2, MadeBackground
<1>7. QED
  BY <1>4, <1>5, <1>6, FallbackFits

LEMMA PolicyFits ==
  /\ \A q \in ToSet(NativePolicy) : FitsBackground(q)
  /\ \E q \in ToSet(NativePolicy) : "policy-boundary" \in Written(q)
<1> DEFINE a == [Patch("native-settings", <<"settings-initialize">>) EXCEPT !.counts = {2}]
           b == Patch("settings-filter", <<"provider-filter">>)
           c == Patch("provider-capture", <<"provider-capture", "policy-boundary">>)
           d == Patch("claimed-apply-final", <<"claim-reset">>)
<1>1. NativePolicy = <<a, b, c, d, AgentsFallback>>
  BY DEF NativePolicy
<1>2. a.at = "native-settings" /\ a.needs = {} /\ b.at = "settings-filter" /\ b.needs = {}
  BY DEF Patch
<1>3. /\ c.at = "provider-capture" /\ c.to = <<"provider-capture", "policy-boundary">>
      /\ c.needs = {} /\ c.also = {} /\ c.counts = {1}
  BY DEF Patch
<1>4. d.at = "claimed-apply-final" /\ d.needs = {} /\ d.also = {} /\ d.counts = {1}
  BY DEF Patch
<1> HIDE DEF a, b, c, d
<1>5. ToSet(NativePolicy) = {a, b, c, d, AgentsFallback}
  BY <1>1 DEF ToSet
<1>6. FitsBackground(a) /\ FitsBackground(b)
  BY <1>2, SiteBackground, BackgroundSites
<1>7. FitsBackground(c)
  <2>1. Snapshot \in Writers
    BY DEF Writers
  <2>2. (\E p \in Writers : c.at \in Written(p)) /\ c.at \in ToSet(c.to)
    BY <1>3, <2>1, FirstWrites, ShortLists
  <2>3. QED
    BY <1>3, <2>2, MadeBackground
<1>8. FitsBackground(d)
  <2>1. Claimed \in Writers
    BY DEF Writers
  <2>2. (\E p \in Writers : d.at \in Written(p)) /\ d.at # "provider-capture"
    BY <1>4, <2>1, FirstWrites
  <2>3. QED
    BY <1>4, <2>2, MadeBackground
<1>9. "policy-boundary" \in Written(c)
  BY <1>3, ShortLists DEF Written
<1>10. QED
  BY <1>5, <1>6, <1>7, <1>8, <1>9, FallbackFits

\* A list of its patches serves the set.
LEMMA BackgroundListServes ==
  ASSUME NEW set, NEW low, NEW high, GoodSet(set, low, high),
         \A q \in ToSet(set.patches) : FitsBackground(q), Writers \subseteq ToSet(set.patches),
         set.present = DispatchMarks \cup {"provider-capture", "provider-lifecycle"},
         \A f \in DispatchMarks \cup {"provider-lifecycle"} :
           \E p \in ToSet(set.patches) : p.required /\ f \in Written(p),
         \A f \in set.absent : Goes(f, ToSet(set.patches)),
         set.moves \subseteq WrittenBy(set)
  PROVE  Serves(set)
<1> DEFINE D == ToSet(set.patches)
<1>1. \A q \in D : GoodPatch(q)
  BY PatchesGood
<1>2. Snapshot \in D
  BY DEF Writers
<1>3. \A f \in DispatchMarks \cup {"provider-lifecycle"} : Turn(f) = 0
  BY DEF DispatchMarks, Turn
<1> HIDE DEF D
<1>4. \A f \in DispatchMarks \cup {"provider-lifecycle"} : Stays(f, D)
  <2> SUFFICES ASSUME NEW f \in DispatchMarks \cup {"provider-lifecycle"} PROVE Stays(f, D)
    OBVIOUS
  <2>1. PICK p \in D : p.required /\ f \in Written(p)
    BY DEF D
  <2>2. QED
    BY <1>1, <1>3, <2>1, StaysPlain
<1>5. ~Taken(D, "patched-snapshot")
  <2>1. "patched-snapshot" \in DispatchMarks
    BY DEF DispatchMarks
  <2>2. QED
    BY <1>4, <2>1 DEF Stays
<1>6. \A q \in D : Fits(q, D)
  BY <1>5 DEF FitsBackground, D
<1>7. Stays("provider-capture", D)
  <2>1. ~Taken(D, "provider-capture")
    BY DEF Taken, FitsBackground, D
  <2>2. QED
    BY <1>2, <2>1, FirstWrites DEF Stays
<1>8. \A f \in set.present : Stays(f, D)
  BY <1>4, <1>7
<1>9. QED
  BY <1>6, <1>8 DEF Serves, D

\* The lists of a release, with what it puts among them.
LEMMA BackgroundListsFit ==
  ASSUME NEW v, NEW restores, IsSequence(restores), NEW more, IsSequence(more),
         \A q \in ToSet(restores) \cup ToSet(more) : FitsBackground(q)
  PROVE  LET set == BackgroundBase(v, restores, more)
             D == ToSet(set.patches)
         IN /\ \A q \in D : FitsBackground(q)
            /\ Writers \subseteq D /\ ToSet(more) \subseteq D
            /\ \A f \in DispatchMarks \cup {"provider-lifecycle"} :
                 \E p \in D : p.required /\ f \in Written(p)
            /\ \E p \in D : p.at = "persisted-env" /\ p.to = <<"state-without-env">>
            /\ AtLeast(v, 198) => HostGuard \in D
<1> DEFINE D == ToSet(BackgroundBase(v, restores, more).patches)
<1>1. PICK guard \in {RespawnGuard, HostGuard} :
        /\ AtLeast(v, 198) => guard = HostGuard
        /\ D = ToSet(Dispatching(guard)) \cup ToSet(Working) \cup ToSet(restores)
                 \cup ToSet(Lifecycle) \cup ToSet(more)
  BY BackgroundIs
<1>2. FitsBackground(guard)
  BY <1>1, GuardsFit
<1> HIDE DEF D
<1>3. \A q \in D : FitsBackground(q)
  BY <1>1, <1>2, DispatchingFits, WorkingFits, LifecycleFits
<1>4. Writers \subseteq D /\ ToSet(more) \subseteq D
  BY <1>1, <1>2, DispatchingFits, WorkingFits DEF Writers
<1>5. \A f \in DispatchMarks \cup {"provider-lifecycle"} :
        \E p \in D : p.required /\ f \in Written(p)
  <2>1. \A f \in DispatchMarks : \E p \in D : p.required /\ f \in Written(p)
    BY <1>1, <1>2, DispatchingFits
  <2>2. \E p \in D : p.required /\ "provider-lifecycle" \in Written(p)
    BY <1>1, LifecycleFits
  <2>3. QED
    BY <2>1, <2>2
<1>6. \E p \in D : p.at = "persisted-env" /\ p.to = <<"state-without-env">>
  BY <1>1, <1>2, DispatchingFits
<1>7. AtLeast(v, 198) => HostGuard \in D
  BY <1>1, <1>2, DispatchingFits
<1>8. QED
  BY <1>3, <1>4, <1>5, <1>6, <1>7 DEF D

LEMMA BackgroundServes == ASSUME NEW v PROVE Serves(BackgroundProviderEnvironment(v))
<1> DEFINE set == BackgroundProviderEnvironment(v)
<1>1. IsSequence(Restores) /\ IsSequence(AgentsAuthority) /\ IsSequence(NativePolicy)
      /\ IsSequence(<<>>) /\ ToSet(<<>>) = {}
  BY RestoresList, AuthorityList, PolicyList, NoEntry, ShortLists DEF InTurn
<1>2. GoodSet(set, 101, 119)
  BY BackgroundSet
<1> HIDE DEF set
<1>3. ASSUME NEW restores, NEW more
      PROVE  LET base == BackgroundBase(v, restores, more)
             IN /\ base.present = DispatchMarks \cup {"provider-capture", "provider-lifecycle"}
                /\ base.absent \subseteq {"persisted-env", "host-provider"}
                /\ "host-provider" \in base.absent => AtLeast(v, 198)
                /\ base.moves = {}
                /\ DOMAIN base = {"name", "patches", "min", "max", "requires", "present",
                                  "absent", "boot", "key", "moves"}
  BY DEF BackgroundBase, Background, PatchSet, DispatchMarks
<1>4. \E restores, more :
        LET base == BackgroundBase(v, restores, more)
        IN /\ IsSequence(restores) /\ IsSequence(more)
           /\ \A q \in ToSet(restores) \cup ToSet(more) : FitsBackground(q)
           /\ set.patches = base.patches /\ set.present = base.present /\ set.absent = base.absent
           /\ \/ set.moves = {}
              \/ /\ set.moves = {"provider-capture", "policy-boundary"}
                 /\ \E q \in ToSet(more) : "policy-boundary" \in Written(q)
  <2>1. CASE AtLeast(v, 207)
    <3> DEFINE base == BackgroundBase(v, <<>>, NativePolicy)
               moved == {"provider-capture", "policy-boundary"}
    <3>1. set = [base EXCEPT !.boot = "always", !.key = "provider", !.moves = moved]
      BY <2>1 DEF BackgroundProviderEnvironment, set
    <3>2. DOMAIN base = {"name", "patches", "min", "max", "requires", "present", "absent",
                         "boot", "key", "moves"}
      BY <1>3
    <3> HIDE DEF base, moved
    <3>3. /\ set.patches = base.patches /\ set.present = base.present
          /\ set.absent = base.absent /\ set.moves = moved
      BY <3>1, <3>2
    <3>4. \A q \in ToSet(<<>>) \cup ToSet(NativePolicy) : FitsBackground(q)
      BY <1>1, PolicyFits
    <3>5. WITNESS <<>>, NativePolicy
    <3>6. QED
      BY <1>1, <3>3, <3>4, PolicyFits DEF base, moved
  <2>2. CASE ~AtLeast(v, 207)
    <3>1. \E more \in {<<>>, AgentsAuthority} : set = BackgroundBase(v, Restores, more)
      BY <2>2 DEF BackgroundProviderEnvironment, set
    <3>2. PICK more \in {<<>>, AgentsAuthority} : set = BackgroundBase(v, Restores, more)
      BY <3>1
    <3>3. IsSequence(more) /\ \A q \in ToSet(Restores) \cup ToSet(more) : FitsBackground(q)
      BY <1>1, RestoresFit, AuthorityFits
    <3>4. set.moves = {}
      BY <1>3, <3>2
    <3>5. WITNESS Restores, more
    <3>6. QED
      BY <1>1, <3>2, <3>3, <3>4
  <2>3. QED
    BY <2>1, <2>2
<1>5. PICK restores, more :
        LET base == BackgroundBase(v, restores, more)
        IN /\ IsSequence(restores) /\ IsSequence(more)
           /\ \A q \in ToSet(restores) \cup ToSet(more) : FitsBackground(q)
           /\ set.patches = base.patches /\ set.present = base.present /\ set.absent = base.absent
           /\ \/ set.moves = {}
              \/ /\ set.moves = {"provider-capture", "policy-boundary"}
                 /\ \E q \in ToSet(more) : "policy-boundary" \in Written(q)
  BY <1>4
<1> DEFINE D == ToSet(set.patches)
<1>6. /\ \A q \in D : FitsBackground(q)
      /\ Writers \subseteq D /\ ToSet(more) \subseteq D
      /\ \A f \in DispatchMarks \cup {"provider-lifecycle"} :
           \E p \in D : p.required /\ f \in Written(p)
      /\ \E p \in D : p.at = "persisted-env" /\ p.to = <<"state-without-env">>
      /\ AtLeast(v, 198) => HostGuard \in D
  <2> DEFINE B == ToSet(BackgroundBase(v, restores, more).patches)
  <2>1. /\ \A q \in B : FitsBackground(q)
        /\ Writers \subseteq B /\ ToSet(more) \subseteq B
        /\ \A f \in DispatchMarks \cup {"provider-lifecycle"} :
             \E p \in B : p.required /\ f \in Written(p)
        /\ \E p \in B : p.at = "persisted-env" /\ p.to = <<"state-without-env">>
        /\ AtLeast(v, 198) => HostGuard \in B
    BY <1>5, BackgroundListsFit, Zenon
  <2>2. D = B
    BY <1>5
  <2> HIDE DEF B, D
  <2>3. QED
    BY <2>1, <2>2
<1>7. \A q \in D : GoodPatch(q)
  BY <1>2, PatchesGood
<1>8. /\ set.present = DispatchMarks \cup {"provider-capture", "provider-lifecycle"}
      /\ set.absent \subseteq {"persisted-env", "host-provider"}
      /\ "host-provider" \in set.absent => AtLeast(v, 198)
  <2> DEFINE base == BackgroundBase(v, restores, more)
  <2>1. /\ base.present = DispatchMarks \cup {"provider-capture", "provider-lifecycle"}
        /\ base.absent \subseteq {"persisted-env", "host-provider"}
        /\ "host-provider" \in base.absent => AtLeast(v, 198)
    BY <1>3
  <2>2. set.present = base.present /\ set.absent = base.absent
    BY <1>5
  <2> HIDE DEF base
  <2>3. QED
    BY <2>1, <2>2
<1>9. set.moves \subseteq WrittenBy(set)
  <2>1. ASSUME set.moves = {"provider-capture", "policy-boundary"},
               NEW q \in ToSet(more), "policy-boundary" \in Written(q)
        PROVE  set.moves \subseteq WrittenBy(set)
    <3>1. q \in D /\ Snapshot \in D
      BY <1>6, <2>1 DEF Writers
    <3>2. Written(q) \subseteq WrittenBy(set) /\ Written(Snapshot) \subseteq WrittenBy(set)
      BY <3>1, WritesAre
    <3>3. QED
      BY <2>1, <3>2, FirstWrites
  <2>2. QED
    BY <1>5, <2>1
<1> HIDE DEF D
<1>10. Goes("persisted-env", D)
  <2>1. PICK p \in D : p.at = "persisted-env" /\ p.to = <<"state-without-env">>
    BY <1>6
  <2>2. p.at \notin ToSet(p.to) /\ Made(p.at) = 0
    BY <2>1, ShortLists, BackgroundSites
  <2>3. QED
    BY <1>7, <2>1, <2>2, GoesSite
<1>11. AtLeast(v, 198) => Goes("host-provider", D)
  <2>1. HostGuard.at = "host-provider" /\ HostGuard.to = <<"live-host-required">>
    BY DEF HostGuard, Patch
  <2>2. HostGuard.at \notin ToSet(HostGuard.to) /\ Made(HostGuard.at) = 0
    BY <2>1, ShortLists, BackgroundSites
  <2>3. QED
    BY <1>6, <1>7, <2>1, <2>2, GoesSite
<1>12. \A f \in set.absent : Goes(f, D)
  BY <1>8, <1>10, <1>11
<1>13. QED
  BY <1>2, <1>6, <1>8, <1>9, <1>12, BackgroundListServes, Zenon DEF D, set

\* All sets do.
LEMMA KeptAmong ==
  ASSUME NEW s, IsSequence(s), NEW v
  PROVE  ToSet(ForVersion(s, v)) \subseteq ToSet(s)
<1> DEFINE positions == {i \in DOMAIN s : AppliesTo(s[i], v)}
           kept == Kept(s, positions)
           size == Cardinality(positions)
<1>1. /\ IsSequence(kept) /\ Len(kept) = size
      /\ \A n \in 1..size : At(positions, n) \in positions /\ kept[n] = s[At(positions, n)]
  BY KeptIs
<1>2. DOMAIN kept = 1..size
  BY <1>1, AsSeq
<1>3. ForVersion(s, v) = kept
  BY DEF ForVersion
<1>4. positions \subseteq DOMAIN s
  OBVIOUS
<1> HIDE DEF positions, kept, size
<1>5. ASSUME NEW n \in 1..size PROVE kept[n] \in ToSet(s)
  <2>1. At(positions, n) \in DOMAIN s /\ kept[n] = s[At(positions, n)]
    BY <1>1, <1>4
  <2>2. QED
    BY <2>1 DEF ToSet
<1>6. QED
  BY <1>2, <1>3, <1>5 DEF ToSet

LEMMA EverySetServes == \A set \in EverySet : Serves(set)
<1> SUFFICES ASSUME NEW v, NEW set \in ToSet(DefaultPatchSets(v)) PROVE Serves(set)
  BY DEF EverySet
<1> DEFINE a == ThinkingExpanded(v)
           b == ChannelsEnabled
           c == DevChannelInheritance
           d == AgentsViewHandoff(v)
           e == BackgroundProviderEnvironment(v)
           f == MultiProviderSDK
           g == CatppuccinSyntax
           h == SelectPatchVariant(v, Summaries, Summaries198)
           i == CompactSession
           j == StreamingThinking
           k == ModelSessionOnly
           l == RetractionArchive
           m == AutoModeLocalFallback
           n == LowMemoryThreshold
           nine == <<a, b, c, d, e, f, g, h, i>>
           five == <<j, k, l, m, n>>
<1>1. Serves(d)
  BY NativeAgentsServe, PatchedAgentsServe DEF AgentsViewHandoff
<1>2. Serves(h)
  BY SummariesServe, Summaries198Serve DEF SelectPatchVariant
<1>3. Serves(a) /\ Serves(b) /\ Serves(c)
  BY ThinkingServes, ChannelsServe, InheritanceServes
<1>4. Serves(e) /\ Serves(f) /\ Serves(g)
  BY BackgroundServes, SdkServes, SyntaxServes
<1>5. Serves(i) /\ Serves(j) /\ Serves(k)
  BY CompactServes, StreamingServes, SessionServes
<1>6. Serves(l) /\ Serves(m) /\ Serves(n)
  BY RetractionServes, FallbackServes, ThresholdServes
<1>7. DefaultPatchSets(v) = nine \o ForVersion(five, v)
  BY DEF DefaultPatchSets
<1> HIDE DEF a, b, c, d, e, f, g, h, i, j, k, l, m, n
<1>8. IsSequence(nine) /\ IsSequence(five)
  BY DEF IsSequence
<1>9. \A s \in ToSet(nine) : Serves(s)
  <2>1. ToSet(nine) = {a, b, c, d, e, f, g, h, i}
    BY DEF ToSet
  <2>2. QED
    BY <1>1, <1>2, <1>3, <1>4, <1>5, <2>1
<1>10. \A s \in ToSet(five) : Serves(s)
  <2>1. ToSet(five) = {j, k, l, m, n}
    BY DEF ToSet
  <2>2. QED
    BY <1>5, <1>6, <2>1
<1> HIDE DEF nine, five
<1>11. ToSet(ForVersion(five, v)) \subseteq ToSet(five) /\ IsSequence(ForVersion(five, v))
  <2>1. IsSequence(ForVersion(five, v))
    BY <1>8, KeptIs DEF ForVersion
  <2>2. QED
    BY <1>8, <2>1, KeptAmong
<1>12. set \in ToSet(nine) \cup ToSet(ForVersion(five, v))
  BY <1>7, <1>8, <1>11, ToSetJoined
<1>13. QED
  BY <1>9, <1>10, <1>11, <1>12

\* One patch of the first set makes the renderer.
LEMMA RenderPatch ==
  ASSUME NEW v
  PROVE  Rendered(ToSet(ThinkingExpanded(v).patches))
<1> DEFINE a == Patch("thinking-guard", <<"thinking-always">>)
           b == Patch("thinking-render", <<"expanded-render">>)
           c == Patch("thinking-group", <<"thinking-alone">>)
           more == IF v = NoVersion \/ v >= 151 THEN <<c>> ELSE <<>>
<1>1. ThinkingExpanded(v).patches = <<a, b>> \o more
  BY DEF ThinkingExpanded, PatchSet
<1>2. b.at = "thinking-render" /\ b.to = <<"expanded-render">> /\ b.required = TRUE /\ b.counts = {1}
  BY DEF Patch
<1> HIDE DEF a, b, c
<1>3. IsSequence(more)
  BY OneEntry, NoEntry
<1> HIDE DEF more
<1>4. IsSequence(<<a, b>>) /\ ToSet(<<a, b>>) = {a, b}
  BY DEF IsSequence, ToSet
<1>5. ToSet(<<a, b>> \o more) = ToSet(<<a, b>>) \cup ToSet(more)
  BY <1>3, <1>4, ToSetJoined
<1>6. "expanded-render" \in Marks(b)
  <2>1. b.to # <<>> /\ Head(b.to) = "expanded-render"
    BY <1>2
  <2>2. QED
    BY <1>2, <2>1 DEF Marks
<1>7. b \in ToSet(ThinkingExpanded(v).patches)
  BY <1>1, <1>4, <1>5
<1>8. QED
  BY <1>2, <1>6, <1>7 DEF Rendered

-----------------------------------------------------------------------------
(* A run of the engine over a release that the sets know. *)

\* The boundaries are as they were, and the next set finds what it looks for.
Awaits(sets, n, taken, src) ==
  /\ SameSeams(taken, src)
  /\ n < Len(sets) =>
       LET turn == 20 * Seat(sets[n + 1]) + 1
       IN Untouched(taken, src, turn) /\ Fresh(src, turn)

LEMMA AwaitsFirst ==
  ASSUME NEW taken, IsSequence(taken), \A f \in Left : Count(taken, f) = 0, NEW sets
  PROVE  Awaits(sets, 0, taken, taken)
<1>1. Amount(taken, Launches) = Amount(taken, Launches \ Left)
  <2>1. \A i \in DOMAIN taken : taken[i] \notin Left
    <3> SUFFICES ASSUME NEW i \in DOMAIN taken, taken[i] \in Left PROVE FALSE
      OBVIOUS
    <3>1. Count(taken, taken[i]) = 0
      OBVIOUS
    <3>2. Amount(taken, {taken[i]}) # 0
      BY AmountIs
    <3>3. QED
      BY <3>1, <3>2, CountIs
  <2>2. Places(taken, Launches) = Places(taken, Launches \ Left)
    BY <2>1 DEF Places
  <2>3. QED
    BY <2>2 DEF Amount
<1>2. QED
  BY <1>1 DEF Awaits, SameSeams, Untouched, Fresh

LEMMA AwaitsNext ==
  ASSUME NEW v \in NoVersion..NoMax - 1, NEW n \in Nat, n < Len(Admitted(v)),
         NEW taken, NEW src, Reached(Admitted(v), n, taken, src),
         Awaits(Admitted(v), n, taken, src), KnownTo(Admitted(v)[n + 1], taken)
  PROVE  LET result == ApplySet(Admitted(v)[n + 1], src)
         IN result.ok /\ Awaits(Admitted(v), n + 1, taken, result.source)
<1> DEFINE sets == Admitted(v)
           set == sets[n + 1]
           result == ApplySet(set, src)
           low == 20 * Seat(set) + 1
           high == 20 * Seat(set) + 19
           P == Upto(sets, n)
<1>1. Len(sets) \in Nat /\ DOMAIN sets = 1..Len(sets) /\ Past(P, low)
  BY AdmittedOrder, SetsPast, AsSeq DEF InOrder
<1>2. n + 1 \in DOMAIN sets
  BY <1>1
<1>3. InEngine(set) /\ set \in EverySet
  BY <1>2, AdmittedOrder DEF InOrder
<1>4. /\ GoodSet(set, low, high) /\ MarksOf(set) \subseteq Left /\ WrittenBy(set) \subseteq Left
      /\ Serves(set)
  BY <1>3, MarksLeft, LeftMade, EverySetServes DEF InEngine
<1>5. low \in Nat /\ high \in Nat /\ low # 0 /\ low <= high
  BY SeatType
<1>6. Applied(P, src)
  BY DEF Reached
<1>7. SameSeams(taken, src) /\ Untouched(taken, src, low) /\ Fresh(src, low)
  BY DEF Awaits
<1>8. KnownTo(set, taken)
  OBVIOUS
<1>9. ASSUME 39 < high PROVE Rendered(P)
  <2>1. n # 0
    <3>1. n = 0 => set = ThinkingExpanded(v)
      BY AdmittedOrder
    <3>2. Seat(ThinkingExpanded(v)) = 1
      BY EverySeat
    <3> HIDE DEF set
    <3>3. QED
      BY <1>9, <3>1, <3>2
  <2>2. 1 \in 1..n
    BY <2>1
  <2>3. sets[1] = ThinkingExpanded(v)
    BY AdmittedOrder
  <2> HIDE DEF sets
  <2>4. ToSet(ThinkingExpanded(v).patches) \subseteq P
    BY <2>2, <2>3 DEF Upto
  <2>5. QED
    BY <2>4, RenderPatch DEF Rendered
<1> HIDE DEF set, low, high, P
<1>10. /\ result.ok
       /\ Untouched(taken, result.source, high + 1) /\ Fresh(result.source, high + 1)
       /\ SameSeams(src, result.source)
  BY <1>1, <1>4, <1>5, <1>6, <1>7, <1>8, <1>9, SetServes
<1> HIDE DEF result
<1>11. SameSeams(taken, result.source)
  BY <1>7, <1>10 DEF SameSeams
<1>12. ASSUME n + 1 < Len(sets)
       PROVE  LET turn == 20 * Seat(sets[(n + 1) + 1]) + 1
              IN Untouched(taken, result.source, turn) /\ Fresh(result.source, turn)
  <2> DEFINE turn == 20 * Seat(sets[(n + 1) + 1]) + 1
  <2>1. (n + 1) + 1 \in DOMAIN sets /\ n + 1 < (n + 1) + 1
    BY <1>1, <1>12
  <2>2. Seat(set) < Seat(sets[(n + 1) + 1])
    BY <1>2, <2>1, AdmittedOrder DEF InOrder, set
  <2>3. turn \in Nat /\ high + 1 \in Nat /\ high + 1 <= turn
    BY SMTT(20), <2>2, SeatType DEF high
  <2> HIDE DEF turn
  <2>4. Untouched(taken, result.source, turn) /\ Fresh(result.source, turn)
    BY <1>10, <2>3, Later
  <2>5. QED
    BY <2>4 DEF turn
<1>13. Awaits(sets, n + 1, taken, result.source)
  BY <1>11, <1>12 DEF Awaits
<1>14. QED
  BY <1>10, <1>13 DEF result, set

-----------------------------------------------------------------------------
(* The boundaries of the result. *)

\* The boundaries of a source are a sequence.
LEMMA SeamsSequence ==
  ASSUME NEW s, IsSequence(s)
  PROVE  IsSequence(Seams(s)) /\ Len(Seams(s)) = Len(Cuts(s))
<1>1. Len(Cuts(s)) \in Nat
  BY CutsAreCuts
<1> DEFINE t == Seams(s)
<1>2. t = [n \in 1..Len(Cuts(s)) |-> t[n]]
  BY DEF Seams
<1> HIDE DEF t
<1>3. IsSequence(t) /\ Len(t) = Len(Cuts(s))
  BY <1>1, <1>2, MadeSequence
<1>4. QED
  BY <1>3 DEF t

\* Nothing put before a sequence.
LEMMA NothingBefore ==
  ASSUME NEW s, IsSequence(s)
  PROVE  <<>> \o s = s
<1>1. IsSequence(<<>>) /\ Len(<<>>) = 0
  BY NoEntry
<1> DEFINE none == <<>>
           t == none \o s
<1> HIDE DEF none
<1>2. /\ IsSequence(t) /\ Len(t) = Len(none) + Len(s)
      /\ \A i \in 1..Len(s) : t[Len(none) + i] = s[i]
  BY <1>1, Joined DEF none
<1>3. Len(s) \in Nat /\ Len(none) = 0
  BY <1>1, AsSeq DEF none
<1> HIDE DEF t
<1>4. Len(t) = Len(s) /\ \A i \in 1..Len(s) : t[i] = s[i]
  BY <1>2, <1>3
<1>5. t = s
  BY <1>2, <1>4, SameSequence
<1>6. QED
  BY <1>5 DEF t, none

\* The runtime goes behind the boundaries, not in front of the first.
LEMMA FinalSeams ==
  ASSUME NEW src, IsSequence(src)
  PROVE  SameSeams(src, Finalized(src))
<1> DEFINE native == Dropping(src, BootFragments)
           parts == [i \in DOMAIN native |->
                       IF native[i] \in Boundaries THEN <<native[i], Prelude>> ELSE <<native[i]>>]
           new == Finalized(src)
           registered == \E i \in DOMAIN src : src[i] \in BootFragments
<1>1. IsSequence(native) /\ DOMAIN native = 1..Len(native) /\ Len(native) \in Nat
  BY AmountDropped, AsSeq
<1>2. SameSeams(src, native)
  <2>1. BootFragments \cap Boundaries = {}
    BY ReservedApart
  <2>2. QED
    BY <2>1, SeamsDropped
<1>3. new = IF ~registered THEN src
            ELSE IF Split(native) THEN FlattenSeq(parts) ELSE <<Prelude>> \o native
  BY DEF Finalized
<1>4. IsSequence(<<Prelude>>) /\ Len(<<Prelude>>) = 1 /\ Seams(<<Prelude>>) = <<>>
  <2>1. IsSequence(<<Prelude>>) /\ Len(<<Prelude>>) = 1 /\ <<Prelude>>[1] = Prelude
    BY OneEntry
  <2>2. \A i \in DOMAIN <<Prelude>> : <<Prelude>>[i] \notin Boundaries
    BY <2>1, ReservedApart, AsSeq
  <2>3. QED
    BY <2>1, <2>2, NoSeams
<1>5. \A i \in DOMAIN native : parts[i] =
        IF native[i] \in Boundaries THEN <<native[i], Prelude>> ELSE <<native[i]>>
  OBVIOUS
<1>6. parts = [i \in 1..Len(native) |-> parts[i]]
  BY <1>1
<1> HIDE DEF native, new, parts, registered
<1>7. CASE ~registered
  BY <1>3, <1>7 DEF SameSeams, new
<1>8. CASE registered /\ ~Split(native)
  <2>1. new = <<Prelude>> \o native
    BY <1>3, <1>8
  <2>2. Seams(new) = Seams(<<Prelude>>) \o Seams(native)
    BY <1>1, <1>4, <2>1, SeamsJoined
  <2>3. Seams(new) = Seams(native)
    BY <1>4, <2>2, NothingBefore, SeamsSequence, <1>1
  <2>4. ~Opens(native)
    BY <1>8 DEF Opens, Split
  <2>5. QED
    BY <1>2, <2>3, <2>4 DEF SameSeams, new
<1>9. CASE registered /\ Split(native)
  <2>1. new = FlattenSeq(parts)
    BY <1>3, <1>9
  <2>2. IsSequence(parts) /\ Len(parts) = Len(native) /\ DOMAIN parts = DOMAIN native
    BY <1>1, <1>6, MadeSequence
  <2>3. ASSUME NEW i \in DOMAIN native
        PROVE  /\ IsSequence(parts[i]) /\ Seams(parts[i]) = Seams(<<native[i]>>)
               /\ Opens(<<native[i]>>) => Opens(parts[i])
    <3> DEFINE x == native[i]
    <3>1. IsSequence(<<x>>) /\ Len(<<x>>) = 1 /\ <<x>>[1] = x
      BY OneEntry
    <3>2. parts[i] = <<x>> \/ parts[i] = <<x, Prelude>>
      BY <1>5, <2>3
    <3> HIDE DEF x
    <3>3. <<x, Prelude>> = <<x>> \o <<Prelude>>
      OBVIOUS
    <3>4. Seams(<<x>> \o <<Prelude>>) = Seams(<<x>>) \o Seams(<<Prelude>>)
      BY <1>4, <3>1, SeamsJoined
    <3>5. Seams(<<x>> \o <<Prelude>>) = Seams(<<x>>)
      BY <1>4, <3>1, <3>4, SeamsSequence, NothingBehind
    <3>6. IsSequence(<<x, Prelude>>) /\ Seams(<<x, Prelude>>) = Seams(<<x>>)
      BY ZenonT(30), <1>4, <3>1, <3>3, <3>5, Joined
    <3>7. Opens(<<x>>) => Opens(<<x, Prelude>>)
      <4>1. 1 \in DOMAIN <<x, Prelude>> /\ <<x, Prelude>>[1] = x
        OBVIOUS
      <4>2. QED
        BY <3>1, <4>1 DEF Opens
    <3>8. QED
      BY <3>1, <3>2, <3>6, <3>7 DEF x
  <2>4. Seams(new) = Seams(native)
    BY <1>1, <2>1, <2>2, <2>3, SeamsFlat
  <2>5. ASSUME Opens(native) PROVE Opens(new)
    <3>1. 1 \in DOMAIN native /\ native[1] \in Boundaries
      BY <2>5 DEF Opens
    <3>2. Opens(<<native[1]>>)
      <4>1. 1 \in DOMAIN <<native[1]>> /\ <<native[1]>>[1] = native[1]
        OBVIOUS
      <4>2. QED
        BY <3>1, <4>1 DEF Opens
    <3>3. Opens(parts[1])
      BY <2>3, <3>1, <3>2
    <3>4. Len(parts) # 0
      BY <1>1, <2>2, <3>1
    <3>5. \A i \in DOMAIN parts : IsSequence(parts[i])
      BY <2>2, <2>3
    <3>6. QED
      BY <2>1, <2>2, <3>3, <3>4, <3>5, OpensFlat
  <2>6. QED
    BY <1>2, <2>4, <2>5 DEF SameSeams, new
<1>10. QED
  BY <1>7, <1>8, <1>9

\* Where the boundaries of a source are those of the modules it was taken from, they are
\* after any step that keeps them.
LEMMA BoundaryKept ==
  ASSUME NEW taken, IsSequence(taken), NEW code, IsSequence(code), SameSeams(taken, code),
         NEW modules, IsSequence(modules), ~BoundaryChanged(taken, modules)
  PROVE  ~BoundaryChanged(code, modules)
<1> SUFFICES ASSUME Len(modules) > 1 PROVE ~BoundaryChanged(code, modules)
  BY DEF BoundaryChanged
<1> DEFINE c == Cuts(taken)
           d == Cuts(code)
           n == Len(modules)
<1>1. /\ Len(c) = n /\ c[1] = 1
      /\ \A i \in DOMAIN modules : taken[c[i]] = modules[i].name.is
  BY DEF BoundaryChanged
<1>2. AreCuts(c, taken) /\ AreCuts(d, code) /\ Len(c) \in Nat /\ Len(d) \in Nat
  BY CutsAreCuts
<1>3. DOMAIN modules = 1..n /\ n \in Nat
  BY AsSeq
<1>4. Seams(taken) = [i \in 1..Len(c) |-> taken[c[i]]] /\ Seams(code) = [i \in 1..Len(d) |-> code[d[i]]]
  BY DEF Seams
<1>5. Seams(code) = Seams(taken) /\ (Opens(taken) => Opens(code))
  BY DEF SameSeams
<1>6. Len(code) \in Nat /\ DOMAIN code = 1..Len(code) /\ DOMAIN taken = 1..Len(taken)
  BY AsSeq
<1> HIDE DEF c, d, n
<1>7. Len(d) = Len(c)
  <2>1. IsSequence(Seams(code)) /\ Len(Seams(code)) = Len(d)
    BY <1>2, <1>4, SeamsSequence DEF d
  <2>2. IsSequence(Seams(taken)) /\ Len(Seams(taken)) = Len(c)
    BY <1>2, <1>4, SeamsSequence DEF c
  <2>3. QED
    BY <1>5, <2>1, <2>2
<1>8. \A i \in 1..n : code[d[i]] = taken[c[i]]
  <2>1. ASSUME NEW i \in 1..n PROVE code[d[i]] = taken[c[i]]
    <3>1. Seams(taken)[i] = taken[c[i]] /\ Seams(code)[i] = code[d[i]]
      BY <1>1, <1>4, <1>7
    <3>2. QED
      BY <1>5, <3>1
  <2>2. QED
    BY <2>1
<1>9. d[1] = 1
  <2>1. 1 \in 1..Len(d) /\ 1 \in 1..Len(c)
    BY <1>1, <1>3, <1>7 DEF n
  <2>2. Opens(taken)
    <3>1. c[1] \in 1..Len(taken) /\ taken[c[1]] \in Boundaries
      BY <1>2, <2>1 DEF AreCuts
    <3>2. QED
      BY <1>1, <1>6, <3>1 DEF Opens
  <2>3. 1 \in 1..Len(code) /\ code[1] \in Boundaries
    BY <1>5, <1>6, <2>2 DEF Opens
  <2>4. PICK k \in 1..Len(d) : d[k] = 1
    BY <1>2, <2>3 DEF AreCuts
  <2>5. k > 1 => d[1] < d[k]
    BY <1>2, <2>1, <2>4 DEF AreCuts
  <2>6. d[1] \in 1..Len(code)
    BY <1>2, <2>1 DEF AreCuts
  <2>7. QED
    BY <1>2, <1>6, <2>4, <2>5, <2>6
<1>10. \A i \in DOMAIN modules : code[d[i]] = modules[i].name.is
  BY <1>1, <1>3, <1>8
<1>11. QED
  BY <1>1, <1>7, <1>9, <1>10 DEF BoundaryChanged, d, n
=============================================================================
