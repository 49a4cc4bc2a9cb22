----------------------- MODULE MerkleVerifierProofs -------------------------
(***************************************************************************)
(* The verifier's side of the Merkle commitments, for any set of queried   *)
(* blocks: both sides compute the same serialization, the layers the       *)
(* verifier rebuilds are those of the committed tree above every true digest *)
(* and differ from them above a replaced one, and so the root decides.     *)
(***************************************************************************)
EXTENDS MerkleProverProofs, FiniteSetTheorems

\* Of the blocks D, the indices of level k the verifier knows, and those among
\* them that are in the serialization.
Known(D, k) == DOMAIN KnownIndices(D)[k]
Explicit(D, k) == {i \in Known(D, k) : KnownIndices(D)[k][i]}
ExplicitPlaces(D) == UNION {{k} \X Explicit(D, k) : k \in 1 .. LogBlocks}

\* The subtree the verifier deserializes, with the digest at place bad replaced.
ViewWith(D, bad) ==
    [k \in 1 .. LogBlocks |->
        [i \in Explicit(D, k) |-> IF <<k, i>> = bad THEN otherBlock ELSE Layer[k - 1][i]]]

ViewInv ==
    stage \in {"deliver", "verified"} =>
        LET D == withTwins(queries)
        IN IF queries = {} THEN ~altered
           ELSE \/ ~altered /\ view = ViewWith(D, <<0, 0>>)
                \/ altered /\ \E bad \in ExplicitPlaces(D) : view = ViewWith(D, bad)

MerkleInv ==
    /\ stage \in {"commit", "query", "answer", "deliver", "verified"}
    /\ CommitInv
    /\ AnswerInv
    /\ ViewInv
    /\ VerdictIsRight

-----------------------------------------------------------------------------
(* The order of a std::map.                                                *)

\* The rank of an index, and what it is for the next larger one.
LEMMA BelowIs ==
    ASSUME NEW S \in SUBSET Nat, IsFiniteSet(S)
    PROVE  /\ Cardinality(S) \in Nat
           /\ \A i \in Nat : /\ IsFiniteSet({x \in S : x < i}) /\ Below(S, i) \in Nat
                             /\ i \in S => Below(S, i) < Cardinality(S)
                             /\ Below(S, i + 1) = IF i \in S THEN Below(S, i) + 1 ELSE Below(S, i)
           /\ \A i \in S : \A j \in S : i < j => Below(S, i) < Below(S, j)
<1> DEFINE L(i) == {x \in S : x < i}
<1>0. \A x \in S : x \in Nat
  OBVIOUS
<1>1. \A i \in Nat : IsFiniteSet(L(i)) /\ Below(S, i) \in Nat /\ Below(S, i) = Cardinality(L(i))
  <2> TAKE i \in Nat
  <2>1. L(i) \in SUBSET S
    OBVIOUS
  <2>2. IsFiniteSet(L(i))
    <3> HIDE DEF L
    <3> QED BY <2>1, FS_Subset
  <2> QED BY <2>2, FS_CardinalityType DEF Below
<1>2. Cardinality(S) \in Nat
  BY FS_CardinalityType
<1>3. ASSUME NEW i \in Nat
      PROVE  Below(S, i + 1) = IF i \in S THEN Below(S, i) + 1 ELSE Below(S, i)
  <2>1. CASE i \in S
    <3>1. L(i + 1) = L(i) \cup {i} /\ i \notin L(i)
      <4>1. ASSUME NEW x \in S PROVE x < i + 1 <=> (x < i \/ x = i)
        BY <1>0
      <4>2. ~(i < i)
        OBVIOUS
      <4> QED BY <2>1, <4>1, <4>2, Zenon
    <3> HIDE DEF L
    <3>2. Cardinality(L(i) \cup {i}) = Cardinality(L(i)) + 1
      BY <1>1, <3>1, FS_AddElement
    <3> QED BY <1>1, <2>1, <3>1, <3>2
  <2>2. CASE i \notin S
    <3>1. L(i + 1) = L(i)
      <4>1. ASSUME NEW x \in S PROVE x < i + 1 <=> x < i
        <5>1. x \in Nat /\ x # i
          BY <1>0, <2>2
        <5> QED BY <5>1
      <4> QED BY <4>1, Zenon
    <3> HIDE DEF L
    <3> QED BY <1>1, <2>2, <3>1
  <2> QED BY <2>1, <2>2
<1>4. ASSUME NEW i \in Nat, NEW T \in SUBSET S, IsFiniteSet(T), L(i) \subseteq T,
             \E x \in T : x \notin L(i)
      PROVE  Below(S, i) < Cardinality(T)
  <2> HIDE DEF L
  <2>1. Cardinality(L(i)) <= Cardinality(T) /\ Cardinality(T) # Cardinality(L(i))
    BY <1>4, FS_Subset
  <2>2. Cardinality(T) \in Nat
    BY <1>4, FS_CardinalityType
  <2> QED BY <1>1, <2>1, <2>2
<1>5. ASSUME NEW i \in S PROVE Below(S, i) < Cardinality(S)
  <2>1. L(i) \subseteq S /\ i \notin L(i)
    BY <1>0
  <2> HIDE DEF L
  <2> QED BY <1>4, <2>1
<1>6. ASSUME NEW i \in S, NEW j \in S, i < j PROVE Below(S, i) < Below(S, j)
  <2>1. L(i) \subseteq L(j) /\ L(j) \in SUBSET S /\ i \in L(j) /\ i \notin L(i)
    <3>1. ASSUME NEW x \in S, x < i PROVE x < j
      <4>1. x \in Nat /\ i \in Nat /\ j \in Nat
        BY <1>0
      <4> QED BY <1>6, <3>1, <4>1
    <3>2. ~(i < i)
      BY <1>0
    <3> QED BY <1>6, <3>1, <3>2, Zenon
  <2> HIDE DEF L
  <2>2. IsFiniteSet(L(j)) /\ Below(S, j) = Cardinality(L(j))
    BY <1>1
  <2> QED BY <1>4, <2>1, <2>2
<1> QED BY <1>1, <1>2, <1>3, <1>5, <1>6

\* Sorted lists every element of the set, each at the place its rank gives.
LEMMA SortedIs ==
    ASSUME NEW S \in SUBSET Nat, IsFiniteSet(S)
    PROVE  /\ Cardinality(S) \in Nat /\ DOMAIN Sorted(S) = 1 .. Cardinality(S)
           /\ \A j \in 1 .. Cardinality(S) : Sorted(S)[j] \in S /\ Below(S, Sorted(S)[j]) = j - 1
           /\ \A i \in S : /\ Below(S, i) + 1 \in 1 .. Cardinality(S)
                           /\ Sorted(S)[Below(S, i) + 1] = i
<1> DEFINE n == Cardinality(S)  T == 0 .. n - 1  f == [i \in S |-> Below(S, i)]
<1>0. \A x \in S : x \in Nat
  OBVIOUS
<1>1. n \in Nat /\ \A i \in S : Below(S, i) \in T
  <2>1. n \in Nat
    BY BelowIs
  <2>2. ASSUME NEW i \in S PROVE Below(S, i) \in Nat /\ Below(S, i) < n
    BY <1>0, BelowIs
  <2> HIDE DEF n
  <2> QED BY <2>1, <2>2
<1>2. ASSUME NEW i \in S, NEW j \in S, Below(S, i) = Below(S, j) PROVE i = j
  <2>1. Below(S, i) \in Nat
    BY BelowIs
  <2>2. ~(i < j) /\ ~(j < i)
    BY <1>2, <2>1, BelowIs
  <2> QED BY <2>2
<1>3. f \in Injection(S, T)
  <2>1. f \in [S -> T]
    BY <1>1
  <2>2. \A i, j \in S : f[i] = f[j] => i = j
    BY <1>2
  <2> HIDE DEF f, T
  <2> QED BY <2>1, <2>2 DEF Injection, IsInjective
<1>4. IsFiniteSet(T) /\ Cardinality(T) = n
  <2>1. n - 1 \in Int /\ 0 \in Int
    BY <1>1
  <2>2. IsFiniteSet(T) /\ Cardinality(T) = IF 0 > n - 1 THEN 0 ELSE (n - 1) - 0 + 1
    <3> DEFINE m == n - 1
    <3> HIDE DEF m
    <3>1. m \in Int
      BY <2>1 DEF m
    <3>2. IsFiniteSet(0 .. m) /\ Cardinality(0 .. m) = IF 0 > m THEN 0 ELSE m - 0 + 1
      BY <3>1, FS_Interval
    <3> QED BY <3>2 DEF m
  <2> QED BY <1>1, <2>2
<1>5. f \in Surjection(S, T)
  <2> HIDE DEF f, T
  <2> QED BY <1>3, <1>4, FS_Injection
<1>6. \A y \in T : \E i \in S : Below(S, i) = y
  BY <1>5 DEF Surjection
<1>7. ASSUME NEW j \in 1 .. n
      PROVE  Sorted(S)[j] \in S /\ Below(S, Sorted(S)[j]) = j - 1
  <2>1. j - 1 \in T
    BY <1>1
  <2>2. \E i \in S : Below(S, i) = j - 1
    BY <1>6, <2>1
  <2>3. Sorted(S)[j] = CHOOSE i \in S : Below(S, i) = j - 1
    BY DEF Sorted
  <2> QED BY <2>2, <2>3
<1>8. ASSUME NEW i \in S
      PROVE  Below(S, i) + 1 \in 1 .. n /\ Sorted(S)[Below(S, i) + 1] = i
  <2>1. Below(S, i) + 1 \in 1 .. n /\ (Below(S, i) + 1) - 1 = Below(S, i)
    BY <1>1
  <2> QED BY <1>2, <1>7, <2>1
<1> QED BY <1>1, <1>7, <1>8 DEF Sorted

TwinClosed(S) == \A i \in S : Twin(i) \in S

\* In a set that holds every pair whole, the even ones have an even rank.
LEMMA EvenRanks ==
    ASSUME NEW S \in SUBSET Nat, IsFiniteSet(S), TwinClosed(S), NEW m \in Nat
    PROVE  Below(S, 2 * m) % 2 = 0
<1> DEFINE E == {k \in 0 .. m : Below(S, 2 * k) % 2 = 0}
<1>0. \A x \in S : x \in Nat
  OBVIOUS
<1>1. 0 \in E
  <2>1. {x \in S : x < 2 * 0} = {}
    <3>1. ASSUME NEW x \in S PROVE ~(x < 2 * 0)
      <4>1. x \in Nat
        BY <1>0
      <4> QED BY <4>1
    <3> QED BY <3>1, Zenon
  <2>2. Below(S, 2 * 0) = 0
    BY <2>1, FS_EmptySet DEF Below
  <2> QED BY <2>2
<1>2. ASSUME NEW k \in 0 .. m - 1, k \in E PROVE k + 1 \in E
  <2> DEFINE b == Below(S, 2 * k)
  <2>1. 2 * k \in Nat /\ 2 * k + 1 \in Nat /\ 2 * (k + 1) = (2 * k + 1) + 1 /\ k \in Nat
    OBVIOUS
  <2>2. b \in Nat /\ b % 2 = 0
    BY <1>2, <2>1, BelowIs
  <2>3. 2 * k \in S <=> 2 * k + 1 \in S
    <3>1. Twin(2 * k) = 2 * k + 1 /\ Twin(2 * k + 1) = 2 * k
      BY <2>1 DEF Twin
    <3> QED BY <3>1 DEF TwinClosed
  <2>4. Below(S, 2 * k + 1) = IF 2 * k \in S THEN b + 1 ELSE b
    BY <2>1, BelowIs
  <2>5. Below(S, (2 * k + 1) + 1) = IF 2 * k + 1 \in S THEN Below(S, 2 * k + 1) + 1
                                    ELSE Below(S, 2 * k + 1)
    <3> DEFINE c == 2 * k + 1
    <3>1. c \in Nat
      BY <2>1
    <3> HIDE DEF c
    <3>2. Below(S, c + 1) = IF c \in S THEN Below(S, c) + 1 ELSE Below(S, c)
      BY <3>1, BelowIs
    <3> QED BY <3>2 DEF c
  <2> HIDE DEF b
  <2>6. Below(S, 2 * (k + 1)) = IF 2 * k \in S THEN b + 2 ELSE b
    BY <2>1, <2>2, <2>3, <2>4, <2>5
  <2>7. (b + 2) % 2 = 0
    BY <2>2
  <2> QED BY <2>2, <2>6, <2>7
<1>3. 0 .. m \subseteq E
  <2> HIDE DEF E
  <2> QED BY <1>1, <1>2, UpwardInduction
<1> QED BY <1>3

\* So that every second entry stands for its pair.
LEMMA PairsOf ==
    ASSUME NEW S \in SUBSET Nat, IsFiniteSet(S), TwinClosed(S)
    PROVE  {Sorted(S)[j] \div 2 : j \in {k \in DOMAIN Sorted(S) : k % 2 = 1}} = {i \div 2 : i \in S}
<1> DEFINE J == {k \in DOMAIN Sorted(S) : k % 2 = 1}
<1>1. ASSUME NEW j \in J PROVE Sorted(S)[j] \in S
  BY SortedIs
<1>2. ASSUME NEW i \in S PROVE \E j \in J : Sorted(S)[j] \div 2 = i \div 2
  <2> DEFINE h == i \div 2  e == 2 * h  r == Below(S, e)
  <2>1. h \in Nat /\ e \in Nat /\ e \div 2 = h /\ (i = e \/ Twin(i) = e)
    BY Twins
  <2>2. e \in S
    BY <2>1 DEF TwinClosed
  <2>3. r \in Nat /\ r % 2 = 0
    <3> HIDE DEF h
    <3>1. r \in Nat
      BY <2>1, BelowIs
    <3>2. Below(S, 2 * h) % 2 = 0
      BY <2>1, EvenRanks
    <3> QED BY <3>1, <3>2
  <2>4. r + 1 \in DOMAIN Sorted(S) /\ Sorted(S)[r + 1] = e
    BY <2>2, SortedIs
  <2> HIDE DEF r, h
  <2>5. (r + 1) % 2 = 1
    BY <2>3
  <2>6. r + 1 \in J
    BY <2>4, <2>5
  <2> QED BY <2>1, <2>4, <2>6 DEF h
<1> HIDE DEF J
<1>3. {Sorted(S)[j] \div 2 : j \in J} = {i \div 2 : i \in S}
  BY <1>1, <1>2
<1> QED BY <1>3 DEF J

-----------------------------------------------------------------------------
(* What the verifier knows.                                                *)

Halves(S) == {i \div 2 : i \in S}

\* One level of it, from the level below.
KnownAbove(below) ==
    [i \in withTwins(Halves(DOMAIN below)) |-> i \notin Halves(DOMAIN below)]

\* The recursion of getSerializationMapping's known indices.
LEMMA KnownAre ==
    ASSUME NEW D
    PROVE  LET known == KnownIndices(D)
           IN /\ known[1] = [i \in D |-> TRUE]
              /\ \A k \in 2 .. LogBlocks :
                    known[k] = KnownAbove(known[k - 1])
<1> DEFINE N == LogBlocks
           base == [i \in D |-> TRUE]
           Sound(f, m) == f = [k \in 1 .. m |-> IF k = 1 THEN base ELSE KnownAbove(f[k - 1])]
           S == {m \in 0 .. N : \E f : Sound(f, m)}
           known == KnownIndices(D)
<1>0. N \in Nat /\ N >= 1
  BY Levels
<1>1. known = CHOOSE f : Sound(f, N)
  BY DEF KnownIndices, KnownAbove, Halves
<1> HIDE DEF known, base
<1>2. 0 \in S
  <2> DEFINE f == [k \in 1 .. 0 |-> 0]
  <2>1. f = [k \in 1 .. 0 |-> IF k = 1 THEN base ELSE KnownAbove(f[k - 1])]
    OBVIOUS
  <2>2. \E h : Sound(h, 0)
    BY <2>1
  <2> HIDE DEF Sound
  <2> QED BY <1>0, <2>2
<1>3. ASSUME NEW m \in 0 .. N - 1, m \in S PROVE m + 1 \in S
  <2>1. PICK f : Sound(f, m)
    BY <1>3
  <2> DEFINE new == IF m = 0 THEN base ELSE KnownAbove(f[m])
             g == [k \in 1 .. m + 1 |-> IF k = m + 1 THEN new ELSE f[k]]
  <2>2. ASSUME NEW k \in 1 .. m + 1
        PROVE  g[k] = IF k = 1 THEN base ELSE KnownAbove(g[k - 1])
    <3>1. k # 1 => k - 1 \in 1 .. m + 1 /\ k - 1 # m + 1 /\ g[k - 1] = f[k - 1]
      BY <1>0
    <3>2. CASE k = m + 1
      <4>1. g[k] = new /\ k - 1 = m /\ (k = 1 <=> m = 0)
        BY <1>0, <3>2
      <4> HIDE DEF g
      <4> QED BY <3>1, <4>1
    <3>3. CASE k # m + 1
      <4>1. k \in 1 .. m /\ g[k] = f[k]
        BY <1>0, <3>3
      <4>2. f[k] = IF k = 1 THEN base ELSE KnownAbove(f[k - 1])
        BY <2>1, <4>1
      <4> HIDE DEF g
      <4> QED BY <3>1, <4>1, <4>2
    <3> QED BY <3>2, <3>3
  <2>3. g = [k \in 1 .. m + 1 |-> IF k = 1 THEN base ELSE KnownAbove(g[k - 1])]
    BY <2>2
  <2>4. \E h : Sound(h, m + 1)
    BY <2>3
  <2> HIDE DEF Sound
  <2> QED BY <1>0, <2>4
<1>4. 0 .. N \subseteq S
  <2> HIDE DEF S
  <2> QED BY <1>0, <1>2, <1>3, UpwardInduction
<1>5. \E f : Sound(f, N)
  <2> HIDE DEF Sound
  <2> QED BY <1>0, <1>4
<1>6. Sound(known, N)
  <2> HIDE DEF Sound
  <2> QED BY <1>1, <1>5
<1>7. known[1] = base /\ \A k \in 2 .. N : known[k] = KnownAbove(known[k - 1])
  <2>1. 1 \in 1 .. N
    BY <1>0
  <2>2. known[1] = base
    BY <1>6, <2>1
  <2>3. ASSUME NEW k \in 2 .. N PROVE known[k] = KnownAbove(known[k - 1])
    <3>1. k \in 1 .. N /\ k # 1
      BY <1>0
    <3> QED BY <1>6, <3>1
  <2> QED BY <2>2, <2>3
<1> QED BY <1>7 DEF known, base

\* The known and the explicit indices of a level, from the level below.
LEMMA KnownLevels ==
    ASSUME NEW D
    PROVE  /\ Known(D, 1) = D /\ Explicit(D, 1) = D
           /\ \A k \in 2 .. LogBlocks :
                 /\ Known(D, k) = withTwins(Halves(Known(D, k - 1)))
                 /\ Explicit(D, k) = Known(D, k) \ Halves(Known(D, k - 1))
<1> DEFINE known == KnownIndices(D)
<1>1. known[1] = [i \in D |-> TRUE]
  BY KnownAre
<1>2. ASSUME NEW k \in 2 .. LogBlocks
      PROVE  /\ Known(D, k) = withTwins(Halves(Known(D, k - 1)))
             /\ Explicit(D, k) = Known(D, k) \ Halves(Known(D, k - 1))
  <2> DEFINE implied == Halves(DOMAIN known[k - 1])
  <2>0. known[k] = KnownAbove(known[k - 1])
    BY KnownAre
  <2>1. known[k] = [i \in withTwins(implied) |-> i \notin implied]
    BY <2>0 DEF KnownAbove
  <2> HIDE DEF implied, known
  <2>2. DOMAIN known[k] = withTwins(implied)
    BY <2>1
  <2>3. {i \in DOMAIN known[k] : known[k][i]} = (DOMAIN known[k]) \ implied
    BY <2>1
  <2> QED BY <2>2, <2>3 DEF Known, Explicit, implied, known
<1> HIDE DEF known
<1>3. DOMAIN known[1] = D /\ {i \in DOMAIN known[1] : known[1][i]} = D
  BY <1>1
<1> QED BY <1>2, <1>3 DEF Known, Explicit, known

\* Closing a set under twins.
LEMMA WithTwins ==
    ASSUME NEW S \in SUBSET Nat
    PROVE  /\ withTwins(S) \in SUBSET Nat /\ S \subseteq withTwins(S) /\ TwinClosed(withTwins(S))
           /\ Halves(withTwins(S)) = Halves(S)
           /\ \A i \in withTwins(S) : i \in S \/ \E x \in S : i = Twin(x)
<1>1. \A i \in withTwins(S) : i \in S \/ \E x \in S : i = Twin(x)
  BY DEF withTwins
<1>2. \A x \in S : x \in Nat /\ Twin(x) \in Nat /\ Twin(Twin(x)) = x /\ Twin(x) \div 2 = x \div 2
  <2> TAKE x \in S
  <2>1. x \in Nat
    OBVIOUS
  <2> QED BY <2>1, Twins
<1>3. S \subseteq withTwins(S) /\ \A x \in S : Twin(x) \in withTwins(S)
  BY DEF withTwins
<1>4. withTwins(S) \in SUBSET Nat
  BY <1>1, <1>2
<1>5. TwinClosed(withTwins(S))
  <2>1. ASSUME NEW i \in withTwins(S) PROVE Twin(i) \in withTwins(S)
    <3>1. CASE i \in S
      BY <1>3, <3>1
    <3>2. CASE \E x \in S : i = Twin(x)
      <4>1. PICK x \in S : i = Twin(x)
        BY <3>2
      <4>2. Twin(i) = x /\ x \in withTwins(S)
        BY <1>2, <1>3, <4>1
      <4> QED BY <4>2
    <3> QED BY <1>1, <3>1, <3>2
  <2> QED BY <2>1 DEF TwinClosed
<1>6. Halves(withTwins(S)) = Halves(S)
  <2>1. ASSUME NEW i \in withTwins(S) PROVE \E x \in S : i \div 2 = x \div 2
    BY <1>1, <1>2
  <2> QED BY <1>3, <2>1 DEF Halves
<1> QED BY <1>1, <1>3, <1>4, <1>5, <1>6

\* The known indices of each level: whole pairs, inside the level, on the paths
\* to the queried pairs.
LEMMA KnownPlaces ==
    ASSUME NEW Q \in SUBSET Blocks, NEW k \in 1 .. LogBlocks
    PROVE  LET D == withTwins(Q)
           IN /\ Known(D, k) \subseteq 0 .. 2^((LogBlocks - k) + 1) - 1
              /\ Known(D, k) \in SUBSET Nat /\ IsFiniteSet(Known(D, k))
              /\ TwinClosed(Known(D, k))
              /\ Q # {} => Known(D, k) # {}
              /\ \A i \in Halves(Known(D, k)) : \E q \in Q : i = (q \div 2) \div 2^(k - 1)
<1> DEFINE N == LogBlocks  D == withTwins(Q)
           Inside(j) == Known(D, j) \subseteq 0 .. 2^((N - j) + 1) - 1
           OnPaths(j) == \A i \in Halves(Known(D, j)) : \E q \in Q : i = (q \div 2) \div 2^(j - 1)
           Fine(j) == Inside(j) /\ TwinClosed(Known(D, j)) /\ (Q # {} => Known(D, j) # {})
                      /\ OnPaths(j)
           S == {m \in 0 .. N - 1 : Fine(m + 1)}
<1>0. N \in Nat /\ N >= 1 /\ N - 1 \in Nat
  BY Levels
<1>1. Q \in SUBSET Nat /\ \A q \in Q : q \in Nat /\ q \div 2 \in Nat
  BY PairPlaces
<1>2. /\ Known(D, 1) = D
      /\ \A j \in 2 .. N : Known(D, j) = withTwins(Halves(Known(D, j - 1)))
  BY KnownLevels
<1>3. 0 \in S
  <2> DEFINE e == 2^(N - 1)
  <2>1. e \in Nat /\ 2^N = 2 * e /\ (N - 1) + 1 = N /\ 2^0 = 1 /\ 0 + 1 = 1
    <3>1. N - 1 \in 0 .. N /\ (N - 1) + 1 = N
      BY <1>0
    <3> QED BY <3>1, Powers
  <2>2. /\ D \in SUBSET Nat /\ Q \subseteq D /\ TwinClosed(D) /\ Halves(D) = Halves(Q)
        /\ \A i \in D : i \in Q \/ \E x \in Q : i = Twin(x)
    BY <1>1, WithTwins
  <2>3. Inside(1)
    <3>1. \A q \in Q : q \in Nat /\ q < 2 * e
      <4> TAKE q \in Q
      <4>1. q \in 0 .. 2 * e - 1
        BY <2>1 DEF Blocks
      <4> HIDE DEF e
      <4> QED BY <2>1, <4>1
    <3> HIDE DEF e
    <3>2. \A q \in Q : Twin(q) \in Nat /\ Twin(q) < 2 * e
      BY <2>1, <3>1, Twins
    <3> HIDE DEF D
    <3>3. \A i \in D : i \in Nat /\ i < 2 * e
      BY <2>2, <3>1, <3>2
    <3>4. \A i \in D : i \in 0 .. 2 * e - 1
      BY <2>1, <3>3
    <3> QED BY <1>2, <2>1, <3>4
  <2>4. OnPaths(1)
    <3>1. \A q \in Q : (q \div 2) \div 2^(1 - 1) = q \div 2
      <4> TAKE q \in Q
      <4> DEFINE h == q \div 2
      <4>1. h \in Nat
        BY <1>1
      <4> HIDE DEF h
      <4>2. h \div 1 = h
        BY <4>1
      <4>3. 2^(1 - 1) = 1
        BY <2>1
      <4> QED BY <4>2, <4>3 DEF h
    <3> HIDE DEF D
    <3> QED BY <1>2, <2>2, <3>1, Zenon DEF Halves
  <2> HIDE DEF D, Inside, OnPaths
  <2>5. Fine(0 + 1)
    BY <1>2, <2>1, <2>2, <2>3, <2>4
  <2> HIDE DEF Fine
  <2> QED BY <1>0, <2>5
<1>4. ASSUME NEW m \in 0 .. (N - 1) - 1, m \in S PROVE m + 1 \in S
  <2> DEFINE j == m + 1  e == 2^((N - j) - 1)  T == Halves(Known(D, j))
  <2>0. /\ j \in 1 .. N - 1 /\ j \in Nat /\ j + 1 \in 2 .. N /\ (j + 1) - 1 = j
        /\ (N - (j + 1)) + 1 = N - j /\ (N - j) - 1 \in 0 .. N /\ N - j \in 0 .. N
        /\ ((N - j) - 1) + 1 = N - j /\ j - 1 \in Nat /\ (j - 1) + 1 = j /\ j <= N
    BY <1>0
  <2>1. e \in Nat /\ 2^(N - j) = 2 * e /\ 2^((N - j) + 1) = 2 * (2 * e)
    BY <2>0, Powers
  <2>2. Fine(j)
    BY <1>4
  <2>3. Known(D, j + 1) = withTwins(T)
    BY <1>2, <2>0
  <2> HIDE DEF j, e, D
  <2>4. ASSUME NEW i \in T PROVE i \in Nat /\ i < 2 * e
    <3>1. PICK x \in Known(D, j) : i = x \div 2
      BY <2>4 DEF Halves
    <3>2. x \in 0 .. 2 * (2 * e) - 1
      BY <2>1, <2>2
    <3> QED BY <2>1, <3>1, <3>2
  <2> HIDE DEF T
  <2>5. T \in SUBSET Nat
    BY <2>4
  <2>6. /\ withTwins(T) \in SUBSET Nat /\ T \subseteq withTwins(T) /\ TwinClosed(withTwins(T))
        /\ Halves(withTwins(T)) = Halves(T)
        /\ \A i \in withTwins(T) : i \in T \/ \E x \in T : i = Twin(x)
    BY <2>5, WithTwins
  <2>7. Inside(j + 1)
    <3>1. \A x \in T : Twin(x) \in Nat /\ Twin(x) < 2 * e
      BY <2>1, <2>4, Twins
    <3>2. \A i \in withTwins(T) : i \in Nat /\ i < 2 * e
      BY <2>4, <2>6, <3>1
    <3>3. \A i \in withTwins(T) : i \in 0 .. 2 * e - 1
      BY <2>1, <3>2
    <3> QED BY <2>0, <2>1, <2>3, <3>3
  <2>8. OnPaths(j + 1)
    <3>1. ASSUME NEW i \in Halves(T) PROVE \E q \in Q : i = (q \div 2) \div 2^j
      <4>1. PICK x \in T : i = x \div 2
        BY <3>1 DEF Halves
      <4>2. PICK q \in Q : x = (q \div 2) \div 2^(j - 1)
        BY <2>2, <4>1 DEF T
      <4> DEFINE h == q \div 2
      <4>3. h \in Nat /\ x = h \div 2^(j - 1)
        BY <1>1, <4>2
      <4> HIDE DEF h
      <4>4. (h \div 2^(j - 1)) \div 2 = h \div 2^((j - 1) + 1)
        <5> DEFINE l == j - 1
        <5>1. l \in Nat /\ l + 1 <= LogBlocks
          BY <2>0
        <5> HIDE DEF l
        <5>2. (h \div 2^l) \div 2 = h \div 2^(l + 1)
          BY <4>3, <5>1, HalfOf
        <5> QED BY <5>2 DEF l
      <4>5. i = h \div 2^j
        BY <2>0, <4>1, <4>3, <4>4
      <4> QED BY <4>5 DEF h
    <3> QED BY <2>0, <2>3, <2>6, <3>1
  <2>9. Q # {} => Known(D, j + 1) # {}
    <3>1. Known(D, j) # {} => T # {}
      BY DEF T, Halves
    <3> QED BY <2>2, <2>3, <2>6, <3>1
  <2>10. Fine(j + 1)
    <3> HIDE DEF Inside, OnPaths
    <3> QED BY <2>3, <2>6, <2>7, <2>8, <2>9
  <2> HIDE DEF Fine
  <2>11. m + 1 \in 0 .. N - 1
    BY <1>0
  <2> QED BY <2>10, <2>11 DEF j
<1>5. 0 .. N - 1 \subseteq S
  <2> HIDE DEF S
  <2> QED BY <1>0, <1>3, <1>4, UpwardInduction
<1>6. Fine(k)
  <2>1. k - 1 \in 0 .. N - 1 /\ (k - 1) + 1 = k
    BY <1>0
  <2> HIDE DEF Fine
  <2> QED BY <1>5, <2>1
<1>7. Known(D, k) \in SUBSET Nat /\ IsFiniteSet(Known(D, k))
  <2> DEFINE K == Known(D, k)  b == 2^((N - k) + 1) - 1
  <2>1. b \in Int /\ K \subseteq 0 .. b
    <3>1. N - k \in 0 .. N
      BY <1>0
    <3>2. 2^(N - k) \in Nat /\ 2^((N - k) + 1) = 2 * 2^(N - k)
      BY <3>1, Powers
    <3> QED BY <1>6, <3>2
  <2> HIDE DEF K, b
  <2>2. IsFiniteSet(0 .. b) /\ K \in SUBSET (0 .. b)
    BY <2>1, FS_Interval
  <2>3. IsFiniteSet(K)
    BY <2>2, FS_Subset
  <2> QED BY <2>1, <2>3 DEF K
<1> QED BY <1>6, <1>7

-----------------------------------------------------------------------------
(* Rebuilding the root.                                                    *)

\* The recursion of calculateRoot.
LEMMA CalculatedAre ==
    ASSUME NEW layers, Len(layers) = LogBlocks
    PROVE  LET curr == calculatedLayers(layers)
           IN /\ curr[0] = emptyLayer
              /\ \A k \in 1 .. LogBlocks : curr[k] = calculateNextLayer(curr[k - 1], layers[k])
<1> DEFINE n == LogBlocks
           Sound(f, m) == f = [k \in 0 .. m |-> IF k = 0 THEN emptyLayer
                                                ELSE calculateNextLayer(f[k - 1], layers[k])]
           S == {m \in 0 .. n : \E f : Sound(f, m)}
           curr == calculatedLayers(layers)
<1>0. n \in Nat
  BY Levels
<1>1. curr = CHOOSE f : Sound(f, n)
  BY DEF calculatedLayers
<1> HIDE DEF curr
<1>2. 0 \in S
  <2> DEFINE f == [k \in 0 .. 0 |-> emptyLayer]
  <2>1. f = [k \in 0 .. 0 |-> IF k = 0 THEN emptyLayer
                              ELSE calculateNextLayer(f[k - 1], layers[k])]
    OBVIOUS
  <2>2. \E h : Sound(h, 0)
    BY <2>1
  <2> HIDE DEF Sound
  <2> QED BY <1>0, <2>2
<1>3. ASSUME NEW m \in 0 .. n - 1, m \in S PROVE m + 1 \in S
  <2>1. PICK f : Sound(f, m)
    BY <1>3
  <2> DEFINE new == calculateNextLayer(f[m], layers[m + 1])
             g == [k \in 0 .. m + 1 |-> IF k = m + 1 THEN new ELSE f[k]]
  <2>2. ASSUME NEW k \in 0 .. m + 1
        PROVE  g[k] = IF k = 0 THEN emptyLayer ELSE calculateNextLayer(g[k - 1], layers[k])
    <3>1. k # 0 => k - 1 \in 0 .. m + 1 /\ k - 1 # m + 1 /\ g[k - 1] = f[k - 1]
      BY <1>0
    <3>2. CASE k = m + 1
      <4>1. g[k] = new /\ k # 0 /\ k - 1 = m
        BY <1>0, <3>2
      <4> HIDE DEF g
      <4> QED BY <3>1, <3>2, <4>1
    <3>3. CASE k # m + 1
      <4>1. k \in 0 .. m /\ g[k] = f[k]
        BY <1>0, <3>3
      <4>2. f[k] = IF k = 0 THEN emptyLayer ELSE calculateNextLayer(f[k - 1], layers[k])
        BY <2>1, <4>1
      <4> HIDE DEF g
      <4> QED BY <3>1, <4>1, <4>2
    <3> QED BY <3>2, <3>3
  <2>3. g = [k \in 0 .. m + 1 |-> IF k = 0 THEN emptyLayer
                                  ELSE calculateNextLayer(g[k - 1], layers[k])]
    BY <2>2
  <2>4. \E h : Sound(h, m + 1)
    BY <2>3
  <2> HIDE DEF Sound
  <2> QED BY <1>0, <2>4
<1>4. 0 .. n \subseteq S
  <2> HIDE DEF S
  <2> QED BY <1>0, <1>2, <1>3, UpwardInduction
<1>5. \E f : Sound(f, n)
  <2> HIDE DEF Sound
  <2> QED BY <1>0, <1>4
<1>6. Sound(curr, n)
  <2> HIDE DEF Sound
  <2> QED BY <1>1, <1>5
<1>7. curr[0] = emptyLayer /\ \A k \in 1 .. n : curr[k] = calculateNextLayer(curr[k - 1], layers[k])
  BY <1>0, <1>6
<1> QED BY <1>7 DEF curr

\* A layer whose positions come in whole pairs, and the layer above it: the
\* hashes of its pairs, and what was received for the other positions.
WholePairs(S) == S \in SUBSET Nat /\ IsFiniteSet(S) /\ TwinClosed(S)

IsNextLayer(next, layer, received) ==
    /\ DOMAIN next = DOMAIN received \cup Halves(DOMAIN layer)
    /\ \A i \in Halves(DOMAIN layer) : next[i] = hashPair(layer, i)
    /\ \A i \in (DOMAIN received) \ Halves(DOMAIN layer) : next[i] = received[i]

\* calculateNextLayer on a layer that holds every pair whole.
LEMMA NextLayerIs ==
    ASSUME NEW layer, NEW received, WholePairs(DOMAIN layer)
    PROVE  IsNextLayer(calculateNextLayer(layer, received), layer, received)
<1> DEFINE next == calculateNextLayer(layer, received)
           S == DOMAIN layer  keys == Sorted(S)
           pairs == {keys[j] \div 2 : j \in {k \in DOMAIN keys : k % 2 = 1}}
<1>1. pairs = Halves(S)
  <2> HIDE DEF S
  <2>1. S \in SUBSET Nat /\ IsFiniteSet(S) /\ TwinClosed(S)
    BY DEF S, WholePairs
  <2> QED BY <2>1, PairsOf DEF Halves
<1>2. next
        = [i \in DOMAIN received \cup pairs |-> IF i \in pairs THEN hashPair(layer, i)
                                                ELSE received[i]]
  BY DEF calculateNextLayer
<1> HIDE DEF pairs, keys, next
<1>3. IsNextLayer(next, layer, received)
  BY <1>1, <1>2 DEF IsNextLayer
<1> QED BY <1>3 DEF next

\* Level by level, from the deserialized subtree.
LEMMA Rebuilt ==
    ASSUME NEW Q \in SUBSET Blocks, NEW bad
    PROVE  LET D == withTwins(Q)
               vw == ViewWith(D, bad)
               curr == calculatedLayers(vw)
           IN /\ \A k \in 1 .. LogBlocks :
                    /\ DOMAIN curr[k] = Known(D, k)
                    /\ \A i \in Explicit(D, k) : curr[k][i] = vw[k][i]
              /\ \A k \in 2 .. LogBlocks : \A i \in Halves(Known(D, k - 1)) :
                    curr[k][i] = hash(curr[k - 1][2 * i], curr[k - 1][2 * i + 1])
<1> DEFINE N == LogBlocks  D == withTwins(Q)  vw == ViewWith(D, bad)  curr == calculatedLayers(vw)
           Fine(k) == /\ DOMAIN curr[k] = Known(D, k)
                      /\ \A i \in Explicit(D, k) : curr[k][i] = vw[k][i]
           Hashed(k) == \A i \in Halves(Known(D, k - 1)) :
                           curr[k][i] = hash(curr[k - 1][2 * i], curr[k - 1][2 * i + 1])
           S == {m \in 0 .. N - 1 : Fine(m + 1)}
<1>0. N \in Nat /\ N >= 1 /\ N - 1 \in Nat
  BY Levels
<1>1. Len(vw) = N /\ \A k \in 1 .. N : DOMAIN vw[k] = Explicit(D, k)
  <2> HIDE DEF D
  <2> QED BY <1>0 DEF ViewWith
<1>2. /\ curr[0] = emptyLayer
      /\ \A k \in 1 .. N : curr[k] = calculateNextLayer(curr[k - 1], vw[k])
  <2> HIDE DEF vw
  <2> QED BY <1>1, CalculatedAre
<1>3. /\ Known(D, 1) = D /\ Explicit(D, 1) = D
      /\ \A k \in 2 .. N :
            /\ Known(D, k) = withTwins(Halves(Known(D, k - 1)))
            /\ Explicit(D, k) = Known(D, k) \ Halves(Known(D, k - 1))
  BY KnownLevels
<1>4. \A k \in 1 .. N : /\ Known(D, k) \in SUBSET Nat /\ IsFiniteSet(Known(D, k))
                        /\ TwinClosed(Known(D, k))
  BY KnownPlaces
<1> HIDE DEF D, vw, curr
<1>5. 0 \in S
  <2> DEFINE layer == emptyLayer  one == 1  next == calculateNextLayer(layer, vw[one])
  <2>1. DOMAIN layer = {}
    BY DEF emptyLayer
  <2> HIDE DEF layer, one
  <2>2. DOMAIN layer \in SUBSET Nat /\ IsFiniteSet(DOMAIN layer) /\ TwinClosed(DOMAIN layer)
    BY <2>1, FS_EmptySet DEF TwinClosed
  <2>7. Halves(DOMAIN layer) = {}
    BY <2>1 DEF Halves
  <2>3. /\ DOMAIN next = DOMAIN vw[one] \cup Halves(DOMAIN layer)
        /\ \A i \in Halves(DOMAIN layer) : next[i] = hashPair(layer, i)
        /\ \A i \in (DOMAIN vw[one]) \ Halves(DOMAIN layer) : next[i] = vw[one][i]
    <3>1. WholePairs(DOMAIN layer)
      BY <2>2 DEF WholePairs
    <3>2. IsNextLayer(next, layer, vw[one])
      BY <3>1, NextLayerIs
    <3> HIDE DEF next
    <3> QED BY <3>2 DEF IsNextLayer
  <2>4. curr[1] = next /\ 1 \in 1 .. N /\ 1 - 1 = 0
    <3>1. 1 \in 1 .. N /\ 1 - 1 = 0
      BY <1>0
    <3> QED BY <1>2, <3>1 DEF layer, one
  <2> HIDE DEF next
  <2>5. DOMAIN curr[1] = D /\ \A i \in D : curr[1][i] = vw[1][i]
    BY <1>1, <1>3, <2>3, <2>4, <2>7 DEF one
  <2>6. Fine(0 + 1) /\ 0 \in 0 .. N - 1
    BY <1>0, <1>3, <2>5
  <2> HIDE DEF Fine
  <2> QED BY <2>6
<1>6. ASSUME NEW m \in 0 .. (N - 1) - 1, Fine(m + 1)
      PROVE  Fine((m + 1) + 1) /\ Hashed((m + 1) + 1)
  <2> DEFINE j == m + 1  k == j + 1  layer == curr[j]  next == calculateNextLayer(layer, vw[k])
             pairs == Halves(Known(D, j))
  <2>0. j \in 1 .. N /\ k \in 2 .. N /\ k \in 1 .. N /\ k - 1 = j
    BY <1>0
  <2>1. DOMAIN layer = Known(D, j)
    BY <1>6
  <2>2. curr[k] = next
    BY <1>2, <2>0
  <2>3. DOMAIN layer \in SUBSET Nat /\ IsFiniteSet(DOMAIN layer) /\ TwinClosed(DOMAIN layer)
    BY <1>4, <2>0, <2>1
  <2> HIDE DEF layer, j, k
  <2>4. /\ DOMAIN next = DOMAIN vw[k] \cup Halves(DOMAIN layer)
        /\ \A i \in Halves(DOMAIN layer) : next[i] = hashPair(layer, i)
        /\ \A i \in (DOMAIN vw[k]) \ Halves(DOMAIN layer) : next[i] = vw[k][i]
    <3>1. WholePairs(DOMAIN layer)
      BY <2>3 DEF WholePairs
    <3>2. IsNextLayer(next, layer, vw[k])
      BY <3>1, NextLayerIs
    <3> HIDE DEF next
    <3> QED BY <3>2 DEF IsNextLayer
  <2>5. /\ DOMAIN vw[k] = Explicit(D, k) /\ Explicit(D, k) = Known(D, k) \ pairs
        /\ Known(D, k) = withTwins(pairs)
    BY <1>1, <1>3, <2>0
  <2>6. pairs \subseteq withTwins(pairs)
    BY DEF withTwins
  <2> HIDE DEF next, pairs
  <2>7. DOMAIN curr[k] = Known(D, k) /\ \A i \in Explicit(D, k) : curr[k][i] = vw[k][i]
    BY <2>1, <2>2, <2>4, <2>5, <2>6 DEF pairs
  <2>8. \A i \in pairs : curr[k][i] = hash(curr[j][2 * i], curr[j][2 * i + 1])
    BY <2>1, <2>2, <2>4 DEF pairs, hashPair, layer
  <2>9. Fine(k) /\ Hashed(k)
    BY <2>0, <2>7, <2>8 DEF pairs
  <2> QED BY <2>9 DEF k, j
<1> HIDE DEF Fine, Hashed
<1>7. \A m \in 0 .. (N - 1) - 1 : m \in S => m + 1 \in S
  <2> TAKE m \in 0 .. (N - 1) - 1
  <2>1. m + 1 \in 0 .. N - 1
    BY <1>0
  <2> QED BY <1>6, <2>1
<1>8. 0 .. N - 1 \subseteq S
  <2> HIDE DEF S
  <2> QED BY <1>0, <1>5, <1>7, UpwardInduction
<1>9. ASSUME NEW k \in 1 .. N PROVE Fine(k)
  <2>1. k - 1 \in 0 .. N - 1 /\ (k - 1) + 1 = k
    BY <1>0
  <2> QED BY <1>8, <2>1
<1>10. ASSUME NEW k \in 2 .. N PROVE Hashed(k)
  <2>1. k - 2 \in 0 .. (N - 1) - 1 /\ (k - 2) + 1 = k - 1 /\ (k - 1) + 1 = k /\ k - 1 \in 1 .. N
    BY <1>0
  <2>2. Fine((k - 2) + 1)
    BY <1>9, <2>1
  <2>3. Hashed(((k - 2) + 1) + 1)
    BY <1>6, <2>1, <2>2
  <2> QED BY <2>1, <2>3
<1> QED BY <1>9, <1>10 DEF Fine, Hashed, D, vw, curr

\* The node above two known ones is their digest.
LEMMA Parents ==
    ASSUME NEW Q \in SUBSET Blocks, NEW k \in 1 .. LogBlocks,
           NEW h \in Halves(Known(withTwins(Q), k))
    PROVE  /\ h \in Nat /\ 2 * h \in Known(withTwins(Q), k) /\ 2 * h + 1 \in Known(withTwins(Q), k)
           /\ Layer[k][h] = hash(Layer[k - 1][2 * h], Layer[k - 1][2 * h + 1])
<1> DEFINE K == Known(withTwins(Q), k)  e == 2^(LogBlocks - k)
<1>0. LogBlocks - k \in 0 .. LogBlocks /\ k - 1 \in 0 .. LogBlocks - 1 /\ (k - 1) + 1 = k
  BY Levels
<1>1. e \in Nat /\ 2^((LogBlocks - k) + 1) = 2 * e
  BY <1>0, Powers
<1>2. K \subseteq 0 .. 2 * e - 1 /\ K \in SUBSET Nat /\ TwinClosed(K)
  BY <1>1, KnownPlaces
<1>3. PICK i \in K : h = i \div 2
  BY DEF Halves
<1> HIDE DEF K, e
<1>4. i \in Nat /\ i \in 0 .. 2 * e - 1 /\ i < 2 * e
  BY <1>1, <1>2
<1>5. h \in Nat /\ h < e /\ ((i = 2 * h /\ Twin(i) = 2 * h + 1) \/ (i = 2 * h + 1 /\ Twin(i) = 2 * h))
  BY <1>1, <1>3, <1>4, Twins
<1>6. 2 * h \in K /\ 2 * h + 1 \in K
  BY <1>2, <1>3, <1>5 DEF TwinClosed
<1>7. h \in 0 .. 2^(LogBlocks - ((k - 1) + 1)) - 1
  BY <1>0, <1>1, <1>5 DEF e
<1>8. Layer[(k - 1) + 1][h] = hash(Layer[k - 1][2 * h], Layer[k - 1][2 * h + 1])
  BY <1>0, <1>7, LayerNodes
<1> QED BY <1>0, <1>5, <1>6, <1>8 DEF K

\* No digest of the tree is the other block.
LEMMA LayerValues ==
    ASSUME NEW n \in 0 .. LogBlocks - 1, NEW i \in 0 .. 2^(LogBlocks - n) - 1
    PROVE  Layer[n][i] # otherBlock
<1>1. CASE n = 0
  <2>1. i \in Blocks /\ i \in Nat
    <3>1. LogBlocks - n = LogBlocks /\ 2^LogBlocks \in Nat
      BY <1>1, Levels, Powers
    <3> QED BY <3>1 DEF Blocks
  <2>2. Layer[0][i] = <<i>>
    BY <2>1, LayerNodes DEF Evaluation
  <2> QED BY <1>1, <2>1, <2>2 DEF otherBlock
<1>2. CASE n # 0
  <2> DEFINE m == n - 1
  <2>1. m \in 0 .. LogBlocks - 1 /\ m + 1 = n /\ LogBlocks - (m + 1) = LogBlocks - n
    BY <1>2, Levels
  <2>2. Layer[m + 1][i] = hash(Layer[m][2 * i], Layer[m][2 * i + 1])
    BY <2>1, LayerNodes
  <2> QED BY <2>1, <2>2 DEF hash, otherBlock
<1> QED BY <1>1, <1>2

\* The rebuilt root is the committed one exactly if no digest was replaced: a
\* wrong digest makes every digest above it wrong.
LEMMA RootDecides ==
    ASSUME NEW Q \in SUBSET Blocks, Q # {}
    PROVE  LET D == withTwins(Q)
           IN /\ calculateRoot(ViewWith(D, <<0, 0>>)) = Layer[LogBlocks][0]
              /\ \A bad \in ExplicitPlaces(D) :
                    calculateRoot(ViewWith(D, bad)) # Layer[LogBlocks][0]
<1> DEFINE N == LogBlocks  D == withTwins(Q)
           curr(bad) == calculatedLayers(ViewWith(D, bad))
<1>0. N \in Nat /\ N >= 1 /\ N \in 1 .. N /\ N - 1 \in Nat
  BY Levels
<1>1. \A k \in 2 .. N :
         /\ Known(D, k) = withTwins(Halves(Known(D, k - 1)))
         /\ Explicit(D, k) = Known(D, k) \ Halves(Known(D, k - 1))
  BY KnownLevels
<1>2. Known(D, 1) = Explicit(D, 1)
  BY KnownLevels
<1>3. ASSUME NEW bad
      PROVE  /\ \A k \in 1 .. N : \A i \in Explicit(D, k) :
                   curr(bad)[k][i] = IF <<k, i>> = bad THEN otherBlock ELSE Layer[k - 1][i]
             /\ \A k \in 2 .. N : \A i \in Halves(Known(D, k - 1)) :
                   curr(bad)[k][i] = hash(curr(bad)[k - 1][2 * i], curr(bad)[k - 1][2 * i + 1])
  <2>1. \A k \in 1 .. N : \A i \in Explicit(D, k) : curr(bad)[k][i] = ViewWith(D, bad)[k][i]
    BY Rebuilt
  <2>2. \A k \in 2 .. N : \A i \in Halves(Known(D, k - 1)) :
          curr(bad)[k][i] = hash(curr(bad)[k - 1][2 * i], curr(bad)[k - 1][2 * i + 1])
    BY Rebuilt
  <2> HIDE DEF D, curr
  <2>3. \A k \in 1 .. N : \A i \in Explicit(D, k) :
          ViewWith(D, bad)[k][i] = IF <<k, i>> = bad THEN otherBlock ELSE Layer[k - 1][i]
    BY DEF ViewWith
  <2> QED BY <2>1, <2>2, <2>3
<1>4. ASSUME NEW k \in 1 .. N, NEW h \in Halves(Known(D, k))
      PROVE  /\ h \in Nat /\ 2 * h \in Known(D, k) /\ 2 * h + 1 \in Known(D, k)
             /\ Layer[k][h] = hash(Layer[k - 1][2 * h], Layer[k - 1][2 * h + 1])
  BY Parents
<1>5. 0 \in Halves(Known(D, N)) /\ Known(D, N) = {0, 1}
  <2>1. Known(D, N) \subseteq 0 .. 2^((N - N) + 1) - 1 /\ Known(D, N) # {}
    BY <1>0, KnownPlaces
  <2>2. 2^((N - N) + 1) = 2
    <3>1. N - N = 0 /\ 0 \in 0 .. N
      BY <1>0
    <3>2. 2^(0 + 1) = 2 * 2^0 /\ 2^0 = 1
      BY <3>1, Powers
    <3> DEFINE z == N - N
    <3>3. z = 0
      BY <3>1
    <3> HIDE DEF z
    <3>4. 2^(z + 1) = 2
      BY <3>2, <3>3
    <3> QED BY <3>4 DEF z
  <2>3. \A i \in Known(D, N) : (i = 0 \/ i = 1) /\ i \div 2 = 0
    BY <2>1, <2>2
  <2> HIDE DEF D
  <2>4. 0 \in Halves(Known(D, N))
    BY <2>1, <2>3 DEF Halves
  <2>5. 2 * 0 \in Known(D, N) /\ 2 * 0 + 1 \in Known(D, N)
    BY <1>0, <1>4, <2>4
  <2> QED BY <2>3, <2>4, <2>5
<1>6. \A k \in 1 .. N : \A i \in Known(D, k) :
         /\ i \in Nat /\ i \in 0 .. 2^(N - (k - 1)) - 1 /\ i \div 2 \in Halves(Known(D, k))
         /\ i = 2 * (i \div 2) \/ i = 2 * (i \div 2) + 1
  <2> TAKE k \in 1 .. N
  <2> TAKE i \in Known(D, k)
  <2>1. Known(D, k) \subseteq 0 .. 2^((N - k) + 1) - 1 /\ Known(D, k) \in SUBSET Nat
    BY KnownPlaces
  <2>2. (N - k) + 1 = N - (k - 1)
    BY <1>0
  <2>3. i \in Nat /\ i \div 2 \in Halves(Known(D, k))
    BY <2>1 DEF Halves
  <2> QED BY <2>1, <2>2, <2>3, Twins
<1>7. Layer[N][0] = hash(Layer[N - 1][0], Layer[N - 1][1])
  <2>1. 2 * 0 = 0 /\ 2 * 0 + 1 = 1
    OBVIOUS
  <2>2. Layer[N][0] = hash(Layer[N - 1][2 * 0], Layer[N - 1][2 * 0 + 1])
    BY <1>0, <1>4, <1>5
  <2> QED BY <2>1, <2>2
<1>8. ASSUME NEW bad PROVE calculateRoot(ViewWith(D, bad)) = hash(curr(bad)[N][0], curr(bad)[N][1])
  <2>1. Len(ViewWith(D, bad)) = N
    <3> HIDE DEF D
    <3> QED BY <1>0 DEF ViewWith
  <2>2. 2 * 0 = 0 /\ 2 * 0 + 1 = 1
    OBVIOUS
  <2> QED BY <2>1, <2>2 DEF calculateRoot, hashPair
<1> HIDE DEF D, curr
<1>9. ASSUME NEW k \in 1 .. N, NEW i \in Known(D, k)
      PROVE  curr(<<0, 0>>)[k][i] = Layer[k - 1][i]
  <2> DEFINE c == curr(<<0, 0>>)
             S == {m \in 0 .. N - 1 : \A x \in Known(D, m + 1) : c[m + 1][x] = Layer[(m + 1) - 1][x]}
  <2>1. ASSUME NEW l \in 1 .. N, NEW x \in Explicit(D, l) PROVE c[l][x] = Layer[l - 1][x]
    <3>1. <<l, x>> # <<0, 0>>
      BY <1>0
    <3> QED BY <1>3, <3>1
  <2> HIDE DEF c
  <2>2. 0 \in S
    <3>1. 0 + 1 = 1 /\ 0 \in 0 .. N - 1 /\ 1 \in 1 .. N
      BY <1>0
    <3> QED BY <1>2, <2>1, <3>1
  <2>3. ASSUME NEW m \in 0 .. (N - 1) - 1, m \in S PROVE m + 1 \in S
    <3> DEFINE l == (m + 1) + 1
    <3>1. l \in 2 .. N /\ l \in 1 .. N /\ l - 1 = m + 1 /\ m + 1 \in 1 .. N /\ m + 1 \in 0 .. N - 1
      BY <1>0
    <3>2. ASSUME NEW x \in Known(D, l) PROVE c[l][x] = Layer[l - 1][x]
      <4>1. CASE x \in Explicit(D, l)
        BY <2>1, <3>1, <4>1
      <4>2. CASE x \notin Explicit(D, l)
        <5>1. x \in Halves(Known(D, m + 1))
          BY <1>1, <3>1, <3>2, <4>2
        <5>2. c[l][x] = hash(c[m + 1][2 * x], c[m + 1][2 * x + 1])
          BY <1>3, <3>1, <5>1 DEF c
        <5>3. /\ 2 * x \in Known(D, m + 1) /\ 2 * x + 1 \in Known(D, m + 1)
              /\ Layer[m + 1][x] = hash(Layer[(m + 1) - 1][2 * x], Layer[(m + 1) - 1][2 * x + 1])
          BY <1>4, <3>1, <5>1
        <5>4. c[m + 1][2 * x] = Layer[(m + 1) - 1][2 * x]
              /\ c[m + 1][2 * x + 1] = Layer[(m + 1) - 1][2 * x + 1]
          BY <2>3, <5>3
        <5> QED BY <3>1, <5>2, <5>3, <5>4
      <4> QED BY <4>1, <4>2
    <3> QED BY <3>1, <3>2
  <2>4. 0 .. N - 1 \subseteq S
    <3> HIDE DEF S
    <3> QED BY <1>0, <2>2, <2>3, UpwardInduction
  <2>5. k - 1 \in S /\ (k - 1) + 1 = k
    BY <1>0, <2>4
  <2> QED BY <2>5 DEF c
<1>10. ASSUME NEW bad \in ExplicitPlaces(D)
       PROVE  \E i \in Known(D, N) : curr(bad)[N][i] # Layer[N - 1][i]
  <2> DEFINE c == curr(bad)
             Wrong(k) == \E i \in Known(D, k) : c[k][i] # Layer[k - 1][i]
  <2>1. PICK b \in 1 .. N : bad \in {b} \X Explicit(D, b)
    BY <1>10 DEF ExplicitPlaces
  <2>2. PICK j \in Explicit(D, b) : bad = <<b, j>>
    BY <2>1
  <2> DEFINE S == {m \in 0 .. N - b : Wrong(b + m)}
  <2>3. 0 \in S
    <3>1. j \in Known(D, b)
      BY DEF Explicit
    <3>2. c[b][j] = otherBlock
      BY <1>3, <2>2
    <3>3. Layer[b - 1][j] # otherBlock
      <4>1. b - 1 \in 0 .. N - 1 /\ j \in 0 .. 2^(N - (b - 1)) - 1
        BY <1>0, <1>6, <3>1
      <4> DEFINE n == b - 1
      <4> HIDE DEF n
      <4>2. n \in 0 .. N - 1 /\ j \in 0 .. 2^(N - n) - 1
        BY <4>1 DEF n
      <4>3. Layer[n][j] # otherBlock
        BY <4>2, LayerValues
      <4> QED BY <4>3 DEF n
    <3>4. b + 0 = b /\ 0 \in 0 .. N - b
      BY <1>0
    <3> QED BY <3>1, <3>2, <3>3, <3>4
  <2>4. ASSUME NEW m \in 0 .. (N - b) - 1, m \in S PROVE m + 1 \in S
    <3> DEFINE k == b + m  l == k + 1
    <3>1. k \in 1 .. N /\ l \in 2 .. N /\ l - 1 = k /\ b + (m + 1) = l /\ m + 1 \in 0 .. N - b
      BY <1>0
    <3>2. PICK i \in Known(D, k) : c[k][i] # Layer[k - 1][i]
      BY <2>4
    <3> DEFINE h == i \div 2
    <3>3. h \in Halves(Known(D, k)) /\ (i = 2 * h \/ i = 2 * h + 1)
      BY <1>6, <3>1
    <3> HIDE DEF h, k, l
    <3>4. c[l][h] = hash(c[k][2 * h], c[k][2 * h + 1])
      BY <1>3, <3>1, <3>3
    <3>5. Layer[k][h] = hash(Layer[k - 1][2 * h], Layer[k - 1][2 * h + 1])
      BY <1>4, <3>1, <3>3
    <3>6. c[l][h] # Layer[k][h]
      <4> HIDE DEF c
      <4>1. CASE i = 2 * h
        BY <3>2, <3>4, <3>5, <4>1 DEF hash
      <4>2. CASE i = 2 * h + 1
        BY <3>2, <3>4, <3>5, <4>2 DEF hash
      <4> QED BY <3>3, <4>1, <4>2
    <3>7. h \in Known(D, l)
      BY <1>1, <3>1, <3>3 DEF withTwins
    <3>8. Wrong(l)
      BY <3>1, <3>6, <3>7
    <3> HIDE DEF Wrong
    <3> QED BY <3>1, <3>8
  <2>5. N - b \in Nat /\ b + (N - b) = N /\ N - b \in 0 .. N - b
    BY <1>0
  <2>6. 0 .. N - b \subseteq S
    <3> HIDE DEF S
    <3> QED BY <2>3, <2>4, <2>5, UpwardInduction
  <2>7. Wrong(N)
    <3> HIDE DEF Wrong
    <3> QED BY <2>5, <2>6
  <2> QED BY <2>7
<1>11. calculateRoot(ViewWith(D, <<0, 0>>)) = Layer[N][0]
  BY <1>0, <1>5, <1>7, <1>8, <1>9
<1>12. ASSUME NEW bad \in ExplicitPlaces(D) PROVE calculateRoot(ViewWith(D, bad)) # Layer[N][0]
  <2>1. curr(bad)[N][0] # Layer[N - 1][0] \/ curr(bad)[N][1] # Layer[N - 1][1]
    BY <1>5, <1>10
  <2>2. calculateRoot(ViewWith(D, bad)) = hash(curr(bad)[N][0], curr(bad)[N][1])
    BY <1>8
  <2> QED BY <1>7, <2>1, <2>2 DEF hash
<1> QED BY <1>11, <1>12 DEF D

-----------------------------------------------------------------------------
(* The serialization.                                                      *)

\* s lists the elements of P, each once.
Lists(s, P) ==
    /\ s \in Seq(P)
    /\ \A x \in P : \E j \in 1 .. Len(s) : s[j] = x
    /\ \A i \in 1 .. Len(s) : \A j \in 1 .. Len(s) : s[i] = s[j] => i = j

\* Two lists of disjoint sets, one after the other.
LEMMA ListsJoin ==
    ASSUME NEW s, NEW t, NEW P, NEW R, Lists(s, P), Lists(t, R), P \cap R = {}
    PROVE  Lists(s \o t, P \cup R)
<1> DEFINE u == s \o t  a == Len(s)  b == Len(t)
<1>1. s \in Seq(P \cup R) /\ t \in Seq(P \cup R) /\ a \in Nat /\ b \in Nat
      /\ (\A j \in 1 .. a : s[j] \in P) /\ \A j \in 1 .. b : t[j] \in R
  <2>1. s \in Seq(P) /\ t \in Seq(R)
    BY DEF Lists
  <2> QED BY <2>1
<1>2. u \in Seq(P \cup R) /\ Len(u) = a + b
      /\ \A j \in 1 .. a + b : u[j] = IF j <= a THEN s[j] ELSE t[j - a]
  BY <1>1
<1> HIDE DEF u, a, b
<1>3. ASSUME NEW x \in P \cup R PROVE \E j \in 1 .. a + b : u[j] = x
  <2>1. CASE x \in P
    <3>1. PICK j \in 1 .. a : s[j] = x
      BY <2>1 DEF Lists, a
    <3>2. j \in 1 .. a + b /\ j <= a
      BY <1>1
    <3> QED BY <1>2, <3>1, <3>2
  <2>2. CASE x \in R
    <3>1. PICK j \in 1 .. b : t[j] = x
      BY <2>2 DEF Lists, b
    <3>2. a + j \in 1 .. a + b /\ ~(a + j <= a) /\ (a + j) - a = j
      BY <1>1
    <3> QED BY <1>2, <3>1, <3>2
  <2> QED BY <2>1, <2>2
<1>4. ASSUME NEW i \in 1 .. a + b, NEW j \in 1 .. a + b, u[i] = u[j] PROVE i = j
  <2>1. /\ \A k \in 1 .. a : \A l \in 1 .. a : s[k] = s[l] => k = l
        /\ \A k \in 1 .. b : \A l \in 1 .. b : t[k] = t[l] => k = l
    BY DEF Lists, a, b
  <2>2. \A k \in 1 .. a + b :
           /\ k <= a => k \in 1 .. a /\ u[k] = s[k] /\ u[k] \in P
           /\ ~(k <= a) => k - a \in 1 .. b /\ u[k] = t[k - a] /\ u[k] \in R
    <3> TAKE k \in 1 .. a + b
    <3>1. CASE k <= a
      <4>1. k \in 1 .. a
        BY <1>1, <3>1
      <4> QED BY <1>1, <1>2, <3>1, <4>1
    <3>2. CASE ~(k <= a)
      <4>1. k - a \in 1 .. b
        BY <1>1, <3>2
      <4> QED BY <1>1, <1>2, <3>2, <4>1
    <3> QED BY <3>1, <3>2
  <2>3. CASE i <= a /\ j <= a
    BY <1>4, <2>1, <2>2, <2>3
  <2>4. CASE ~(i <= a) /\ ~(j <= a)
    <3>1. i - a = j - a
      BY <1>4, <2>1, <2>2, <2>4
    <3> QED BY <1>1, <3>1
  <2>5. CASE (i <= a /\ ~(j <= a)) \/ (~(i <= a) /\ j <= a)
    <3>1. u[i] \in P \cap R
      BY <1>4, <2>2, <2>5
    <3> QED BY <3>1
  <2> QED BY <2>3, <2>4, <2>5
<1>5. Lists(u, P \cup R)
  BY <1>2, <1>3, <1>4 DEF Lists
<1> QED BY <1>5 DEF u

\* The sorted indices of a level list its places.
LEMMA SortedLists ==
    ASSUME NEW S \in SUBSET Nat, IsFiniteSet(S), NEW k
    PROVE  Lists([j \in DOMAIN Sorted(S) |-> <<k, Sorted(S)[j]>>], {k} \X S)
<1> DEFINE n == Cardinality(S)  e == Sorted(S)  s == [j \in DOMAIN e |-> <<k, e[j]>>]
<1>1. /\ n \in Nat /\ DOMAIN e = 1 .. n
      /\ \A j \in 1 .. n : e[j] \in S /\ Below(S, e[j]) = j - 1
      /\ \A i \in S : Below(S, i) + 1 \in 1 .. n /\ e[Below(S, i) + 1] = i
  BY SortedIs
<1> HIDE DEF e, n
<1>2. s \in [1 .. n -> {k} \X S] /\ \A j \in 1 .. n : s[j] = <<k, e[j]>>
  BY <1>1
<1> HIDE DEF s
<1>3. s \in Seq({k} \X S) /\ Len(s) = n
  BY <1>1, <1>2
<1>4. ASSUME NEW x \in {k} \X S PROVE \E j \in 1 .. n : s[j] = x
  <2>1. PICK i \in S : x = <<k, i>>
    <3>1. x[2] \in S /\ x = <<k, x[2]>>
      OBVIOUS
    <3> QED BY <3>1
  <2> QED BY <1>1, <1>2, <2>1
<1>5. ASSUME NEW i \in 1 .. n, NEW j \in 1 .. n, s[i] = s[j] PROVE i = j
  <2>1. e[i] = e[j]
    BY <1>2, <1>5
  <2>2. i - 1 = j - 1
    BY <1>1, <2>1
  <2> QED BY <1>1, <2>2
<1>6. Lists(s, {k} \X S)
  BY <1>3, <1>4, <1>5 DEF Lists
<1> QED BY <1>6 DEF s, e

\* The recursion of getSerializationMapping, one level after the other.
MappingRow(known, k) ==
    [j \in DOMAIN explicitIndices(known, k) |-> <<k, explicitIndices(known, k)[j]>>]

\* The mapping up to a level continues the one up to the level below.
LEMMA MappingAre ==
    ASSUME NEW known
    PROVE  LET upTo == mappingUpTo(known)
           IN /\ upTo[0] = <<>>
              /\ \A k \in 1 .. LogBlocks : upTo[k] = upTo[k - 1] \o MappingRow(known, k)
<1> DEFINE n == LogBlocks
           Join(s, k) == s \o MappingRow(known, k)
           Sound(f, m) == f = [k \in 0 .. m |-> IF k = 0 THEN <<>> ELSE Join(f[k - 1], k)]
           S == {m \in 0 .. n : \E f : Sound(f, m)}
           upTo == mappingUpTo(known)
<1>0. n \in Nat
  BY Levels
<1>1. upTo = CHOOSE f : Sound(f, n)
  BY DEF mappingUpTo, MappingRow
<1> HIDE DEF upTo, Join
<1>2. 0 \in S
  <2> DEFINE f == [k \in 0 .. 0 |-> <<>>]
  <2>1. f = [k \in 0 .. 0 |-> IF k = 0 THEN <<>> ELSE Join(f[k - 1], k)]
    OBVIOUS
  <2>2. \E h : Sound(h, 0)
    BY <2>1
  <2> HIDE DEF Sound
  <2> QED BY <1>0, <2>2
<1>3. ASSUME NEW m \in 0 .. n - 1, m \in S PROVE m + 1 \in S
  <2>1. PICK f : Sound(f, m)
    BY <1>3
  <2> DEFINE new == Join(f[m], m + 1)
             g == [k \in 0 .. m + 1 |-> IF k = m + 1 THEN new ELSE f[k]]
  <2>2. ASSUME NEW k \in 0 .. m + 1
        PROVE  g[k] = IF k = 0 THEN <<>> ELSE Join(g[k - 1], k)
    <3>1. k # 0 => k - 1 \in 0 .. m + 1 /\ k - 1 # m + 1 /\ g[k - 1] = f[k - 1]
      BY <1>0
    <3>2. CASE k = m + 1
      <4>1. g[k] = new /\ k # 0 /\ k - 1 = m
        BY <1>0, <3>2
      <4> HIDE DEF g
      <4> QED BY <3>1, <3>2, <4>1
    <3>3. CASE k # m + 1
      <4>1. k \in 0 .. m /\ g[k] = f[k]
        BY <1>0, <3>3
      <4>2. f[k] = IF k = 0 THEN <<>> ELSE Join(f[k - 1], k)
        BY <2>1, <4>1
      <4> HIDE DEF g
      <4> QED BY <3>1, <4>1, <4>2
    <3> QED BY <3>2, <3>3
  <2>3. g = [k \in 0 .. m + 1 |-> IF k = 0 THEN <<>> ELSE Join(g[k - 1], k)]
    BY <2>2
  <2>4. \E h : Sound(h, m + 1)
    BY <2>3
  <2> HIDE DEF Sound
  <2> QED BY <1>0, <2>4
<1>4. 0 .. n \subseteq S
  <2> HIDE DEF S
  <2> QED BY <1>0, <1>2, <1>3, UpwardInduction
<1>5. \E f : Sound(f, n)
  <2> HIDE DEF Sound
  <2> QED BY <1>0, <1>4
<1>6. Sound(upTo, n)
  <2> HIDE DEF Sound
  <2> QED BY <1>1, <1>5
<1>7. upTo[0] = <<>> /\ \A k \in 1 .. n : upTo[k] = Join(upTo[k - 1], k)
  BY <1>0, <1>6
<1> QED BY <1>7 DEF upTo, Join

\* The mapping lists the explicit places, each once.
LEMMA MappingLists ==
    ASSUME NEW Q \in SUBSET Blocks
    PROVE  Lists(getSerializationMapping(Q), ExplicitPlaces(withTwins(Q)))
<1> DEFINE N == LogBlocks  D == withTwins(Q)  known == KnownIndices(D)  upTo == mappingUpTo(known)
           Row(k) == {k} \X Explicit(D, k)
           Places(k) == UNION {Row(l) : l \in 1 .. k}
           S == {k \in 0 .. N : Lists(upTo[k], Places(k))}
<1>0. N \in Nat
  BY Levels
<1>1. upTo[0] = <<>> /\ \A k \in 1 .. N : upTo[k] = upTo[k - 1] \o MappingRow(known, k)
  BY MappingAre
<1>2. ASSUME NEW k \in 1 .. N PROVE Lists(MappingRow(known, k), Row(k))
  <2> DEFINE E == Explicit(D, k)
  <2>1. Known(D, k) \in SUBSET Nat /\ IsFiniteSet(Known(D, k))
    BY KnownPlaces
  <2>2. E \in SUBSET Nat /\ E \in SUBSET Known(D, k)
    BY <2>1 DEF Explicit
  <2> HIDE DEF D
  <2>3. IsFiniteSet(E)
    <3> HIDE DEF E
    <3> QED BY <2>1, <2>2, FS_Subset
  <2>4. explicitIndices(known, k) = Sorted(E)
    BY DEF explicitIndices, Explicit, Known
  <2> HIDE DEF E, known
  <2>5. Lists([j \in DOMAIN Sorted(E) |-> <<k, Sorted(E)[j]>>], {k} \X E)
    BY <2>2, <2>3, SortedLists
  <2> QED BY <2>4, <2>5 DEF MappingRow, E
<1> HIDE DEF D, known, upTo
<1>3. 0 \in S
  <2>1. Places(0) = {}
    OBVIOUS
  <2>2. Lists(<<>>, {})
    BY DEF Lists
  <2> HIDE DEF Places
  <2>3. upTo[0] = <<>>
    BY <1>1
  <2>4. Lists(upTo[0], Places(0))
    BY <2>1, <2>2, <2>3, Zenon
  <2> QED BY <1>0, <2>4
<1>4. ASSUME NEW m \in 0 .. N - 1, m \in S PROVE m + 1 \in S
  <2> DEFINE k == m + 1
  <2>0. k \in 1 .. N /\ k - 1 = m /\ k \in 0 .. N /\ 1 .. k = (1 .. m) \cup {k} /\ k \notin 1 .. m
    BY <1>0
  <2>1. Lists(upTo[m], Places(m)) /\ Lists(MappingRow(known, k), Row(k))
        /\ upTo[k] = upTo[m] \o MappingRow(known, k)
    BY <1>1, <1>2, <1>4, <2>0
  <2> HIDE DEF k
  <2>2. Places(k) = Places(m) \cup Row(k)
    <3> HIDE DEF Row
    <3> QED BY <2>0
  <2>3. Places(m) \cap Row(k) = {}
    <3>1. ASSUME NEW x \in Places(m), x \in Row(k) PROVE FALSE
      <4>1. PICK l \in 1 .. m : x \in Row(l)
        OBVIOUS
      <4>2. x[1] = l /\ x[1] = k
        BY <3>1, <4>1
      <4> QED BY <2>0, <4>1, <4>2
    <3> HIDE DEF Places, Row
    <3> QED BY <3>1
  <2> HIDE DEF Places, Row
  <2>4. Lists(upTo[k], Places(k))
    BY <2>1, <2>2, <2>3, ListsJoin
  <2> QED BY <2>0, <2>4 DEF k
<1>5. 0 .. N \subseteq S
  <2> HIDE DEF S
  <2> QED BY <1>0, <1>3, <1>4, UpwardInduction
<1>6. Lists(upTo[N], Places(N))
  <2> HIDE DEF Places
  <2> QED BY <1>0, <1>5
<1> QED BY <1>6 DEF getSerializationMapping, ExplicitPlaces, D, known, upTo

-----------------------------------------------------------------------------
(* The answer the prover sends and the verifier reads.                     *)

\* The blocks of the queried pairs are the queried blocks and their twins.
LEMMA PairsAndTwins ==
    ASSUME NEW Q \in SUBSET Blocks
    PROVE  LET P == {q \div 2 : q \in Q}
           IN /\ PathIndices(P, 1) = withTwins(Q)
              /\ withTwins(PathIndices(P, 1)) = withTwins(Q)
<1> DEFINE P == {q \div 2 : q \in Q}  D == withTwins(Q)
<1>0. \A q \in Q : q \in Nat
  BY PairPlaces
<1>1. Q \in SUBSET Nat
  BY <1>0
<1>2. \A q \in Q : \/ q = 2 * (q \div 2) /\ Twin(q) = 2 * (q \div 2) + 1
                   \/ q = 2 * (q \div 2) + 1 /\ Twin(q) = 2 * (q \div 2)
  BY <1>0, Twins
<1>3. PathIndices(P, 1) = {2 * p : p \in P} \cup {2 * p + 1 : p \in P}
  BY DEF PathIndices
<1>4. ASSUME NEW i \in PathIndices(P, 1) PROVE i \in D
  <2>1. PICK p \in P : i = 2 * p \/ i = 2 * p + 1
    BY <1>3
  <2>2. PICK q \in Q : p = q \div 2
    OBVIOUS
  <2>3. i = q \/ i = Twin(q)
    BY <1>2, <2>1, <2>2
  <2> QED BY <2>3 DEF withTwins
<1>5. ASSUME NEW i \in D PROVE i \in PathIndices(P, 1)
  <2>1. PICK q \in Q : i = q \/ i = Twin(q)
    BY DEF withTwins
  <2>2. q \div 2 \in P /\ (i = 2 * (q \div 2) \/ i = 2 * (q \div 2) + 1)
    BY <1>2, <2>1
  <2> HIDE DEF P
  <2> QED BY <1>3, <2>2
<1>6. PathIndices(P, 1) = D
  <2> HIDE DEF D, P
  <2> QED BY <1>4, <1>5
<1>7. D \in SUBSET Nat /\ TwinClosed(D)
  BY <1>1, WithTwins
<1>8. withTwins(D) = D
  <2> HIDE DEF D
  <2> QED BY <1>7 DEF TwinClosed, withTwins
<1> QED BY <1>6, <1>8

\* What the verifier looks for lies on the paths to the queried pairs.
LEMMA ExplicitOnPaths ==
    ASSUME NEW Q \in SUBSET Blocks, NEW k \in 1 .. LogBlocks
    PROVE  /\ Explicit(withTwins(Q), k) \subseteq PathIndices({q \div 2 : q \in Q}, k)
           /\ Q = {} => Explicit(withTwins(Q), k) = {}
<1> DEFINE P == {q \div 2 : q \in Q}  D == withTwins(Q)
<1>0. LogBlocks \in Nat
  BY Levels
<1>1. CASE k = 1
  <2>1. Explicit(D, k) = D
    BY <1>1, KnownLevels
  <2>2. PathIndices(P, k) = D
    BY <1>1, PairsAndTwins
  <2>3. Q = {} => D = {}
    BY DEF withTwins
  <2> QED BY <2>1, <2>2, <2>3
<1>2. CASE k # 1
  <2> DEFINE l == k - 1  below == Halves(Known(D, l))
  <2>0. k \in 2 .. LogBlocks /\ l \in 1 .. LogBlocks /\ l - 1 = k - 2
    BY <1>0, <1>2
  <2>1. Known(D, k) = withTwins(below) /\ Explicit(D, k) = Known(D, k) \ below
    BY <2>0, KnownLevels
  <2> HIDE DEF l
  <2>2. \A i \in below : \E q \in Q : i = (q \div 2) \div 2^(l - 1)
    BY <2>0, KnownPlaces
  <2>3. ASSUME NEW i \in Explicit(D, k) PROVE i \in PathIndices(P, k) /\ Q # {}
    <3>1. PICK x \in below : i = Twin(x)
      <4> HIDE DEF below, D
      <4> QED BY <2>1 DEF withTwins
    <3>2. PICK q \in Q : x = (q \div 2) \div 2^(l - 1)
      BY <2>2
    <3>3. q \div 2 \in P /\ i = Twin((q \div 2) \div 2^(k - 2))
      BY <2>0, <3>1, <3>2
    <3>4. PathIndices(P, k) = {Twin(p \div 2^(k - 2)) : p \in P}
      BY <1>2 DEF PathIndices
    <3> HIDE DEF P
    <3> QED BY <3>3, <3>4, Zenon
  <2> HIDE DEF P, D
  <2> QED BY <2>3 DEF P, D
<1> QED BY <1>1, <1>2

\* toVector sends the true digest of each place of the verifier's mapping.
LEMMA AnswerSent ==
    ASSUME AnswerInv, pending = {}
    PROVE  LET M == getSerializationMapping(queries)
               sent == toVector(resultsTree)
           IN /\ \A j \in 1 .. Len(M) : M[j][2] \in DOMAIN resultsTree[M[j][1]]
              /\ DOMAIN M = 1 .. Len(M) /\ Len(M) \in Nat
              /\ sent = [j \in 1 .. Len(M) |-> Layer[M[j][1] - 1][M[j][2]]]
              /\ Len(sent) = Len(M)
<1> DEFINE N == LogBlocks  D == withTwins(queries)  P == {q \div 2 : q \in queries}
           M == getSerializationMapping(queries)  sent == toVector(resultsTree)
<1>1. queries \in SUBSET Blocks /\ AnsweredPairs = P
      /\ HoldsPaths(resultsTree, P)
  BY DEF AnswerInv, AnsweredPairs, QueriedPairs
<1>2. N \in Nat /\ 1 \in 1 .. N
  BY Levels
<1>3. \A k \in 1 .. N : resultsTree[k] = [i \in PathIndices(P, k) |-> Layer[k - 1][i]]
  BY <1>1 DEF HoldsPaths
<1>4. Lists(M, ExplicitPlaces(D))
  BY <1>1, MappingLists
<1>5. \A k \in 1 .. N : Explicit(D, k) \subseteq PathIndices(P, k)
  BY <1>1, ExplicitOnPaths
<1>6. withTwins(PathIndices(P, 1)) = D
  BY <1>1, PairsAndTwins
<1>7. DOMAIN resultsTree[1] = PathIndices(P, 1)
  BY <1>2, <1>3
<1>8. getSerializationMapping(DOMAIN resultsTree[1]) = M
  BY <1>6, <1>7 DEF getSerializationMapping
<1>9. sent = [j \in DOMAIN M |-> resultsTree[M[j][1]][M[j][2]]]
  <2> HIDE DEF M
  <2> QED BY <1>8 DEF toVector
<1> HIDE DEF M, P, D
<1>10. M \in Seq(ExplicitPlaces(D))
  BY <1>4 DEF Lists
<1>11. DOMAIN M = 1 .. Len(M) /\ Len(M) \in Nat /\ \A j \in 1 .. Len(M) : M[j] \in ExplicitPlaces(D)
  BY <1>10
<1>12. ASSUME NEW j \in 1 .. Len(M)
       PROVE  /\ M[j][2] \in DOMAIN resultsTree[M[j][1]]
              /\ resultsTree[M[j][1]][M[j][2]] = Layer[M[j][1] - 1][M[j][2]]
  <2> DEFINE x == M[j]
  <2>1. x \in ExplicitPlaces(D)
    BY <1>11
  <2> HIDE DEF x
  <2>2. PICK k \in 1 .. N : x \in {k} \X Explicit(D, k)
    BY <2>1 DEF ExplicitPlaces
  <2>3. x[1] = k /\ x[2] \in Explicit(D, k)
    BY <2>2
  <2>4. x[2] \in PathIndices(P, k)
    <3>1. Explicit(D, k) \subseteq PathIndices(P, k)
      BY <1>5
    <3> QED BY <2>3, <3>1
  <2>5. x[2] \in DOMAIN resultsTree[k] /\ resultsTree[k][x[2]] = Layer[k - 1][x[2]]
    <3>1. resultsTree[k] = [i \in PathIndices(P, k) |-> Layer[k - 1][i]]
      BY <1>3
    <3> QED BY <2>4, <3>1
  <2> QED BY <2>3, <2>5 DEF x
<1>13. sent = [j \in 1 .. Len(M) |-> Layer[M[j][1] - 1][M[j][2]]]
  BY <1>9, <1>11, <1>12
<1>14. Len(sent) = Len(M)
  <2> HIDE DEF sent
  <2>1. DOMAIN sent = 1 .. Len(M)
    BY <1>13
  <2>2. sent \in Seq({sent[j] : j \in 1 .. Len(M)})
    <3>1. sent = [j \in 1 .. Len(M) |-> sent[j]]
      BY <1>13
    <3>2. sent \in [1 .. Len(M) -> {sent[j] : j \in 1 .. Len(M)}]
      BY <3>1
    <3> QED BY <1>11, <3>2
  <2> QED BY <1>11, <2>1, <2>2
<1> QED BY <1>11, <1>12, <1>13, <1>14 DEF M

\* DeSerialize puts each digest received back at its place.
LEMMA ViewRead ==
    ASSUME NEW Q \in SUBSET Blocks, NEW k \in 0 .. Len(getSerializationMapping(Q)), NEW v,
           v = [j \in 1 .. Len(getSerializationMapping(Q)) |->
                  IF j = k THEN otherBlock
                  ELSE Layer[getSerializationMapping(Q)[j][1] - 1][getSerializationMapping(Q)[j][2]]]
    PROVE  /\ k = 0 => DeSerialize(Q, v) = ViewWith(withTwins(Q), <<0, 0>>)
           /\ k # 0 => /\ getSerializationMapping(Q)[k] \in ExplicitPlaces(withTwins(Q))
                       /\ DeSerialize(Q, v) = ViewWith(withTwins(Q), getSerializationMapping(Q)[k])
<1> DEFINE N == LogBlocks  D == withTwins(Q)  M == getSerializationMapping(Q)
           bad == IF k = 0 THEN <<0, 0>> ELSE M[k]
           places(l) == {M[j][2] : j \in {x \in DOMAIN M : M[x][1] = l}}
           layer(l) == [i \in places(l) |-> v[CHOOSE x \in DOMAIN M : M[x] = <<l, i>>]]
<1>0. N \in Nat
  BY Levels
<1>1. DeSerialize(Q, v) = [l \in 1 .. N |-> layer(l)]
  BY DEF DeSerialize
<1>2. Lists(M, ExplicitPlaces(D))
  BY MappingLists
<1>3. k \in 0 .. Len(M)
      /\ v = [j \in 1 .. Len(M) |-> IF j = k THEN otherBlock ELSE Layer[M[j][1] - 1][M[j][2]]]
  OBVIOUS
<1> HIDE DEF M, D
<1>4. M \in Seq(ExplicitPlaces(D))
  BY <1>2 DEF Lists
<1>5. DOMAIN M = 1 .. Len(M) /\ Len(M) \in Nat /\ \A j \in 1 .. Len(M) : M[j] \in ExplicitPlaces(D)
  BY <1>4
<1>6. ASSUME NEW x \in ExplicitPlaces(D)
      PROVE  x[1] \in 1 .. N /\ x[2] \in Explicit(D, x[1]) /\ x = <<x[1], x[2]>>
  <2>1. PICK l \in 1 .. N : x \in {l} \X Explicit(D, l)
    BY DEF ExplicitPlaces
  <2> QED BY <2>1
<1>7. ASSUME NEW l \in 1 .. N
      PROVE  layer(l) = [i \in Explicit(D, l) |->
                           IF <<l, i>> = bad THEN otherBlock ELSE Layer[l - 1][i]]
  <2>1. ASSUME NEW i \in Explicit(D, l)
        PROVE  /\ i \in places(l)
               /\ v[CHOOSE x \in DOMAIN M : M[x] = <<l, i>>]
                    = IF <<l, i>> = bad THEN otherBlock ELSE Layer[l - 1][i]
    <3> DEFINE c == CHOOSE x \in DOMAIN M : M[x] = <<l, i>>
    <3>1. <<l, i>> \in ExplicitPlaces(D)
      BY DEF ExplicitPlaces
    <3>2. \E j \in 1 .. Len(M) : M[j] = <<l, i>>
      BY <1>2, <3>1 DEF Lists
    <3>3. c \in 1 .. Len(M) /\ M[c] = <<l, i>>
      BY <1>5, <3>2
    <3> HIDE DEF c
    <3>4. M[c][1] = l /\ M[c][2] = i
      BY <3>3
    <3>5. i \in places(l)
      BY <1>5, <3>3, <3>4
    <3>6. v[c] = IF c = k THEN otherBlock ELSE Layer[l - 1][i]
      BY <1>3, <3>3, <3>4
    <3>7. c = k <=> <<l, i>> = bad
      <4>1. CASE k = 0
        <5>1. bad = <<0, 0>> /\ c # k /\ l # 0
          BY <1>0, <3>3, <4>1
        <5>2. <<l, i>> # <<0, 0>>
          BY <5>1
        <5> QED BY <5>1, <5>2
      <4>2. CASE k # 0
        <5>1. k \in 1 .. Len(M) /\ bad = M[k]
          BY <1>3, <1>5, <4>2
        <5>2. M[c] = M[k] => c = k
          BY <1>2, <3>3, <5>1 DEF Lists
        <5> QED BY <3>3, <5>1, <5>2
      <4> QED BY <4>1, <4>2
    <3> QED BY <3>5, <3>6, <3>7 DEF c
  <2>2. ASSUME NEW i \in places(l) PROVE i \in Explicit(D, l)
    <3>1. PICK j \in DOMAIN M : M[j][1] = l /\ i = M[j][2]
      OBVIOUS
    <3>2. M[j] \in ExplicitPlaces(D)
      BY <1>5
    <3> QED BY <1>6, <3>1, <3>2
  <2>3. places(l) = Explicit(D, l)
    <3> HIDE DEF places
    <3> QED BY <2>1, <2>2
  <2> HIDE DEF places, bad
  <2> QED BY <2>1, <2>3
<1>8. DeSerialize(Q, v) = ViewWith(D, bad)
  <2> HIDE DEF layer, bad
  <2> QED BY <1>1, <1>7 DEF ViewWith
<1>9. k # 0 => M[k] \in ExplicitPlaces(D)
  BY <1>3, <1>5
<1> QED BY <1>8, <1>9 DEF M, D

\* digestResults reads the true digests, but for the one replaced.
LEMMA DigestInv ==
    ASSUME AnswerInv, NEW k, digestResults(k)
    PROVE  AnswerInv' /\ ViewInv'
<1> DEFINE M == getSerializationMapping(queries)  D == withTwins(queries)
           sent == toVector(resultsTree)
           received == IF k = 0 THEN sent ELSE [sent EXCEPT ![k] = otherBlock]
           wanted == [j \in 1 .. Len(M) |-> IF j = k THEN otherBlock ELSE Layer[M[j][1] - 1][M[j][2]]]
<1>1. /\ stage = "answer" /\ pending = {} /\ stage' = "deliver" /\ pending' = pending
      /\ queries' = queries /\ resultsTree' = resultsTree
      /\ k \in 0 .. Len(sent) /\ altered' = (k # 0)
      /\ view' = IF queries = {} THEN view ELSE DeSerialize(queries, received)
  BY DEF digestResults
<1>2. AnswerInv'
  BY <1>1 DEF AnswerInv, HoldsPaths, AnsweredPairs, QueriedPairs
<1>3. /\ DOMAIN M = 1 .. Len(M) /\ Len(M) \in Nat
      /\ sent = [j \in 1 .. Len(M) |-> Layer[M[j][1] - 1][M[j][2]]]
      /\ Len(sent) = Len(M)
  BY <1>1, AnswerSent
<1>4. queries \in SUBSET Blocks
  BY DEF AnswerInv
<1>5. CASE queries = {}
  <2>1. \A l \in 1 .. LogBlocks : Explicit(D, l) = {}
    BY <1>4, <1>5, ExplicitOnPaths
  <2>2. ExplicitPlaces(D) = {}
    <3> HIDE DEF D
    <3> QED BY <2>1 DEF ExplicitPlaces
  <2>3. M \in Seq({})
    <3>1. Lists(M, ExplicitPlaces(D))
      BY <1>4, MappingLists
    <3> HIDE DEF M, D
    <3> QED BY <2>2, <3>1 DEF Lists
  <2>4. Len(M) = 0
    <3> HIDE DEF M
    <3>1. \A j \in 1 .. Len(M) : M[j] \in {}
      BY <2>3
    <3>2. Len(M) \in Nat
      BY <1>3
    <3> QED BY <3>1, <3>2
  <2>5. k = 0
    <3> HIDE DEF M, sent
    <3> QED BY <1>1, <1>3, <2>4
  <2>6. ~altered' /\ queries' = {}
    BY <1>1, <1>5, <2>5
  <2> QED BY <1>2, <2>6 DEF ViewInv
<1>6. CASE queries # {}
  <2>1. k \in 0 .. Len(M)
    <3> HIDE DEF M, sent
    <3> QED BY <1>1, <1>3
  <2>2. received = wanted
    <3> HIDE DEF M, sent
    <3>1. CASE k = 0
      BY <1>3, <3>1
    <3>2. CASE k # 0
      BY <1>3, <2>1, <3>2
    <3> QED BY <3>1, <3>2
  <2> DEFINE v == wanted
  <2>3. v = wanted
    OBVIOUS
  <2> HIDE DEF v
  <2>4. /\ k = 0 => DeSerialize(queries, v) = ViewWith(D, <<0, 0>>)
        /\ k # 0 => /\ M[k] \in ExplicitPlaces(D)
                    /\ DeSerialize(queries, v) = ViewWith(D, M[k])
    BY <1>4, <2>1, <2>3, ViewRead
  <2>5. view' = DeSerialize(queries, v)
    <3> HIDE DEF received, wanted
    <3> QED BY <1>1, <1>6, <2>2, <2>3
  <2>6. queries' = queries /\ queries' # {} /\ altered' = (k # 0)
    BY <1>1, <1>6
  <2>7. \/ ~altered' /\ view' = ViewWith(D, <<0, 0>>)
        \/ altered' /\ \E bad \in ExplicitPlaces(D) : view' = ViewWith(D, bad)
    <3> HIDE DEF M, D
    <3> QED BY <2>4, <2>5, <2>6
  <2> QED BY <1>2, <2>6, <2>7 DEF ViewInv
<1> QED BY <1>5, <1>6

\* The verdict.
LEMMA VerifyInv ==
    ASSUME CommitInv, AnswerInv, ViewInv, verifyComitment
    PROVE  VerdictIsRight'
<1> DEFINE D == withTwins(queries)
<1>1. /\ stage = "deliver" /\ queries' = queries /\ altered' = altered /\ view' = view
      /\ verified' = (queries = {} \/ calculateRoot(view) = root_)
  BY DEF verifyComitment
<1>2. root_ = Layer[LogBlocks][0] /\ queries \in SUBSET Blocks
  BY <1>1 DEF CommitInv, AnswerInv
<1>3. CASE queries = {}
  BY <1>1, <1>3 DEF VerdictIsRight, ViewInv
<1>4. CASE queries # {}
  <2>1. \/ ~altered /\ view = ViewWith(D, <<0, 0>>)
        \/ altered /\ \E bad \in ExplicitPlaces(D) : view = ViewWith(D, bad)
    BY <1>1, <1>4 DEF ViewInv
  <2>2. /\ calculateRoot(ViewWith(D, <<0, 0>>)) = Layer[LogBlocks][0]
        /\ \A bad \in ExplicitPlaces(D) : calculateRoot(ViewWith(D, bad)) # Layer[LogBlocks][0]
    BY <1>2, <1>4, RootDecides
  <2>3. verified' = ~altered'
    <3> HIDE DEF D
    <3> QED BY <1>1, <1>2, <1>4, <2>1, <2>2
  <2>4. ASSUME ~altered, NEW q \in queries PROVE view[1][q] = Evaluation(q)
    <3>1. 1 \in 1 .. LogBlocks /\ 0 \in 0 .. LogBlocks
      BY Levels
    <3>2. Explicit(D, 1) = D /\ q \in D
      BY KnownLevels DEF withTwins
    <3>3. view[1] = [i \in Explicit(D, 1) |-> IF <<1, i>> = <<0, 0>> THEN otherBlock ELSE Layer[0][i]]
      <4> HIDE DEF D
      <4>1. view = ViewWith(D, <<0, 0>>)
        BY <2>1, <2>4
      <4>2. 1 - 1 = 0
        OBVIOUS
      <4> QED BY <3>1, <4>1, <4>2 DEF ViewWith
    <3>4. view[1][q] = Layer[0][q]
      <4> HIDE DEF D
      <4>1. <<1, q>> # <<0, 0>>
        OBVIOUS
      <4> QED BY <3>2, <3>3, <4>1
    <3>5. q \in Blocks /\ Layer[0] = [i \in Blocks |-> Evaluation(i)]
      BY <1>2, LayersAre
    <3> QED BY <3>4, <3>5
  <2> QED BY <1>1, <2>3, <2>4 DEF VerdictIsRight
<1> QED BY <1>3, <1>4

-----------------------------------------------------------------------------
(* The invariant of the whole protocol.                                    *)

answerVars == <<queries, pending, resultsTree>>
verdictVars == <<altered, view, verified>>

\* While the commitment is built nothing is queried and nothing verified.
LEMMA AnswerKept ==
    ASSUME AnswerInv, UNCHANGED answerVars, stage \in {"commit", "query"},
           stage' \in {"commit", "query"}
    PROVE  AnswerInv'
BY DEF AnswerInv, answerVars, HoldsPaths, AnsweredPairs, QueriedPairs

\* The protocol starts within its invariant.
LEMMA MerkleInitInv == MerkleInit => MerkleInv
<1> SUFFICES ASSUME MerkleInit PROVE MerkleInv
  OBVIOUS
<1>1. stage = "commit"
  BY DEF MerkleInit
<1>2. CommitInv /\ AnswerInv
  BY CommitInitInv, AnswerInitInv
<1> QED BY <1>1, <1>2 DEF MerkleInv, ViewInv, VerdictIsRight

\* MerkleInv is inductive.
LEMMA MerkleStepInv ==
    ASSUME MerkleInv, [MerkleNext]_merkleVars
    PROVE  MerkleInv'
<1>0. CommitInv /\ AnswerInv /\ ViewInv /\ VerdictIsRight
      /\ stage \in {"commit", "query", "answer", "deliver", "verified"}
  BY DEF MerkleInv
<1>c. CommitInv'
  BY <1>0, CommitStepInv
<1>1. ASSUME NEW s \in Segments, sigmentConstructor(s) \/ constructSubtree(s) \/ CommitCoset(s)
      PROVE  MerkleInv'
  <2>1. stage = "commit" /\ stage' = "commit" /\ UNCHANGED answerVars
    BY <1>1 DEF sigmentConstructor, constructSubtree, CommitCoset, answerVars
  <2>2. AnswerInv'
    BY <1>0, <2>1, AnswerKept
  <2> QED BY <1>c, <2>1, <2>2 DEF MerkleInv, ViewInv, VerdictIsRight
<1>2. ASSUME finishTreeAfterSegments \/ CommitPeaks PROVE MerkleInv'
  <2>1. stage = "commit" /\ stage' = "query" /\ UNCHANGED answerVars
    BY <1>2 DEF finishTreeAfterSegments, CommitPeaks, answerVars
  <2>2. AnswerInv'
    BY <1>0, <2>1, AnswerKept
  <2> QED BY <1>c, <2>1, <2>2 DEF MerkleInv, ViewInv, VerdictIsRight
<1>3. ASSUME NEW Q \in SUBSET Blocks, getRawQuery(Q) PROVE MerkleInv'
  <2>1. stage = "query" /\ stage' = "answer"
    BY <1>3 DEF getRawQuery
  <2>2. AnswerInv'
    BY <1>0, <1>3, RawQueryInv
  <2> QED BY <1>c, <2>1, <2>2 DEF MerkleInv, ViewInv, VerdictIsRight
<1>4. ASSUME NEW p \in 0 .. 2^(LogBlocks - 1) - 1, answerQuery(p) PROVE MerkleInv'
  <2>1. stage = "answer" /\ stage' = "answer"
    BY <1>4 DEF answerQuery
  <2>2. AnswerInv'
    BY <1>0, <1>4, AnswerQueryInv
  <2> QED BY <1>c, <2>1, <2>2 DEF MerkleInv, ViewInv, VerdictIsRight
<1>5. ASSUME NEW k, digestResults(k) PROVE MerkleInv'
  <2>1. stage = "answer" /\ stage' = "deliver"
    BY <1>5 DEF digestResults
  <2>2. AnswerInv' /\ ViewInv'
    BY <1>0, <1>5, DigestInv
  <2> QED BY <1>c, <2>1, <2>2 DEF MerkleInv, VerdictIsRight
<1>6. ASSUME verifyComitment PROVE MerkleInv'
  <2>1. /\ stage = "deliver" /\ stage' = "verified"
        /\ UNCHANGED answerVars /\ altered' = altered /\ view' = view
    BY <1>6 DEF verifyComitment, answerVars
  <2>2. AnswerInv'
    BY <1>0, <2>1 DEF AnswerInv, answerVars, HoldsPaths, AnsweredPairs, QueriedPairs
  <2>3. ViewInv'
    BY <1>0, <2>1 DEF ViewInv, answerVars
  <2>4. VerdictIsRight'
    BY <1>0, <1>6, VerifyInv
  <2> QED BY <1>c, <2>1, <2>2, <2>3, <2>4 DEF MerkleInv
<1>7. ASSUME UNCHANGED merkleVars PROVE MerkleInv'
  <2>1. UNCHANGED answerVars /\ UNCHANGED verdictVars /\ stage' = stage
    BY <1>7 DEF merkleVars, answerVars, verdictVars
  <2>2. AnswerInv'
    BY <1>0, <2>1 DEF AnswerInv, answerVars, HoldsPaths, AnsweredPairs, QueriedPairs
  <2>3. ViewInv' /\ VerdictIsRight'
    BY <1>0, <2>1 DEF ViewInv, VerdictIsRight, answerVars, verdictVars
  <2> QED BY <1>0, <1>c, <2>1, <2>2, <2>3 DEF MerkleInv
<1> QED BY <1>1, <1>2, <1>3, <1>4, <1>5, <1>6, <1>7 DEF MerkleNext

\* The subtree that AnswerInv describes is a complete answer.
LEMMA AnswerInvSuffices == AnswerInv => AnswerIsComplete
<1> SUFFICES ASSUME AnswerInv PROVE AnswerIsComplete
  OBVIOUS
<1>1. ASSUME NEW k \in 1 .. LogBlocks, NEW i \in DOMAIN resultsTree[k]
      PROVE  resultsTree[k][i] = Layer[k - 1][i]
  BY DEF AnswerInv, HoldsPaths
<1>2. ASSUME stage = "answer", pending = {}
      PROVE  LET mapping == getSerializationMapping(queries)
             IN /\ \A j \in DOMAIN mapping : mapping[j][2] \in DOMAIN resultsTree[mapping[j][1]]
                /\ Len(toVector(resultsTree)) = Len(mapping)
  BY <1>2, AnswerSent
<1> QED BY <1>1, <1>2 DEF AnswerIsComplete

\* The invariant holds at all times.
LEMMA MerkleInvariant == MerkleSpec => []MerkleInv
<1>1. MerkleInit => MerkleInv
  BY MerkleInitInv
<1>2. MerkleInv /\ [MerkleNext]_merkleVars => MerkleInv'
  BY MerkleStepInv
<1> QED BY <1>1, <1>2, PTL DEF MerkleSpec

\* Whatever blocks are queried and in whatever order their paths enter
\* resultsTree, the answer holds every digest the verifier looks for, and
\* verifyComitment accepts it exactly if no digest of it was replaced.
THEOREM AnswersAreDecided == MerkleSpec => []AnswersRight
<1>1. MerkleInv => AnswersRight
  BY AnswerInvSuffices DEF MerkleInv, AnswersRight
<1> QED BY <1>1, MerkleInvariant, PTL
=============================================================================
