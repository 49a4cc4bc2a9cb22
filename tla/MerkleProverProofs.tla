------------------------ MODULE MerkleProverProofs --------------------------
(***************************************************************************)
(* The prover's side of the Merkle commitments, for any number of blocks and *)
(* segments.  CommitInv says what the tree, the coset roots and the root are *)
(* when only some segments have been hashed, and is inductive; so the root *)
(* is the Merkle root of the evaluation.  AnswerInv says that the subtree of *)
(* the answer holds the true digests of the paths added so far.            *)
(*                                                                         *)
(* Recursive functions are shown to exist, and to follow their recursion,  *)
(* by induction on a set of indices.                                       *)
(***************************************************************************)
EXTENDS MerkleCommitment, WellFoundedInduction, TLAPS

\* Quotient and remainder.
LEMMA Division ==
    ASSUME NEW n \in Nat, NEW d \in Nat \ {0}
    PROVE  /\ n \div d \in Nat /\ n % d \in Nat /\ n % d < d
           /\ n = d * (n \div d) + (n % d)
  OBVIOUS

\* They are the only such pair.
LEMMA DivisionIsUnique ==
    ASSUME NEW n \in Nat, NEW d \in Nat \ {0}, NEW q \in Int, NEW r \in Int,
           n = q * d + r, 0 <= r, r < d
    PROVE  n \div d = q /\ n % d = r
  OBVIOUS

\* Dividing a multiple leaves nothing.
LEMMA Multiples ==
    ASSUME NEW q \in Nat, NEW d \in Nat \ {0}
    PROVE  (q * d) \div d = q /\ (q * d) % d = 0
  OBVIOUS

\* Induction from the last index of a list to its first, on a set of indices.
LEMMA DownwardInduction ==
    ASSUME NEW N \in Nat, NEW S, N \in S,
           \A i \in 1 .. N - 1 : i + 1 \in S => i \in S
    PROVE  1 .. N \subseteq S
<1> DEFINE T == {k \in Nat : k < N /\ N - k \notin S}
           R == {ss \in Nat \X Nat : ss[1] < ss[2]}
<1>1. IsWellFoundedOn(R, Nat)
  BY NatLessThanWellFounded, Zenon DEF OpToRel
<1>2. SUFFICES ASSUME T # {} PROVE FALSE
  <2>1. ASSUME NEW i \in 1 .. N, i \notin S PROVE FALSE
    <3>1. N - i \in T
      BY <2>1
    <3> QED BY <1>2, <3>1
  <2> QED BY <2>1
<1>3. PICK k \in T : \A y \in T : ~(<<y, k>> \in R)
  <2>1. T \subseteq Nat
    OBVIOUS
  <2> HIDE DEF T, R
  <2> QED BY <1>1, <1>2, <2>1, WFMin
<1>4. k # 0
  BY <1>3
<1>5. k - 1 \notin T
  <2>1. k - 1 \in Nat /\ <<k - 1, k>> \in R
    BY <1>3, <1>4
  <2> QED BY <1>3, <2>1
<1>6. N - (k - 1) \in S
  BY <1>3, <1>4, <1>5
<1>7. N - k \in 1 .. N - 1 /\ (N - k) + 1 = N - (k - 1)
  BY <1>3, <1>4
<1>8. N - k \in S
  BY <1>6, <1>7
<1> QED BY <1>3, <1>8

\* Induction on a set of levels, from the lowest.
LEMMA UpwardInduction ==
    ASSUME NEW N \in Nat, NEW S, 0 \in S,
           \A i \in 0 .. N - 1 : i \in S => i + 1 \in S
    PROVE  0 .. N \subseteq S
<1> DEFINE T == {i \in 1 .. N + 1 : (N + 1) - i \in S}
<1>1. N + 1 \in Nat /\ N + 1 \in T
  OBVIOUS
<1>2. ASSUME NEW i \in 1 .. (N + 1) - 1, i + 1 \in T PROVE i \in T
  <2>1. (N + 1) - (i + 1) \in 0 .. N - 1 /\ (N + 1) - (i + 1) \in S
    BY <1>2
  <2>2. ((N + 1) - (i + 1)) + 1 = (N + 1) - i
    OBVIOUS
  <2>3. (N + 1) - i \in S
    BY <2>1, <2>2
  <2> QED BY <2>3
<1>3. 1 .. N + 1 \subseteq T
  <2> HIDE DEF T
  <2> QED BY <1>1, <1>2, DownwardInduction
<1>4. ASSUME NEW k \in 0 .. N PROVE k \in S
  <2>1. (N + 1) - k \in 1 .. N + 1 /\ (N + 1) - ((N + 1) - k) = k
    OBVIOUS
  <2> QED BY <1>3, <2>1
<1> QED BY <1>4

-----------------------------------------------------------------------------
(* Powers of two.                                                          *)

\* The number of levels, and how the segments share them.
LEMMA Levels ==
    /\ LogBlocks \in Nat /\ LogSegments \in Nat /\ LogLength \in Nat
    /\ LogLength >= 1 /\ LogSegments + LogLength = LogBlocks
  BY MerkleAssumption DEF LogLength

\* The powers of two are positive, and each is twice the one before.
LEMMA Powers ==
    /\ 2^0 = 1
    /\ \A n \in 0 .. LogBlocks : 2^n \in Nat \ {0} /\ 2^(n + 1) = 2 * 2^n
<1> DEFINE S == {n \in 0 .. LogBlocks : 2^n # 0}
<1>1. LogBlocks \in Nat /\ 0 \in S
  BY Levels, PowersOfTwo
<1>2. ASSUME NEW i \in 0 .. LogBlocks - 1, i \in S PROVE i + 1 \in S
  BY <1>1, <1>2, PowersOfTwo
<1>3. 0 .. LogBlocks \subseteq S
  <2> HIDE DEF S
  <2> QED BY <1>1, <1>2, UpwardInduction
<1> QED BY <1>3, PowersOfTwo

\* Powers of two multiply.
LEMMA PowerOfSum ==
    ASSUME NEW a \in Nat, NEW b \in Nat, a + b <= LogBlocks
    PROVE  2^(a + b) = 2^a * 2^b
<1> DEFINE S == {k \in 0 .. b : 2^(a + k) = 2^a * 2^k}
<1>0. LogBlocks \in Nat /\ 2^a \in Nat
  BY Levels, Powers
<1>1. 0 \in S
  BY <1>0, Powers
<1>2. ASSUME NEW i \in 0 .. b - 1, i \in S PROVE i + 1 \in S
  <2>1. i \in 0 .. LogBlocks /\ a + i \in 0 .. LogBlocks /\ a + (i + 1) = (a + i) + 1
    BY <1>0
  <2>2. 2^(i + 1) = 2 * 2^i /\ 2^((a + i) + 1) = 2 * 2^(a + i) /\ 2^i \in Nat
    BY <2>1, Powers
  <2>3. 2^(a + i) = 2^a * 2^i
    BY <1>2
  <2>4. 2 * (2^a * 2^i) = 2^a * (2 * 2^i)
    BY <1>0, <2>2
  <2>5. 2^(a + (i + 1)) = 2^a * 2^(i + 1)
    BY <2>1, <2>2, <2>3, <2>4
  <2> QED BY <2>5
<1>3. 0 .. b \subseteq S
  <2> HIDE DEF S
  <2> QED BY <1>1, <1>2, UpwardInduction
<1> QED BY <1>3

\* A higher power is at least twice as large.
LEMMA PowersGrow ==
    ASSUME NEW a \in Nat, NEW b \in Nat, a < b, b <= LogBlocks
    PROVE  2 * 2^a <= 2^b /\ 2^a < 2^b
<1> DEFINE x == 2^a  y == 2^(b - (a + 1))
<1>1. a \in 0 .. LogBlocks /\ b \in 0 .. LogBlocks /\ a + 1 \in 0 .. LogBlocks
      /\ b - (a + 1) \in 0 .. LogBlocks
  BY Levels
<1>2. x \in Nat \ {0} /\ y \in Nat \ {0} /\ 2^(a + 1) = 2 * x
  BY <1>1, Powers
<1>3. (a + 1) + (b - (a + 1)) = b
  OBVIOUS
<1>4. 2^b = 2^(a + 1) * y
  BY <1>1, <1>3, PowerOfSum
<1> HIDE DEF x, y
<1>5. (2 * x) * y >= 2 * x
  BY <1>2
<1>6. 2 * x <= 2^b /\ x < 2 * x
  BY <1>2, <1>4, <1>5
<1>7. 2^b \in Nat
  BY <1>1, Powers
<1> QED BY <1>2, <1>6, <1>7 DEF x

-----------------------------------------------------------------------------
(* The Merkle tree of the evaluation, level by level.                      *)

\* The digests of the pairs of a level of 2^k nodes.
Paired(layer, k) == [i \in 0 .. 2^k - 1 |-> hash(layer[2 * i], layer[2 * i + 1])]

\* The recursion of Layer: a level pairs the digests of the level below.
LEMMA LayersAre ==
    /\ Layer[0] = [i \in Blocks |-> Evaluation(i)]
    /\ \A n \in 1 .. LogBlocks : Layer[n] = Paired(Layer[n - 1], LogBlocks - n)
<1> DEFINE first == [i \in Blocks |-> Evaluation(i)]
           next(layer, n) == Paired(layer, LogBlocks - n)
           Sound(f, m) == f = [n \in 0 .. m |-> IF n = 0 THEN first ELSE next(f[n - 1], n)]
           S == {m \in 0 .. LogBlocks : \E f : Sound(f, m)}
<1>0. LogBlocks \in Nat
  BY Levels
<1>1. 0 \in S
  <2> HIDE DEF first, next
  <2> DEFINE f == [n \in 0 .. 0 |-> first]
  <2>1. f = [n \in 0 .. 0 |-> IF n = 0 THEN first ELSE next(f[n - 1], n)]
    OBVIOUS
  <2>2. \E h : Sound(h, 0)
    BY <2>1
  <2> HIDE DEF Sound
  <2> QED BY <1>0, <2>2
<1>2. ASSUME NEW m \in 0 .. LogBlocks - 1, m \in S PROVE m + 1 \in S
  <2> HIDE DEF first, next
  <2>1. PICK f : Sound(f, m)
    BY <1>2
  <2> DEFINE g == [n \in 0 .. m + 1 |-> IF n = m + 1 THEN next(f[m], m + 1) ELSE f[n]]
  <2>2. ASSUME NEW n \in 0 .. m + 1
        PROVE  g[n] = IF n = 0 THEN first ELSE next(g[n - 1], n)
    <3>1. CASE n = m + 1
      <4>1. n - 1 = m /\ n # 0 /\ g[n - 1] = f[m]
        BY <3>1
      <4> QED BY <3>1, <4>1
    <3>2. CASE n # m + 1
      <4>1. n \in 0 .. m /\ g[n] = f[n] /\ (n # 0 => n - 1 \in 0 .. m /\ g[n - 1] = f[n - 1])
        BY <3>2
      <4>2. f[n] = IF n = 0 THEN first ELSE next(f[n - 1], n)
        BY <2>1, <4>1
      <4> QED BY <4>1, <4>2
    <3> QED BY <3>1, <3>2
  <2>3. g = [n \in 0 .. m + 1 |-> IF n = 0 THEN first ELSE next(g[n - 1], n)]
    BY <2>2
  <2>4. \E h : Sound(h, m + 1)
    BY <2>3
  <2> HIDE DEF Sound
  <2> QED BY <1>0, <2>4
<1>3. 0 .. LogBlocks \subseteq S
  <2> HIDE DEF S
  <2> QED BY <1>0, <1>1, <1>2, UpwardInduction
<1>4. \E f : Sound(f, LogBlocks)
  BY <1>0, <1>3
<1>5. Layer = CHOOSE f : Sound(f, LogBlocks)
  BY DEF Layer, Paired
<1>6. Sound(Layer, LogBlocks)
  <2> HIDE DEF Sound
  <2> QED BY <1>4, <1>5
<1> HIDE DEF first, next
<1>7. Layer[0] = first
  BY <1>0, <1>6
<1>8. ASSUME NEW n \in 1 .. LogBlocks PROVE Layer[n] = next(Layer[n - 1], n)
  BY <1>0, <1>6
<1> QED BY <1>7, <1>8 DEF first, next

\* A node of a level is the digest of its two children.
LEMMA LayerNodes ==
    /\ \A i \in Blocks : Layer[0][i] = Evaluation(i)
    /\ \A n \in 0 .. LogBlocks - 1 : \A i \in 0 .. 2^(LogBlocks - (n + 1)) - 1 :
          Layer[n + 1][i] = hash(Layer[n][2 * i], Layer[n][2 * i + 1])
<1>1. \A i \in Blocks : Layer[0][i] = Evaluation(i)
  BY LayersAre
<1>2. ASSUME NEW n \in 0 .. LogBlocks - 1, NEW i \in 0 .. 2^(LogBlocks - (n + 1)) - 1
      PROVE  Layer[n + 1][i] = hash(Layer[n][2 * i], Layer[n][2 * i + 1])
  <2>1. n + 1 \in 1 .. LogBlocks /\ (n + 1) - 1 = n
    BY Levels
  <2>2. Layer[n + 1] = Paired(Layer[n], LogBlocks - (n + 1))
    BY <2>1, LayersAre
  <2> QED BY <2>2 DEF Paired
<1> QED BY <1>1, <1>2

\* The recursion of constructMerkleTree.
LEMMA HeapIs ==
    ASSUME NEW n \in 1 .. LogBlocks, NEW src
    PROVE  LET half == 2^(n - 1)  node == constructMerkleTree(src, n)
           IN /\ DOMAIN node = 1 .. 2^n - 1
              /\ \A i \in 1 .. 2^n - 1 :
                    node[i] = IF i >= half
                              THEN hash(src[2 * (i - half)], src[2 * (i - half) + 1])
                              ELSE hash(node[2 * i], node[2 * i + 1])
<1> DEFINE half == 2^(n - 1)  M == 2^n - 1
           leaf(i) == hash(src[2 * (i - half)], src[2 * (i - half) + 1])
           Sound(f, m) == f = [i \in m .. M |-> IF i >= half THEN leaf(i)
                                                ELSE hash(f[2 * i], f[2 * i + 1])]
           S == {m \in 1 .. M : \E f : Sound(f, m)}
           node == constructMerkleTree(src, n)
<1>0. half \in Nat \ {0} /\ M = 2 * half - 1 /\ M \in Nat \ {0}
  <2>1. n - 1 \in 0 .. LogBlocks /\ (n - 1) + 1 = n
    BY Levels
  <2>2. half \in Nat \ {0} /\ 2^n = 2 * half
    BY <2>1, Powers
  <2> HIDE DEF half
  <2> QED BY <2>2
<1>1. node = CHOOSE f : Sound(f, 1)
  BY DEF constructMerkleTree
<1> HIDE DEF half, M, leaf, node
<1>2. M \in S
  <2> DEFINE f == [i \in M .. M |-> leaf(i)]
  <2>1. M >= half
    BY <1>0
  <2>2. f = [i \in M .. M |-> IF i >= half THEN leaf(i) ELSE hash(f[2 * i], f[2 * i + 1])]
    BY <1>0, <2>1
  <2>3. \E h : Sound(h, M)
    BY <2>2
  <2> HIDE DEF Sound
  <2> QED BY <1>0, <2>3
<1>3. ASSUME NEW m \in 1 .. M - 1, m + 1 \in S PROVE m \in S
  <2>1. PICK f : Sound(f, m + 1)
    BY <1>3
  <2> DEFINE top == IF m >= half THEN leaf(m) ELSE hash(f[2 * m], f[2 * m + 1])
             g == [i \in m .. M |-> IF i = m THEN top ELSE f[i]]
  <2>2. ASSUME NEW i \in m .. M
        PROVE  g[i] = IF i >= half THEN leaf(i) ELSE hash(g[2 * i], g[2 * i + 1])
    <3>1. i < half => /\ 2 * i \in m + 1 .. M /\ 2 * i + 1 \in m + 1 .. M
                      /\ g[2 * i] = f[2 * i] /\ g[2 * i + 1] = f[2 * i + 1]
      BY <1>0
    <3>2. CASE i = m
      BY <1>0, <3>1, <3>2
    <3>3. CASE i # m
      <4>1. i \in m + 1 .. M /\ g[i] = f[i]
        BY <1>0, <3>3
      <4>2. f[i] = IF i >= half THEN leaf(i) ELSE hash(f[2 * i], f[2 * i + 1])
        BY <2>1, <4>1
      <4> HIDE DEF g
      <4> QED BY <1>0, <3>1, <4>1, <4>2
    <3> QED BY <3>2, <3>3
  <2>3. g = [i \in m .. M |-> IF i >= half THEN leaf(i) ELSE hash(g[2 * i], g[2 * i + 1])]
    BY <2>2
  <2>4. \E h : Sound(h, m)
    BY <2>3
  <2> HIDE DEF Sound
  <2> QED BY <1>0, <2>4
<1>4. 1 .. M \subseteq S
  <2> HIDE DEF S
  <2> QED BY <1>0, <1>2, <1>3, DownwardInduction
<1>5. \E f : Sound(f, 1)
  <2> HIDE DEF Sound
  <2> QED BY <1>0, <1>4
<1>6. Sound(node, 1)
  <2> HIDE DEF Sound
  <2> QED BY <1>1, <1>5
<1>7. /\ DOMAIN node = 1 .. M
      /\ \A i \in 1 .. M : node[i] = IF i >= half THEN leaf(i)
                                     ELSE hash(node[2 * i], node[2 * i + 1])
  BY <1>6
<1> QED BY <1>7 DEF half, M, leaf, node

\* The heap over one level of the tree holds the levels above it.
LEMMA HeapOverLayer ==
    ASSUME LogSegments # 0, NEW src, \A s \in Segments : src[s] = Layer[LogLength][s]
    PROVE  /\ DOMAIN constructMerkleTree(src, LogSegments) = 1 .. 2^LogSegments - 1
           /\ \A j \in 0 .. LogSegments - 1 : \A x \in 0 .. 2^j - 1 :
                 constructMerkleTree(src, LogSegments)[2^j + x] = Layer[LogBlocks - j][x]
<1> DEFINE G == LogSegments  half == 2^(G - 1)  node == constructMerkleTree(src, G)
           S == {k \in 1 .. G : \A x \in 0 .. 2^(k - 1) - 1 :
                    node[2^(k - 1) + x] = Layer[LogBlocks - (k - 1)][x]}
<1>0. G \in Nat \ {0} /\ G \in 1 .. LogBlocks /\ G - 1 \in 0 .. LogBlocks
      /\ LogBlocks \in Nat /\ LogLength = LogBlocks - G /\ G < LogBlocks
  BY Levels
<1>1. half \in Nat \ {0} /\ 2^G = 2 * half
  <2>1. (G - 1) + 1 = G
    BY <1>0
  <2> QED BY <1>0, <2>1, Powers
<1>2. /\ DOMAIN node = 1 .. 2^G - 1
      /\ \A i \in 1 .. 2^G - 1 :
            node[i] = IF i >= half
                      THEN hash(src[2 * (i - half)], src[2 * (i - half) + 1])
                      ELSE hash(node[2 * i], node[2 * i + 1])
  BY <1>0, HeapIs
<1>3. \A s \in 0 .. 2 * half - 1 : src[s] = Layer[LogLength][s]
  BY <1>1 DEF Segments
<1> HIDE DEF node
<1>4. G \in S
  <2>1. ASSUME NEW x \in 0 .. half - 1
        PROVE  node[half + x] = Layer[LogBlocks - (G - 1)][x]
    <3>1. half + x \in 1 .. 2^G - 1 /\ half + x >= half /\ (half + x) - half = x
      BY <1>1
    <3>2. node[half + x] = hash(src[2 * x], src[2 * x + 1])
      BY <1>2, <3>1
    <3>3. 2 * x \in 0 .. 2 * half - 1 /\ 2 * x + 1 \in 0 .. 2 * half - 1
      BY <1>1
    <3>4. node[half + x] = hash(Layer[LogLength][2 * x], Layer[LogLength][2 * x + 1])
      BY <1>3, <3>2, <3>3
    <3>5. LogLength \in 0 .. LogBlocks - 1 /\ LogBlocks - (LogLength + 1) = G - 1
          /\ LogLength + 1 = LogBlocks - (G - 1)
      BY <1>0
    <3>6. Layer[LogLength + 1][x] = hash(Layer[LogLength][2 * x], Layer[LogLength][2 * x + 1])
      BY <3>5, LayerNodes
    <3> QED BY <3>4, <3>5, <3>6
  <2> QED BY <1>0, <2>1
<1>5. ASSUME NEW k \in 1 .. G - 1, k + 1 \in S PROVE k \in S
  <2> DEFINE p == 2^(k - 1)
  <2>0. k - 1 \in 0 .. LogBlocks /\ (k - 1) + 1 = k /\ (k + 1) - 1 = k
    BY <1>0
  <2>1. p \in Nat \ {0} /\ 2^k = 2 * p
    BY <2>0, Powers
  <2>2. 2 * p <= half
    <3>1. k \in Nat /\ G - 1 \in Nat /\ k <= G - 1 /\ G - 1 <= LogBlocks
      BY <1>0
    <3>2. CASE k = G - 1
      BY <1>1, <2>1, <3>2
    <3>3. CASE k < G - 1
      BY <1>1, <2>1, <3>1, <3>3, PowersGrow
    <3> QED BY <3>1, <3>2, <3>3
  <2>3. \A x \in 0 .. 2 * p - 1 : node[2 * p + x] = Layer[LogBlocks - k][x]
    BY <1>5, <2>0, <2>1
  <2> HIDE DEF p, half
  <2>4. ASSUME NEW x \in 0 .. p - 1
        PROVE  node[p + x] = Layer[LogBlocks - (k - 1)][x]
    <3>1. p + x \in 1 .. 2^G - 1 /\ ~(p + x >= half)
      BY <1>1, <2>1, <2>2
    <3>2. node[p + x] = hash(node[2 * (p + x)], node[2 * (p + x) + 1])
      BY <1>2, <3>1
    <3>3. /\ 2 * x \in 0 .. 2 * p - 1 /\ 2 * x + 1 \in 0 .. 2 * p - 1
          /\ 2 * (p + x) = 2 * p + 2 * x /\ 2 * (p + x) + 1 = 2 * p + (2 * x + 1)
      BY <2>1
    <3>4. node[p + x] = hash(Layer[LogBlocks - k][2 * x], Layer[LogBlocks - k][2 * x + 1])
      BY <2>3, <3>2, <3>3
    <3>5. LogBlocks - k \in 0 .. LogBlocks - 1 /\ LogBlocks - ((LogBlocks - k) + 1) = k - 1
          /\ (LogBlocks - k) + 1 = LogBlocks - (k - 1)
      BY <1>0
    <3>6. x \in 0 .. 2^(LogBlocks - ((LogBlocks - k) + 1)) - 1
      BY <3>5 DEF p
    <3>7. Layer[(LogBlocks - k) + 1][x]
            = hash(Layer[LogBlocks - k][2 * x], Layer[LogBlocks - k][2 * x + 1])
      BY <3>5, <3>6, LayerNodes
    <3> QED BY <3>4, <3>5, <3>7
  <2>5. \A x \in 0 .. 2^(k - 1) - 1 : node[2^(k - 1) + x] = Layer[LogBlocks - (k - 1)][x]
    BY <2>4 DEF p
  <2> QED BY <1>0, <2>5
<1>6. 1 .. G \subseteq S
  <2> HIDE DEF S
  <2> QED BY <1>0, <1>4, <1>5, DownwardInduction
<1>7. ASSUME NEW j \in 0 .. G - 1, NEW x \in 0 .. 2^j - 1
      PROVE  node[2^j + x] = Layer[LogBlocks - j][x]
  <2>1. j + 1 \in S /\ (j + 1) - 1 = j
    BY <1>0, <1>6
  <2> QED BY <2>1
<1> QED BY <1>2, <1>7 DEF node

-----------------------------------------------------------------------------
(* The inductive invariant.                                                *)

\* The first n levels of the heap, from the root down, are those of the tree.
TreeIsRight(n) ==
    \A j \in 0 .. n - 1 : \A x \in 0 .. 2^j - 1 : tree_[2^j + x] = Layer[LogBlocks - j][x]

\* What thread s has written of the table and of the levels of its segment.
SegmentInv(s) ==
    /\ rows[s] <= LogLength =>
          \A x \in 0 .. 2^LogLength - 1 :
             data_[2^LogLength * s + x] = Evaluation(2^LogLength * s + x)
    /\ \A l \in 0 .. LogLength - 1 : l >= rows[s] =>
          \A x \in 0 .. 2^l - 1 :
             tree_[2^(LogSegments + l) + (2^l * s + x)] = Layer[LogLength - l][2^l * s + x]

CommitInv ==
    /\ entireWitnessKept \in BOOLEAN /\ (~entireWitnessKept => LogSegments # 0)
    /\ rows \in [Segments -> 0 .. LogLength + 1]
    /\ DOMAIN data_ = Blocks
    /\ DOMAIN peaks = Segments
    /\ stage = "commit" =>
          /\ DOMAIN tree_ = 1 .. 2^LogBlocks - 1
          /\ \A s \in Segments :
                IF entireWitnessKept THEN SegmentInv(s)
                ELSE rows[s] = 0 => peaks[s] = Layer[LogLength][s]
    /\ stage # "commit" =>
          /\ root_ = Layer[LogBlocks][0]
          /\ entireWitnessKept => /\ \A i \in Blocks : data_[i] = Evaluation(i)
                                  /\ TreeIsRight(LogBlocks)
          /\ ~entireWitnessKept => /\ \A s \in Segments : peaks[s] = Layer[LogLength][s]
                                   /\ TreeIsRight(LogSegments)

\* The pairs of the queried blocks, and those whose path is in resultsTree.
QueriedPairs == {q \div 2 : q \in queries}
AnsweredPairs == QueriedPairs \ pending

\* The indices of level k of a subtree that holds the paths to the pairs in P.
PathIndices(P, k) ==
    IF k = 1 THEN {2 * p : p \in P} \cup {2 * p + 1 : p \in P}
    ELSE {Twin(p \div 2^(k - 2)) : p \in P}

\* layers holds the true digests of the paths to the pairs in P, and no more.
HoldsPaths(layers, P) ==
    /\ DOMAIN layers = 1 .. LogBlocks
    /\ \A k \in 1 .. LogBlocks : layers[k] = [i \in PathIndices(P, k) |-> Layer[k - 1][i]]

AnswerInv ==
    /\ queries \subseteq Blocks /\ pending \subseteq QueriedPairs
    /\ stage \in {"commit", "query"} => queries = {}
    /\ stage \in {"deliver", "verified"} => pending = {}
    /\ HoldsPaths(resultsTree, AnsweredPairs)

-----------------------------------------------------------------------------
(* Segments and cosets.                                                    *)

\* Segment s holds 2^l nodes of the level that has 2^l nodes per segment.
LEMMA SegmentPlaces ==
    ASSUME NEW l \in 0 .. LogLength, NEW s \in Segments, NEW x \in 0 .. 2^l - 1
    PROVE  /\ 2^l * s + x \in 0 .. 2^(LogSegments + l) - 1
           /\ (2^l * s + x) \div 2^l = s
<1> DEFINE w == 2^l  g == 2^LogSegments
<1>1. w \in Nat \ {0} /\ g \in Nat \ {0}
  BY Levels, Powers
<1>2. 2^(LogSegments + l) = g * w
  BY Levels, PowerOfSum
<1>3. s \in 0 .. g - 1
  BY DEF Segments
<1>4. x \in 0 .. w - 1
  OBVIOUS
<1> HIDE DEF w, g
<1>5. w * s + x \in 0 .. g * w - 1
  <2>1. w * s + x \in Nat /\ w * s <= w * (g - 1)
    BY <1>1, <1>3, <1>4
  <2> QED BY <1>1, <1>3, <1>4, <2>1
<1>6. (w * s + x) \div w = s
  <2> DEFINE n == w * s + x
  <2>1. n \in Nat /\ n = s * w + x /\ s \in Int /\ x \in Int /\ 0 <= x /\ x < w
    BY <1>1, <1>3, <1>4
  <2> HIDE DEF n
  <2>2. n \div w = s
    BY <1>1, <2>1, DivisionIsUnique
  <2> QED BY <2>2 DEF n
<1> QED BY <1>2, <1>5, <1>6 DEF w, g

\* Every node of a level lies in a segment, at a place of it.
LEMMA SegmentOf ==
    ASSUME NEW l \in 0 .. LogLength, NEW y \in 0 .. 2^(LogSegments + l) - 1
    PROVE  \E s \in Segments : \E x \in 0 .. 2^l - 1 : y = 2^l * s + x
<1> DEFINE w == 2^l  g == 2^LogSegments  s == y \div w  x == y % w
<1>1. w \in Nat \ {0} /\ g \in Nat \ {0}
  BY Levels, Powers
<1>2. 2^(LogSegments + l) = g * w
  BY Levels, PowerOfSum
<1>3. y \in Nat /\ y < g * w
  BY <1>1, <1>2
<1>4. s \in Nat /\ x \in Nat /\ x < w /\ y = w * s + x
  <2> HIDE DEF w
  <2> QED BY <1>1, <1>3, Division
<1>5. s < g
  <2> HIDE DEF w, s, x, g
  <2>1. SUFFICES ASSUME s >= g PROVE FALSE
    BY <1>1, <1>4
  <2>2. w * s >= w * g
    BY <1>1, <1>4, <2>1
  <2> QED BY <1>1, <1>3, <1>4, <2>2
<1>6. s \in Segments /\ x \in 0 .. w - 1
  BY <1>1, <1>4, <1>5 DEF Segments
<1> QED BY <1>4, <1>6

\* The recursion of getMerkleCommitmentInplace.
LEMMA InPlaceIs ==
    ASSUME NEW n \in Nat, NEW buff
    PROVE  LET level == InPlaceLevels(buff, n)
           IN /\ level[0] = buff
              /\ \A t \in 1 .. n : level[t] = InPlaceLevel(level[t - 1], t)
<1> DEFINE Sound(f, m) == f = [s \in 0 .. m |-> IF s = 0 THEN buff
                                                ELSE InPlaceLevel(f[s - 1], s)]
           S == {m \in 0 .. n : \E f : Sound(f, m)}
           level == InPlaceLevels(buff, n)
<1>1. level = CHOOSE f : Sound(f, n)
  BY DEF InPlaceLevels
<1> HIDE DEF level
<1>2. 0 \in S
  <2> DEFINE f == [s \in 0 .. 0 |-> buff]
  <2>1. f = [s \in 0 .. 0 |-> IF s = 0 THEN buff ELSE InPlaceLevel(f[s - 1], s)]
    OBVIOUS
  <2>2. \E h : Sound(h, 0)
    BY <2>1
  <2> HIDE DEF Sound
  <2> QED BY <2>2
<1>3. ASSUME NEW m \in 0 .. n - 1, m \in S PROVE m + 1 \in S
  <2>1. PICK f : Sound(f, m)
    BY <1>3
  <2> DEFINE g == [s \in 0 .. m + 1 |-> IF s = m + 1 THEN InPlaceLevel(f[m], m + 1)
                                        ELSE f[s]]
  <2>2. ASSUME NEW s \in 0 .. m + 1
        PROVE  g[s] = IF s = 0 THEN buff ELSE InPlaceLevel(g[s - 1], s)
    <3>1. s # 0 => s - 1 \in 0 .. m + 1 /\ s - 1 # m + 1 /\ g[s - 1] = f[s - 1]
      OBVIOUS
    <3>2. CASE s = m + 1
      <4>1. g[s] = InPlaceLevel(f[m], m + 1) /\ s # 0 /\ s - 1 = m
        BY <3>2
      <4> HIDE DEF g
      <4> QED BY <3>1, <3>2, <4>1
    <3>3. CASE s # m + 1
      <4>1. s \in 0 .. m /\ g[s] = f[s]
        BY <3>3
      <4>2. f[s] = IF s = 0 THEN buff ELSE InPlaceLevel(f[s - 1], s)
        BY <2>1, <4>1
      <4> HIDE DEF g
      <4> QED BY <3>1, <4>1, <4>2
    <3> QED BY <3>2, <3>3
  <2>3. g = [s \in 0 .. m + 1 |-> IF s = 0 THEN buff ELSE InPlaceLevel(g[s - 1], s)]
    BY <2>2
  <2>4. \E h : Sound(h, m + 1)
    BY <2>3
  <2> HIDE DEF Sound
  <2> QED BY <2>4
<1>4. 0 .. n \subseteq S
  <2> HIDE DEF S
  <2> QED BY <1>2, <1>3, UpwardInduction
<1>5. \E f : Sound(f, n)
  <2> HIDE DEF Sound
  <2> QED BY <1>4
<1>6. Sound(level, n)
  <2> HIDE DEF Sound
  <2> QED BY <1>1, <1>5
<1>7. level[0] = buff /\ \A t \in 1 .. n : level[t] = InPlaceLevel(level[t - 1], t)
  BY <1>6
<1> QED BY <1>7 DEF level

\* In-place hashing of a coset leaves node x of level t of its subtree at x * 2^t.
LEMMA CosetLevels ==
    ASSUME NEW s \in Segments, NEW t \in 0 .. LogLength
    PROVE  LET level == InPlaceLevels(CosetEval(s), LogLength)
           IN \A x \in 0 .. 2^(LogLength - t) - 1 :
                 level[t][x * 2^t] = Layer[t][2^(LogLength - t) * s + x]
<1> DEFINE H == LogLength  level == InPlaceLevels(CosetEval(s), H)
           Right(u) == \A x \in 0 .. 2^(H - u) - 1 :
                          level[u][x * 2^u] = Layer[u][2^(H - u) * s + x]
           S == {u \in 0 .. H : DOMAIN level[u] = 0 .. 2^H - 1 /\ Right(u)}
<1>0. H \in Nat /\ H \in 0 .. LogBlocks /\ 2^H \in Nat \ {0} /\ H <= LogBlocks
  BY Levels, Powers
<1>1. level[0] = CosetEval(s) /\ \A u \in 1 .. H : level[u] = InPlaceLevel(level[u - 1], u)
  BY <1>0, InPlaceIs
<1>2. s \in Nat
  BY Levels, Powers DEF Segments
<1> HIDE DEF level
<1>3. 0 \in S
  <2>1. DOMAIN level[0] = 0 .. 2^H - 1
    BY <1>1 DEF CosetEval
  <2>2. ASSUME NEW x \in 0 .. 2^(H - 0) - 1
        PROVE  level[0][x * 2^0] = Layer[0][2^(H - 0) * s + x]
    <3>1. H - 0 = H /\ x \in 0 .. 2^H - 1 /\ x * 2^0 = x
      BY <1>0, Powers
    <3>2. level[0][x] = Evaluation(s * 2^H + x)
      BY <1>1, <3>1 DEF CosetEval
    <3>3. 2^H * s + x \in Blocks /\ s * 2^H + x = 2^H * s + x
      <4>1. 2^H * s + x \in 0 .. 2^(LogSegments + H) - 1
        BY <1>0, <3>1, SegmentPlaces
      <4> QED BY <1>0, <1>2, <3>1, <4>1, Levels DEF Blocks
    <3> QED BY <3>1, <3>2, <3>3, LayerNodes
  <2> QED BY <1>0, <2>1, <2>2
<1>4. ASSUME NEW u \in 0 .. H - 1, u \in S PROVE u + 1 \in S
  <2> DEFINE v == u + 1  e == 2^(H - v)  w == 2^u
  <2>0. /\ v \in 1 .. H /\ v - 1 = u /\ H - u = (H - v) + 1 /\ H - v \in 0 .. LogBlocks
        /\ u \in 0 .. LogBlocks /\ u \in 0 .. LogBlocks - 1
    BY <1>0, Levels
  <2>1. /\ e \in Nat \ {0} /\ w \in Nat \ {0} /\ 2^v = 2 * w /\ 2^(H - u) = 2 * e
    BY <2>0, Powers
  <2>2. 2^H = e * (2 * w)
    <3>1. (H - v) + v = H /\ H - v \in Nat /\ v \in Nat
      BY <1>0, <2>0
    <3>2. 2^((H - v) + v) = 2^(H - v) * 2^v
      BY <1>0, <3>1, PowerOfSum
    <3> QED BY <2>1, <3>1, <3>2
  <2>3. level[v] = InPlaceLevel(level[u], v) /\ DOMAIN level[u] = 0 .. 2^H - 1
    BY <1>1, <1>4, <2>0
  <2>4. DOMAIN level[v] = 0 .. 2^H - 1
    BY <2>3 DEF InPlaceLevel
  <2>5. \A x \in 0 .. 2 * e - 1 : level[u][x * w] = Layer[u][(2 * e) * s + x]
    BY <1>4, <2>1
  <2>6. ASSUME NEW x \in 0 .. e - 1
        PROVE  level[v][x * 2^v] = Layer[v][e * s + x]
    <3> DEFINE i == x * 2^v
    <3>1. i = (2 * x) * w /\ i + w = (2 * x + 1) * w /\ i \in Nat
      <4> HIDE DEF e, w, v
      <4> QED BY <2>1
    <3>2. i \in 0 .. 2^H - 1
      <4> HIDE DEF e, w, v, i
      <4>1. x * (2 * w) <= (e - 1) * (2 * w)
        BY <2>1
      <4> QED BY <2>1, <2>2, <3>1, <4>1
    <3>3. i % 2^v = 0
      <4> DEFINE d == 2^v
      <4>1. d \in Nat \ {0} /\ x \in Nat
        BY <2>1
      <4> HIDE DEF d
      <4>2. (x * d) % d = 0
        BY <4>1, Multiples
      <4> QED BY <4>2 DEF d
    <3> HIDE DEF i
    <3>4. level[v][i] = hash(level[u][i], level[u][i + w])
      <4>1. InPlaceLevel(level[u], v)[i] = hash(level[u][i], level[u][i + 2^(v - 1)])
        BY <2>3, <3>2, <3>3 DEF InPlaceLevel
      <4> QED BY <2>0, <2>3, <4>1
    <3>5. 2 * x \in 0 .. 2 * e - 1 /\ 2 * x + 1 \in 0 .. 2 * e - 1
      <4> HIDE DEF e
      <4> QED BY <2>1
    <3>6. level[v][i] = hash(Layer[u][(2 * e) * s + 2 * x], Layer[u][(2 * e) * s + (2 * x + 1)])
      BY <2>5, <3>1, <3>4, <3>5
    <3>7. e * s + x \in 0 .. 2^(LogSegments + (H - v)) - 1
      BY <1>0, <2>0, SegmentPlaces
    <3>8. LogSegments + (H - v) = LogBlocks - (u + 1)
      BY <1>0, <2>0, Levels
    <3>9. Layer[u + 1][e * s + x] = hash(Layer[u][2 * (e * s + x)], Layer[u][2 * (e * s + x) + 1])
      BY <2>0, <3>7, <3>8, LayerNodes
    <3>10. 2 * (e * s + x) = (2 * e) * s + 2 * x /\ 2 * (e * s + x) + 1 = (2 * e) * s + (2 * x + 1)
      <4> HIDE DEF e
      <4> QED BY <1>2, <2>1
    <3> QED BY <3>6, <3>9, <3>10 DEF i
  <2>7. Right(u + 1)
    BY <2>6
  <2> HIDE DEF Right
  <2> QED BY <2>0, <2>4, <2>7
<1>5. 0 .. H \subseteq S
  <2> HIDE DEF S
  <2> QED BY <1>0, <1>3, <1>4, UpwardInduction
<1>6. Right(t)
  BY <1>5
<1> QED BY <1>6 DEF level

-----------------------------------------------------------------------------
(* The commitment phase.                                                   *)

\* Nothing is hashed yet.
LEMMA CommitInitInv == MerkleInit => CommitInv
<1> SUFFICES ASSUME MerkleInit PROVE CommitInv
  OBVIOUS
<1>1. LogLength \in Nat
  BY Levels
<1>2. ASSUME NEW s \in Segments PROVE rows[s] = LogLength + 1 /\ SegmentInv(s) /\ rows[s] # 0
  <2>1. rows[s] = LogLength + 1
    BY DEF MerkleInit
  <2>2. ~(rows[s] <= LogLength) /\ \A l \in 0 .. LogLength - 1 : ~(l >= rows[s])
    BY <1>1, <2>1
  <2> QED BY <1>1, <2>1, <2>2 DEF SegmentInv
<1>3. rows \in [Segments -> 0 .. LogLength + 1]
  BY <1>1 DEF MerkleInit
<1> QED BY <1>2, <1>3 DEF CommitInv, MerkleInit

\* A thread evaluates its segment.
LEMMA SigmentInv ==
    ASSUME CommitInv, NEW s \in Segments, sigmentConstructor(s)
    PROVE  CommitInv'
<1> DEFINE w == 2^LogLength
<1>0. LogLength \in Nat /\ w \in Nat \ {0} /\ LogLength \in 0 .. LogLength
  BY Levels, Powers
<1>1. /\ stage = "commit" /\ entireWitnessKept /\ rows[s] = LogLength + 1
      /\ rows \in [Segments -> 0 .. LogLength + 1]
      /\ rows' = [rows EXCEPT ![s] = LogLength]
      /\ data_' = [i \in Blocks |-> IF i \div w = s THEN Evaluation(i) ELSE data_[i]]
      /\ stage' = stage /\ entireWitnessKept' = entireWitnessKept
      /\ tree_' = tree_ /\ peaks' = peaks /\ root_' = root_
  BY DEF sigmentConstructor, CommitInv
<1>2. rows' \in [Segments -> 0 .. LogLength + 1] /\ DOMAIN data_' = Blocks
  BY <1>0, <1>1
<1>3. ASSUME NEW z \in Segments PROVE SegmentInv(z)'
  <2>1. SegmentInv(z) /\ (z # s => rows'[z] = rows[z]) /\ rows'[s] = LogLength
    BY <1>1 DEF CommitInv
  <2>2. ASSUME rows'[z] <= LogLength, NEW x \in 0 .. w - 1
        PROVE  data_'[w * z + x] = Evaluation(w * z + x)
    <3>1. w * z + x \in Blocks /\ (w * z + x) \div w = z
      <4>1. LogSegments + LogLength = LogBlocks
        BY Levels
      <4> QED BY <1>0, <4>1, SegmentPlaces DEF Blocks
    <3>2. z # s => data_[w * z + x] = Evaluation(w * z + x)
      BY <2>1, <2>2 DEF SegmentInv
    <3> HIDE DEF w
    <3> QED BY <1>1, <3>1, <3>2
  <2>3. ASSUME NEW l \in 0 .. LogLength - 1, l >= rows'[z] PROVE l >= rows[z]
    <3>1. z # s
      BY <1>0, <2>1, <2>3
    <3> QED BY <2>1, <2>3, <3>1
  <2> HIDE DEF w
  <2>4. \A l \in 0 .. LogLength - 1 : l >= rows'[z] =>
          \A x \in 0 .. 2^l - 1 :
             tree_'[2^(LogSegments + l) + (2^l * z + x)] = Layer[LogLength - l][2^l * z + x]
    BY <1>1, <2>1, <2>3 DEF SegmentInv
  <2> QED BY <2>2, <2>4 DEF SegmentInv, w
<1> HIDE DEF w
<1> QED BY <1>1, <1>2, <1>3 DEF CommitInv

\* The nodes of different segments, or of different levels, are different places
\* of the heap.
LEMMA RowsDiffer ==
    ASSUME NEW l \in 0 .. LogLength - 1, NEW s \in Segments, NEW x \in 0 .. 2^l - 1,
           NEW m \in 0 .. LogLength - 1, NEW z \in Segments, NEW y \in 0 .. 2^m - 1,
           2^(LogSegments + l) + (2^l * s + x) = 2^(LogSegments + m) + (2^m * z + y)
    PROVE  l = m /\ s = z
<1> DEFINE a == 2^(LogSegments + l)  b == 2^(LogSegments + m)
           c == 2^l * s + x  d == 2^m * z + y
<1>0. l \in 0 .. LogLength /\ m \in 0 .. LogLength /\ LogSegments + l \in Nat
      /\ LogSegments + m \in Nat /\ LogSegments + l <= LogBlocks /\ LogSegments + m <= LogBlocks
  BY Levels
<1>1. c \in 0 .. a - 1 /\ c \div 2^l = s /\ d \in 0 .. b - 1 /\ d \div 2^m = z
  BY <1>0, SegmentPlaces
<1>2. a \in Nat /\ b \in Nat
  BY <1>0, Levels, Powers
<1>3. a + c = b + d
  OBVIOUS
<1>4. l < m => 2 * a <= b
  BY <1>0, PowersGrow, Levels
<1>5. m < l => 2 * b <= a
  BY <1>0, PowersGrow, Levels
<1> HIDE DEF a, b, c, d
<1>6. ~(l < m)
  BY <1>1, <1>2, <1>3, <1>4
<1>7. ~(m < l)
  BY <1>1, <1>2, <1>3, <1>5
<1>8. l = m
  BY <1>0, <1>6, <1>7
<1>9. a = b
  BY <1>8 DEF a, b
<1>10. c = d
  BY <1>1, <1>2, <1>3, <1>9
<1> QED BY <1>1, <1>8, <1>10

\* A thread hashes one more level of its segment, from the level below.
LEMMA SubtreeInv ==
    ASSUME CommitInv, NEW s \in Segments, constructSubtree(s)
    PROVE  CommitInv'
<1> DEFINE H == LogLength  G == LogSegments  lev == rows[s] - 1
           row == 2^(G + lev)  w == 2^lev  first == row + w * s
<1>0. H \in Nat /\ G \in Nat /\ G + H = LogBlocks /\ LogBlocks \in Nat
  BY Levels
<1>1. /\ stage = "commit" /\ entireWitnessKept /\ rows[s] \in 1 .. H
      /\ rows \in [Segments -> 0 .. H + 1]
      /\ rows' = [rows EXCEPT ![s] = rows[s] - 1]
      /\ tree_' = SubTreeRow(s, lev)
      /\ DOMAIN tree_ = 1 .. 2^LogBlocks - 1
      /\ stage' = stage /\ entireWitnessKept' = entireWitnessKept
      /\ data_' = data_ /\ peaks' = peaks /\ root_' = root_
  BY DEF constructSubtree, CommitInv
<1>2. rows' \in [Segments -> 0 .. H + 1] /\ rows'[s] = lev /\ lev \in 0 .. H - 1
  BY <1>0, <1>1
<1>3. DOMAIN tree_' = 1 .. 2^LogBlocks - 1
  BY <1>1 DEF SubTreeRow
<1>4. \A z \in Segments : SegmentInv(z)
  BY <1>1 DEF CommitInv
<1>5. lev \in 0 .. H /\ G + lev \in 0 .. LogBlocks /\ G + lev < LogBlocks
  BY <1>0, <1>2
<1>6. w \in Nat \ {0} /\ row \in Nat \ {0} /\ s \in Nat
      /\ 2^((G + lev) + 1) = 2 * row /\ 2^(lev + 1) = 2 * w
  <2>1. lev \in 0 .. LogBlocks
    BY <1>0, <1>5
  <2> QED BY <1>0, <1>5, <2>1, Powers DEF Segments
\* Every node has its place in the heap.
<1>7. ASSUME NEW m \in 0 .. H - 1, NEW z \in Segments, NEW y \in 0 .. 2^m - 1
      PROVE  2^(G + m) + (2^m * z + y) \in 1 .. 2^LogBlocks - 1
  <2> DEFINE r == 2^(G + m)  q == 2^m * z + y
  <2>1. m \in 0 .. H /\ G + m \in 0 .. LogBlocks /\ G + m < LogBlocks
    BY <1>0
  <2>2. q \in 0 .. r - 1
    BY <2>1, SegmentPlaces
  <2>3. r \in Nat \ {0} /\ 2^LogBlocks \in Nat
    BY <1>0, <2>1, Powers
  <2>4. 2 * r <= 2^LogBlocks
    BY <1>0, <2>1, PowersGrow
  <2> HIDE DEF r, q
  <2>5. r + q \in 1 .. 2^LogBlocks - 1
    BY <2>2, <2>3, <2>4
  <2> QED BY <2>5 DEF r, q
\* The level that is written.
<1>8. ASSUME NEW x \in 0 .. w - 1
      PROVE  tree_'[row + (w * s + x)] = Layer[H - lev][w * s + x]
  <2> DEFINE c == w * s + x  i == row + c
  <2>1. i \in 1 .. 2^LogBlocks - 1
    BY <1>2, <1>7
  <2>2. c \in Nat /\ i \in first .. first + w - 1 /\ i - row = c
    <3> HIDE DEF w, row
    <3>1. w * s \in Nat /\ x \in Nat /\ x <= w - 1
      BY <1>6
    <3>2. DEFINE v == w * s
    <3> HIDE DEF v
    <3>3. v \in Nat /\ c = v + x /\ first = row + v
      BY <3>1 DEF v
    <3> QED BY <1>6, <3>1, <3>3
  <2>3. H - lev \in 1 .. LogBlocks /\ (H - lev) - 1 \in 0 .. LogBlocks - 1
        /\ ((H - lev) - 1) + 1 = H - lev /\ LogBlocks - (H - lev) = G + lev
    BY <1>0, <1>2
  <2>4. c \in 0 .. 2^(LogBlocks - (H - lev)) - 1
    BY <1>5, <2>3, SegmentPlaces
  <2>5. Layer[H - lev][c] = hash(Layer[(H - lev) - 1][2 * c], Layer[(H - lev) - 1][2 * c + 1])
    BY <2>3, <2>4, LayerNodes
  <2>6. /\ 2 * c = (2 * w) * s + 2 * x /\ 2 * c + 1 = (2 * w) * s + (2 * x + 1)
        /\ 2 * x \in 0 .. 2 * w - 1 /\ 2 * x + 1 \in 0 .. 2 * w - 1
    <3> HIDE DEF w
    <3> QED BY <1>6
  <2>7. CASE lev = H - 1
    <3>1. 2 * w = 2^H /\ (H - lev) - 1 = 0
      BY <1>0, <1>6, <2>7
    <3>2. rows[s] <= H
      BY <1>0, <1>1
    <3>3. \A k \in 0 .. 2^H - 1 : data_[2^H * s + k] = Evaluation(2^H * s + k)
      BY <1>4, <3>2 DEF SegmentInv
    <3>4. data_[2 * c] = Evaluation(2 * c) /\ data_[2 * c + 1] = Evaluation(2 * c + 1)
      BY <2>6, <3>1, <3>3
    <3>5. 2 * c \in Blocks /\ 2 * c + 1 \in Blocks
      <4>1. H \in 0 .. H
        BY <1>0
      <4>2. \A k \in 0 .. 2^H - 1 : 2^H * s + k \in 0 .. 2^(G + H) - 1
        BY <4>1, SegmentPlaces
      <4> QED BY <1>0, <2>6, <3>1, <4>2 DEF Blocks
    <3>6. tree_'[i] = hash(data_[2 * c], data_[2 * c + 1])
      <4> HIDE DEF c, i
      <4> QED BY <1>1, <2>1, <2>2, <2>7 DEF SubTreeRow
    <3> QED BY <2>5, <3>1, <3>4, <3>5, <3>6, LayerNodes
  <2>8. CASE lev # H - 1
    <3> DEFINE m == lev + 1
    <3>1. m \in 0 .. H - 1 /\ m >= rows[s] /\ H - m = (H - lev) - 1 /\ 2^m = 2 * w
          /\ G + m = (G + lev) + 1 /\ 2^(G + m) = 2 * row
      <4>1. lev \in Nat /\ lev + 1 = rows[s]
        BY <1>0, <1>1, <1>2
      <4> HIDE DEF lev
      <4>2. m \in 0 .. H - 1 /\ m >= rows[s] /\ H - m = (H - lev) - 1
            /\ G + m = (G + lev) + 1
        BY <1>0, <1>1, <1>2, <2>8, <4>1
      <4> QED BY <1>6, <4>2
    <3>2. \A k \in 0 .. 2 * w - 1 : tree_[2 * row + ((2 * w) * s + k)]
                                      = Layer[(H - lev) - 1][(2 * w) * s + k]
      BY <1>4, <3>1 DEF SegmentInv
    <3>3. tree_[2 * row + 2 * c] = Layer[(H - lev) - 1][2 * c]
          /\ tree_[2 * row + (2 * c + 1)] = Layer[(H - lev) - 1][2 * c + 1]
      BY <2>6, <3>2
    <3>4. tree_'[i] = hash(tree_[2 * i], tree_[2 * i + 1])
      <4> HIDE DEF c, i
      <4> QED BY <1>1, <2>1, <2>2, <2>8 DEF SubTreeRow
    <3>5. 2 * i = 2 * row + 2 * c /\ 2 * i + 1 = 2 * row + (2 * c + 1)
      <4> HIDE DEF row, c
      <4> QED BY <1>6, <2>2
    <3> QED BY <2>5, <3>3, <3>4, <3>5
  <2> QED BY <2>7, <2>8
\* Nothing else is.
<1>9. ASSUME NEW m \in 0 .. H - 1, NEW z \in Segments, NEW y \in 0 .. 2^m - 1,
             ~(m = lev /\ z = s)
      PROVE  tree_'[2^(G + m) + (2^m * z + y)] = tree_[2^(G + m) + (2^m * z + y)]
  <2> DEFINE i == 2^(G + m) + (2^m * z + y)
  <2>1. i \in 1 .. 2^LogBlocks - 1
    BY <1>7
  <2>2. ASSUME i \in first .. first + w - 1 PROVE FALSE
    <3> DEFINE x == i - first
    <3>1. x \in 0 .. w - 1 /\ row + (w * s + x) = i
      <4> HIDE DEF i
      <4>1. w * s \in Nat
        <5> HIDE DEF w
        <5> QED BY <1>6
      <4> DEFINE v == w * s
      <4> HIDE DEF v, w, row
      <4>2. v \in Nat /\ first = row + v
        BY <4>1 DEF v
      <4> HIDE DEF first
      <4>3. x \in 0 .. w - 1 /\ row + (v + x) = i
        BY <1>6, <2>1, <2>2, <4>2
      <4> QED BY <4>3 DEF v
    <3> HIDE DEF x
    <3>2. 2^(G + lev) + (2^lev * s + x) = 2^(G + m) + (2^m * z + y) /\ x \in 0 .. 2^lev - 1
      BY <3>1
    <3> HIDE DEF lev
    <3>3. lev = m /\ s = z
      BY <1>2, <3>2, RowsDiffer
    <3> QED BY <1>9, <3>3
  <2> HIDE DEF i
  <2>3. tree_'[i] = tree_[i]
    BY <1>1, <2>1, <2>2 DEF SubTreeRow
  <2> QED BY <2>3 DEF i
<1>10. ASSUME NEW z \in Segments PROVE SegmentInv(z)'
  <2>1. SegmentInv(z) /\ (z # s => rows'[z] = rows[z])
    BY <1>1, <1>4
  <2>2. rows'[z] <= H => rows[z] <= H
    BY <1>0, <1>1, <2>1
  <2>3. rows'[z] <= LogLength =>
          \A x \in 0 .. 2^LogLength - 1 :
             data_'[2^LogLength * z + x] = Evaluation(2^LogLength * z + x)
    BY <1>1, <2>1, <2>2 DEF SegmentInv
  <2>4. ASSUME NEW l \in 0 .. H - 1, l >= rows'[z], NEW x \in 0 .. 2^l - 1
        PROVE  tree_'[2^(G + l) + (2^l * z + x)] = Layer[H - l][2^l * z + x]
    <3>1. CASE l = lev /\ z = s
      BY <1>8, <3>1
    <3>2. CASE ~(l = lev /\ z = s)
      <4>1. l >= rows[z]
        BY <1>0, <1>1, <1>2, <2>1, <2>4, <3>2
      <4> QED BY <1>9, <2>1, <3>2, <4>1 DEF SegmentInv
    <3> QED BY <3>1, <3>2
  <2> QED BY <2>3, <2>4 DEF SegmentInv
<1> HIDE DEF lev, row, w, first
<1> QED BY <1>1, <1>2, <1>3, <1>10 DEF CommitInv

\* The nodes of the heap, level by level.
LEMMA HeapPlaces ==
    ASSUME NEW j \in 0 .. LogBlocks - 1, NEW x \in 0 .. 2^j - 1
    PROVE  /\ 2^j + x \in 1 .. 2^LogBlocks - 1
           /\ \A n \in 0 .. LogBlocks : IF j < n THEN 2^j + x < 2^n ELSE 2^j + x >= 2^n
<1> DEFINE p == 2^j
<1>1. p \in Nat \ {0} /\ LogBlocks \in Nat
  BY Levels, Powers
<1>2. ASSUME NEW n \in 0 .. LogBlocks
      PROVE  /\ 2^n \in Nat
             /\ j < n => 2 * p <= 2^n
             /\ ~(j < n) => p >= 2^n
  <2>1. 2^n \in Nat
    BY Powers
  <2>2. j < n => 2 * p <= 2^n
    BY <1>1, PowersGrow
  <2>3. n < j => 2^n < p
    BY <1>1, PowersGrow
  <2>4. CASE n = j
    BY <1>1, <2>1, <2>4
  <2>5. CASE n # j
    BY <1>1, <2>1, <2>2, <2>3, <2>5
  <2> QED BY <2>4, <2>5
<1> HIDE DEF p
<1>3. x \in 0 .. p - 1
  BY DEF p
<1>4. \A n \in 0 .. LogBlocks : IF j < n THEN p + x < 2^n ELSE p + x >= 2^n
  BY <1>1, <1>2, <1>3
<1>5. LogBlocks \in 0 .. LogBlocks /\ j < LogBlocks
  BY <1>1
<1>6. p + x \in 1 .. 2^LogBlocks - 1
  BY <1>1, <1>2, <1>3, <1>4, <1>5
<1> QED BY <1>4, <1>6 DEF p

\* The levels above the segments complete the tree.
LEMMA FinishInv ==
    ASSUME CommitInv, finishTreeAfterSegments
    PROVE  CommitInv'
<1> DEFINE H == LogLength  G == LogSegments
           src == [s \in Segments |-> tree_[2^G + s]]
           top == constructMerkleTree(src, G)
<1>0. H \in Nat /\ G \in Nat /\ H >= 1 /\ G + H = LogBlocks /\ LogBlocks \in Nat
  BY Levels
<1>1. /\ stage = "commit" /\ entireWitnessKept /\ \A s \in Segments : rows[s] = 0
      /\ DOMAIN tree_ = 1 .. 2^LogBlocks - 1
      /\ tree_' = [i \in DOMAIN tree_ |-> IF i < 2^G THEN top[i] ELSE tree_[i]]
      /\ root_' = IF G = 0 THEN tree_[1] ELSE top[1]
      /\ stage' = "query" /\ entireWitnessKept' = entireWitnessKept
      /\ data_' = data_ /\ peaks' = peaks /\ rows' = rows
  BY DEF finishTreeAfterSegments, CommitInv
<1>2. \A s \in Segments : SegmentInv(s)
  BY <1>1 DEF CommitInv
<1>3. ASSUME NEW i \in Blocks PROVE data_[i] = Evaluation(i)
  <2>1. H \in 0 .. H /\ i \in 0 .. 2^(G + H) - 1
    BY <1>0 DEF Blocks
  <2>2. PICK s \in Segments : \E x \in 0 .. 2^H - 1 : i = 2^H * s + x
    BY <2>1, SegmentOf
  <2>3. PICK x \in 0 .. 2^H - 1 : i = 2^H * s + x
    BY <2>2
  <2>4. rows[s] <= H
    BY <1>0, <1>1
  <2> QED BY <1>2, <2>3, <2>4 DEF SegmentInv
\* The levels at and below the roots of the segments.
<1>4. ASSUME NEW l \in 0 .. H - 1, NEW y \in 0 .. 2^(G + l) - 1
      PROVE  tree_[2^(G + l) + y] = Layer[H - l][y]
  <2>1. l \in 0 .. H
    BY <1>0
  <2>2. PICK s \in Segments : \E x \in 0 .. 2^l - 1 : y = 2^l * s + x
    BY <2>1, SegmentOf
  <2>3. PICK x \in 0 .. 2^l - 1 : y = 2^l * s + x
    BY <2>2
  <2>4. l >= rows[s]
    BY <1>0, <1>1
  <2> QED BY <1>2, <2>3, <2>4 DEF SegmentInv
<1>5. \A s \in Segments : src[s] = Layer[H][s]
  <2>1. 0 \in 0 .. H - 1 /\ G + 0 = G /\ H - 0 = H
    BY <1>0
  <2> QED BY <1>4, <2>1 DEF Segments
<1>6. \A j \in 0 .. G - 1 : \A x \in 0 .. 2^j - 1 : top[2^j + x] = Layer[LogBlocks - j][x]
  <2> HIDE DEF src
  <2>1. CASE G # 0
    BY <1>5, <2>1, HeapOverLayer
  <2> QED BY <2>1
<1> HIDE DEF src, top
<1>7. ASSUME NEW j \in 0 .. LogBlocks - 1, NEW x \in 0 .. 2^j - 1
      PROVE  tree_'[2^j + x] = Layer[LogBlocks - j][x]
  <2> DEFINE i == 2^j + x
  <2>1. i \in 1 .. 2^LogBlocks - 1 /\ (j < G => i < 2^G) /\ (~(j < G) => i >= 2^G)
    BY <1>0, HeapPlaces
  <2>2. 2^G \in Nat
    BY <1>0, Powers
  <2>3. CASE j < G
    <3>1. tree_'[i] = top[i]
      BY <1>1, <2>1, <2>3
    <3> QED BY <1>0, <1>6, <2>3, <3>1
  <2>4. CASE ~(j < G)
    <3>1. ~(i < 2^G)
      <4> HIDE DEF i
      <4> QED BY <2>1, <2>2, <2>4
    <3>2. tree_'[i] = tree_[i]
      BY <1>1, <2>1, <3>1
    <3>3. j - G \in 0 .. H - 1 /\ G + (j - G) = j /\ H - (j - G) = LogBlocks - j
      BY <1>0, <2>4
    <3> QED BY <1>4, <3>2, <3>3
  <2> QED BY <2>3, <2>4
<1>8. root_' = Layer[LogBlocks][0]
  <2>1. 2^0 = 1 /\ 0 \in 0 .. 2^0 - 1 /\ 2^0 + 0 = 1 /\ LogBlocks - 0 = LogBlocks
    BY <1>0, Powers
  <2>2. CASE G # 0
    <3>1. 0 \in 0 .. G - 1
      BY <1>0, <2>2
    <3>2. top[2^0 + 0] = Layer[LogBlocks - 0][0]
      BY <1>6, <2>1, <3>1
    <3> QED BY <1>1, <2>1, <2>2, <3>2
  <2>3. CASE G = 0
    <3>1. 0 \in 0 .. H - 1 /\ G + 0 = 0 /\ H - 0 = LogBlocks
      BY <1>0, <2>3
    <3>2. tree_[2^(G + 0) + 0] = Layer[H - 0][0]
      BY <1>4, <2>1, <3>1
    <3> QED BY <1>1, <2>1, <2>3, <3>1, <3>2
  <2> QED BY <2>2, <2>3
<1>9. rows' \in [Segments -> 0 .. LogLength + 1] /\ DOMAIN data_' = Blocks /\ DOMAIN peaks' = Segments
  BY <1>1 DEF CommitInv
<1>10. TreeIsRight(LogBlocks)'
  BY <1>7 DEF TreeIsRight
<1> QED BY <1>1, <1>3, <1>8, <1>9, <1>10 DEF CommitInv

\* A coset is hashed in place.
LEMMA CommitCosetInv ==
    ASSUME CommitInv, NEW s \in Segments, CommitCoset(s)
    PROVE  CommitInv'
<1> DEFINE H == LogLength  peak == getMerkleCommitmentInplace(CosetEval(s), H)
<1>0. H \in Nat /\ H - H = 0 /\ 2^0 = 1 /\ H \in 0 .. H /\ s \in Nat
  BY Levels, Powers DEF Segments
<1>1. /\ stage = "commit" /\ ~entireWitnessKept
      /\ rows \in [Segments -> 0 .. H + 1]
      /\ rows' = [rows EXCEPT ![s] = 0]
      /\ peaks' = [peaks EXCEPT ![s] = peak] /\ DOMAIN peaks = Segments
      /\ stage' = stage /\ entireWitnessKept' = entireWitnessKept
      /\ data_' = data_ /\ tree_' = tree_ /\ root_' = root_
  BY DEF CommitCoset, CommitInv
<1>2. peak = Layer[H][s]
  <2> DEFINE level == InPlaceLevels(CosetEval(s), H)
  <2>1. \A x \in 0 .. 2^(H - H) - 1 : level[H][x * 2^H] = Layer[H][2^(H - H) * s + x]
    BY <1>0, CosetLevels
  <2>2. 0 \in 0 .. 2^(H - H) - 1 /\ 0 * 2^H = 0 /\ 2^(H - H) * s + 0 = s
    BY <1>0, Powers, Levels
  <2>3. level[H][0] = Layer[H][s]
    BY <2>1, <2>2
  <2> QED BY <2>3 DEF getMerkleCommitmentInplace
<1> HIDE DEF peak
<1>3. rows' \in [Segments -> 0 .. H + 1] /\ DOMAIN peaks' = Segments
  BY <1>0, <1>1
<1>4. ASSUME NEW z \in Segments, rows'[z] = 0 PROVE peaks'[z] = Layer[H][z]
  <2>1. CASE z = s
    BY <1>1, <1>2, <2>1
  <2>2. CASE z # s
    BY <1>1, <1>4, <2>2 DEF CommitInv
  <2> QED BY <2>1, <2>2
<1> QED BY <1>1, <1>3, <1>4 DEF CommitInv

\* The tree of the coset roots completes the commitment.
LEMMA CommitPeaksInv ==
    ASSUME CommitInv, CommitPeaks
    PROVE  CommitInv'
<1> DEFINE G == LogSegments
<1>1. /\ stage = "commit" /\ ~entireWitnessKept /\ \A s \in Segments : rows[s] = 0
      /\ tree_' = constructMerkleTree(peaks, G) /\ root_' = tree_'[1]
      /\ stage' = "query" /\ entireWitnessKept' = entireWitnessKept
      /\ data_' = data_ /\ peaks' = peaks /\ rows' = rows
  BY DEF CommitPeaks
<1>2. G # 0 /\ \A s \in Segments : peaks[s] = Layer[LogLength][s]
  BY <1>1 DEF CommitInv
<1>3. \A j \in 0 .. G - 1 : \A x \in 0 .. 2^j - 1 : tree_'[2^j + x] = Layer[LogBlocks - j][x]
  BY <1>1, <1>2, HeapOverLayer
<1>4. root_' = Layer[LogBlocks][0]
  <2>1. 0 \in 0 .. G - 1 /\ 2^0 = 1 /\ 0 \in 0 .. 2^0 - 1 /\ 2^0 + 0 = 1 /\ LogBlocks - 0 = LogBlocks
    BY <1>2, Levels, Powers
  <2>2. tree_'[2^0 + 0] = Layer[LogBlocks - 0][0]
    BY <1>3, <2>1
  <2> QED BY <1>1, <2>1, <2>2
<1>5. TreeIsRight(G)'
  BY <1>3 DEF TreeIsRight
<1> QED BY <1>1, <1>2, <1>4, <1>5 DEF CommitInv

-----------------------------------------------------------------------------
(* Paths.                                                                  *)

\* The two children of a node.
LEMMA Twins ==
    ASSUME NEW y \in Nat
    PROVE  /\ Twin(y) \in Nat /\ Twin(y) # y /\ Twin(Twin(y)) = y
           /\ Twin(y) \div 2 = y \div 2
           /\ y \div 2 \in Nat
           /\ \/ y = 2 * (y \div 2) /\ Twin(y) = 2 * (y \div 2) + 1 /\ y % 2 = 0
              \/ y = 2 * (y \div 2) + 1 /\ Twin(y) = 2 * (y \div 2) /\ y % 2 = 1
           /\ \A e \in Nat : /\ Twin(2 * e + y) = 2 * e + Twin(y)
                             /\ (2 * e + y) % 2 = y % 2
                             /\ y < 2 * e => Twin(y) < 2 * e /\ y \div 2 < e
<1> DEFINE h == y \div 2
<1>1. h \in Nat /\ ((y = 2 * h /\ y % 2 = 0) \/ (y = 2 * h + 1 /\ y % 2 = 1))
  OBVIOUS
<1>2. \A m \in Nat : (2 * m) % 2 = 0 /\ (2 * m + 1) % 2 = 1 /\ (2 * m + 1) \div 2 = m
                     /\ (2 * m) \div 2 = m
  OBVIOUS
<1>3. \A m \in Nat : Twin(2 * m) = 2 * m + 1 /\ Twin(2 * m + 1) = 2 * m
  <2> TAKE m \in Nat
  <2>1. (2 * m) % 2 = 0 /\ (2 * m + 1) % 2 = 1
    BY <1>2
  <2> QED BY <2>1 DEF Twin
<1> HIDE DEF h
<1>4. ASSUME NEW e \in Nat
      PROVE  /\ Twin(2 * e + y) = 2 * e + Twin(y)
             /\ (2 * e + y) % 2 = y % 2
             /\ y < 2 * e => Twin(y) < 2 * e /\ h < e
  <2>1. /\ e + h \in Nat
        /\ 2 * e + 2 * h = 2 * (e + h) /\ 2 * e + (2 * h + 1) = 2 * (e + h) + 1
    BY <1>1
  <2>2. Twin(2 * (e + h)) = 2 * (e + h) + 1 /\ Twin(2 * (e + h) + 1) = 2 * (e + h)
    BY <1>3, <2>1
  <2>3. (2 * (e + h)) % 2 = 0 /\ (2 * (e + h) + 1) % 2 = 1
    BY <1>2, <2>1
  <2>4. CASE y = 2 * h /\ y % 2 = 0
    BY <1>1, <1>3, <2>1, <2>2, <2>3, <2>4
  <2>5. CASE y = 2 * h + 1 /\ y % 2 = 1
    BY <1>1, <1>3, <2>1, <2>2, <2>3, <2>5
  <2> QED BY <1>1, <2>4, <2>5
<1>5. CASE y = 2 * h /\ y % 2 = 0
  <2>1. Twin(y) = 2 * h + 1 /\ Twin(2 * h + 1) = 2 * h /\ (2 * h + 1) \div 2 = h
    BY <1>1, <1>2, <1>3, <1>5
  <2> QED BY <1>1, <1>4, <1>5, <2>1 DEF h
<1>6. CASE y = 2 * h + 1 /\ y % 2 = 1
  <2>1. Twin(y) = 2 * h /\ Twin(2 * h) = 2 * h + 1 /\ (2 * h) \div 2 = h
    BY <1>1, <1>2, <1>3, <1>6
  <2> QED BY <1>1, <1>4, <1>6, <2>1 DEF h
<1> QED BY <1>1, <1>5, <1>6

\* Halving a times and then b times.
LEMMA HalvedAgain ==
    ASSUME NEW p \in Nat, NEW a \in Nat, NEW b \in Nat, a + b <= LogBlocks
    PROVE  (p \div 2^a) \div 2^b = p \div 2^(a + b) /\ p \div 2^a \in Nat
<1> DEFINE u == 2^a  v == 2^b  y == p \div u  z == y \div v
           r == p % u  t == y % v
<1>1. u \in Nat \ {0} /\ v \in Nat \ {0} /\ 2^(a + b) = u * v
  BY Levels, Powers, PowerOfSum
<1>2. y \in Nat /\ r \in Nat /\ r < u /\ p = u * y + r
  <2> HIDE DEF u
  <2> QED BY <1>1, Division
<1>3. z \in Nat /\ t \in Nat /\ t < v /\ y = v * z + t
  <2> HIDE DEF v, y
  <2> QED BY <1>1, <1>2, Division
<1> HIDE DEF u, v, y, z, r, t
<1> DEFINE d == u * v  m == u * t + r
<1>4. d \in Nat \ {0} /\ m \in Nat /\ m < d /\ p = z * d + m
  <2>1. u * t <= u * (v - 1)
    BY <1>1, <1>3
  <2>2. u * y = u * (v * z) + u * t
    BY <1>1, <1>3
  <2> QED BY <1>1, <1>2, <1>3, <2>1, <2>2
<1> HIDE DEF d, m
<1>5. p \div d = z
  <2>1. z \in Int /\ m \in Int /\ 0 <= m
    BY <1>3, <1>4
  <2> QED BY <1>4, <2>1, DivisionIsUnique
<1> QED BY <1>1, <1>2, <1>5 DEF u, v, y, z, d

\* The ancestors of a node, in the heap and in its level.
LEMMA Ancestors ==
    ASSUME NEW n \in 1 .. LogBlocks, NEW p \in 0 .. 2^(n - 1) - 1, NEW k \in 1 .. n
    PROVE  /\ p \div 2^(k - 1) \in 0 .. 2^(n - k) - 1
           /\ (2^(n - 1) + p) \div 2^(k - 1) = 2^(n - k) + p \div 2^(k - 1)
<1> DEFINE d == 2^(k - 1)  e == 2^(n - k)  y == p \div d  r == p % d
<1>0. n - 1 \in 0 .. LogBlocks /\ k - 1 \in 0 .. LogBlocks /\ n - k \in 0 .. LogBlocks
      /\ (k - 1) + (n - k) = n - 1 /\ LogBlocks \in Nat
  BY Levels
<1>1. d \in Nat \ {0} /\ e \in Nat \ {0} /\ 2^(n - 1) \in Nat
  BY <1>0, Powers
<1>2. 2^(n - 1) = d * e
  <2>1. k - 1 \in Nat /\ n - k \in Nat /\ (k - 1) + (n - k) <= LogBlocks
    BY <1>0
  <2>2. 2^((k - 1) + (n - k)) = 2^(k - 1) * 2^(n - k)
    BY <2>1, PowerOfSum
  <2> QED BY <1>0, <2>2
<1>3. p \in Nat /\ p < d * e
  BY <1>1, <1>2
<1>4. y \in Nat /\ r \in Nat /\ r < d /\ p = d * y + r
  <2> HIDE DEF d
  <2> QED BY <1>1, <1>3, Division
<1> HIDE DEF d, e, y, r
<1>5. y < e
  <2>1. SUFFICES ASSUME y >= e PROVE FALSE
    BY <1>1, <1>4
  <2>2. d * y >= d * e
    BY <1>1, <1>4, <2>1
  <2> QED BY <1>1, <1>3, <1>4, <2>2
<1>6. (d * e + p) \div d = e + y
  <2> DEFINE m == d * e + p  q == e + y
  <2>1. m \in Nat /\ m = q * d + r /\ q \in Int /\ r \in Int /\ 0 <= r
    BY <1>1, <1>3, <1>4
  <2> HIDE DEF m, q
  <2>2. m \div d = q
    BY <1>1, <1>4, <2>1, DivisionIsUnique
  <2> QED BY <2>2 DEF m, q
<1>7. y \in 0 .. e - 1
  BY <1>1, <1>4, <1>5
<1> QED BY <1>2, <1>6, <1>7 DEF d, e, y

\* The path to a pair: the twins of its ancestors.
TruePath(p) == [k \in 1 .. LogBlocks - 1 |-> Layer[k][Twin(p \div 2^(k - 1))]]

\* The path that getPathToBlock reads from a heap that is right.
LEMMA HeapPath ==
    ASSUME NEW n \in 1 .. LogBlocks, TreeIsRight(n),
           NEW p \in 0 .. 2^(n - 1) - 1, NEW k \in 1 .. n - 1
    PROVE  tree_[Twin((2^(n - 1) + p) \div 2^(k - 1))]
             = Layer[(LogBlocks - n) + k][Twin(p \div 2^(k - 1))]
<1> DEFINE y == p \div 2^(k - 1)  e == 2^((n - k) - 1)
<1>0. k \in 1 .. n /\ (n - k) - 1 \in 0 .. LogBlocks /\ ((n - k) - 1) + 1 = n - k
      /\ n - k \in 0 .. n - 1 /\ LogBlocks - (n - k) = (LogBlocks - n) + k
  BY Levels
<1>1. e \in Nat /\ 2^(n - k) = 2 * e
  BY <1>0, Powers
<1>2. y \in 0 .. 2 * e - 1 /\ (2^(n - 1) + p) \div 2^(k - 1) = 2 * e + y
  BY <1>0, <1>1, Ancestors
<1> HIDE DEF y, e
<1>3. y \in Nat /\ y < 2 * e
  BY <1>1, <1>2
<1>4. Twin(2 * e + y) = 2 * e + Twin(y) /\ Twin(y) < 2 * e /\ Twin(y) \in Nat
  BY <1>1, <1>3, Twins
<1>5. Twin(y) \in 0 .. 2 * e - 1
  BY <1>1, <1>4
<1>6. tree_[2 * e + Twin(y)] = Layer[LogBlocks - (n - k)][Twin(y)]
  BY <1>0, <1>1, <1>5 DEF TreeIsRight
<1> QED BY <1>0, <1>2, <1>4, <1>6 DEF y

\* The path to a pair when the table is kept.
LEMMA KeptPath ==
    ASSUME TreeIsRight(LogBlocks), NEW b \in Blocks
    PROVE  getPathToBlock(tree_, LogBlocks, b) = TruePath(b \div 2)
<1> DEFINE p == b \div 2
<1>0. LogBlocks \in 1 .. LogBlocks /\ LogBlocks \in Nat
  BY Levels
<1>1. p \in 0 .. 2^(LogBlocks - 1) - 1
  <2> DEFINE e == 2^(LogBlocks - 1)
  <2>1. e \in Nat /\ 2^LogBlocks = 2 * e
    <3>1. LogBlocks - 1 \in 0 .. LogBlocks /\ (LogBlocks - 1) + 1 = LogBlocks
      BY <1>0
    <3> QED BY <3>1, Powers
  <2>2. b \in 0 .. 2 * e - 1
    BY <2>1 DEF Blocks
  <2> HIDE DEF e
  <2>3. p \in 0 .. e - 1
    BY <2>1, <2>2
  <2> QED BY <2>3 DEF e
<1> HIDE DEF p
<1>2. ASSUME NEW k \in 1 .. LogBlocks - 1
      PROVE  tree_[Twin((2^(LogBlocks - 1) + p) \div 2^(k - 1))] = Layer[k][Twin(p \div 2^(k - 1))]
  <2>1. (LogBlocks - LogBlocks) + k = k
    BY <1>0
  <2> QED BY <1>0, <1>1, <2>1, HeapPath
<1>3. [k \in 1 .. LogBlocks - 1 |-> tree_[Twin((2^(LogBlocks - 1) + p) \div 2^(k - 1))]]
        = [k \in 1 .. LogBlocks - 1 |-> Layer[k][Twin(p \div 2^(k - 1))]]
  BY <1>2
<1> QED BY <1>3 DEF getPathToBlock, TruePath, p

\* The recursion of verifyPathToBlock.
LEMMA PathDigestsAre ==
    ASSUME NEW left, NEW right, NEW path, NEW b, Len(path) \in Nat
    PROVE  LET curr == pathDigests(left, right, path, b)
               offset(k) == (2^Len(path) + b \div 2) \div 2^(k - 1)
           IN /\ curr[0] = hash(left, right)
              /\ \A k \in 1 .. Len(path) :
                    curr[k] = IF offset(k) % 2 = 0 THEN hash(curr[k - 1], path[k])
                              ELSE hash(path[k], curr[k - 1])
<1> DEFINE n == Len(path)
           even(k) == ((2^n + b \div 2) \div 2^(k - 1)) % 2 = 0
           up(d, k) == IF even(k) THEN hash(d, path[k]) ELSE hash(path[k], d)
           Sound(f, m) == f = [k \in 0 .. m |-> IF k = 0 THEN hash(left, right)
                                                ELSE up(f[k - 1], k)]
           S == {m \in 0 .. n : \E f : Sound(f, m)}
           curr == pathDigests(left, right, path, b)
<1>1. curr = CHOOSE f : Sound(f, n)
  <2>1. curr = CHOOSE f : f = [k \in 0 .. n |-> IF k = 0 THEN hash(left, right)
                                 ELSE IF even(k) THEN hash(f[k - 1], path[k])
                                 ELSE hash(path[k], f[k - 1])]
    BY DEF pathDigests
  <2> QED BY <2>1
<1> HIDE DEF curr, even
<1>2. 0 \in S
  <2> DEFINE f == [k \in 0 .. 0 |-> hash(left, right)]
  <2> HIDE DEF up
  <2>1. f = [k \in 0 .. 0 |-> IF k = 0 THEN hash(left, right) ELSE up(f[k - 1], k)]
    OBVIOUS
  <2>2. \E h : Sound(h, 0)
    BY <2>1
  <2> HIDE DEF Sound
  <2> QED BY <2>2
<1>3. ASSUME NEW m \in 0 .. n - 1, m \in S PROVE m + 1 \in S
  <2>1. PICK f : Sound(f, m)
    BY <1>3
  <2> DEFINE g == [k \in 0 .. m + 1 |-> IF k = m + 1 THEN up(f[m], m + 1) ELSE f[k]]
  <2> HIDE DEF up
  <2>2. ASSUME NEW k \in 0 .. m + 1
        PROVE  g[k] = IF k = 0 THEN hash(left, right) ELSE up(g[k - 1], k)
    <3>1. k # 0 => k - 1 \in 0 .. m + 1 /\ k - 1 # m + 1 /\ g[k - 1] = f[k - 1]
      OBVIOUS
    <3>2. CASE k = m + 1
      <4>1. g[k] = up(f[m], m + 1) /\ k # 0 /\ k - 1 = m
        BY <3>2
      <4> HIDE DEF g
      <4> QED BY <3>1, <3>2, <4>1
    <3>3. CASE k # m + 1
      <4>1. k \in 0 .. m /\ g[k] = f[k]
        BY <3>3
      <4>2. f[k] = IF k = 0 THEN hash(left, right) ELSE up(f[k - 1], k)
        BY <2>1, <4>1
      <4> HIDE DEF g
      <4> QED BY <3>1, <4>1, <4>2
    <3> QED BY <3>2, <3>3
  <2>3. g = [k \in 0 .. m + 1 |-> IF k = 0 THEN hash(left, right) ELSE up(g[k - 1], k)]
    BY <2>2
  <2>4. \E h : Sound(h, m + 1)
    BY <2>3
  <2> HIDE DEF Sound
  <2> QED BY <2>4
<1>4. 0 .. n \subseteq S
  <2> HIDE DEF S
  <2> QED BY <1>2, <1>3, UpwardInduction
<1>5. \E f : Sound(f, n)
  <2> HIDE DEF Sound
  <2> QED BY <1>4
<1>6. Sound(curr, n)
  <2> HIDE DEF Sound
  <2> QED BY <1>1, <1>5
<1>7. curr[0] = hash(left, right) /\ \A k \in 1 .. n : curr[k] = up(curr[k - 1], k)
  <2> HIDE DEF up
  <2> QED BY <1>6
<1> QED BY <1>7 DEF curr, even

\* Along a true path the digests are those of the ancestors, up to the root.
LEMMA TruePathVerifies ==
    ASSUME NEW b \in Blocks
    PROVE  LET p == b \div 2
           IN verifyPathToBlock(Layer[0][2 * p], Layer[0][2 * p + 1], Layer[LogBlocks][0],
                                TruePath(p), b)
<1> DEFINE N == LogBlocks  p == b \div 2  path == TruePath(p)
           curr == pathDigests(Layer[0][2 * p], Layer[0][2 * p + 1], path, b)
           Right(k) == curr[k] = Layer[k + 1][p \div 2^k]
           S == {k \in 0 .. N - 1 : Right(k)}
<1>0. N \in Nat /\ N >= 1 /\ N \in 1 .. N /\ N - 1 \in Nat
  BY Levels
<1>1. p \in 0 .. 2^(N - 1) - 1 /\ p \in Nat
  <2> DEFINE e == 2^(N - 1)
  <2>1. e \in Nat /\ 2^N = 2 * e
    <3>1. N - 1 \in 0 .. N /\ (N - 1) + 1 = N
      BY <1>0
    <3> QED BY <3>1, Powers
  <2>2. b \in 0 .. 2 * e - 1
    BY <2>1 DEF Blocks
  <2> HIDE DEF e
  <2>3. p \in 0 .. e - 1 /\ p \in Nat
    BY <2>1, <2>2
  <2> QED BY <2>3 DEF e
<1>2. Len(path) = N - 1 /\ \A k \in 1 .. N - 1 : path[k] = Layer[k][Twin(p \div 2^(k - 1))]
  <2> HIDE DEF p
  <2> QED BY <1>0 DEF TruePath
<1>3. /\ curr[0] = hash(Layer[0][2 * p], Layer[0][2 * p + 1])
      /\ \A k \in 1 .. N - 1 :
            curr[k] = IF ((2^(N - 1) + p) \div 2^(k - 1)) % 2 = 0 THEN hash(curr[k - 1], path[k])
                      ELSE hash(path[k], curr[k - 1])
  <2> HIDE DEF path
  <2>1. Len(path) \in Nat
    BY <1>0, <1>2
  <2> QED BY <1>2, <2>1, PathDigestsAre
<1> HIDE DEF p, curr, path
<1>4. 0 \in S
  <2>1. p \div 2^0 = p /\ 0 + 1 = 1 /\ 0 \in 0 .. N - 1 /\ p \in 0 .. 2^(N - (0 + 1)) - 1
    BY <1>0, <1>1, Powers
  <2>2. Layer[0 + 1][p] = hash(Layer[0][2 * p], Layer[0][2 * p + 1])
    BY <2>1, LayerNodes
  <2> QED BY <1>3, <2>1, <2>2
<1>5. ASSUME NEW j \in 0 .. (N - 1) - 1, j \in S PROVE j + 1 \in S
  <2> DEFINE k == j + 1  y == p \div 2^j  h == y \div 2  e == 2^(N - (k + 1))
  <2>0. /\ k \in 1 .. N - 1 /\ k \in 1 .. N /\ k - 1 = j /\ k \in 0 .. N - 1 /\ N - (k + 1) \in 0 .. N
        /\ (N - (k + 1)) + 1 = N - k /\ j \in 0 .. N
    BY <1>0
  <2>1. e \in Nat /\ 2^(N - k) = 2 * e
    BY <2>0, Powers
  <2>2. y \in 0 .. 2 * e - 1 /\ (2^(N - 1) + p) \div 2^j = 2 * e + y
    BY <1>0, <1>1, <2>0, <2>1, Ancestors
  <2>3. h = p \div 2^(j + 1)
    <3>1. j \in Nat /\ 1 \in Nat /\ j + 1 <= LogBlocks /\ 2^1 = 2
      <4>1. 0 + 1 = 1 /\ 0 \in 0 .. N
        BY <1>0
      <4>2. 2^(0 + 1) = 2 * 2^0
        BY <4>1, Powers
      <4> QED BY <1>0, <2>0, <4>1, <4>2, Powers
    <3>2. (p \div 2^j) \div 2^1 = p \div 2^(j + 1)
      BY <1>1, <3>1, HalvedAgain
    <3> QED BY <3>1, <3>2
  <2>4. curr[j] = Layer[k][y]
    BY <1>5
  <2>5. path[k] = Layer[k][Twin(y)]
    BY <1>2, <2>0
  <2>6. curr[k] = IF (2 * e + y) % 2 = 0 THEN hash(curr[j], path[k]) ELSE hash(path[k], curr[j])
    BY <1>3, <2>0, <2>2
  <2> HIDE DEF y, e, k
  <2>7. y \in Nat /\ y < 2 * e
    BY <2>1, <2>2
  <2>8. /\ (2 * e + y) % 2 = y % 2 /\ h < e /\ h \in Nat
        /\ \/ y = 2 * h /\ Twin(y) = 2 * h + 1 /\ y % 2 = 0
           \/ y = 2 * h + 1 /\ Twin(y) = 2 * h /\ y % 2 = 1
    BY <2>1, <2>7, Twins
  <2>9. h \in 0 .. e - 1
    BY <2>1, <2>8
  <2> HIDE DEF h
  <2>10. curr[k] = hash(Layer[k][2 * h], Layer[k][2 * h + 1])
    BY <2>4, <2>5, <2>6, <2>8
  <2>11. Layer[k + 1][h] = hash(Layer[k][2 * h], Layer[k][2 * h + 1])
    BY <2>0, <2>9, LayerNodes DEF e
  <2>12. Right(k)
    BY <2>3, <2>10, <2>11 DEF k
  <2> HIDE DEF Right
  <2> QED BY <2>0, <2>12 DEF k
<1>6. 0 .. N - 1 \subseteq S
  <2> HIDE DEF S
  <2> QED BY <1>0, <1>4, <1>5, UpwardInduction
<1>7. curr[N - 1] = Layer[N][0]
  <2>1. N - 1 \in S /\ (N - 1) + 1 = N
    BY <1>0, <1>6
  <2>2. p \div 2^(N - 1) = 0
    <3>1. p \div 2^(N - 1) \in 0 .. 2^(N - N) - 1
      BY <1>0, <1>1, Ancestors
    <3>2. N - N = 0 /\ 2^0 = 1
      BY <1>0, Powers
    <3> DEFINE y == p \div 2^(N - 1)
    <3>3. y \in 0 .. 1 - 1
      BY <3>1, <3>2
    <3> HIDE DEF y
    <3>4. y = 0
      BY <3>3
    <3> QED BY <3>4 DEF y
  <2> QED BY <2>1, <2>2
<1> QED BY <1>2, <1>7 DEF verifyPathToBlock, curr, path, p

\* The committed root and the paths of the finished tree follow from the invariant.
LEMMA CommitInvSuffices == CommitInv => CommitmentIsMerkleRoot
<1> SUFFICES ASSUME CommitInv PROVE CommitmentIsMerkleRoot
  OBVIOUS
<1>1. stage # "commit" => root_ = Layer[LogBlocks][0]
  BY DEF CommitInv
<1>2. ASSUME stage = "query", entireWitnessKept, NEW b \in Blocks
      PROVE  LET p == b \div 2
             IN verifyPathToBlock(data_[2 * p], data_[2 * p + 1], root_,
                                  getPathToBlock(tree_, LogBlocks, b), b)
  <2> DEFINE p == b \div 2
  <2>1. TreeIsRight(LogBlocks) /\ root_ = Layer[LogBlocks][0]
        /\ \A i \in Blocks : data_[i] = Layer[0][i]
    BY <1>2, LayerNodes DEF CommitInv
  <2>2. 2 * p \in Blocks /\ 2 * p + 1 \in Blocks
    <3> DEFINE e == 2^(LogBlocks - 1)
    <3>1. e \in Nat /\ 2^LogBlocks = 2 * e
      <4>1. LogBlocks - 1 \in 0 .. LogBlocks /\ (LogBlocks - 1) + 1 = LogBlocks
        BY Levels
      <4> QED BY <4>1, Powers
    <3> HIDE DEF e
    <3>2. Blocks = 0 .. 2 * e - 1
      BY <3>1 DEF Blocks
    <3> QED BY <3>1, <3>2
  <2>3. getPathToBlock(tree_, LogBlocks, b) = TruePath(p)
    BY <2>1, KeptPath
  <2>4. verifyPathToBlock(Layer[0][2 * p], Layer[0][2 * p + 1], Layer[LogBlocks][0],
                          TruePath(p), b)
    BY TruePathVerifies
  <2> QED BY <2>1, <2>2, <2>3, <2>4
<1> QED BY <1>1, <1>2 DEF CommitmentIsMerkleRoot

commitVars == <<entireWitnessKept, data_, tree_, rows, peaks, root_>>

\* The commitment does not change once it has been sent.
LEMMA CommitmentKept ==
    ASSUME CommitInv, UNCHANGED commitVars, stage # "commit", stage' # "commit"
    PROVE  CommitInv'
BY DEF CommitInv, commitVars, TreeIsRight

\* CommitInv is inductive.
LEMMA CommitStepInv ==
    ASSUME CommitInv, [MerkleNext]_merkleVars
    PROVE  CommitInv'
<1>1. ASSUME NEW s \in Segments, sigmentConstructor(s) \/ constructSubtree(s) \/ CommitCoset(s)
      PROVE  CommitInv'
  BY <1>1, SigmentInv, SubtreeInv, CommitCosetInv
<1>2. ASSUME finishTreeAfterSegments \/ CommitPeaks PROVE CommitInv'
  BY <1>2, FinishInv, CommitPeaksInv
<1>3. ASSUME \/ \E Q : getRawQuery(Q)
             \/ \E p : answerQuery(p)
             \/ \E k : digestResults(k)
             \/ verifyComitment
      PROVE  CommitInv'
  <2>1. stage # "commit" /\ stage' # "commit" /\ UNCHANGED commitVars
    BY <1>3 DEF getRawQuery, answerQuery, digestResults, verifyComitment, commitVars
  <2> QED BY <2>1, CommitmentKept
<1>4. ASSUME UNCHANGED merkleVars PROVE CommitInv'
  BY <1>4 DEF merkleVars, CommitInv, TreeIsRight, SegmentInv
<1> QED BY <1>1, <1>2, <1>3, <1>4 DEF MerkleNext

\* What has been hashed is right at all times.
LEMMA CommitInvariant == MerkleSpec => []CommitInv
<1>1. MerkleInit => CommitInv
  BY CommitInitInv
<1>2. CommitInv /\ [MerkleNext]_merkleVars => CommitInv'
  BY CommitStepInv
<1> QED BY <1>1, <1>2, PTL DEF MerkleSpec

\* Whatever the size of the table, the number of segments, the memory mode and
\* the order in which the threads write their parts, the root the prover sends
\* is the Merkle root of the evaluation, and in the kept mode every path of the
\* finished tree passes verifyPathToBlock.
THEOREM CommitmentsAreMerkleRoots == MerkleSpec => []CommitmentIsMerkleRoot
<1>1. CommitInv => CommitmentIsMerkleRoot
  BY CommitInvSuffices
<1> QED BY <1>1, CommitInvariant, PTL

\* Halving once more.
LEMMA HalfOf ==
    ASSUME NEW p \in Nat, NEW j \in Nat, j + 1 <= LogBlocks
    PROVE  (p \div 2^j) \div 2 = p \div 2^(j + 1)
<1>1. 2^1 = 2
  <2>1. 0 + 1 = 1 /\ 0 \in 0 .. LogBlocks
    BY Levels
  <2>2. 2^(0 + 1) = 2 * 2^0
    BY <2>1, Powers
  <2> QED BY <2>1, <2>2, Powers
<1>2. (p \div 2^j) \div 2^1 = p \div 2^(j + 1)
  <2> DEFINE one == 1
  <2>1. one \in Nat /\ j + one <= LogBlocks
    OBVIOUS
  <2> HIDE DEF one
  <2>2. (p \div 2^j) \div 2^one = p \div 2^(j + one)
    BY <2>1, HalvedAgain
  <2> QED BY <2>2 DEF one
<1> QED BY <1>1, <1>2

\* Glued from its three parts, the path through a coset is the same path.
LEMMA CosetPath ==
    ASSUME LogSegments # 0, TreeIsRight(LogSegments), \A z \in Segments : peaks[z] = Layer[LogLength][z],
           NEW p \in 0 .. 2^(LogBlocks - 1) - 1
    PROVE  PathThroughCoset(p) = TruePath(p)
<1> DEFINE N == LogBlocks  H == LogLength  G == LogSegments
           d == 2^(H - 1)  s == (2 * p) \div 2^H  local == p - s * d
           A == getPathToBlocksInPlace(CosetEval(s), H, local)
           B == getPathToBlock(tree_, G, s)
           X == {Layer[k][Twin(p \div 2^(k - 1))] : k \in 1 .. N - 1}
<1>0. N \in Nat /\ H \in Nat /\ G \in Nat /\ H >= 1 /\ G >= 1 /\ G + H = N
  BY Levels
<1>1. /\ d \in Nat \ {0} /\ 2^H = 2 * d /\ p \in Nat
      /\ H - 1 \in 0 .. N /\ H - 1 \in Nat
  <2>1. H - 1 \in 0 .. N /\ (H - 1) + 1 = H /\ N - 1 \in 0 .. N
    BY <1>0
  <2> QED BY <1>0, <2>1, Powers
<1>2. s = p \div d /\ s \in Nat /\ local \in 0 .. d - 1 /\ p = s * d + local
  <2> DEFINE q == p \div d  r == p % d  m == 2 * p  t == 2 * d  u == 2 * r
  <2>1. q \in Nat /\ r \in Nat /\ r < d /\ p = d * q + r
    <3> HIDE DEF d
    <3> QED BY <1>1, Division
  <2>2. s = m \div t
    BY <1>1
  <2> HIDE DEF q, r, d, s
  <2>3. m \in Nat /\ t \in Nat \ {0} /\ m = q * t + u /\ 0 <= u /\ u < t /\ q \in Int /\ u \in Int
    BY <1>1, <2>1
  <2> HIDE DEF m, t, u
  <2>4. m \div t = q
    BY <2>3, DivisionIsUnique
  <2>5. s = q
    BY <2>2, <2>4
  <2>6. p - q * d = r
    BY <1>1, <2>1
  <2> QED BY <1>1, <2>1, <2>5, <2>6 DEF q
<1>3. s \in Segments /\ Twin(s) \in Segments /\ s \div 2 \in 0 .. 2^(G - 1) - 1
  <2> DEFINE f == 2^(G - 1)
  <2>1. N \in 1 .. N /\ H \in 1 .. N /\ N - H = G /\ G - 1 \in 0 .. N /\ (G - 1) + 1 = G
    BY <1>0
  <2>2. f \in Nat /\ 2^G = 2 * f
    BY <2>1, Powers
  <2>3. s \in 0 .. 2^G - 1
    <3>1. p \div 2^(H - 1) \in 0 .. 2^(N - H) - 1
      BY <2>1, Ancestors
    <3> QED BY <1>2, <2>1, <3>1
  <2> HIDE DEF f, s
  <2>4. s < 2 * f
    BY <2>2, <2>3
  <2>5. Twin(s) \in Nat /\ Twin(s) < 2 * f /\ s \div 2 < f /\ s \div 2 \in Nat
    BY <1>2, <2>2, <2>4, Twins
  <2>6. Twin(s) \in 0 .. 2^G - 1 /\ s \div 2 \in 0 .. f - 1
    BY <2>2, <2>5
  <2> QED BY <2>3, <2>6 DEF Segments, f
<1> HIDE DEF s, local
<1>4. ASSUME NEW k \in 1 .. H - 1
      PROVE  A[k] = Layer[k][Twin(p \div 2^(k - 1))]
  <2> DEFINE c == 2^(k - 1)  e == 2^(H - k)  f == 2^((H - k) - 1)
             y == local \div c  r == local % c
  <2>0. /\ H \in 1 .. N /\ k \in 1 .. H /\ k \in 0 .. H /\ (H - k) - 1 \in 0 .. N
        /\ ((H - k) - 1) + 1 = H - k /\ k - 1 \in Nat /\ H - k \in Nat /\ k - 1 \in 0 .. N
        /\ (k - 1) + (H - k) = H - 1 /\ H - 1 <= N
    BY <1>0
  <2>1. f \in Nat /\ e = 2 * f /\ c \in Nat \ {0}
    BY <2>0, Powers
  <2>2. d = c * e
    <3>1. 2^((k - 1) + (H - k)) = 2^(k - 1) * 2^(H - k)
      BY <2>0, PowerOfSum
    <3> QED BY <2>0, <3>1
  <2>3. y \in 0 .. e - 1
    BY <1>2, <2>0, Ancestors
  <2>4. local \in Nat /\ y \in Nat /\ r \in Nat /\ r < c /\ local = c * y + r
    <3>1. local \in Nat
      BY <1>1, <1>2
    <3> HIDE DEF c
    <3> QED BY <2>1, <3>1, Division
  <2>5. p \div c = 2 * (s * f) + y
    <3> DEFINE q == 2 * (s * f) + y
    <3> HIDE DEF c, d, e, f, y, r
    <3>1. q \in Int /\ r \in Int /\ 0 <= r /\ q * c + r = s * (c * (2 * f)) + (c * y + r)
      BY <1>2, <2>1, <2>4
    <3>2. p = q * c + r
      BY <1>2, <2>1, <2>2, <2>4, <3>1
    <3> HIDE DEF q
    <3>3. p \div c = q
      BY <1>1, <2>1, <2>4, <3>1, <3>2, DivisionIsUnique
    <3> QED BY <3>3 DEF q
  <2> HIDE DEF y, r
  <2>6. Twin(2 * (s * f) + y) = 2 * (s * f) + Twin(y) /\ Twin(y) \in 0 .. e - 1
    <3> HIDE DEF f, e
    <3>1. s * f \in Nat /\ y < 2 * f
      BY <1>2, <2>1, <2>3, <2>4
    <3>2. Twin(y) \in Nat /\ Twin(y) < 2 * f /\ Twin(2 * (s * f) + y) = 2 * (s * f) + Twin(y)
      BY <2>1, <2>4, <3>1, Twins
    <3> QED BY <2>1, <3>2
  <2>7. InPlaceLevels(CosetEval(s), H)[k][Twin(y) * 2^k] = Layer[k][e * s + Twin(y)]
    BY <1>3, <2>0, <2>6, CosetLevels
  <2>8. e * s + Twin(y) = 2 * (s * f) + Twin(y)
    <3> HIDE DEF e, f
    <3> QED BY <1>2, <2>1
  <2>9. A[k] = InPlaceLevels(CosetEval(s), H)[k][Twin(y) * 2^k]
    BY DEF getPathToBlocksInPlace, y
  <2> QED BY <2>5, <2>6, <2>7, <2>8, <2>9
<1>5. peaks[Twin(s)] = Layer[H][Twin(p \div 2^(H - 1))]
  BY <1>2, <1>3
<1>6. ASSUME NEW j \in 1 .. G - 1
      PROVE  B[j] = Layer[H + j][Twin(p \div 2^((H + j) - 1))]
  <2>0. /\ G \in 1 .. N /\ (N - G) + j = H + j
        /\ j - 1 \in Nat /\ H + (j - 1) = (H + j) - 1 /\ H + (j - 1) <= LogBlocks
        /\ H - 1 + 1 = H /\ H <= N
    BY <1>0
  <2>1. B[j] = tree_[Twin((2^(G - 1) + s \div 2) \div 2^(j - 1))]
    BY DEF getPathToBlock
  <2>2. B[j] = Layer[H + j][Twin((s \div 2) \div 2^(j - 1))]
    <3> DEFINE h == s \div 2
    <3>1. h \in 0 .. 2^(G - 1) - 1
      BY <1>3
    <3> HIDE DEF h
    <3>2. tree_[Twin((2^(G - 1) + h) \div 2^(j - 1))] = Layer[(N - G) + j][Twin(h \div 2^(j - 1))]
      BY <2>0, <3>1, HeapPath
    <3> QED BY <2>0, <2>1, <3>2 DEF h
  <2>3. s \div 2 = p \div 2^H
    <3>1. (p \div 2^(H - 1)) \div 2 = p \div 2^((H - 1) + 1)
      BY <1>0, <1>1, <2>0, HalfOf
    <3> QED BY <1>2, <2>0, <3>1
  <2>4. (p \div 2^H) \div 2^(j - 1) = p \div 2^(H + (j - 1))
    <3> DEFINE u == j - 1
    <3>1. u \in Nat /\ H + u <= LogBlocks /\ H \in Nat /\ p \in Nat
      BY <1>0, <1>1, <2>0
    <3> HIDE DEF u
    <3>2. (p \div 2^H) \div 2^u = p \div 2^(H + u)
      BY <3>1, HalvedAgain, Zenon
    <3> QED BY <3>2 DEF u
  <2> QED BY <2>0, <2>2, <2>3, <2>4
<1>7. A \in [1 .. H - 1 -> X] /\ B \in [1 .. G - 1 -> X] /\ peaks[Twin(s)] \in X
  <2>1. DOMAIN A = 1 .. H - 1 /\ A = [k \in 1 .. H - 1 |-> A[k]]
    BY DEF getPathToBlocksInPlace
  <2>2. DOMAIN B = 1 .. G - 1 /\ B = [k \in 1 .. G - 1 |-> B[k]]
    BY DEF getPathToBlock
  <2> HIDE DEF A, B, d
  <2>3. ASSUME NEW k \in 1 .. H - 1 PROVE A[k] \in X
    <3>1. k \in 1 .. N - 1
      BY <1>0
    <3> QED BY <1>4, <3>1
  <2>4. ASSUME NEW k \in 1 .. G - 1 PROVE B[k] \in X
    <3>1. H + k \in 1 .. N - 1
      BY <1>0
    <3> QED BY <1>6, <3>1
  <2>5. peaks[Twin(s)] \in X
    <3>1. H \in 1 .. N - 1
      BY <1>0
    <3> QED BY <1>5, <3>1
  <2> HIDE DEF X
  <2> QED BY <2>1, <2>2, <2>3, <2>4, <2>5
<1> DEFINE J == A \o <<peaks[Twin(s)]>> \o B
<1>8. /\ J \in [1 .. N - 1 -> X]
      /\ \A k \in 1 .. N - 1 :
            J[k] = IF k <= H - 1 THEN A[k] ELSE IF k = H THEN peaks[Twin(s)] ELSE B[k - H]
  <2>1. H - 1 \in Nat /\ G - 1 \in Nat /\ (H - 1) + 1 + (G - 1) = N - 1 /\ (H - 1) + 1 = H
    BY <1>0
  <2> DEFINE a == H - 1  b == G - 1  x == peaks[Twin(s)]
  <2> HIDE DEF A, B, X, d
  <2>2. a \in Nat /\ b \in Nat /\ x \in X /\ A \in [1 .. a -> X] /\ B \in [1 .. b -> X]
    BY <1>7, <2>1
  <2>3. a + 1 + b = N - 1 /\ a + 1 = H
    BY <2>1
  <2> HIDE DEF a, b, x
  <2>4. A \in Seq(X) /\ B \in Seq(X) /\ <<x>> \in Seq(X)
        /\ Len(A) = a /\ Len(B) = b /\ Len(<<x>>) = 1
    BY <2>2
  <2> DEFINE C == A \o <<x>>
  <2>5. C \in Seq(X) /\ Len(C) = a + 1 /\ \A k \in 1 .. a + 1 : C[k] = IF k <= a THEN A[k] ELSE x
    BY <2>2, <2>4
  <2>6. J = C \o B
    BY DEF x
  <2> HIDE DEF C, J
  <2>7. C \o B \in Seq(X) /\ Len(C \o B) = a + 1 + b
        /\ \A k \in 1 .. a + 1 + b : (C \o B)[k] = IF k <= a + 1 THEN C[k] ELSE B[k - (a + 1)]
    BY <2>2, <2>4, <2>5
  <2>8. J \in [1 .. N - 1 -> X]
    <3>1. J \in Seq(X) /\ Len(J) = N - 1
      BY <2>3, <2>6, <2>7
    <3> QED BY <3>1
  <2>9. \A k \in 1 .. N - 1 : J[k] = IF k <= a THEN A[k] ELSE IF k = H THEN x ELSE B[k - H]
    BY <1>0, <2>2, <2>3, <2>5, <2>6, <2>7
  <2> QED BY <2>8, <2>9 DEF a, x
<1>9. PathThroughCoset(p) = J
  BY DEF PathThroughCoset, s, local, d
<1> HIDE DEF A, B, X, d, J
<1>10. ASSUME NEW k \in 1 .. N - 1 PROVE J[k] = Layer[k][Twin(p \div 2^(k - 1))]
  <2>1. CASE k <= H - 1
    <3>1. k \in 1 .. H - 1
      BY <1>0, <2>1
    <3> QED BY <1>4, <1>8, <2>1, <3>1
  <2>2. CASE k = H
    <3>1. ~(k <= H - 1)
      BY <1>0, <2>2
    <3> QED BY <1>5, <1>8, <2>2, <3>1
  <2>3. CASE k > H
    <3>1. ~(k <= H - 1) /\ k # H /\ k - H \in 1 .. G - 1 /\ H + (k - H) = k
      BY <1>0, <2>3
    <3>2. J[k] = B[k - H]
      BY <1>8, <3>1
    <3>3. B[k - H] = Layer[H + (k - H)][Twin(p \div 2^((H + (k - H)) - 1))]
      BY <1>6, <3>1
    <3> QED BY <3>1, <3>2, <3>3
  <2> QED BY <1>0, <2>1, <2>2, <2>3
<1>11. J = [k \in 1 .. N - 1 |-> Layer[k][Twin(p \div 2^(k - 1))]]
  BY <1>8, <1>10
<1> QED BY <1>9, <1>11 DEF TruePath

-----------------------------------------------------------------------------
(* Answering the queries.                                                  *)

\* addPath adds one pair to those whose paths the subtree holds.
LEMMA PathAdded ==
    ASSUME NEW P, NEW p \in Nat, NEW layers, HoldsPaths(layers, P)
    PROVE  HoldsPaths(addPath(layers, Layer[0][2 * p], Layer[0][2 * p + 1], TruePath(p), p),
                      P \cup {p})
<1> DEFINE more == addPath(layers, Layer[0][2 * p], Layer[0][2 * p + 1], TruePath(p), p)
<1>1. DOMAIN more = 1 .. LogBlocks
  BY DEF addPath
<1>2. ASSUME NEW k \in 1 .. LogBlocks
      PROVE  more[k] = [i \in PathIndices(P \cup {p}, k) |-> Layer[k - 1][i]]
  <2> DEFINE old == layers[k]
  <2>1. old = [i \in PathIndices(P, k) |-> Layer[k - 1][i]]
    BY DEF HoldsPaths
  <2>2. CASE k = 1
    <3> DEFINE a == 2 * p  b == 2 * p + 1
    <3>1. more[k] = AddEntry(AddEntry(old, a, Layer[0][a]), b, Layer[0][b])
      BY <2>2 DEF addPath
    <3>2. PathIndices(P \cup {p}, k) = (PathIndices(P, k) \cup {a}) \cup {b} /\ k - 1 = 0
      <4>1. {2 * q : q \in P \cup {p}} = {2 * q : q \in P} \cup {a}
        OBVIOUS
      <4>2. {2 * q + 1 : q \in P \cup {p}} = {2 * q + 1 : q \in P} \cup {b}
        OBVIOUS
      <4>3. /\ PathIndices(P \cup {p}, k)
                 = {2 * q : q \in P \cup {p}} \cup {2 * q + 1 : q \in P \cup {p}}
            /\ PathIndices(P, k) = {2 * q : q \in P} \cup {2 * q + 1 : q \in P}
        BY <2>2 DEF PathIndices
      <4> DEFINE evens == {2 * q : q \in P}  odds == {2 * q + 1 : q \in P}
      <4>4. PathIndices(P \cup {p}, k) = (evens \cup {a}) \cup (odds \cup {b})
            /\ PathIndices(P, k) = evens \cup odds
        BY <4>1, <4>2, <4>3
      <4> HIDE DEF evens, odds, a, b
      <4> QED BY <2>2, <4>4
    <3> HIDE DEF a, b, more, old
    <3> DEFINE I == PathIndices(P, k)
    <3> HIDE DEF I
    <3>3. AddEntry(old, a, Layer[0][a]) = [i \in I \cup {a} |-> Layer[0][i]]
      BY <2>1, <3>2 DEF AddEntry, I
    <3>4. AddEntry([i \in I \cup {a} |-> Layer[0][i]], b, Layer[0][b])
            = [i \in (I \cup {a}) \cup {b} |-> Layer[0][i]]
      BY DEF AddEntry
    <3> QED BY <3>1, <3>2, <3>3, <3>4 DEF I
  <2>3. CASE k # 1
    <3> DEFINE t == Twin(p \div 2^(k - 2))
    <3>1. more[k] = AddEntry(old, t, TruePath(p)[k - 1])
      BY <2>3 DEF addPath
    <3>2. TruePath(p)[k - 1] = Layer[k - 1][t]
      <4>1. k - 1 \in 1 .. LogBlocks - 1 /\ (k - 1) - 1 = k - 2
        BY <2>3, Levels
      <4> QED BY <4>1 DEF TruePath
    <3>3. PathIndices(P \cup {p}, k) = PathIndices(P, k) \cup {t}
      BY <2>3 DEF PathIndices
    <3> HIDE DEF t, more, old
    <3> DEFINE I == PathIndices(P, k)
    <3> HIDE DEF I
    <3>4. AddEntry(old, t, Layer[k - 1][t]) = [i \in I \cup {t} |-> Layer[k - 1][i]]
      BY <2>1 DEF AddEntry, I
    <3> QED BY <3>1, <3>2, <3>3, <3>4 DEF I
  <2> QED BY <2>2, <2>3
<1> QED BY <1>1, <1>2 DEF HoldsPaths

\* The pair of a block, and the blocks of the pair.
LEMMA PairPlaces ==
    ASSUME NEW b \in Blocks
    PROVE  /\ b \in Nat /\ b \div 2 \in Nat /\ b \div 2 \in 0 .. 2^(LogBlocks - 1) - 1
           /\ 2 * (b \div 2) \in Blocks /\ 2 * (b \div 2) + 1 \in Blocks
<1> DEFINE e == 2^(LogBlocks - 1)
<1>1. e \in Nat /\ 2^LogBlocks = 2 * e
  <2>1. LogBlocks - 1 \in 0 .. LogBlocks /\ (LogBlocks - 1) + 1 = LogBlocks
    BY Levels
  <2> QED BY <2>1, Powers
<1> HIDE DEF e
<1>2. Blocks = 0 .. 2 * e - 1
  BY <1>1 DEF Blocks
<1>3. b \in Nat /\ b \div 2 \in Nat /\ b \div 2 \in 0 .. e - 1
      /\ 2 * (b \div 2) \in Blocks /\ 2 * (b \div 2) + 1 \in Blocks
  BY <1>1, <1>2
<1> QED BY <1>3 DEF e

\* No path has been added.
LEMMA AnswerInitInv == MerkleInit => AnswerInv
<1> SUFFICES ASSUME MerkleInit PROVE AnswerInv
  OBVIOUS
<1>1. queries = {} /\ pending = {} /\ stage = "commit"
      /\ resultsTree = [k \in 1 .. LogBlocks |-> emptyLayer]
  BY DEF MerkleInit
<1>2. AnsweredPairs = {}
  BY <1>1 DEF AnsweredPairs, QueriedPairs
<1>3. ASSUME NEW k \in 1 .. LogBlocks
      PROVE  resultsTree[k] = [i \in PathIndices(AnsweredPairs, k) |-> Layer[k - 1][i]]
  <2>1. PathIndices({}, k) = {}
    BY DEF PathIndices
  <2>2. emptyLayer = [i \in {} |-> Layer[k - 1][i]]
    BY DEF emptyLayer
  <2> QED BY <1>1, <1>2, <2>1, <2>2
<1> QED BY <1>1, <1>3 DEF AnswerInv, HoldsPaths

\* The pairs of the queried blocks are all pending.
LEMMA RawQueryInv ==
    ASSUME AnswerInv, NEW Q \in SUBSET Blocks, getRawQuery(Q)
    PROVE  AnswerInv'
<1>1. /\ stage = "query" /\ queries = {} /\ pending = {}
      /\ queries' = Q /\ pending' = {q \div 2 : q \in Q} /\ stage' = "answer"
      /\ resultsTree' = resultsTree
  BY DEF getRawQuery, AnswerInv, QueriedPairs
<1>2. AnsweredPairs = {} /\ AnsweredPairs' = {} /\ QueriedPairs' = pending'
  BY <1>1 DEF AnsweredPairs, QueriedPairs
<1> QED BY <1>1, <1>2 DEF AnswerInv, HoldsPaths, PathIndices

\* The path to one more pair enters the subtree.
LEMMA AnswerQueryInv ==
    ASSUME CommitInv, AnswerInv, NEW p \in 0 .. 2^(LogBlocks - 1) - 1, answerQuery(p)
    PROVE  AnswerInv'
<1>1. /\ stage = "answer" /\ p \in pending /\ pending' = pending \ {p}
      /\ stage' = stage /\ queries' = queries
      /\ resultsTree' =
           IF entireWitnessKept
           THEN addPath(resultsTree, data_[2 * p], data_[2 * p + 1],
                        getPathToBlock(tree_, LogBlocks, 2 * p), p)
           ELSE addPath(resultsTree, Evaluation(2 * p), Evaluation(2 * p + 1),
                        PathThroughCoset(p), p)
  BY DEF answerQuery
<1>2. p \in QueriedPairs /\ QueriedPairs' = QueriedPairs
  BY <1>1 DEF AnswerInv, QueriedPairs
<1>3. PICK q \in Blocks : p = q \div 2
  BY <1>2 DEF QueriedPairs, AnswerInv
<1>4. p \in Nat /\ 2 * p \in Blocks /\ 2 * p + 1 \in Blocks /\ (2 * p) \div 2 = p
  BY <1>3, PairPlaces
<1>5. Evaluation(2 * p) = Layer[0][2 * p] /\ Evaluation(2 * p + 1) = Layer[0][2 * p + 1]
  BY <1>4, LayerNodes
<1>6. resultsTree' = addPath(resultsTree, Layer[0][2 * p], Layer[0][2 * p + 1], TruePath(p), p)
  <2>1. CASE entireWitnessKept
    <3>1. data_[2 * p] = Evaluation(2 * p) /\ data_[2 * p + 1] = Evaluation(2 * p + 1)
          /\ TreeIsRight(LogBlocks)
      BY <1>1, <1>4, <2>1 DEF CommitInv
    <3>2. getPathToBlock(tree_, LogBlocks, 2 * p) = TruePath(p)
      BY <1>4, <3>1, KeptPath
    <3> QED BY <1>1, <1>5, <2>1, <3>1, <3>2
  <2>2. CASE ~entireWitnessKept
    <3>1. (\A z \in Segments : peaks[z] = Layer[LogLength][z]) /\ TreeIsRight(LogSegments)
          /\ LogSegments # 0
      BY <1>1, <2>2 DEF CommitInv
    <3>2. PathThroughCoset(p) = TruePath(p)
      BY <3>1, CosetPath
    <3> QED BY <1>1, <1>5, <2>2, <3>2
  <2> QED BY <2>1, <2>2
<1>7. AnsweredPairs' = AnsweredPairs \cup {p}
  BY <1>1, <1>2 DEF AnsweredPairs
<1>8. HoldsPaths(resultsTree, AnsweredPairs)'
  <2>1. HoldsPaths(resultsTree, AnsweredPairs)
    BY DEF AnswerInv
  <2>2. HoldsPaths(resultsTree', AnsweredPairs')
    BY <1>4, <1>6, <1>7, <2>1, PathAdded
  <2> QED BY <2>2 DEF HoldsPaths, PathIndices
<1>9. queries' \subseteq Blocks /\ pending' \subseteq QueriedPairs'
  BY <1>1, <1>2 DEF AnswerInv
<1> QED BY <1>1, <1>8, <1>9 DEF AnswerInv
=============================================================================
