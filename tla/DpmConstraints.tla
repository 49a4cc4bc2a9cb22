---------------------------- MODULE DpmConstraints ----------------------------
(***************************************************************************)
(* The constraint polynomial of stark-dpm, over a row v and the next row n *)
(* (AES160hashcLOCI_EvalPoly.cpp).                                         *)
(*                                                                         *)
(* The polynomial is a sum of terms weighted by random coefficients        *)
(* (randCoeff): it vanishes where every term does.  A term is a product of *)
(* selectors and a difference, and becomes the implication: when no        *)
(* selector is zero, the two sides are equal.  Terms that share a          *)
(* coefficient are kept as one sum.                                        *)
(***************************************************************************)
EXTENDS DpmRegisters

CONSTANTS \* the arithmetic of the field; module Rijndael
    _ (+) _,
    _ (.) _,
    scale(_, _),    \* a byte times an element
    timesX(_),      \* xFE times an element
    pack(_),        \* the sum of s[i] * x^(i - 1)
    square(_),
    inverse(_),
    xPower(_),      \* power(xFE, n)
    power2(_)       \* the byte of power(xFETransformed, n)

fourth(a) == square(square(a))

\* consts::xFETransformed, the byte 2, and Rcon_round11, its tenth power.
xFETransformed == byte(2)
Rcon_round11 == byte(108)
polyFromMatrix == <<5, 9, 249, 37, 244, 1, 181, 143>>
B_Transformed == byte(99)

MixColMat == << <<2, 3, 1, 1>>, <<1, 2, 3, 1>>, <<1, 1, 2, 3>>, <<3, 1, 1, 2>> >>
mixColumn(v, i, j) ==
    (scale(MixColMat[i + 1][1], v[Breg(0, j)]) (+) scale(MixColMat[i + 1][2], v[Breg(1, j)]))
      (+) (scale(MixColMat[i + 1][3], v[Breg(2, j)]) (+) scale(MixColMat[i + 1][4], v[Breg(3, j)]))

Bregs == B00 .. B00 + 19
Kregs == K00 .. K00 + 19

same(v, n, R) == \A r \in R : n[r] = v[r]

\* The registers W11 + 3 * i .. of inv1 + i.
Wreg(i, k) == W11 + 3 * i + k

\* The S-box without its inversion, from inv1 + i and its powers in the W registers.
results(v, i) ==
    LET term(k, r) == scale(polyFromMatrix[k], v[r]) (+) scale(polyFromMatrix[k + 1], square(v[r]))
    IN (term(1, inv1 + i) (+) term(3, Wreg(i, 0)))
         (+) ((term(5, Wreg(i, 1)) (+) term(7, Wreg(i, 2))) (+) B_Transformed)

PolyComputationInversePowers(v) ==
    \A i \in 0 .. 4 :
        /\ v[Wreg(i, 0)] = fourth(v[inv1 + i])
        /\ v[Wreg(i, 1)] = fourth(v[Wreg(i, 0)])
        /\ v[Wreg(i, 2)] = fourth(v[Wreg(i, 1)])

isInverse(e, d) == e (.) d = one \/ (e = zero /\ d = zero)

\* SubBytes and ShiftRows of row r of the state.
SB_And_SR_FLAGS(r, v, n) ==
    /\ n[FLAG1] = Flags[r + 2][1]
    /\ r < 3 => n[FLAG2] = Flags[r + 2][2]   \* free after the last row
    /\ same(v, n, Bregs \ {Breg(r, j) : j \in 0 .. 4})
    /\ \A j \in 0 .. 4 :
        /\ isInverse(v[Breg(r, j)], v[inv1 + j])
        /\ n[Breg(r, (j - r) % 5)] = results(v, j)

SB_And_SR(v, n) ==
    /\ n[STATEreg] = one
    /\ same(v, n, Kregs \cup {RC})
    /\ (v[FLAG1] # one /\ v[FLAG2] # one) => SB_And_SR_FLAGS(0, v, n)
    /\ (v[FLAG1] # one /\ v[FLAG2] # zero) => SB_And_SR_FLAGS(1, v, n)
    /\ (v[FLAG1] # zero /\ v[FLAG2] # one) => SB_And_SR_FLAGS(2, v, n)
    /\ (v[FLAG1] # zero /\ v[FLAG2] # zero) => SB_And_SR_FLAGS(3, v, n)

\* K_next[i][j].
KNext(v, i, j) ==
    LET upTo[l \in 0 .. 4] ==
            IF l = 0
            THEN (results(v, i) (+) v[Kreg(i, 0)]) (+) (IF i = 0 THEN v[RC] ELSE zero)
            ELSE upTo[l - 1] (+) v[Kreg(i, l)]
    IN upTo[j]

\* The first difference of the state and the one of STATE share the coefficient 1.
LastRound(v, n) ==
    LET difference(i, j) == (n[Breg(i, j)] (+) v[Breg(i, j)]) (+) KNext(v, i, j)
    IN /\ (n[STATEreg] (+) xFE) (+) difference(0, 0) = zero
       /\ \A p \in Matrix \ {<<0, 0>>} : difference(p[1], p[2]) = zero

NonLastRound(v, n) ==
    /\ n[RC] = xFETransformed (.) v[RC]
    /\ n[STATEreg] = one
    /\ \A i \in 0 .. 3 :
        /\ n[Kreg(i, 0)] = KNext(v, i, 0)
        /\ \A j \in 1 .. 4 : n[Kreg(i, j)] = n[Kreg(i, j - 1)] (+) v[Kreg(i, j)]
    /\ \A p \in Matrix :
        n[Breg(p[1], p[2])] = mixColumn(v, p[1], p[2]) (+) n[Kreg(p[1], p[2])]

MC_And_ARK(v, n) ==
    /\ n[FLAG1] = zero /\ n[FLAG2] = zero
    /\ \A i \in 0 .. 3 : isInverse(v[Kreg((i + 1) % 4, 4)], v[inv1 + i])
    /\ v[RC] # Rcon_round11 => NonLastRound(v, n)
    /\ (v[RC] (+) Rcon_round11) (.) v[invRC] # one => LastRound(v, n)

LoopBody(v, n) ==
    /\ PolyComputationInversePowers(v)
    /\ v[FLAG1] # xFE => SB_And_SR(v, n)
    /\ v[FLAG1] \notin {zero, one} => MC_And_ARK(v, n)
-----------------------------------------------------------------------------
\* The twenty bytes from register base on, packed in three elements: the
\* columns 0 and 1, 2 and 3, and 4.
packed(v, base, c) ==
    LET column(j) == [i \in 1 .. 4 |-> v[base + 5 * (i - 1) + j]]
    IN pack(IF c = 2 THEN column(4) ELSE column(2 * c) \o column(2 * c + 1))

\* MATCH after the second half of an entry: the best of the two.
updatedMatch(v, n) ==
    /\ n[PartialMATCH] \notin {zero, one} => n[MATCH] = xFE
    /\ v[MATCH] \notin {zero, one} => n[MATCH] = xFE
    /\ (n[PartialMATCH] \notin {zero, xFE} /\ v[MATCH] # xFE) => n[MATCH] = one
    /\ (n[PartialMATCH] \notin {one, xFE} /\ v[MATCH] \notin {one, xFE}) => n[MATCH] = zero

ST2isXX(v, n) ==
    v[ST3] # zero /\ v[ST2] # xFEAndOne =>
        /\ n[PHASE] = one /\ n[STATEreg] = one /\ n[FLAG1] = zero /\ n[FLAG2] = zero
        /\ v[isSecondPhaseComparingLOCI] # zero =>
             n[isSecondPhaseComparingLOCI] = zero /\ updatedMatch(v, n)
        /\ v[isSecondPhaseComparingLOCI] # one =>
             n[isSecondPhaseComparingLOCI] = one /\ same(v, n, {MATCH, PartialMATCH})
        /\ same(v, n, Bregs)
        /\ \A c \in 0 .. 2 : n[A + c] = packed(v, B00, c)
        /\ (v[K] (+) one) (.) v[STATEreg] # one =>
             \A c \in 0 .. 2 : v[L1 + c] = n[A + c] /\ v[L4 + c] = packed(v, K00, c)

\* The forty registers that hold b^4 and b^16 for the twenty bytes b.
Order == <<0, 1, 5, 6, 10, 11, 15, 16, 2, 3, 7, 8, 12, 13, 17, 18, 4, 9, 14, 19>>
inNext(s) == s \in 15 .. 29 \/ s >= 35
slotReg(s) ==
    CASE s < 15 -> W11 + s
      [] s \in 15 .. 29 -> W11 + s - 15
      [] s \in 30 .. 34 -> inv1 + s - 30
      [] OTHER -> inv1 + s - 35
slot(v, n, s) == IF inNext(s) THEN n[slotReg(s)] ELSE v[slotReg(s)]

ST2is1(v, n) ==
    v[PHASE] # one /\ v[ST2] \notin {xFE, xFEAndOne, xFESquare} =>
        /\ n[PHASE] = zero /\ same(v, n, {isSecondPhaseComparingLOCI}) /\ n[ST2] = xFE
        /\ \A m \in 1 .. 20 :
            /\ v[Order[m]] = fourth(n[Order[m]])
            /\ slot(v, n, 2 * m - 2) = fourth(v[Order[m]])
            /\ slot(v, n, 2 * m - 1) = fourth(slot(v, n, 2 * m - 2))
            /\ n[Order[m]] = fourth(slot(v, n, 2 * m - 1))
        /\ \A c \in 0 .. 2 :
            /\ v[isSecondPhaseComparingLOCI] # zero => v[L4 + c] = packed(n, B00, c)
            /\ v[isSecondPhaseComparingLOCI] # one => v[L1 + c] = packed(n, B00, c)

ST2isX(v, n) ==
    v[ST2] \notin {one, xFEAndOne, xFESquare} =>
        /\ n[PHASE] = zero /\ n[ST2] = xFEAndOne
        /\ same(v, n, Bregs \cup {isSecondPhaseComparingLOCI})

\* Where the i-th flag and the i-th four inverses of the comparison are.
flag(v, n, i) ==
    CASE i = -1 -> v[PartialMATCH]
      [] i \in 0 .. 7 -> v[FLAG1 + i]
      [] i = 8 -> n[RC]
      [] i = 9 -> n[PartialMATCH]
auxInverse(v, n, i, k) == IF i < 5 THEN n[inv1 + 4 * i + k] ELSE v[inv1 + 4 * (i - 5) + k]

\* The differences of the two bytes of n with the two of v.
pairDifference(v, n, i, k) ==
    n[IF k < 2 THEN B00 + i ELSE B20 + i] (+) v[IF k % 2 = 0 THEN B00 + i ELSE B20 + i]

comparedPair(v, n, i) ==
    LET last == flag(v, n, i - 1)
        next == flag(v, n, i)
        differ(k) == pairDifference(v, n, i, k) # zero
        open(k) == pairDifference(v, n, i, k) (.) auxInverse(v, n, i, k) # one
    IN /\ (\A k \in 0 .. 3 : differ(k)) => next = zero
       /\ (differ(0) /\ differ(1) /\ (open(2) \/ open(3)) /\ last # zero) => next = one
       /\ (differ(2) /\ differ(3) /\ (open(0) \/ open(1)) /\ last # zero) => next = one
       /\ (open(1) /\ open(2)) \/ (open(0) /\ open(3)) => next = last
       /\ last \notin {one, xFE} => next = zero

ST2is1XCompareLOCI(v, n) ==
    v[ST3] # zero /\ v[ST2] # xFESquare =>
        /\ n[PHASE] = zero /\ n[ST2] = xFESquare /\ same(v, n, {isSecondPhaseComparingLOCI})
        /\ v[isSecondPhaseComparingLOCI] # one => v[PartialMATCH] = xFE
        /\ \A i \in 0 .. 9 : comparedPair(v, n, i)
-----------------------------------------------------------------------------
\* The registers of the two halves of the state when the block is added to it.
Halves == << <<0, 5, 10, 15, 1, 6, 11, 16, 4, 9>>, <<2, 7, 12, 17, 3, 8, 13, 18, 14, 19>> >>

\* The byte of the block that is added to the i-th of them.
blockByte(v, i) == v[K00 + 4 * (i - 1)]

halfAdded(h, v, n) ==
    /\ \A i \in 1 .. 10 : n[Halves[h][i]] = v[Halves[h][i]] (+) blockByte(v, i)
    /\ \A i \in 1 .. 10 : n[Halves[3 - h][i]] = v[Halves[3 - h][i]]

lastTwo(v) == blockByte(v, 9) (+) timesX(blockByte(v, 10))
firstEight(v) == pack([i \in 1 .. 8 |-> blockByte(v, i)])

StateIsX_FLAGS_ARE_00(v, n) ==
    /\ n[FLAG1] = zero /\ n[FLAG2] = one
    /\ same(v, n, {B, C})
    /\ n[A] = lastTwo(v)
    /\ v[A] = firstEight(v)
    /\ halfAdded(1, v, n)

StateIsX_FLAGS_ARE_01(v, n) ==
    /\ n[FLAG1] = one /\ n[FLAG2] = one
    /\ v[C] = v[A] (+) timesX(timesX(lastTwo(v)))
    /\ v[B] = firstEight(v)
    /\ halfAdded(2, v, n)

\* Every byte of the block is in the subfield: b^256 = b.
StateIsX_FLAGS_ARE_0_(v, n) ==
    /\ n[STATEreg] = xFE
    /\ same(v, n, {K})
    /\ \A i \in 0 .. 9 : \A k \in 0 .. 3 :
        v[K00 + 4 * i + ((k + 1) % 4)] = fourth(v[K00 + 4 * i + k])

StateIsX_FLAGS_ARE_11_lastStep(v, n, RootHash) ==
    /\ \A r \in Bregs : v[r] = RootHash[r]
    /\ n[PHASE] = one /\ n[STATEreg] = xFE /\ n[FLAG1] = one /\ n[FLAG2] = one
    /\ same(v, n, {K})

\* The twenty differences of the next key and the state share a coefficient.
StateIsX_FLAGS_ARE_11(v, n, RootHash, gN) ==
    LET total[i \in -1 .. 19] ==
            IF i = -1 THEN zero ELSE total[i - 1] (+) (n[K00 + i] (+) v[B00 + i])
        left == timesX(v[K]) (+) gN
    IN /\ left # zero =>
            /\ v[K] # one => n[PHASE] = zero /\ total[19] = zero
            /\ n[K] = timesX(v[K])
       /\ left (.) v[A] # one => StateIsX_FLAGS_ARE_11_lastStep(v, n, RootHash)

StateIsX(v, n, RootHash, gN) ==
    /\ v[FLAG1] # one => StateIsX_FLAGS_ARE_0_(v, n)
    /\ (v[FLAG1] # one /\ v[FLAG2] # one) => StateIsX_FLAGS_ARE_00(v, n)
    /\ (v[FLAG1] # one /\ v[FLAG2] # zero) => StateIsX_FLAGS_ARE_01(v, n)
    /\ (v[FLAG1] # zero /\ v[FLAG2] # zero) => StateIsX_FLAGS_ARE_11(v, n, RootHash, gN)

\* The polynomial vanishes on the two rows.
evalCPoly(v, n, RootHash, gN) ==
    /\ v[PHASE] # zero =>
        /\ v[STATEreg] # xFE => same(v, n, {A, B, C, K, PHASE}) /\ LoopBody(v, n)
        /\ v[STATEreg] # one => StateIsX(v, n, RootHash, gN)
        /\ n[ST2] = one
        /\ same(v, n, {isSecondPhaseComparingLOCI})
    /\ v[PHASE] # one => same(v, n, Kregs)
    /\ ST2is1(v, n) /\ ST2isX(v, n) /\ ST2is1XCompareLOCI(v, n) /\ ST2isXX(v, n)
    /\ same(v, n, L1 .. L6)
    /\ v[ST3] = (v[ST2] (+) one) (.) (v[ST2] (+) xFE)
=============================================================================
