---------------------------------- MODULE Words ----------------------------------
(***************************************************************************)
(* The arithmetic of FFF::Element, on words: a word is the set of its bits *)
(* that are set, at its real width.                                        *)
(***************************************************************************)
EXTENDS Integers, FiniteSets

ord == 64
Cell == 0 .. ord - 1
unit == {0}

\* The modulus x^64 + x^4 + x^3 + x + 1.
irr_poly_index == {0, 1, 3, 4, 64}
generateOrdElement == irr_poly_index \ {ord}

\* c_add and vecXor.
xor(a, b) == (a \ b) \cup (b \ a)

left_shift(w, k, bits) == {i + k : i \in w} \cap 0 .. bits - 1

deg(w) == CHOOSE i \in w : \A j \in w : j <= i

\* The instruction _mm_clmulepi64_si128.
clmul(a, b) == {k \in 0 .. 2 * ord - 2 : Cardinality({i \in a : k - i \in b}) % 2 = 1}

\* 0x0, 0x1b, 0x2d, 0x36, 0x5a, 0x41, 0x77, 0x6c
lookupTable1 == <<{}, {0, 1, 3, 4}, {0, 2, 3, 5}, {1, 2, 4, 5},
                  {1, 3, 4, 6}, {0, 6}, {0, 1, 2, 4, 5, 6}, {2, 3, 5, 6}>>

\* The last three bits of the high cell, which the shifts of the reduction
\* push out of the word, as an index into the table.
carry1(carry0) == (IF 60 \in carry0 THEN 1 ELSE 0) + (IF 61 \in carry0 THEN 2 ELSE 0)
                     + (IF 62 \in carry0 THEN 4 ELSE 0)

reduce(t) ==
    LET lowDeg == t \cap Cell
        carry0 == {i - ord : i \in t \ Cell}
        shifted(k) == left_shift(carry0, k, ord)
        reducedCarry0 == xor(xor(carry0, shifted(1)), xor(shifted(3), shifted(4)))
    IN xor(xor(lowDeg, reducedCarry0), lookupTable1[carry1(carry0) + 1])

c_mul(a, b) == reduce(clmul(a, b))
c_sqr(a) == c_mul(a, a)

\* One lane: b + factor * a into b, and the sum of both into a.
do_FFT_step(factor, a, b) ==
    LET c == xor(b, c_mul(factor, a)) IN [a |-> xor(a, c), b |-> c]

\* The loop of naiveMul replaces a bit above the word by the modulus' other
\* bits; a bit of a product is at most 126, so twice is enough.
residue ==
    LET lower(m) == IF m < ord THEN {m} ELSE {m - ord + j : j \in generateOrdElement}
    IN [k \in 0 .. 2 * ord - 2 |->
           {i \in Cell : Cardinality({m \in lower(k) : i \in lower(m)}) % 2 = 1}]

naiveMul(a, b) ==
    LET t == clmul(a, b)
    IN {i \in Cell : Cardinality({k \in t : i \in residue[k]}) % 2 = 1}
=============================================================================
