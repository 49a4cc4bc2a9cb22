-------------------------------- MODULE Gadgets --------------------------------
(***************************************************************************)
(* The gadgets of gadgetlib that the TinyRAM arithmetic unit is made of.   *)
(* For every gadget there is what generateWitness writes, and the set of   *)
(* the values of the constraints that generateConstraints adds: the        *)
(* witness satisfies them when that set is {zero}.                         *)
(*                                                                         *)
(* A word has 4 bits instead of 16, so that every pair of words can be     *)
(* enumerated, in the field of 2^9 elements instead of 2^64: as in the     *)
(* code, the powers of x up to the largest product of two words are        *)
(* distinct, and two words fit in the bits of one element.                 *)
(***************************************************************************)
EXTENDS FieldOperations

CONSTANTS \* module BinaryField
    log(_),             \* the exponent of a power of x
    invExtrConst(_),
    extractBit(_, _)

registerLength == 4
registerLogLen == 2

\* The auxiliary arrays have more elements than a word here, because the shift
\* gadgets use 2 * log + 4 of the 16 elements that an array has in the code.
auxLength == 8
Slots == 0 .. auxLength - 1
zeros == [i \in Slots |-> zero]

Word == 0 .. 2^registerLength - 1

\* getGenerator2toTheNthPower
g2(n) == xPower(2^n)

booleanity(u, n) == {u[i] (.) (u[i] (+) one) : i \in 0 .. n - 1}
-----------------------------------------------------------------------------
\* CompressionPacking_Gadget in mode UNPACK and in mode PACK.
unpack(e) ==
    [i \in Slots |-> IF i < registerLength THEN bit(isBit(e, i)) ELSE zero]

pack(u) == FieldSum([i \in Slots |-> xPower(i) (.) u[i]], 0, registerLength - 1)

packing(u, packed) == {pack(u) (+) packed}

\* DoubleUnpack_Gadget: the low and the high word of an element.
doubleUnpack(e) == <<unpack(e), unpack(e \div 2^registerLength)>>
-----------------------------------------------------------------------------
\* Addition_Gadget: carry[i] is the carry into bit i, the last one is the flag.
addCarry(a, b) ==
    LET carry[i \in 0 .. registerLength] ==
            IF i = 0 THEN zero
            ELSE bit(Cardinality({k \in 1 .. 3 :
                        <<a[i - 1], b[i - 1], carry[i - 1]>>[k] = one}) >= 2)
    IN carry

addResult(a, b) ==
    [i \in Slots |->
        IF i < registerLength THEN a[i] (+) b[i] (+) addCarry(a, b)[i] ELSE zero]

additionConstraints(a, b, d, carry, flag) ==
    LET next(i) == IF i < registerLength - 1 THEN carry[i + 1] ELSE flag
    IN {d[0] (+) a[0] (+) b[0], (a[0] (.) b[0]) (+) carry[1]}
         \cup {a[i] (+) b[i] (+) carry[i] (+) d[i] : i \in 1 .. registerLength - 1}
         \cup {next(i) (+) (a[i] (.) b[i]) (+) (a[i] (.) carry[i])
                       (+) (b[i] (.) carry[i]) : i \in 1 .. registerLength - 1}
-----------------------------------------------------------------------------
\* MultiplicationPacking_Gadget packs a word u of n bits into x^u; partial
\* products are kept, except the first, and the last one is the packed value.
factor(u, i, n, isSigned) ==
    LET power2 == IF i = n - 1 /\ isSigned THEN inverse(g2(i)) ELSE g2(i)
    IN (u[i] (.) power2) (+) one (+) u[i]

multPack(u, n, isSigned) ==
    LET prev[i \in 0 .. n - 1] ==
            IF i = 0 THEN factor(u, 0, n, FALSE)
            ELSE prev[i - 1] (.) factor(u, i, n, isSigned)
    IN prev

multPackConstraints(u, partials, packed, n, isSigned) ==
    LET prev(i) == IF i = 1 THEN factor(u, 0, n, FALSE) ELSE partials[i - 1]
    IN {partials[i] (+) (prev(i) (.) factor(u, i, n, isSigned)) : i \in 1 .. n - 2}
         \cup {packed (+) (prev(n - 1) (.) factor(u, n - 1, n, isSigned))}

\* DoubleMultPack_Gadget is the same over two words, low bits first.
concat(u, v) ==
    [i \in 0 .. 2 * registerLength - 1 |->
        IF i < registerLength THEN u[i] ELSE v[i - registerLength]]

\* The two arrays of partial products; unpacked1[0] and the last are not set.
dmultPartials(u, v) ==
    LET prev == multPack(concat(u, v), 2 * registerLength, FALSE)
        write(from, S) == [i \in Slots |-> IF i \in S THEN prev[from + i] ELSE zero]
    IN <<write(0, 1 .. registerLength - 1),
         write(registerLength, 0 .. registerLength - 2)>>

dmultConstraints(u, v, partials1, partials2, packed, isSigned) ==
    multPackConstraints(concat(u, v), concat(partials1, partials2), packed,
                        2 * registerLength, isSigned)
-----------------------------------------------------------------------------
last == registerLength - 1

\* Multiplication_Gadget: x^(u * v), from the most significant bit of v down.
\* partials1[0] holds the inverse of x^u when the words are signed.
multPartials1(u, isSigned) ==
    LET prev == multPack(u, registerLength, isSigned)
    IN [i \in Slots |->
           CASE i = 0 -> IF isSigned THEN inverse(prev[last]) ELSE zero
             [] i \in 1 .. last -> prev[i]
             [] OTHER -> zero]

multPartials2(u, v, isSigned) ==
    LET h == multPartials1(u, isSigned)[last]
        top == IF isSigned THEN multPartials1(u, isSigned)[0] ELSE h
        down[k \in 0 .. last] ==
            IF k = 0 THEN (IF v[last] = one THEN top ELSE one)
            ELSE down[k - 1] (.) down[k - 1]
                   (.) (IF v[last - k] = one THEN h ELSE one)
    IN [i \in Slots |-> IF i <= last THEN down[last - i] ELSE zero]

multConstraints(u, v, partials1, partials2, isSigned) ==
    LET h == partials1[last]
        c(i, f) == (v[i] (.) f) (+) one (+) v[i]
    IN multPackConstraints(u, partials1, h, registerLength, isSigned)
         \cup (IF isSigned THEN {(h (.) partials1[0]) (+) one} ELSE {})
         \cup {partials2[last] (+) c(last, IF isSigned THEN partials1[0] ELSE h)}
         \cup {partials2[i] (+) (partials2[i + 1] (.) partials2[i + 1] (.) c(i, h)) :
                  i \in 0 .. last - 1}
-----------------------------------------------------------------------------
\* GreaterEqual_Gadget compares from the most significant bit down: a flag is
\* x while the words are equal, then one for greater and zero for smaller.
greaterEqual(a, b, isSigned) ==
    LET first == IF isSigned THEN last - 1 ELSE last
        at(i) == IF a[i] = b[i] THEN xFE ELSE a[i]
        down[k \in 0 .. first] ==
            IF k = 0 THEN at(first)
            ELSE IF k = first /\ isSigned /\ a[last] # b[last] THEN b[last]
            ELSE IF down[k - 1] = xFE THEN at(first - k) ELSE down[k - 1]
    IN [i \in Slots |-> IF i <= first THEN down[first - i] ELSE zero]

greaterEqualConstraints(a, b, flags, isSigned) ==
    LET first == IF isSigned THEN last - 1 ELSE last
        here(i) == (xFE (.) (a[i] (+) b[i] (+) one)) (+) (a[i] (.) (b[i] (+) one))
        f(i) == flags[i + 1]
        step(i) ==
            (here(i) (.) f(i) (.) (one (+) f(i)) (.) inverse(xFE (.) (xFE (+) one)))
              (+) (f(i) (.) (f(i) (+) xFE) (.) inverse(xFE (+) one))
        sign == (step(0) (.) (one (+) a[last] (+) b[last]))
                  (+) ((one (+) a[last]) (.) b[last])
    IN {flags[first] (+) here(first)}
         \cup {flags[i] (+) step(i) : i \in 1 .. first - 1}
         \cup {flags[0] (+) (IF isSigned THEN sign ELSE step(0))}
-----------------------------------------------------------------------------
extraction(w, k) == invExtrConst(k) (.) ((w (.) w) (+) w)
=============================================================================
