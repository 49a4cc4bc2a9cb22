---------------------------- MODULE SwifftxArithmetic ----------------------------
(***************************************************************************)
(* The arithmetic of the three implementations of SWIFFTX: the transforms  *)
(* of one column of input bytes, and the change of base of eight residues. *)
(* Every result of the SIMD code is that of a 16-bit lane.                 *)
(***************************************************************************)
EXTENDS Integers

FIELD_SIZE == 257
N == 64
EIGHTH_N == 8
OMEGA == 42

Eight == 0 .. 7
Column == 0 .. N - 1
FinalM == 3 * EIGHTH_N + 1

Sum8(f) == f[0] + f[1] + f[2] + f[3] + f[4] + f[5] + f[6] + f[7]
SumTo(f, n) ==
    LET upTo[i \in 0 .. n] == IF i = 0 THEN 0 ELSE upTo[i - 1] + f[i - 1]
    IN upTo[n]

bitOf(x, i) == (x \div 2^i) % 2

\* & 0xff and >> 8 of a number in two's complement.
lowByte(x) == x % 256
highPart(x) == x \div 256

-----------------------------------------------------------------------------
(* The reference implementation. *)

\* w^n modulo FIELD_SIZE, for a short n.
modPower(w, n) ==
    LET upTo[i \in 0 .. n] == IF i = 0 THEN 1 ELSE (upTo[i - 1] * w) % FIELD_SIZE
    IN upTo[n]

\* The powers of OMEGA that CalcOmegaPowers accumulates.
omegaPowers ==
    [i \in 0 .. 2 * N |->
        (modPower(modPower(OMEGA, 16), i \div 16) * modPower(OMEGA, i % 16))
          % FIELD_SIZE]

BitReverse ==
    [i \in Column |->
        32 * bitOf(i, 0) + 16 * bitOf(i, 1) + 8 * bitOf(i, 2)
          + 4 * bitOf(i, 3) + 2 * bitOf(i, 4) + bitOf(i, 5)]

DFT(in) ==
    [i \in Column |->
        Sum8([a \in Eight |-> Sum8([b \in Eight |->
            in[8 * a + b] * omegaPowers[((8 * a + b) * 2 * i) % (2 * N)]])])
          % FIELD_SIZE]

referenceColumn(in, j) ==
    LET inputBit(i) == bitOf(in[8 * j + (i \div 8)], i % 8)
    IN DFT([i \in Column |-> inputBit(BitReverse[i]) * omegaPowers[i]])

\* The order in which the base changes visit their digits.
Visits(n) ==
    [t \in 1 .. (n * (n - 1)) \div 2 |->
        CHOOSE j \in 0 .. n - 2 :
            \E i \in 1 .. n - 1 :
                /\ i - 1 <= j
                /\ t = ((n - 1 - i) * (n - i)) \div 2 + (j - i + 2)]
Visits4 == Visits(4)
Visits8 == Visits(8)

translateTurn(p, j) ==
    LET temp == p[j] + p[j + 1] * 513
    IN [p EXCEPT ![j] = temp % 65536, ![j + 1] = @ + temp \div 65536]

\* Eight digits in base 257 to eight bytes, and the carry bit.
TranslateToBase256(in) ==
    LET start == [i \in 0 .. 3 |-> in[2 * i] + 257 * in[2 * i + 1]]
        pairs[t \in 0 .. 6] == IF t = 0 THEN start
                               ELSE translateTurn(pairs[t - 1], Visits4[t])
        last == pairs[6]
    IN [bytes |-> [i \in Eight |-> IF i % 2 = 0 THEN lowByte(last[i \div 2])
                                   ELSE lowByte(highPart(last[i \div 2]))],
        carry |-> last[3] \div 65536]

octet(residues, g) == [i \in Eight |-> residues[8 * g + i]]

\* The N + 1 bytes that the octets of one sum leave.
packed(octets) ==
    [i \in 0 .. N |->
        IF i < N THEN octets[i \div 8].bytes[i % 8]
        ELSE Sum8([g \in Eight |-> octets[g].carry * 2^g])]

translated(residues) ==
    LET octets == [g \in Eight |-> TranslateToBase256(octet(residues, g))]
    IN packed(octets)

-----------------------------------------------------------------------------
(* The tables of the optimized and of the SIMD implementation. *)

Center(x) ==
    LET result == IF x >= 0 THEN x % FIELD_SIZE ELSE -((-x) % FIELD_SIZE)
    IN CASE result > 128 -> result - FIELD_SIZE
         [] result < -128 -> result + FIELD_SIZE
         [] OTHER -> result

\* The same powers, centered after every product.
centeredPowers == [i \in 0 .. 2 * N |-> Center(omegaPowers[i])]

ReverseBits(i) == 4 * bitOf(i, 0) + 2 * bitOf(i, 1) + bitOf(i, 2)

multipliers ==
    [i \in Column |-> centeredPowers[ReverseBits(i \div 8) * (2 * (i % 8) + 1)]]

fftTable ==
    [x \in 0 .. 255 |-> [j \in Eight |->
        Center(Sum8([b \in Eight |->
            centeredPowers[(EIGHTH_N * (2 * j + 1) * ReverseBits(b)) % (2 * N)]
              * bitOf(x, b)]))]]

\* ADD_SUB of all pairs at distance s.
addSub(v, s) ==
    [i \in Eight |-> IF (i \div s) % 2 = 0 THEN v[i] + v[i + s]
                     ELSE v[i - s] - v[i]]

-----------------------------------------------------------------------------
(* The optimized implementation. *)

Q_REDUCE(x) == lowByte(x) - highPart(x)

\* The products of the first loop: F[8 * j + b] for byte b.
firstLoop(in, c, j) ==
    [b \in Eight |-> multipliers[8 * b + j] * fftTable[in[8 * c + b]][j]]

scaled(v, shifts) == [i \in Eight |-> v[i] * 2^shifts[i]]

\* One iteration of the second loop.
secondLoop(F) ==
    LET s1 == scaled(addSub(F, 1), [i \in Eight |-> IF i % 4 = 3 THEN 4 ELSE 0])
        s2 == scaled(addSub(s1, 2), [i \in Eight |-> <<0, 0, 0, 0, 0, 2, 4, 6>>[i + 1]])
    IN addSub(s2, 4)

optimizedColumn(in, c) ==
    LET rows == [j \in Eight |-> secondLoop(firstLoop(in, c, j))]
    IN [i \in Column |-> Q_REDUCE(rows[i % 8][i \div 8])]

-----------------------------------------------------------------------------
(* The SIMD implementation: every result is that of a 16-bit lane. *)

lane(x) == ((x + 32768) % 65536) - 32768
lanes(v) == [i \in Eight |-> lane(v[i])]

shift(x, s) == lane((lane(x * 2^s) % 256) - (x \div 2^(8 - s)))
qReduce(x) == lane(lowByte(x) - highPart(x))
modP(x) == LET tmp == qReduce(qReduce(x)) IN IF tmp = -1 THEN 256 ELSE tmp

\* What is done to the eight vectors after the first and the second round.
mutantReduceFirst(v) ==
    [i \in Eight |-> IF i % 4 = 3 THEN shift(v[i], 4) ELSE v[i]]
reduceFirst(v) ==
    [i \in Eight |-> CASE i % 4 = 2 -> qReduce(v[i])
                       [] i % 4 = 3 -> shift(v[i], 4)
                       [] OTHER -> v[i]]
reduceSecond(v) ==
    [i \in Eight |-> CASE i = 4 -> qReduce(v[i])
                       [] i > 4 -> shift(v[i], 2 * (i - 4))
                       [] OTHER -> v[i]]

simdRow(in, c, j) ==
    LET v == [b \in Eight |->
                 IF b = 0 THEN fftTable[in[8 * c]][j]
                 ELSE lane(fftTable[in[8 * c + b]][j] * multipliers[8 * b + j])]
        s1 == reduceFirst(lanes(addSub(v, 1)))
        s2 == reduceSecond(lanes(addSub(s1, 2)))
    IN lanes(addSub(s2, 4))

SWIFFT_fft(in, c) ==
    LET rows == [j \in Eight |-> simdRow(in, c, j)]
    IN [i \in Column |-> lane(qReduce(rows[i % 8][i \div 8]) - 128)]

toBaseTurn(vals, j) ==
    LET v == vals[j] + vals[j + 1]
    IN [vals EXCEPT ![j] = v % 256, ![j + 1] = lane(@ + v \div 256)]

ToBase256(in) ==
    LET vals[t \in 0 .. 28] == IF t = 0 THEN in
                               ELSE toBaseTurn(vals[t - 1], Visits8[t])
        last == vals[28]
    IN [bytes |-> [i \in Eight |-> lowByte(last[i])], carry |-> highPart(last[7])]

simdBytes(residues) ==
    LET octets == [g \in Eight |-> ToBase256(octet(residues, g))]
    IN packed(octets)
=============================================================================
