---------------------------- MODULE ByteArithmetic ----------------------------
(***************************************************************************)
(* The bytes of AES: GF(2)[x] modulo x^8 + x^4 + x^3 + x + 1, by the       *)
(* logarithms to the base 3.                                               *)
(***************************************************************************)
EXTENDS Integers

XorNibble ==
    [a \in 0 .. 15 |-> [b \in 0 .. 15 |->
        LET digit(i) == ((a \div 2^i + b \div 2^i) % 2) * 2^i
        IN digit(0) + digit(1) + digit(2) + digit(3)]]

byteSum(a, b) ==
    16 * XorNibble[a \div 16][b \div 16] + XorNibble[a % 16][b % 16]

\* Multiplication by 3, a generator, modulo x^8 + x^4 + x^3 + x + 1, and by its
\* powers 3^2, 3^4, ..., 3^128.
Twice(f) == [a \in 0 .. 255 |-> f[f[a]]]

Times3 ==
    [a \in 0 .. 255 |->
        byteSum(a, IF a < 128 THEN 2 * a ELSE byteSum(2 * a - 256, 27))]
Times3_2 == Twice(Times3)
Times3_4 == Twice(Times3_2)
Times3_8 == Twice(Times3_4)
Times3_16 == Twice(Times3_8)
Times3_32 == Twice(Times3_16)
Times3_64 == Twice(Times3_32)
Times3_128 == Twice(Times3_64)

Exponentials ==
    [k \in 0 .. 254 |->
        LET step(i, f, a) == IF (k \div 2^i) % 2 = 1 THEN f[a] ELSE a
        IN step(7, Times3_128, step(6, Times3_64, step(5, Times3_32, step(4, Times3_16,
               step(3, Times3_8, step(2, Times3_4, step(1, Times3_2, step(0, Times3, 1))))))))]

Logarithms == [e \in 1 .. 255 |-> CHOOSE k \in 0 .. 254 : Exponentials[k] = e]

byteProduct(a, b) ==
    IF a = 0 \/ b = 0 THEN 0
    ELSE Exponentials[(Logarithms[a] + Logarithms[b]) % 255]

byteInverse(a) == Exponentials[(255 - Logarithms[a]) % 255]

\* The powers of consts::xFETransformed, the byte 2 = 3^25.
power2(n) == Exponentials[(25 * n) % 255]
=============================================================================
