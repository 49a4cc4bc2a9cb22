------------------------------ MODULE BinaryField ------------------------------
(***************************************************************************)
(* The arithmetic of the field of module FieldElement.  Module Element     *)
(* models the 64-bit arithmetic itself; the modules that use this one only *)
(* need a field in which the powers of x are distinct up to the largest    *)
(* exponent they use.                                                      *)
(***************************************************************************)
EXTENDS FieldElement

\* Exclusive or of two octal digits.
XorDigit ==
    [a \in 0 .. 7 |-> [b \in 0 .. 7 |->
        ((a + b) % 2) + 2 * ((a \div 2 + b \div 2) % 2)
                    + 4 * ((a \div 4 + b \div 4) % 2)]]

a (+) b ==
    XorDigit[a % 8][b % 8]
      + 8 * XorDigit[(a \div 8) % 8][(b \div 8) % 8]
      + 64 * XorDigit[(a \div 64) % 8][(b \div 64) % 8]

\* Multiplication by x, reduced, and by x^2, x^4, ..., x^256.
Twice(f) == [a \in Field |-> f[f[a]]]

TimesX ==
    [a \in Field |->
        IF 2 * a < Size THEN 2 * a ELSE (2 * a - Size) (+) (Modulus - Size)]
TimesX_2 == Twice(TimesX)
TimesX_4 == Twice(TimesX_2)
TimesX_8 == Twice(TimesX_4)
TimesX_16 == Twice(TimesX_8)
TimesX_32 == Twice(TimesX_16)
TimesX_64 == Twice(TimesX_32)
TimesX_128 == Twice(TimesX_64)
TimesX_256 == Twice(TimesX_128)

Powers ==
    [k \in 0 .. Order - 1 |->
        LET step(i, f, a) == IF isBit(k, i) THEN f[a] ELSE a
        IN step(8, TimesX_256, step(7, TimesX_128, step(6, TimesX_64, step(5, TimesX_32,
               step(4, TimesX_16, step(3, TimesX_8, step(2, TimesX_4,
                   step(1, TimesX_2, step(0, TimesX, 1)))))))))]

Logs == [e \in 1 .. Order |-> CHOOSE k \in 0 .. Order - 1 : Powers[k] = e]

log(e) == Logs[e]

a (.) b ==
    IF a = zero \/ b = zero THEN zero
    ELSE Powers[(Logs[a] + Logs[b]) % Order]

\* c_inv has no result for zero.
inverse(a) == Powers[(Order - Logs[a]) % Order]

\* x^n, for n of either sign.
xPower(n) == Powers[n % Order]

power(a, n) ==
    CASE n = 0 -> one
      [] n # 0 /\ a = zero -> zero
      [] OTHER -> Powers[(Logs[a] * n) % Order]
-----------------------------------------------------------------------------
\* algebralib's bit extraction: with the constant of bit k, y^2 + y ranges over
\* the elements whose bit k is clear; extractBit gives such a y.
invExtrConsts ==
    [k \in 0 .. ExtensionDegree - 1 |->
        CHOOSE c \in 1 .. Order :
            \A y \in Field : ~isBit(c (.) ((y (.) y) (+) y), k)]

\* For the bits of a word.
Extractions ==
    [k \in 0 .. 3 |->
        [e \in {d \in Field : ~isBit(d, k)} |->
            CHOOSE y \in Field :
                y % 2 = 0 /\ invExtrConsts[k] (.) ((y (.) y) (+) y) = e]]

extractBit(e, k) == Extractions[k][e]

invExtrConst(k) == invExtrConsts[k]
=============================================================================
