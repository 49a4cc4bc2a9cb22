----------------------------- MODULE FieldElement -----------------------------
(***************************************************************************)
(* The elements of a binary field small enough to be enumerated, in the    *)
(* place of the GF(2^64) of algebralib.  As in mapFieldElementToInteger,   *)
(* an element is the integer whose bit i is the coefficient of x^i.        *)
(***************************************************************************)
EXTENDS Integers, Sequences, FiniteSets

\* The field is GF(2)[x] modulo x^9 + x^4 + 1, of which x is a generator.
ExtensionDegree == 9
Size == 2^ExtensionDegree
Modulus == Size + 2^4 + 1
Order == Size - 1

zero == 0
one == 1
xFE == 2

Field == 0 .. Size - 1

isBit(e, i) == (e \div 2^i) % 2 = 1

bit(b) == IF b THEN one ELSE zero

\* The bits shift .. shift + n - 1 of an element, as an integer.
mapFieldElementToInteger(shift, n, e) == (e \div 2^shift) % 2^n

mapIntegerToFieldElement(shift, n, k) == (k % 2^n) * 2^shift
=============================================================================
