---------------------------- MODULE FieldOperations ----------------------------
(***************************************************************************)
(* The operations of the field, which module BinaryField gives, and sums   *)
(* and products of several elements.                                       *)
(***************************************************************************)
EXTENDS FieldElement

CONSTANTS
    _ (+) _,
    _ (.) _,
    inverse(_),
    power(_, _),
    xPower(_)       \* x^n, for n of either sign

\* The sum of f[lo] .. f[hi].
FieldSum(f, lo, hi) ==
    LET upTo[k \in lo - 1 .. hi] == IF k < lo THEN zero ELSE upTo[k - 1] (+) f[k]
    IN upTo[hi]

\* The product of f[lo] .. f[hi].
FieldProduct(f, lo, hi) ==
    LET upTo[k \in lo - 1 .. hi] == IF k < lo THEN one ELSE upTo[k - 1] (.) f[k]
    IN upTo[hi]
=============================================================================
