--------------------------------- MODULE Element ---------------------------------
(***************************************************************************)
(* FFF::Element: the field of 2^64 elements that the STARK library         *)
(* computes in: its inverse, by the extended Euclidean algorithm and by    *)
(* exponentiation.  Words have 64 bits, and 128 for the two cells of egcd. *)
(* One step is one iteration of a loop.                                    *)
(***************************************************************************)
EXTENDS Words, Sequences

CONSTANT Operands       \* elements whose inverse is computed

VARIABLES
    operand,            \* the argument of c_inv
    u, v, g1, g2,       \* the locals of egcd
    result,             \* what c_inv returned, or <<>>
    exp, base, power    \* the locals of c_exp, called with 2^64 - 2

vars == <<operand, u, v, g1, g2, result, exp, base, power>>

-----------------------------------------------------------------------------
c_inv(a) ==
    /\ operand = a
    /\ u = a
    /\ v = generateOrdElement \cup {ord}
    /\ g1 = unit
    /\ g2 = {}
    /\ result = <<>>
    /\ exp = Cell \ {0}
    /\ base = a
    /\ power = unit

\* Mutant: the cofactors stay when u and v change places.
mutantSwapped == [u |-> v, v |-> u, g1 |-> g1, g2 |-> g2]

swapped == [u |-> v, v |-> u, g1 |-> g2, g2 |-> g1]

egcdLoop ==
    /\ result = <<>> /\ u # unit
    /\ LET lower == deg(u) < deg(v)
           w == IF lower THEN swapped ELSE [u |-> u, v |-> v, g1 |-> g1, g2 |-> g2]
           i == IF lower THEN deg(v) - deg(u) ELSE deg(u) - deg(v)
       IN /\ u' = xor(w.u, left_shift(w.v, i, 2 * ord))
          /\ v' = w.v
          /\ g1' = xor(w.g1, left_shift(w.g2, i, 2 * ord))
          /\ g2' = w.g2
    /\ UNCHANGED <<operand, result, exp, base, power>>

\* The low cell of g1 is returned.
egcdReturn ==
    /\ result = <<>> /\ u = unit
    /\ result' = <<g1 \cap Cell>>
    /\ UNCHANGED <<operand, u, v, g1, g2, exp, base, power>>

\* An iteration of c_exp, called with the same operand.
c_exp ==
    /\ result # <<>> /\ exp # {}
    /\ power' = IF 0 \in exp THEN c_mul(power, base) ELSE power
    /\ base' = c_sqr(base)
    /\ exp' = {i - 1 : i \in exp \ {0}}
    /\ UNCHANGED <<operand, u, v, g1, g2, result>>

Init == \E a \in Operands : c_inv(a)

Next == egcdLoop \/ egcdReturn \/ c_exp

Spec == Init /\ [][Next]_vars
-----------------------------------------------------------------------------
(***************************************************************************)
(* Every iteration of egcd keeps u and v equal to the operand times g1 and *)
(* g2, modulo the field's polynomial, without losing a bit of g1 in the    *)
(* shifts; what it returns is the inverse, the one that c_exp computes by  *)
(* raising to 2^64 - 2.  The table-driven reduction of c_mul, with the     *)
(* bits that its shifts drop, agrees with naiveMul's bit by bit one on     *)
(* every product on the way; do_FFT_step by the inverse uses that product. *)
(***************************************************************************)
ElementRight ==
    /\ result = <<>> =>
         /\ g1 \subseteq Cell
         /\ c_mul(operand, g1) = xor(u, IF ord \in u THEN irr_poly_index ELSE {})
         /\ naiveMul(operand, g1) = c_mul(operand, g1)
         /\ g2 \subseteq Cell =>
              c_mul(operand, g2) = xor(v, IF ord \in v THEN irr_poly_index ELSE {})
    /\ result # <<>> /\ exp = {} =>
         /\ c_mul(operand, result[1]) = unit
         /\ power = result[1]
         /\ do_FFT_step(result[1], operand, unit) = [a |-> operand, b |-> {}]
=============================================================================
