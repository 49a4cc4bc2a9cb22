----------------------------- MODULE DpmRegisters -----------------------------
(***************************************************************************)
(* The elements and the registers of the AES160 hash of stark-dpm.         *)
(*                                                                         *)
(* The program works in GF(2^64).  The images of the AES bytes             *)
(* (consts::Transformator) are its subfield of 256 elements, over which    *)
(* 1, x, ..., x^7 is a basis: an element is the sequence of its eight      *)
(* coefficients, each the byte of AES it is the image of.                  *)
(***************************************************************************)
EXTENDS Integers, Sequences, TLC

byte(b) == <<b, 0, 0, 0, 0, 0, 0, 0>>
isByte(e) == \A i \in 2 .. 8 : e[i] = 0

zero == byte(0)
one == byte(1)
xFE == <<0, 1, 0, 0, 0, 0, 0, 0>>
xFESquare == <<0, 0, 1, 0, 0, 0, 0, 0>>
xFEAndOne == <<1, 1, 0, 0, 0, 0, 0, 0>>

\* The member of a singleton.  An operand that is bound as the member of a
\* singleton is evaluated once, and not at each of its uses.
only(S) == CHOOSE e \in S : TRUE
-----------------------------------------------------------------------------
(* The registers of a row, numbered as in reg::RegType.                     *)

Matrix == (0 .. 3) \X (0 .. 4)
Breg(i, j) == 5 * i + j
Kreg(i, j) == 20 + 5 * i + j
B00 == 0
B20 == 10
K00 == 20
inv1 == 40
inv5 == 44
W11 == 45
W51 == 57
W53 == 59
FLAG1 == 60
FLAG2 == 61
RC == 62
invRC == 63
A == 64
B == 65
C == 66
STATEreg == 67
K == 68
MATCH == 69
isSecondPhaseComparingLOCI == 70
PartialMATCH == 71
PHASE == 72
L1 == 73
L4 == 76
L6 == 78
ST2 == 79
ST3 == 80
NUMREGS == 81

Flags == << <<zero, zero>>, <<zero, one>>, <<one, zero>>, <<one, one>>, <<xFE, zero>> >>
setFlags(f) == FLAG1 :> f[1] @@ FLAG2 :> f[2]
=============================================================================
