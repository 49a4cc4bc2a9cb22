------------------------------ MODULE Instructions ------------------------------
(***************************************************************************)
(* One instruction of the arithmetic unit, on a protoboard that an earlier *)
(* instruction has left with some result, some flag and auxiliary          *)
(* variables in use.                                                       *)
(***************************************************************************)
EXTENDS ALU

VARIABLES
    op,         \* the opcode
    in,         \* inputs_: the arguments, the flag, and the word in memory
    pb,         \* the protoboard
    executed    \* generateWitness has run

vars == <<op, in, pb, executed>>

Init ==
    /\ op \in Opcodes
    /\ in \in [arg1 : Word, arg2 : Word, dest : {11}, loaded : {6},
               flag : {zero, one}]
    /\ pb = [pbInit EXCEPT !.result = in.arg1, !.flag = in.flag, !.value = one,
                           !.aux1 = [i \in Slots |-> xFE], !.pInverse = xFE]
    /\ executed = FALSE

Execute ==
    /\ ~executed
    /\ pb' = generateWitness(op, in, pb)
    /\ executed' = TRUE
    /\ UNCHANGED <<op, in>>

Next == Execute

Spec == Init /\ [][Next]_vars
-----------------------------------------------------------------------------
\* A witness that satisfies the constraints collected under the opcode.
Satisfied == constraints(op, in, pb) \subseteq {zero}

\* Whatever the opcode, the words and what the protoboard held before,
\* generateWitness computes the result and the flag of the instruction (the
\* reference is integer arithmetic), and the field elements it leaves in the
\* auxiliary variables satisfy the constraints of the opcode: the
\* multiplications in the exponent of x, the carries, the comparison from the
\* top bit down, the shifts by the bits of the argument.  Left out are UMOD's
\* result, a division with a remainder (see AluDivides), a NOT that sets the
\* flag, which CMPE's constraint binds too, and the ROM past its end.
AluComputes ==
    executed =>
        LET expected == Instruction(op, in.arg1, in.arg2, in.flag)
        IN /\ op \notin NoResult \cup {"UMOD"} => pb.result = expected[1]
           /\ pb.flag = expected[2]
           /\ \/ Satisfied
              \/ op = "ROM" /\ in.arg2 >= ROMSIZE
              \/ op = "UDIV" /\ in.arg2 # 0 /\ in.arg1 % in.arg2 # 0
              \/ op = "NOT" /\ pb.flag = one

\* UDIV gives the quotient and UMOD the remainder, and the honest witness
\* satisfies the constraints of the opcode, "dividor!=0 -> res*divisor +
\* remainder == arg1" among them.
AluDivides ==
    executed /\ component(op) = "UDIV" =>
        /\ pb.result = Instruction(op, in.arg1, in.arg2, in.flag)[1]
        /\ Satisfied
=============================================================================
