---------------------------------- MODULE ALU ----------------------------------
(***************************************************************************)
(* The opcode gadgets of TinyRAM's arithmetic unit.  Each has a witness:   *)
(* the protoboard after its generateWitness, given the protoboard before   *)
(* it; and constraints: the values on the protoboard of the polynomials    *)
(* that its generateConstraints adds, under the opcode it names for each.  *)
(***************************************************************************)
EXTENDS Gadgets

Opcodes ==
    {"AND", "OR", "XOR", "NOT", "ADD", "SUB", "MULL", "UMULH", "SMULH", "UDIV",
     "UMOD", "SHL", "SHR", "CMPE", "CMPA", "CMPAE", "CMPG", "CMPGE", "MOV",
     "JMP", "CJMP", "CNJMP", "STOREW", "LOADW", "ROM", "ANSWER"}

\* createInternalComponents: the gadget that serves an opcode is its own, but
\* UMOD gets a second ALU_UDIV_Gadget; ALU_UMOD_Gadget is never created.
component(op) == IF op = "UMOD" THEN "UDIV" ELSE op

Comparisons == {"CMPA", "CMPAE", "CMPG", "CMPGE"}

\* The ROM of RESERVED_OPCODE_24: ROMSIZE pseudorandom words.
ROMSIZE == 3
romWord == <<9, 4, 14>>

\* The variables of the protoboard that the gadgets share, all zero at first.
pbInit ==
    [pInverse |-> zero, u1 |-> zeros, u2 |-> zeros, aux1 |-> zeros,
     aux2 |-> zeros, aux3 |-> zeros, aux4 |-> zeros, aux5 |-> zeros,
     aux6 |-> zeros, aux7 |-> zeros, result |-> zero, flag |-> zero,
     isMemOp |-> zero, isLoadOp |-> zero, value |-> zero, address |-> zero]

\* initGeneralOpcodes and initMemResult: everything but result and flag.
blank(pb) == [pbInit EXCEPT !.result = pb.result, !.flag = pb.flag]

\* The inverse of e, or what the gadget stores when there is none.
inverseOr(e, other) == IF e = zero THEN other ELSE inverse(e)

signed(w) == IF w >= 2^last THEN w - 2^registerLength ELSE w
-----------------------------------------------------------------------------
(***************************************************************************)
(* Witnesses.                                                              *)
(***************************************************************************)

Unpacked(in, pb) == [blank(pb) EXCEPT !.u1 = unpack(in.arg1), !.u2 = unpack(in.arg2)]

logicResult(op, in) ==
    LET u1 == unpack(in.arg1)
        u2 == unpack(in.arg2)
    IN CASE op = "XOR" -> in.arg1 (+) in.arg2
         [] op = "AND" -> pack([i \in Slots |-> u1[i] (.) u2[i]])
         [] op = "OR" ->
              pack([i \in Slots |-> one (+) ((one (+) u1[i]) (.) (one (+) u2[i]))])
         [] op = "NOT" -> pack([i \in Slots |-> one]) (+) in.arg1

logicWitness(op, in, pb) ==
    LET res == logicResult(op, in)
        start == IF op \in {"AND", "OR"} THEN Unpacked(in, pb) ELSE blank(pb)
    IN [start EXCEPT !.result = res, !.flag = bit(res = zero),
                     !.pInverse = inverseOr(res, one)]

addWitness(in, pb) ==
    LET u1 == unpack(in.arg1)
        u2 == unpack(in.arg2)
    IN [Unpacked(in, pb) EXCEPT
          !.aux1 = addResult(u1, u2), !.result = pack(addResult(u1, u2)),
          !.aux2 = [i \in Slots |->
                       IF i < registerLength THEN addCarry(u1, u2)[i] ELSE zero],
          !.flag = addCarry(u1, u2)[registerLength]]

\* Subtraction is checked as the addition arg2 + result = arg1.
subWitness(in, pb) ==
    LET res == (in.arg1 - in.arg2) % 2^registerLength
    IN [addWitness([in EXCEPT !.arg1 = in.arg2, !.arg2 = res], pb)
          EXCEPT !.result = res]

\* MULL, UMULH and SMULH differ in the half that is the result; the flag tells
\* whether the product overflows a word.  SMULH keeps the inverse of
\* result + allOnes in the unused first partial product.
mulWitness(op, in, pb) ==
    LET isSigned == op = "SMULH"
        u1 == unpack(in.arg1)
        u2 == unpack(in.arg2)
        v == IF isSigned THEN signed(in.arg1) * signed(in.arg2)
             ELSE in.arg1 * in.arg2
        low == v % 2^registerLength
        high == (v \div 2^registerLength) % 2^registerLength
        allOnes == 2^registerLength - 1
        d == dmultPartials(unpack(low), unpack(high))
    IN [Unpacked(in, pb) EXCEPT
          !.aux1 = [multPartials1(u1, isSigned) EXCEPT
                       ![0] = IF op = "MULL" THEN high ELSE @],
          !.aux2 = multPartials2(u1, u2, isSigned),
          !.aux3 = unpack(low), !.aux4 = unpack(high),
          !.aux5 = [d[1] EXCEPT ![0] = IF isSigned
                                       THEN inverseOr(high (+) allOnes, zero)
                                       ELSE @],
          !.aux6 = d[2],
          !.result = IF op = "MULL" THEN low ELSE high,
          !.pInverse = inverseOr(high, zero),
          !.flag = bit(high # zero /\ (isSigned => high # allOnes))]

\* The quotient is in aux3, the remainder in aux5; both are 0 for divisor 0.
divWitness(in, pb) ==
    LET divisor == unpack(in.arg2)
        quotient == IF in.arg2 = 0 THEN 0 ELSE in.arg1 \div in.arg2
        rem == IF in.arg2 = 0 THEN 0 ELSE in.arg1 % in.arg2
        packed(w) == LET prev == multPack(unpack(w), registerLength, FALSE)
                     IN [i \in Slots |-> IF i \in 1 .. last THEN prev[i] ELSE zero]
    IN [Unpacked(in, pb) EXCEPT
          !.aux1 = multPartials1(divisor, FALSE),
          !.aux2 = multPartials2(divisor, unpack(quotient), FALSE),
          !.aux3 = unpack(quotient), !.aux4 = packed(in.arg1),
          !.aux5 = unpack(rem), !.aux6 = packed(rem),
          !.aux7 = greaterEqual(divisor, unpack(rem), FALSE),
          !.result = quotient,
          !.pInverse = inverseOr(in.arg2, zero),
          !.flag = bit(in.arg2 = 0)]

cmpeWitness(in, pb) ==
    [blank(pb) EXCEPT !.flag = bit(in.arg1 = in.arg2), !.result = zero,
                      !.pInverse = inverseOr(in.arg1 (+) in.arg2, one)]

\* isGEQ is x when the words are equal.
compareWitness(op, in, pb) ==
    LET flags == greaterEqual(unpack(in.arg1), unpack(in.arg2),
                              op \in {"CMPG", "CMPGE"})
    IN [Unpacked(in, pb) EXCEPT
          !.aux2 = flags, !.result = zero,
          !.flag = bit(\/ flags[0] = one
                       \/ flags[0] = xFE /\ op \in {"CMPAE", "CMPGE"})]

\* Mutant: a shift by the whole word length, or more, shifts modulo it.
mutantDoubleRes(op, in) ==
    LET n == in.arg2 % 2^registerLogLen
    IN in.arg1 * 2^(IF op = "SHL" THEN n ELSE registerLength - n)

\* The double word of which SHL takes the low and SHR the high half.
doubleRes(op, in) ==
    IF in.arg2 >= registerLength THEN 0
    ELSE in.arg1 * 2^(IF op = "SHL" THEN in.arg2 ELSE registerLength - in.arg2)

\* aux1 holds the low bits of the shift, a witness for each that it is clear in
\* the rest (rem), and in its last elements the flag's witness, the inverse of
\* rem, rem and the double word.
shiftWitness(op, in, pb) ==
    LET rem == in.arg2 - (in.arg2 % 2^registerLogLen)
        flagBit == IF op = "SHL" THEN last ELSE 0
        toggled == in.arg1 - (IF isBit(in.arg1, flagBit) THEN 2^flagBit ELSE 0)
        double == doubleRes(op, in)
        halves == doubleUnpack(double)
    IN [blank(pb) EXCEPT
          !.aux1 = [i \in Slots |->
                      CASE i < registerLogLen -> bit(isBit(in.arg2, i))
                        [] i \in registerLogLen .. 2 * registerLogLen - 1 ->
                             extractBit(rem, i - registerLogLen)
                        [] i = auxLength - 4 -> extractBit(toggled, flagBit)
                        [] i = auxLength - 3 -> inverseOr(rem, zero)
                        [] i = auxLength - 2 -> rem
                        [] i = auxLength - 1 -> double],
          !.u1 = halves[1], !.u2 = halves[2],
          !.result = pack(halves[IF op = "SHL" THEN 1 ELSE 2]),
          !.flag = bit(isBit(in.arg1, flagBit))]

\* MOV and the jumps hand the argument through; the flag is kept.
moveWitness(in, pb) == [blank(pb) EXCEPT !.flag = in.flag, !.result = in.arg2]

\* A store of dest, or a load of the word the memory holds.
memoryWitness(op, in, pb) ==
    [blank(pb) EXCEPT !.isMemOp = one, !.isLoadOp = bit(op = "LOADW"),
                      !.value = IF op = "LOADW" THEN in.loaded ELSE in.dest,
                      !.address = in.arg2, !.flag = in.flag]

\* The flag is not written.
romWitness(in, pb) ==
    [blank(pb) EXCEPT
        !.u1 = unpack(in.arg2),
        !.result = romWord[IF in.arg2 < ROMSIZE THEN in.arg2 + 1 ELSE 1]]

\* ALU_Gadget's dispatch; ANSWER writes neither result nor flag.
generateWitness(op, in, pb) ==
    CASE op \in {"XOR", "AND", "OR", "NOT"} -> logicWitness(op, in, pb)
      [] op = "ADD" -> addWitness(in, pb)
      [] op = "SUB" -> subWitness(in, pb)
      [] op \in {"MULL", "UMULH", "SMULH"} -> mulWitness(op, in, pb)
      [] component(op) = "UDIV" -> divWitness(in, pb)
      [] op = "CMPE" -> cmpeWitness(in, pb)
      [] op \in Comparisons -> compareWitness(op, in, pb)
      [] op \in {"SHL", "SHR"} -> shiftWitness(op, in, pb)
      [] op \in {"MOV", "JMP", "CJMP", "CNJMP"} -> moveWitness(in, pb)
      [] op \in {"STOREW", "LOADW"} -> memoryWitness(op, in, pb)
      [] op = "ROM" -> romWitness(in, pb)
      [] op = "ANSWER" -> blank(pb)
-----------------------------------------------------------------------------
(***************************************************************************)
(* Constraints.                                                            *)
(***************************************************************************)

\* result = 0 exactly when the flag is set.
zeroFlag(pb) ==
    {pb.result (.) pb.flag, (pb.result (.) pb.pInverse) (+) one (+) pb.flag}

logicConstraints(op, in, pb) ==
    LET term(i) ==
            CASE op = "AND" -> pb.u1[i] (.) pb.u2[i]
              [] op = "OR" -> one (+) ((one (+) pb.u1[i]) (.) (one (+) pb.u2[i]))
              [] op = "NOT" -> one
              [] op = "XOR" -> zero
        arg == CASE op = "NOT" -> in.arg1
                 [] op = "XOR" -> in.arg1 (+) in.arg2
                 [] OTHER -> zero
    IN {pack([i \in Slots |-> term(i)]) (+) arg (+) pb.result}
         \cup zeroFlag(pb) \cup {pb.isMemOp}

addConstraints(op, in, pb) ==
    additionConstraints(pb.u1, pb.u2, pb.aux1, pb.aux2, pb.flag)
      \cup packing(pb.aux1, IF op = "ADD" THEN pb.result ELSE in.arg1)
      \cup (IF op = "SUB" THEN {pb.isMemOp} ELSE {})

mulConstraints(op, in, pb) ==
    LET isSigned == op = "SMULH"
        high == IF op = "MULL" THEN pb.aux1[0] ELSE pb.result
        negated == pb.result (+) (2^registerLength - 1)
        inv == high (.) pb.pInverse
        invNegative == negated (.) pb.aux5[0]
    IN multConstraints(pb.u1, pb.u2, pb.aux1, pb.aux2, isSigned)
         \cup booleanity(pb.aux3, registerLength)
         \cup booleanity(pb.aux4, registerLength)
         \cup dmultConstraints(pb.aux3, pb.aux4, pb.aux5, pb.aux6, pb.aux2[0],
                               isSigned)
         \cup (IF op = "MULL" THEN packing(pb.aux4, pb.aux1[0]) ELSE {})
         \cup {high (.) (inv (+) one)}
         \cup (IF isSigned
               THEN {negated (.) (invNegative (+) one),
                     pb.flag (+) inv (+) invNegative (+) one}
               ELSE {pb.flag (+) inv})
         \cup {pb.isMemOp}

\* The division's equation: x^(divisor * quotient) against the product of
\* x^arg1 and x^remainder.
divisionEquation(in, pb) ==
    (in.arg2 (.) (pb.aux2[0] (+) (pb.aux4[last] (.) pb.aux6[last])))
      (+) (((in.arg2 (.) pb.pInverse) (+) one) (.) pb.result)

\* ALU_UDIV_Gadget under UDIV.  The comparison of divisor and remainder adds no
\* constraint of its own: GEQ_g_ only has its witness generated.
divConstraints(in, pb) ==
    multConstraints(pb.u2, pb.aux3, pb.aux1, pb.aux2, FALSE)
      \cup booleanity(pb.aux3, registerLength)
      \cup multPackConstraints(pb.u1, pb.aux4, pb.aux4[last], registerLength, FALSE)
      \cup multPackConstraints(pb.aux5, pb.aux6, pb.aux6[last], registerLength, FALSE)
      \cup {divisionEquation(in, pb),
            in.arg2 (.) ((in.arg2 (.) pb.pInverse) (+) one),
            in.arg2 (.) (pb.aux7[0] (+) one),
            pb.flag (+) (in.arg2 (.) pb.pInverse) (+) one,
            pb.isMemOp}

cmpeConstraints(in, pb) ==
    {((in.arg1 (+) in.arg2) (.) pb.pInverse) (+) one (+) pb.flag, pb.isMemOp}

compareConstraints(op, in, pb) ==
    LET isGEQ == pb.aux2[0]
        inv1 == inverse(one (+) xFE)
        strict == isGEQ (.) (isGEQ (+) xFE) (.) inv1
        equal == isGEQ (.) (isGEQ (+) one) (.) inverse(xFE) (.) inv1
    IN greaterEqualConstraints(pb.u1, pb.u2, pb.aux2, op \in {"CMPG", "CMPGE"})
         \cup {pb.flag (+) strict
                 (+) (IF op \in {"CMPAE", "CMPGE"} THEN equal ELSE zero),
               pb.isMemOp}

shiftConstraints(op, in, pb) ==
    LET wFlag == pb.aux1[auxLength - 4]
        invRem == pb.aux1[auxLength - 3]
        rem == pb.aux1[auxLength - 2]
        base == IF op = "SHL" THEN xFE ELSE inverse(xFE)
        flagBit == IF op = "SHL" THEN last ELSE 0
        low == 0 .. registerLogLen - 1
        \* shifts by 2^i when bit i of the argument is set
        byBit(i) == one (+) pb.aux1[i] (+) (pb.aux1[i] (.) power(base, 2^i))
        start == IF op = "SHL" THEN in.arg1
                 ELSE xPower(registerLength) (.) in.arg1
        keep == (rem (.) invRem) (+) one
        shifted == start (.) FieldProduct([i \in low |-> byBit(i)], 0,
                                          registerLogLen - 1)
    IN booleanity(pb.aux1, registerLogLen)
         \cup {extraction(pb.aux1[i + registerLogLen], i) (+) rem : i \in low}
         \cup {FieldSum([i \in low |-> xPower(i) (.) pb.aux1[i]], 0,
                        registerLogLen - 1) (+) rem (+) in.arg2,
               extraction(wFlag, flagBit) (+) in.arg1
                 (+) (xPower(flagBit) (.) pb.flag),
               pb.flag (.) (pb.flag (+) one),
               (shifted (.) keep) (+) pb.aux1[auxLength - 1],
               rem (.) keep,
               pb.isMemOp}
         \cup packing(IF op = "SHL" THEN pb.u1 ELSE pb.u2, pb.result)
         \cup {FieldSum([i \in 0 .. 2 * registerLength - 1 |->
                           xPower(i) (.) concat(pb.u1, pb.u2)[i]],
                        0, 2 * registerLength - 1) (+) pb.aux1[auxLength - 1]}

moveConstraints(in, pb) == {pb.flag (+) in.flag, pb.result (+) in.arg2}

memoryConstraints(op, in, pb) ==
    {pb.isMemOp (+) one, pb.isLoadOp (+) bit(op = "LOADW"), pb.flag (+) in.flag}
      \cup (IF op = "STOREW" THEN {pb.value (+) in.dest} ELSE {})

\* Each ROM word is selected by the low bits of the argument.
romConstraints(in, pb) ==
    LET bits == {k \in 0 .. registerLength - 1 : 2^k < ROMSIZE}
        selected(i) == \A k \in bits : pb.u1[k] = bit(isBit(i, k))
    IN {FieldSum([i \in 0 .. ROMSIZE - 1 |->
                     IF selected(i) THEN pb.result (+) romWord[i + 1] ELSE zero],
                 0, ROMSIZE - 1)}

\* What a gadget adds under the opcode of another one: CMPE's "flag * (arg1_val
\* + arg2_val)= 0" is under NOT, the booleanity of UDIV's remainder under UMOD,
\* which has nothing else.  (ADD's "isMemOp = 0" is under SUB, which has its own.)
strayConstraints(op, in, pb) ==
    CASE op = "NOT" -> {(in.arg1 (+) in.arg2) (.) pb.flag}
      [] op = "UMOD" -> booleanity(pb.aux5, registerLength)
      [] OTHER -> {}

\* With the booleanity of the unpacked arguments, which ALU_Gadget adds.
constraints(op, in, pb) ==
    booleanity(pb.u1, registerLength) \cup booleanity(pb.u2, registerLength)
      \cup strayConstraints(op, in, pb)
      \cup CASE op \in {"XOR", "AND", "OR", "NOT"} -> logicConstraints(op, in, pb)
             [] op \in {"ADD", "SUB"} -> addConstraints(op, in, pb)
             [] op \in {"MULL", "UMULH", "SMULH"} -> mulConstraints(op, in, pb)
             [] op = "UDIV" -> divConstraints(in, pb)
             [] op = "CMPE" -> cmpeConstraints(in, pb)
             [] op \in Comparisons -> compareConstraints(op, in, pb)
             [] op \in {"SHL", "SHR"} -> shiftConstraints(op, in, pb)
             [] op \in {"MOV", "JMP", "CJMP", "CNJMP"} -> moveConstraints(in, pb)
             [] op \in {"STOREW", "LOADW"} -> memoryConstraints(op, in, pb)
             [] op = "ROM" -> romConstraints(in, pb)
             [] op \in {"UMOD", "ANSWER"} -> {}
-----------------------------------------------------------------------------
(***************************************************************************)
(* The reference: the result and the flag of an instruction, in integers.  *)
(* Stores, loads and ANSWER have no result.                                *)
(***************************************************************************)
BitByBit(f(_, _), a, b) ==
    LET value[k \in 0 .. registerLength] ==
            IF k = 0 THEN 0
            ELSE value[k - 1] + (IF f(isBit(a, k - 1), isBit(b, k - 1))
                                 THEN 2^(k - 1) ELSE 0)
    IN value[registerLength]

NoResult == {"STOREW", "LOADW", "ANSWER"}

Instruction(op, a, b, flagBefore) ==
    LET m == 2^registerLength
        logic(r) == <<r, bit(r = 0)>>
        compared(f) == <<zero, bit(f)>>
        product == signed(a) * signed(b)
    IN CASE op = "AND" -> logic(BitByBit(LAMBDA p, q : p /\ q, a, b))
         [] op = "OR" -> logic(BitByBit(LAMBDA p, q : p \/ q, a, b))
         [] op = "XOR" -> logic(BitByBit(LAMBDA p, q : p # q, a, b))
         [] op = "NOT" -> logic(m - 1 - a)
         [] op = "ADD" -> <<(a + b) % m, bit(a + b >= m)>>
         [] op = "SUB" -> <<(a - b) % m, bit(a < b)>>
         [] op = "MULL" -> <<(a * b) % m, bit(a * b >= m)>>
         [] op = "UMULH" -> <<(a * b) \div m, bit(a * b >= m)>>
         [] op = "SMULH" ->
              <<(product \div m) % m, bit(product \notin -m .. m - 1)>>
         [] op = "UDIV" -> <<IF b = 0 THEN 0 ELSE a \div b, bit(b = 0)>>
         [] op = "UMOD" -> <<IF b = 0 THEN 0 ELSE a % b, bit(b = 0)>>
         [] op = "SHL" -> <<(a * 2^b) % m, bit(a >= m \div 2)>>
         [] op = "SHR" -> <<a \div 2^b, bit(a % 2 = 1)>>
         [] op = "CMPE" -> compared(a = b)
         [] op = "CMPA" -> compared(a > b)
         [] op = "CMPAE" -> compared(a >= b)
         [] op = "CMPG" -> compared(signed(a) > signed(b))
         [] op = "CMPGE" -> compared(signed(a) >= signed(b))
         [] op = "ROM" ->
              <<romWord[IF b < ROMSIZE THEN b + 1 ELSE 1], flagBefore>>
         [] OTHER -> <<b, flagBefore>>
=============================================================================
