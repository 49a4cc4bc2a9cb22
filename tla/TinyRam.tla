-------------------------------- MODULE TinyRam --------------------------------
(***************************************************************************)
(* From a TinyRAM program to an accepted execution trace (cs2Bair): the    *)
(* constraint system is built, the transition function writes one row for  *)
(* each machine step, the memory accesses are sorted into a permutation of *)
(* the rows and get a witness of their own in the auxiliary variables of   *)
(* the rows, and BairWitnessChecker decides.                               *)
(*                                                                         *)
(* GADGETLIB_ASSERT and GADGETLIB_FATAL end the process: phase "aborted".  *)
(***************************************************************************)
EXTENDS ALU

CONSTANTS
    Programs,       \* functions from 0 .. n - 1 to instructions
    NumRegisters,
    TranscriptLen   \* rows of the trace, 2^t - 1

VARIABLES
    code,           \* the program
    phase,
    first,          \* followingTraceVariable_.first_
    pb,             \* the other variables of the protoboard
    memory,         \* memory_, from the addresses that have been stored
    memoryTrace,    \* a MemoryInfo for each row
    table,          \* traceAssignmentTable_
    permutation,    \* memoryPermutation_
    position,       \* the loop counter of generateMemoryWitness
    accepted        \* the checker's decision

vars == <<code, phase, first, pb, memory, memoryTrace, table, permutation,
          position, accepted>>

Registers == 0 .. NumRegisters - 1
Lines == DOMAIN code
Rows == 0 .. TranscriptLen - 1

pcLength ==
    CHOOSE k \in 1 .. registerLength :
        /\ Cardinality(Lines) <= 2^k
        /\ k > 1 => 2^(k - 1) < Cardinality(Lines)

Jumps == {"JMP", "CJMP", "CNJMP"}
MemoryOps == {"STOREW", "LOADW"}

\* The opcodes whose result goes to the destination register.
ToRegister ==
    {"ADD", "SUB", "AND", "OR", "XOR", "MOV", "SHL", "SHR", "MULL", "ROM"}

KeepsRegisters ==
    Jumps \cup {"CMPE", "CMPA", "CMPAE", "CMPG", "CMPGE", "STOREW", "ANSWER"}

doesProgramUsesMemory == \E i \in Lines : code[i].op \in MemoryOps

initInitialVars ==
    [flag |-> zero, timeStamp |-> one, pc |-> 0,
     registers |-> [r \in Registers |-> zero]]

Init ==
    /\ code \in Programs
    /\ phase = "constraints"
    /\ first = initInitialVars
    /\ pb = pbInit
    /\ memory = <<>>
    /\ memoryTrace = <<>>
    /\ table = <<>>
    /\ permutation = <<>>
    /\ position = 0
    /\ accepted = FALSE

\* registerConsistency has no constraint for the other opcodes.
generateConstraints ==
    /\ phase = "constraints"
    /\ phase' = IF \A i \in Lines :
                       code[i].op \in ToRegister \cup KeepsRegisters \cup {"LOADW"}
                THEN "rows" ELSE "aborted"
    /\ UNCHANGED <<code, first, pb, memory, memoryTrace, table, permutation,
                   position, accepted>>
-----------------------------------------------------------------------------
(***************************************************************************)
(* Rows.                                                                   *)
(***************************************************************************)

\* ALUInputConsistency's witness, with the word the memory has for a load.
aluInput(l) ==
    LET arg2 == IF l.immediate
                THEN mapIntegerToFieldElement(0, registerLength, l.arg2)
                ELSE first.registers[l.arg2]
    IN [arg1 |-> first.registers[l.arg1], arg2 |-> arg2,
        dest |-> first.registers[l.dest], flag |-> first.flag,
        loaded |-> IF arg2 \in DOMAIN memory THEN memory[arg2] ELSE zero]

\* Both targets lose the bits that the program counter does not have.
nextPC(l, in) ==
    LET target == mapFieldElementToInteger(0, pcLength, in.arg2)
        next == mapFieldElementToInteger(0, pcLength, first.pc + 1)
    IN CASE l.op = "JMP" -> target
         [] l.op = "CJMP" -> IF first.flag = one THEN target ELSE next
         [] l.op = "CNJMP" -> IF first.flag = zero THEN target ELSE next
         [] l.op = "ANSWER" -> first.pc
         [] OTHER -> next

registersWitness(l, after) ==
    [first.registers EXCEPT
        ![l.dest] = CASE l.op \in ToRegister -> after.result
                      [] l.op = "LOADW" -> after.value
                      [] OTHER -> @]

\* The assertions on the way: the line exists, the loaded word exists, and
\* registersWitness knows the opcode.
witnessFails(l, in) ==
    \/ l.op = "LOADW" /\ in.arg2 \notin DOMAIN memory
    \/ l.op = "CMPGE"

\* addMemoryInfo at the end of a step; updateTimestamp is given the degree.
memoryInfo(l, in, i) ==
    IF l.op \in MemoryOps
    THEN [serial |-> i, isMemOp |-> TRUE, degree |-> log(first.timeStamp),
          address |-> in.arg2]
    ELSE [serial |-> i, isMemOp |-> FALSE, degree |-> -1, address |-> zero]

\* TransitionFunction::generateWitness, the row it completes, and
\* copyTraceOutputValuesToTraceInput.
generateRow ==
    /\ phase = "rows"
    /\ Len(table) < TranscriptLen
    /\ IF first.pc \notin Lines \/ witnessFails(code[first.pc],
                                                aluInput(code[first.pc]))
       THEN /\ phase' = "aborted"
            /\ UNCHANGED <<first, pb, memory, memoryTrace, table>>
       ELSE LET l == code[first.pc]
                in == aluInput(l)
                after == generateWitness(l.op, in, pb)
            IN /\ pb' = after
               /\ memory' = IF l.op = "STOREW"
                            THEN [a \in DOMAIN memory \cup {in.arg2} |->
                                    IF a = in.arg2 THEN in.dest ELSE memory[a]]
                            ELSE memory
               /\ memoryTrace' = Append(memoryTrace, memoryInfo(l, in, Len(table)))
               /\ table' = Append(table, [first |-> first, in |-> in, pb |-> after])
               /\ first' = [flag |-> after.flag, pc |-> nextPC(l, in),
                            timeStamp |-> first.timeStamp (.) xFE,
                            registers |-> registersWitness(l, after)]
               /\ UNCHANGED phase
    /\ UNCHANGED <<code, permutation, position, accepted>>
-----------------------------------------------------------------------------
(***************************************************************************)
(* The memory.                                                             *)
(***************************************************************************)

\* Mutant: the accesses to one address are not sorted by time.
mutantSortMemoryInfo(a, b) ==
    IF a.isMemOp /\ b.isMemOp /\ a.address # b.address
    THEN a.address < b.address
    ELSE IF a.isMemOp = b.isMemOp THEN a.serial > b.serial ELSE a.isMemOp

\* Accesses first, by address and then by time; other rows in their order.
sortMemoryInfo(a, b) ==
    CASE a.isMemOp # b.isMemOp -> a.isMemOp
      [] ~a.isMemOp /\ ~b.isMemOp -> a.serial < b.serial
      [] OTHER -> \/ a.address < b.address
                  \/ a.address = b.address /\ a.degree < b.degree

beginMemoryWitness ==
    /\ phase = "rows"
    /\ Len(table) = TranscriptLen
    /\ memoryTrace' =
         [k \in 1 .. TranscriptLen |->
             memoryTrace[CHOOSE i \in 1 .. TranscriptLen :
                 Cardinality({j \in 1 .. TranscriptLen :
                     sortMemoryInfo(memoryTrace[j], memoryTrace[i])}) = k - 1]]
    /\ permutation' = [i \in Rows |-> -1]
    /\ phase' = "memory"
    /\ UNCHANGED <<code, first, pb, memory, table, position, accepted>>

\* The partial products of the packing of a timestamp's degree.
timestampPartials(degree) ==
    LET prev == multPack(unpack(degree), registerLength, FALSE)
    IN [i \in Slots |-> IF i \in 1 .. last - 1 THEN prev[i] ELSE zero]

\* MemoryConstraints::generateWitness, into the variables of the first row.
memoryRow(row, next, a, b) ==
    LET u1 == unpack(a.address)
        u2 == unpack(b.address)
        d1 == log(row.first.timeStamp)
        d2 == log(next.first.timeStamp)
    IN [row EXCEPT
          !.pb.u1 = u1, !.pb.u2 = u2, !.pb.aux3 = greaterEqual(u2, u1, FALSE),
          !.pb.aux1 = unpack(d1), !.pb.aux5 = timestampPartials(d1),
          !.pb.aux2 = unpack(d2), !.pb.aux6 = timestampPartials(d2),
          !.pb.aux4 = greaterEqual(unpack(d2), unpack(d1), FALSE)]

\* What the row of the access that comes last in the order gets instead.
noMemoryRow(row) ==
    [row EXCEPT !.pb.u1 = zeros, !.pb.u2 = zeros, !.pb.aux1 = zeros,
                !.pb.aux2 = zeros, !.pb.aux3 = zeros, !.pb.aux4 = zeros,
                !.pb.aux5 = zeros, !.pb.aux6 = zeros]

\* The constraints between a row and the next one of the permutation.
memoryConstraintsOf(r, s) ==
    LET p == r.pb
        isMemOp == s.pb.isMemOp
        addressIsGEQ == p.aux3[0]
        timestampIsGEQ == p.aux4[0]
        same == addressIsGEQ (.) (one (+) addressIsGEQ)
        gadgets ==
            booleanity(p.u1, registerLength) \cup booleanity(p.u2, registerLength)
              \cup booleanity(p.aux1, registerLength)
              \cup booleanity(p.aux2, registerLength)
              \cup greaterEqualConstraints(p.u2, p.u1, p.aux3, FALSE)
              \cup multPackConstraints(p.aux1, p.aux5, r.first.timeStamp,
                                       registerLength, FALSE)
              \cup multPackConstraints(p.aux2, p.aux6, s.first.timeStamp,
                                       registerLength, FALSE)
              \cup greaterEqualConstraints(p.aux2, p.aux1, p.aux4, FALSE)
    IN {isMemOp (.) c : c \in gadgets}
         \cup {(p.isMemOp (+) one) (.) isMemOp,
               isMemOp (.) (xFE (+) addressIsGEQ) (.) (one (+) addressIsGEQ),
               isMemOp (.) same (.) s.pb.isLoadOp (.) (p.value (+) s.pb.value),
               isMemOp (.) same (.) (one (+) timestampIsGEQ)}

\* One iteration of the loop of generateMemoryWitness.
memoryWitness1 ==
    LET a == memoryTrace[position + 1]
        b == memoryTrace[((position + 1) % TranscriptLen) + 1]
        row == table[a.serial + 1]
        next == table[b.serial + 1]
        isLast == position + 1 = TranscriptLen
        new == IF isLast THEN noMemoryRow(row) ELSE memoryRow(row, next, a, b)
        writes == doesProgramUsesMemory /\ row.pb.isMemOp = one
    IN /\ phase = "memory"
       /\ position < TranscriptLen
       /\ permutation' = [permutation EXCEPT ![a.serial] = b.serial]
       /\ table' = IF writes THEN [table EXCEPT ![a.serial + 1] = new] ELSE table
       /\ phase' = IF /\ writes /\ ~isLast
                      /\ ~(memoryConstraintsOf(new, next) \subseteq {zero})
                   THEN "aborted" ELSE phase
       /\ position' = position + 1
       /\ UNCHANGED <<code, first, pb, memory, memoryTrace, accepted>>

finishMemoryWitness ==
    /\ phase = "memory"
    /\ position = TranscriptLen
    /\ phase' = "check"
    /\ UNCHANGED <<code, first, pb, memory, memoryTrace, table, permutation,
                   position, accepted>>
-----------------------------------------------------------------------------
(***************************************************************************)
(* The checker.                                                            *)
(***************************************************************************)

\* getSelectorVals: one for the line that the bits of the counter name.
selectorVal(row, i) ==
    FieldProduct([k \in 0 .. pcLength - 1 |->
                     IF isBit(i, k) THEN bit(isBit(row.first.pc, k))
                     ELSE one (+) bit(isBit(row.first.pc, k))], 0, pcLength - 1)

\* SelectorSum of one polynomial for each line.
SelectorSum(row, poly) ==
    FieldSum([i \in Lines |-> selectorVal(row, i) (.) poly[i]],
             0, Cardinality(Lines) - 1)

\* The counter is packed as a number; a jump compares it with the whole word.
pcConsistency(r, s) ==
    LET pc == s.first.pc
        next(i) == pc (+) mapIntegerToFieldElement(0, pcLength, i + 1)
        jump == pc (+) r.pb.result
        flag == r.first.flag
    IN SelectorSum(r, [i \in Lines |->
           CASE code[i].op = "JMP" -> jump
             [] code[i].op = "ANSWER" -> pc (+) r.first.pc
             [] code[i].op = "CJMP" ->
                  (flag (.) jump) (+) ((one (+) flag) (.) next(i))
             [] code[i].op = "CNJMP" ->
                  ((one (+) flag) (.) jump) (+) (flag (.) next(i))
             [] OTHER -> next(i)])

registerConsistency(r, s, reg) ==
    LET new == s.first.registers[reg]
    IN SelectorSum(r, [i \in Lines |->
           CASE code[i].dest = reg /\ code[i].op \in ToRegister -> new (+) r.pb.result
             [] code[i].dest = reg /\ code[i].op = "LOADW" -> new (+) r.pb.value
             [] OTHER -> new (+) r.first.registers[reg]])

\* ALUInputConsistency's constraints.
inputConsistency(r) ==
    LET registers == r.first.registers
    IN {SelectorSum(r, [i \in Lines |-> registers[code[i].arg1] (+) r.in.arg1]),
        SelectorSum(r, [i \in Lines |-> registers[code[i].dest] (+) r.in.dest]),
        SelectorSum(r, [i \in Lines |->
            r.in.arg2 (+)
              (IF code[i].immediate
               THEN mapIntegerToFieldElement(0, registerLength, code[i].arg2)
               ELSE registers[code[i].arg2])])}

\* The constraints between two rows; those of the arithmetic unit are the ones
\* of the selected line's opcode.
transitionConstraints(r, s) ==
    {s.first.timeStamp (+) (r.first.timeStamp (.) xFE), pcConsistency(r, s)}
      \cup {registerConsistency(r, s, reg) : reg \in Registers}
      \cup inputConsistency(r)
      \cup (IF r.first.pc \in Lines
            THEN constraints(code[r.first.pc].op, r.in,
                             [r.pb EXCEPT !.flag = s.first.flag])
            ELSE {})

isPermutation == {permutation[i] : i \in Rows} = Rows

boundary == [table[1].first EXCEPT !.registers = initInitialVars.registers]
              = initInitialVars

\* Neither kind of constraint is checked on the last row.
verify ==
    /\ phase = "check"
    /\ accepted' =
         /\ isPermutation
         /\ boundary
         /\ \A i \in 1 .. TranscriptLen - 1 :
               /\ transitionConstraints(table[i], table[i + 1]) \subseteq {zero}
               /\ doesProgramUsesMemory =>
                     memoryConstraintsOf(table[i], table[permutation[i - 1] + 1])
                       \subseteq {zero}
    /\ phase' = "done"
    /\ UNCHANGED <<code, first, pb, memory, memoryTrace, table, permutation, position>>

Next ==
    \/ generateConstraints \/ generateRow \/ beginMemoryWitness
    \/ memoryWitness1 \/ finishMemoryWitness \/ verify

Spec == Init /\ [][Next]_vars
-----------------------------------------------------------------------------
(***************************************************************************)
(* Properties.                                                             *)
(***************************************************************************)

op(i) == code[table[i].first.pc].op

taken(i) ==
    \/ op(i) = "JMP"
    \/ op(i) = "CJMP" /\ table[i].first.flag = one
    \/ op(i) = "CNJMP" /\ table[i].first.flag = zero

\* A machine step in integers: the row after row i.
Stepped(i) ==
    LET r == table[i]
        l == code[r.first.pc]
        a == r.first.registers[l.arg1]
        b == IF l.immediate THEN l.arg2 ELSE r.first.registers[l.arg2]
        stores == {j \in 1 .. i - 1 : op(j) = "STOREW" /\ table[j].in.arg2 = b}
        latest == CHOOSE j \in stores : \A k \in stores : k <= j
    IN [pc |-> CASE op(i) = "ANSWER" -> r.first.pc
                 [] taken(i) -> b
                 [] OTHER -> r.first.pc + 1,
        flag |-> Instruction(op(i), a, b, r.first.flag)[2],
        timeStamp |-> xPower(i),
        registers |-> [r.first.registers EXCEPT
            ![l.dest] = CASE op(i) \in ToRegister ->
                               Instruction(op(i), a, b, r.first.flag)[1]
                          [] op(i) = "LOADW" ->
                               table[latest].first.registers[code[table[latest].first.pc].dest]
                          [] OTHER -> @]]

InRange(i) == taken(i) => table[i].in.arg2 < 2^pcLength

\* The trace that cs2Bair writes is the execution of the program: every row
\* follows from the one before it by the instruction that the counter names, and
\* a load reads what was last stored.  No assertion fails in the memory part,
\* although it reuses the auxiliary variables of the rows.  The checker accepts
\* the trace exactly when no jump leaves the range of the counter and the last
\* row is also the last one of the memory order (as it is when the program has
\* stopped at ANSWER), because both skip one row, each its own.
TraceAccepted ==
    LET inRange == \A i \in 1 .. Len(table) - 1 : InRange(i)
    IN /\ inRange => \A i \in 1 .. Len(table) - 1 : table[i + 1].first = Stepped(i)
       /\ phase = "aborted" => position = 0
       /\ phase = "done" =>
             accepted = (/\ inRange
                         /\ doesProgramUsesMemory =>
                               memoryTrace[TranscriptLen].serial = TranscriptLen - 1)
=============================================================================
