------------------------------ MODULE MCCrypto ------------------------------
(***************************************************************************)
(* Instances of the modules of the two crypto libraries, libSTARK and      *)
(* SWIFFTX, and of the randomness beacon.  The modules do not interact: a  *)
(* behaviour belongs to one of them, the value of library.  The protocol,  *)
(* the commitments, the hash interface and the beacon have their own       *)
(* variables; the state of another module is in the first of the cells.    *)
(***************************************************************************)
EXTENDS StarkProtocol, MerkleCommitment, Haifa, Randao

VARIABLES library, cell1, cell2, cell3, cell4, cell5, cell6, cell7, cell8,
          cell9, cell10, cell11

cellsFrom10 == <<cell10, cell11>>
cellsFrom8 == <<cell8, cell9, cellsFrom10>>
cellsFrom5 == <<cell5, cell6, cell7, cellsFrom8>>
cells == <<cell1, cell2, cell3, cell4, cellsFrom5>>
vars == <<library, cells, protocolVars, merkleVars, hashVars, beaconVars>>
-----------------------------------------------------------------------------
\* The protocol: columns that fork at the first layer, at the second, and not at all, for
\* instances of one, two and three layers.
Columns == <<{{<<1>>}, {<<1>>, <<2>>}},
             {{<<1, 1>>, <<2, 1>>}, {<<1, 1>>, <<1, 2>>}},
             {{<<1, 1, 1>>, <<1, 2, 1>>}}>>

-----------------------------------------------------------------------------
F == INSTANCE BinaryField

Alu == INSTANCE Instructions WITH
    \oplus <- F!\oplus, \odot <- F!\odot, inverse <- F!inverse, power <- F!power,
    xPower <- F!xPower, log <- F!log, invExtrConst <- F!invExtrConst,
    extractBit <- F!extractBit,
    op <- cell1, in <- cell2, pb <- cell3, executed <- cell4

ins(o, d, s, imm, b) ==
    [op |-> o, dest |-> d, arg1 |-> s, immediate |-> imm, arg2 |-> b]

\* Programs of three of these lines and an ANSWER.
Instruction ==
    {ins("MOV", 0, 0, TRUE, 3), ins("ADD", 0, 1, TRUE, 7),
     ins("MULL", 1, 0, FALSE, 0), ins("STOREW", 0, 0, TRUE, 2),
     ins("STOREW", 1, 0, FALSE, 0), ins("LOADW", 1, 0, TRUE, 2),
     ins("LOADW", 0, 0, FALSE, 0), ins("CMPA", 0, 0, TRUE, 6),
     ins("CNJMP", 0, 0, TRUE, 0), ins("CJMP", 0, 0, FALSE, 1),
     ins("JMP", 0, 0, TRUE, 1), ins("JMP", 0, 0, TRUE, 6),
     ins("CMPGE", 0, 1, TRUE, 2), ins("UDIV", 0, 1, TRUE, 2)}
Answer == ins("ANSWER", 0, 0, FALSE, 0)

Ram == INSTANCE TinyRam WITH
    \oplus <- F!\oplus, \odot <- F!\odot, inverse <- F!inverse, power <- F!power,
    xPower <- F!xPower, log <- F!log, invExtrConst <- F!invExtrConst,
    extractBit <- F!extractBit,
    Programs <- {[i \in 0 .. 3 |-> <<a, b, c, Answer>>[i + 1]] :
                    a \in Instruction, b \in Instruction, c \in Instruction},
    NumRegisters <- 2, TranscriptLen <- 7,
    code <- cell1, phase <- cell2, first <- cell3, pb <- cell4, memory <- cell5,
    memoryTrace <- cell6, table <- cell7, permutation <- cell8,
    position <- cell9, accepted <- cell10
-----------------------------------------------------------------------------
EvaluationSpaces ==
    {[basis |-> <<1>>, shift |-> 0], [basis |-> <<3, 6>>, shift |-> 8],
     [basis |-> <<2, 1, 4>>, shift |-> 17],
     [basis |-> <<1, 2, 4, 8>>, shift |-> 256],
     [basis |-> <<19, 7, 130, 64>>, shift |-> 0]}

\* The transforms are linear: the unit vectors, and one more.
Coefficients ==
    [n \in 1 .. 4 |->
        {[i \in 0 .. 2^n - 1 |-> IF i = j THEN 1 ELSE 0] : j \in 0 .. 2^n - 1}
          \cup {[i \in 0 .. 2^n - 1 |-> (37 * i + 5) % 512]}]

Fft == INSTANCE Transforms WITH
    \oplus <- F!\oplus, \odot <- F!\odot, inverse <- F!inverse, power <- F!power,
    xPower <- F!xPower,
    Spaces <- EvaluationSpaces, Inputs <- Coefficients,
    LogThreads <- {0, 1, 2, 3}, CosetShifts <- <<16, 288>>,
    Vectors <- {<<5>>, <<1, 2, 3>>, <<7, 9, 11, 300, 2>>, <<9, 8, 7, 6, 5, 4>>,
                <<3, 5, 9, 17, 33, 65, 129>>},
    task <- cell1, fft <- cell2, P <- cell3, copy <- cell4, stage <- cell5,
    level <- cell6, len <- cell7

Gf64 == INSTANCE Element WITH
    Operands <- {{0}, {1}, {63}, {0, 63}, {1, 3, 4}, {60, 61, 62, 63}, 0 .. 63,
                 {5, 17, 33, 34, 62}, {i \in 0 .. 63 : (i * i) % 7 = 2}},
    operand <- cell1, u <- cell2, v <- cell3, g1 <- cell4, g2 <- cell5,
    result <- cell6, exp <- cell7, base <- cell8, power <- cell9
-----------------------------------------------------------------------------
affine(n, a, b) == [i \in 0 .. n - 1 |-> (a * i + b) % n]
swapped(p, i, j) == [p EXCEPT ![i] = p[j], ![j] = p[i]]
bijections(n) ==
    {p \in [0 .. n - 1 -> 0 .. n - 1] :
        \A i, j \in 0 .. n - 1 : p[i] = p[j] => i = j}

\* All permutations of three rows, and a sample of those of seven.
OfThree == bijections(3)
OfSeven == {swapped(affine(7, a, b), 1, j) : a \in 1 .. 6, b \in {0, 3}, j \in {1, 2, 5}}
BairInstances ==
    [net : {"symmetric"}, k : {2}, vars : {3}, routed : {{}, {1}, {0, 2}},
     permutation : OfThree]
      \cup [net : {"symmetric"}, k : {3}, vars : {3}, routed : {{1}},
            permutation : OfSeven]
      \cup [net : {"straight"}, k : {2}, vars : {1}, routed : {{0}},
            permutation : OfThree]
      \cup [net : {"straight"}, k : {3}, vars : {1}, routed : {{0}},
            permutation : OfSeven]

Acsp == INSTANCE Reduction WITH
    \oplus <- F!\oplus, \odot <- F!\odot, inverse <- F!inverse, power <- F!power,
    xPower <- F!xPower,
    Instances <- BairInstances,
    instance <- cell1, stage <- cell2, row <- cell3, mapping <- cell4,
    accepted <- cell5, degree <- cell6, rev <- cell7, btrfly <- cell8,
    work <- cell9, unrouted <- cell10, src <- cell11
-----------------------------------------------------------------------------
\* Nine columns instead of thirty-two, with arbitrary coefficients and S-box.
Coefficient ==
    [i \in 0 .. 3 * 9 * 64 - 1 |-> (i * ((i * 7) % 257) + 3 * i + 256) % 257]
Substitution == [b \in 0 .. 255 |-> (b * 167 + 13) % 256]
InputBlocks ==
    {[input |-> [i \in 0 .. 71 |-> 255], doSmooth |-> TRUE],
     [input |-> [i \in 0 .. 71 |-> (i * 37 + 11) % 256], doSmooth |-> TRUE],
     [input |-> [i \in 0 .. 71 |-> 2^(i % 8)], doSmooth |-> FALSE],
     [input |-> [i \in 0 .. 71 |-> (i * i * 5 + 171 * i) % 256], doSmooth |-> FALSE]}

Compression == INSTANCE Swifftx WITH
    M <- 9, As <- Coefficient, SBox <- Substitution, Blocks <- InputBlocks,
    block <- cell1, impl <- cell2, pc <- cell3, fftOut <- cell4,
    intermediate <- cell5, output <- cell6, turn <- cell7, keyRow <- cell8,
    smoothed <- cell9, digest <- cell10

\* The hash interface: lengths on both sides of a byte, of a block, and of the
\* padding's limit.
MessageLengths == {0, 1, 3, 5, 6, 18, 21, 23, 24, 25, 48, 50}
HashedLengths == (0 .. 9) \cup (20 .. 28) \cup {47, 48, 49, 71, 72, 73, 75, 78}

\* A fingerprint whose pairs are those of an entry, one that shares a number
\* with each pair, and one that has nothing of one pair of the second entry and
\* half of a later one.
entry(k) == [i \in 1 .. 20 |-> <<(k * i) % 50, 255 - ((i * i) % 11)>>]
exchanged(f) == [i \in 1 .. 20 |-> IF i <= 10 THEN f[i + 10] ELSE f[i - 10]]
otherAt(f, S) == [i \in 1 .. 20 |-> IF i \in S THEN <<50, f[i][2]>> ELSE f[i]]

Bytes == INSTANCE ByteArithmetic
Aes == INSTANCE Rijndael WITH
    byteSum <- Bytes!byteSum, byteProduct <- Bytes!byteProduct,
    byteInverse <- Bytes!byteInverse

Fingerprints == INSTANCE Dpm WITH
    \oplus <- Aes!\oplus, \odot <- Aes!\odot, scale <- Aes!scale,
    timesX <- Aes!timesX, pack <- Aes!pack, square <- Aes!square,
    inverse <- Aes!inverse, xPower <- Aes!xPower, power2 <- Bytes!power2,
    Cases <- {[db |-> <<entry(3)>>, fprint |-> exchanged(entry(3))],
              [db |-> <<entry(3)>>, fprint |-> otherAt(entry(3), {20})],
              [db |-> <<entry(7), entry(3)>>, fprint |-> otherAt(entry(3), {4, 14, 20})]},
    input <- cell1, root <- cell2, where <- cell3, t <- cell4, counter <- cell5,
    block <- cell6, row <- cell7, prev <- cell8, satisfied <- cell9

-----------------------------------------------------------------------------
unusedFrom(n) ==
    /\ n <= 1 => cell1 = 0 /\ cell2 = 0 /\ cell3 = 0 /\ cell4 = 0
    /\ n <= 5 => cell5 = 0 /\ cell6 = 0 /\ cell7 = 0
    /\ n <= 8 => cell8 = 0 /\ cell9 = 0
    /\ n <= 10 => cell10 = 0
    /\ n <= 11 => cell11 = 0

\* No protocol is executed.
NoProtocol ==
    /\ turn = "none" /\ vPhase = "none" /\ pPhase = "none"
    /\ paths = noRS /\ queried = noRS /\ vMsg = noMessage /\ pMsg = noAnswer
    /\ kept = {} /\ rsV = noRS /\ rsP = noRS
    /\ results = FALSE /\ digested = FALSE /\ verdict = FALSE

InCells ==
    \/ library = "alu" /\ Alu!Init /\ unusedFrom(5)
    \/ library = "ram" /\ Ram!Init /\ unusedFrom(11)
    \/ library = "fft" /\ Fft!Init /\ unusedFrom(8)
    \/ library = "gf64" /\ Gf64!Init /\ unusedFrom(10)
    \/ library = "acsp" /\ Acsp!Init
    \/ library = "swifftx" /\ Compression!Init /\ unusedFrom(11)
    \/ library = "dpm" /\ Fingerprints!Init /\ unusedFrom(10)
    \/ library \in {"protocol", "merkle", "hash", "beacon"} /\ unusedFrom(1)

Init ==
    /\ InCells
    /\ IF library = "protocol" THEN ProtocolInit ELSE NoProtocol
    /\ MerkleInit /\ (library # "merkle" => entireWitnessKept)
    /\ HashInit
    /\ BeaconInit

Executes ==
    /\ library = "protocol" /\ ProtocolNext
    /\ UNCHANGED <<library, cells, merkleVars, hashVars, beaconVars>>

Commits ==
    /\ library = "merkle" /\ MerkleNext
    /\ UNCHANGED <<library, cells, protocolVars, hashVars, beaconVars>>

Hashes ==
    /\ library = "hash" /\ HashNext
    /\ UNCHANGED <<library, cells, protocolVars, merkleVars, beaconVars>>

Beacons ==
    /\ library = "beacon" /\ BeaconNext
    /\ UNCHANGED <<library, cells, protocolVars, merkleVars, hashVars>>

StepsInCells ==
    /\ \/ library = "alu" /\ Alu!Next /\ UNCHANGED cellsFrom5
       \/ library = "ram" /\ Ram!Next /\ UNCHANGED cell11
       \/ library = "fft" /\ Fft!Next /\ UNCHANGED cellsFrom8
       \/ library = "gf64" /\ Gf64!Next /\ UNCHANGED cellsFrom10
       \/ library = "acsp" /\ Acsp!Next
       \/ library = "swifftx" /\ Compression!Next /\ UNCHANGED cell11
       \/ library = "dpm" /\ Fingerprints!Next /\ UNCHANGED cellsFrom10
    /\ UNCHANGED <<library, protocolVars, merkleVars, hashVars, beaconVars>>

Next == Executes \/ Commits \/ Hashes \/ Beacons \/ StepsInCells

\* executeProtocol calls the two parties in turn until the verifier is done.
Spec == Init /\ [][Next]_vars /\ WF_vars(Executes)
-----------------------------------------------------------------------------
(* The properties of the modules, each of the behaviours of its own.        *)

\* The witness that ALU_Gadget::generateWitness assigns is the result of the
\* TinyRAM instruction, and satisfies the constraints of generateConstraints:
\* for every opcode and pair of words but the cases AluComputes names.
AluRight == library = "alu" => Alu!AluComputes

\* cs2Bair's colouring of a program's execution follows the program row by
\* row, and BairWitnessChecker accepts it exactly when no jump left the range
\* of the counter and the last row is also the last in the memory order.
TraceRight == library = "ram" => Ram!TraceAccepted

\* The additive FFTs, serial and over any number of threads, evaluate the
\* polynomial on the space, their inverses interpolate, and invertPointwise
\* inverts every element.
FftRight == library = "fft" => Fft!TransformsRight

\* c_inv's extended Euclid returns the inverse, and c_mul and c_exp agree with
\* the product by its definition.
Gf64Right == library = "gf64" => Gf64!ElementRight

\* The network routes the permutation, and reduceWitness's mapping of a
\* satisfied Bair instance satisfies the reduced Acsp instance.
AcspRight == library = "acsp" => Acsp!ReductionRight

\* The reference, the optimised and the SIMD ComputeSingleSWIFFTX return the
\* same digest, and no intermediate sum leaves its integer type.
CompressionRight == library = "swifftx" => Compression!SwifftxRight

\* The witness of genWitness satisfies evalCPoly on every row and ends with
\* the best match of the fingerprint in the database.
FingerprintRight == library = "dpm" => Fingerprints!WitnessRight

\* The loop of executeProtocol ends: the verifier decides.
ProtocolDecides == <>(library = "protocol" => Decided)
=============================================================================
