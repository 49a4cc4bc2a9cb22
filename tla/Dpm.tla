---------------------------------- MODULE Dpm ----------------------------------
(***************************************************************************)
(* The witness of stark-dpm (AES160hashcLOCI_GenWitness.cpp) and its check *)
(* (BairWitnessChecker.cpp).                                               *)
(*                                                                         *)
(* The witness is an array of rows of 81 registers.  Every function of the *)
(* generator writes row t and row t + 1 only, so the model keeps row t,    *)
(* as far as it is filled in, and the row before it.  A step completes row *)
(* t, starts row t + 1, and checks the constraint polynomial on the rows   *)
(* t - 1 and t.                                                            *)
(***************************************************************************)
EXTENDS DpmConstraints

CONSTANT Cases \* pairs [db, fprint] of a database and a fingerprint

VARIABLES
    input,      \* the database and the fingerprint
    root,       \* the hash of the database, known to the verifier
    where,      \* the step of the generator
    t,
    counter,    \* the half entry that is next compared
    block,      \* the B registers at stepOfCollapsing
    row, prev,  \* the rows t and t - 1
    satisfied   \* the constraints hold up to row t - 1

dpmVars == <<input, root, where, t, counter, block, row, prev, satisfied>>

\* power(xFETransformed, val), and zero for 255.
encoded(val) == byte(IF val = 255 THEN 0 ELSE power2(val))

\* LOCI_input[i][j], and HashChain[k][i].
loci(j, i) == encoded(input.fprint[i + 1][j + 1])
HashChain(db, k, i) == encoded(db[(k \div 2) + 1][i + 1][(k % 2) + 1])

LEN == 2 * Len(input.db)
lastStep == xPower(LEN + 1)

CYCLES == 62
getDim == CHOOSE d \in 1 .. 16 : /\ CYCLES * (LEN + 1) - 2 <= 2^d
                                /\ CYCLES * (LEN + 1) - 2 > 2^(d - 1)
lastRow == 2^getDim - 2
-----------------------------------------------------------------------------
setST2(s) == ST2 :> s @@ ST3 :> (one (+) s) (.) (xFE (+) s)

inverseOrZero(e) == IF e = zero THEN zero ELSE inverse(e)

\* SubBytesAUX_REGMethodA: the inverses of the registers and their powers.
auxiliary(v, regs) ==
    LET inverses == [i \in 0 .. Len(regs) - 1 |-> inverseOrZero(v[regs[i + 1]])]
        exponents(i) == LET e == inverses[i]
                        IN <<fourth(e), fourth(fourth(e)), fourth(fourth(fourth(e)))>>
    IN [r \in inv1 .. inv1 + Len(regs) - 1 |-> inverses[r - inv1]]
         @@ [r \in W11 .. W11 + 3 * Len(regs) - 1 |->
                exponents((r - W11) \div 3)[((r - W11) % 3) + 1]]
         @@ v

SubBytes(v, r) == auxiliary(v, [j \in 1 .. 5 |-> Breg(r, j - 1)])
shifted(v, r) ==
    [x \in {Breg(r, j) : j \in 0 .. 4} |-> results(v, ((x - Breg(r, 0)) + r) % 5)]

KeyBytes(v) == auxiliary(v, [i \in 1 .. 4 |-> Kreg(i % 4, 4)])

\* The new key, the round constant included, and the new state.
nextKey(v) == [x \in Kregs |-> KNext(v, (x - K00) \div 5, (x - K00) % 5)]
nextState(v, key, mixing) ==
    [x \in Bregs |->
        (IF mixing THEN mixColumn(v, x \div 5, x % 5) ELSE v[x]) (+) key[K00 + x]]

\* One call of computeAES160: the hash of a block under a key.
computeAES160(text, key) ==
    LET start == text @@ key @@ [x \in 0 .. NUMREGS - 1 |-> zero]
        sub(v) == shifted(SubBytes(v, 0), 0) @@ shifted(SubBytes(v, 1), 1)
                    @@ shifted(SubBytes(v, 2), 2) @@ shifted(SubBytes(v, 3), 3) @@ v
        round(v, rc) ==
            LET k == nextKey(KeyBytes(RC :> rc @@ v))
            IN nextState(v, k, rc # Rcon_round11) @@ k @@ v
        rounds[n \in 0 .. 11] ==
            IF n = 0 THEN start
            ELSE only({round(v, encoded(n - 1)) : v \in {sub(u) : u \in {rounds[n - 1]}}})
        final == rounds[11]
    IN only({[x \in Bregs |-> v[x] (+) text[x]] : v \in {final}})

genHashchain(db) ==
    LET from[k \in 0 .. 2 * Len(db)] ==
            IF k = 0 THEN [x \in Bregs |-> zero]
            ELSE only({computeAES160([x \in Bregs |-> HashChain(db, k - 1, x)],
                                     [x \in Kregs |-> h[x - K00]]) : h \in {from[k - 1]}})
    IN from[2 * Len(db)]
-----------------------------------------------------------------------------
Init ==
    /\ input \in Cases
    /\ root = genHashchain(input.db)
    /\ where = "begin"
    /\ t = 0
    /\ counter = 0
    /\ block = <<>>
    /\ row = [x \in 0 .. NUMREGS - 1 |-> zero]
    /\ prev = <<>>
    /\ satisfied = TRUE

\* Row t is complete, and the next row is started.
Row(complete, next) ==
    /\ satisfied' = (satisfied /\ (t = 0 \/ evalCPoly(prev, complete, root, lastStep)))
    /\ prev' = complete
    /\ row' = next
    /\ t' = t + 1
    /\ UNCHANGED <<input, root>>

\* The registers that start a hash (genWitnessHashByAES160).
startHash ==
    PHASE :> one @@ STATEreg :> one @@ RC :> one @@ FLAG1 :> zero @@ FLAG2 :> zero

\* genWitness: the fingerprint is put in the registers B and K, and packed in
\* L1 .. L6.
Begin ==
    /\ where = "begin"
    /\ LET bytes == [x \in 0 .. 39 |-> loci(x \div 20, x % 20)]
           L == [x \in L1 .. L6 |-> packed(bytes, 20 * ((x - L1) \div 3), (x - L1) % 3)]
           first == K :> one @@ setST2(xFESquare) @@ bytes @@ L
                      @@ [x \in A .. C |-> L[L1 + x - A]] @@ row
           next == startHash @@ setST2(one) @@ first
       IN /\ Row(isSecondPhaseComparingLOCI :> one @@ first, next)
          /\ block' = [x \in Bregs |-> next[x]]
    /\ where' = "aes"
    /\ UNCHANGED counter

isLastRound == row[RC] = Rcon_round11

loopBodyRow(r) ==
    /\ where = "aes"
    /\ <<row[FLAG1], row[FLAG2]>> = Flags[r + 1]
    /\ LET rc == IF r = 0 /\ ~isLastRound
                 THEN invRC :> inverse(row[RC] (+) Rcon_round11) ELSE <<>>
           complete == SubBytes(rc @@ row, r)
       IN Row(complete, setFlags(Flags[r + 2]) @@ shifted(complete, r) @@ rc @@ row)
    /\ UNCHANGED <<where, counter, block>>

loopBodyColumns ==
    /\ where = "aes"
    /\ row[FLAG1] = xFE
    /\ LET bytes == KeyBytes(row)
           key == nextKey(bytes)
           scratch == {inv5} \cup (W51 .. W53)
           rc == IF isLastRound THEN invRC :> one
                 ELSE RC :> row[RC] (.) xFETransformed @@ invRC :> zero @@ FLAG1 :> zero
       IN Row([x \in scratch |-> zero] @@ bytes,
              FLAG2 :> zero @@ rc @@ nextState(row, key, ~isLastRound) @@ key @@ row)
    /\ where' = IF isLastRound THEN "collapse" ELSE where
    /\ UNCHANGED <<counter, block>>

\* The block and its powers, in the forty registers from K00 on.
blockPowers(h) ==
    LET from[x \in 0 .. 39] ==
            IF x % 4 = 0 THEN block[Halves[h][(x \div 4) + 1]] ELSE fourth(from[x - 1])
    IN [x \in K00 .. K00 + 39 |-> from[x - K00]]

\* The block is added to the state, in two rows.
collapse(h) ==
    /\ where = IF h = 1 THEN "collapse" ELSE "collapse2"
    /\ LET added == [x \in {Halves[h][i] : i \in 1 .. 10} |-> row[x] (+) block[x]]
           rest == IF h = 1 THEN A :> block[4] (+) timesX(block[9]) ELSE <<>>
       IN Row(STATEreg :> xFE @@ FLAG1 :> zero @@ FLAG2 :> (IF h = 1 THEN zero ELSE one)
                @@ blockPowers(h) @@ row,
              added @@ rest @@ row)
    /\ where' = IF h = 1 THEN "collapse2" ELSE "chain"
    /\ UNCHANGED <<counter, block>>

\* The hash is the key of the next one; the first hash, of the fingerprint, is not.
chained ==
    /\ where = "chain"
    /\ LET left == lastStep (+) timesX(row[K])
           isFirst == row[K] = one
           flags == STATEreg :> xFE @@ FLAG1 :> one @@ FLAG2 :> one
           key == [x \in Kregs |-> IF isFirst THEN zero ELSE row[x - K00]]
       IN \/ /\ left # zero
             /\ Row(flags @@ A :> inverse(left) @@ row, key @@ K :> timesX(row[K]) @@ row)
             /\ where' = "compare"
             /\ counter' = IF isFirst THEN 0 ELSE counter + 1
          \/ /\ left = zero
             /\ Row(flags @@ row, PHASE :> one @@ flags @@ key @@ row)
             /\ where' = "padding"
             /\ UNCHANGED counter
    /\ UNCHANGED block
-----------------------------------------------------------------------------
secondCompareLoci == row[isSecondPhaseComparingLOCI] = one
lastFlag == IF secondCompareLoci THEN row[PartialMATCH] ELSE xFE

\* genWitnessHashST2EQ1: the half fingerprint, each byte with its powers.
ST2EQ1 ==
    /\ where = "compare"
    /\ LET bytes == [x \in Bregs |-> loci(IF secondCompareLoci THEN 1 ELSE 0, x)]
           current == [x \in Bregs |-> fourth(bytes[x])]
           from[s \in 0 .. 39] ==
               IF s % 2 = 0 THEN fourth(current[Order[(s \div 2) + 1]]) ELSE fourth(from[s - 1])
           slots(in) ==
               [x \in {slotReg(s) : s \in {q \in 0 .. 39 : inNext(q) = in}} |->
                    from[CHOOSE s \in 0 .. 39 : inNext(s) = in /\ slotReg(s) = x]]
           base == PHASE :> zero @@ row
       IN Row(setST2(one) @@ current @@ slots(FALSE) @@ base, bytes @@ slots(TRUE) @@ base)
    /\ where' = "fill"
    /\ UNCHANGED <<counter, block>>

ST2EQX ==
    /\ where = "fill"
    /\ Row(setST2(xFE) @@ row, row)
    /\ where' = "match"
    /\ UNCHANGED <<counter, block>>

mutantNextFlag(last, found) ==
    CASE found[1] -> IF found[4] THEN last ELSE one
      [] ~found[1] /\ found[2] -> IF found[3] THEN last ELSE one
      [] OTHER -> IF found[3] \/ found[4] THEN one ELSE zero

\* The flag after the i-th pair: lastFlag when both bytes are found, one when
\* one is, and zero for ever when none is.
nextFlag(last, found) ==
    CASE last = zero -> zero
      [] last # zero /\ found[1] -> IF found[4] THEN last ELSE one
      [] last # zero /\ ~found[1] /\ found[2] -> IF found[3] THEN last ELSE one
      [] OTHER -> IF found[3] \/ found[4] THEN one ELSE zero

\* genWitnessHashST2EQ1X: the half entry against the half fingerprint.
ST2EQ1X ==
    /\ where = "match"
    /\ LET started == [x \in Bregs |-> HashChain(input.db, counter, x)] @@ row
           difference(i, k) == pairDifference(row, started, i, k)
           flags[i \in -1 .. 9] ==
               IF i = -1 THEN lastFlag
               ELSE nextFlag(flags[i - 1], [k \in 1 .. 4 |-> difference(i, k - 1) = zero])
           inverses(first) ==
               [x \in inv1 .. W53 |->
                    inverseOrZero(difference(first + ((x - inv1) \div 4), (x - inv1) % 4))]
       IN Row(setST2(xFEAndOne) @@ PartialMATCH :> lastFlag
                @@ [x \in FLAG1 .. FLAG1 + 7 |-> flags[x - FLAG1]] @@ inverses(5) @@ row,
              RC :> flags[8] @@ PartialMATCH :> flags[9] @@ inverses(0) @@ started)
    /\ where' = "update"
    /\ UNCHANGED <<counter, block>>

max(a, b) == IF a = xFE \/ b = zero THEN a ELSE b

\* genWitnessHashST2EQXX, and the start of the hash of the half entry.
ST2EQXX ==
    /\ where = "update"
    /\ LET best == IF secondCompareLoci
                   THEN MATCH :> max(row[MATCH], row[PartialMATCH]) ELSE <<>>
       IN Row(setST2(xFESquare) @@ STATEreg :> inverse(row[K] (+) one) @@ row,
              startHash @@ best
                @@ isSecondPhaseComparingLOCI :> row[isSecondPhaseComparingLOCI] (+) one
                @@ [x \in A .. C |-> packed(row, B00, x - A)] @@ row)
    /\ block' = [x \in Bregs |-> row[x]]
    /\ where' = "aes"
    /\ UNCHANGED counter

\* genWitnessLOCIHashcAES160WithPadding repeats the last row.
padding ==
    /\ where = "padding"
    /\ t < lastRow
    /\ Row([x \in Kregs |-> zero] @@ [x \in inv1 .. W53 |-> one] @@ row, row)
    /\ UNCHANGED <<where, counter, block>>

\* The last row is left as it was started.
finish ==
    /\ where = "padding"
    /\ t = lastRow
    /\ satisfied' = (satisfied /\ evalCPoly(prev, row, root, lastStep))
    /\ where' = "done"
    /\ UNCHANGED <<input, root, t, counter, block, row, prev>>

Next ==
    \/ Begin
    \/ \E r \in 0 .. 3 : loopBodyRow(r)
    \/ loopBodyColumns
    \/ \E h \in 1 .. 2 : collapse(h)
    \/ chained
    \/ ST2EQ1 \/ ST2EQX \/ ST2EQ1X \/ ST2EQXX
    \/ padding \/ finish

Spec == Init /\ [][Next]_dpmVars

\* The boundary constraints of buildBairInstance on the last row; the ones on
\* the first row are assigned by Begin.
accepted == satisfied /\ row[MATCH] = zero
-----------------------------------------------------------------------------
\* The pair of bytes that is compared with the pair of an entry: the numbers i
\* and i + 10 of a half.
comparedWith(f(_, _), j, i) == {f(j, i), f(j, i + 10)}

\* 2 when the entry has the pairs of the fingerprint, 1 when it shares a byte
\* with each of them, 0 otherwise.
Degree(k) ==
    LET entry(j, i) == HashChain(input.db, 2 * k - 2 + j, i)
        pairs == (0 .. 1) \X (0 .. 9)
        ours(p) == comparedWith(loci, p[1], p[2])
        theirs(p) == comparedWith(entry, p[1], p[2])
    IN IF \A p \in pairs : ours(p) = theirs(p) THEN 2
       ELSE IF \A p \in pairs : ours(p) \cap theirs(p) # {} THEN 1 ELSE 0

BestDegree == CHOOSE d \in 0 .. 2 :
    /\ \E k \in DOMAIN input.db : Degree(k) = d
    /\ \A k \in DOMAIN input.db : Degree(k) <= d

\* The rows that genWitness produces satisfy the constraint polynomial of
\* EvalPoly from the first to the last, so that the hash of the entries that
\* were compared is the hash of the database, and the last row holds the best
\* match of the encoded fingerprint with an entry: none, partial or perfect.
\* The last row is accepted when there is none.
WitnessRight ==
    where = "done" =>
        /\ satisfied /\ row[MATCH] = <<zero, one, xFE>>[BestDegree + 1]
        /\ accepted <=> BestDegree = 0
=============================================================================
