-------------------------------- MODULE Swifftx --------------------------------
(***************************************************************************)
(* The compression function of SWIFFTX in its three implementations        *)
(* (crypto/SWIFFTX): the reference one, the optimized one (the 32-bit and  *)
(* the 64-bit files hold the same code) and the SIMD one, whose arithmetic *)
(* is that of 16-bit lanes.  ComputeSingleSWIFFTX is run by each of them   *)
(* in turn, on the same block.                                             *)
(*                                                                         *)
(* The sizes of the transform and of the base change are the real ones.    *)
(* The coefficients, the S-box and the number of columns of the first tier *)
(* are parameters: nothing in the code depends on their values.            *)
(***************************************************************************)
EXTENDS SwifftxArithmetic, Sequences, FiniteSetsExt

CONSTANTS
    M,          \* the number of columns of an input block
    As,         \* the coefficients, As[0 .. 3 * M * N - 1] in 0 .. 256
    SBox,       \* SBox[0 .. 255] in 0 .. 255
    Blocks      \* the runs: records [input, doSmooth]

VARIABLES
    block,
    impl,           \* the implementation that runs
    pc,             \* "fft", "sum", "sbox", "lastfft", "lastsum", "smooth", "return"
    fftOut,         \* column by column
    intermediate,   \* the 3 * N + 8 bytes between the tiers
    output,         \* N + 1 bytes
    turn,           \* the loop counter of the smoothing
    keyRow,         \* the row of coefficients that SWIFFT_smooth rolls
    smoothed,
    digest          \* what each implementation has returned

vars == <<block, impl, pc, fftOut, intermediate, output, turn, keyRow,
          smoothed, digest>>
-----------------------------------------------------------------------------
(* The sums of the columns, weighted by the coefficients.                  *)

referenceResidues(fft, m, a) ==
    [i \in Column |->
        SumTo([j \in 0 .. m - 1 |-> fft[j][i] * As[a + N * j + i]], m)
          % FIELD_SIZE]

optimizedResidues(fft, m, a) ==
    [i \in Column |->
        (FIELD_SIZE * 2^22
           + SumTo([j \in 0 .. m - 1 |-> fft[j][i] * As[a + N * j + i]], m))
          % FIELD_SIZE]

\* The key is centered in place, and its column sums are prepared.
key(i) == Center(As[i])
KeysumInit(a, m, i) ==
    Center(SumTo([j \in 0 .. m - 1 |-> key(a + N * j + i)], m) * 128)

simdResidues(fft, m, a) ==
    [i \in Column |->
        LET O[j \in 0 .. m] ==
                IF j = 0 THEN KeysumInit(a, m, i)
                ELSE lane(O[j - 1] + qReduce(lane(fft[j - 1][i]
                                                    * key(a + N * (j - 1) + i))))
        IN modP(O[m])]

-----------------------------------------------------------------------------
(* ComputeSingleSWIFFTX. *)

column(in, c) == CASE impl = "reference" -> referenceColumn(in, c)
                   [] impl = "optimized" -> optimizedColumn(in, c)
                   [] impl = "simd" -> SWIFFT_fft(in, c)

residuesOf(m, a) == CASE impl = "reference" -> referenceResidues(fftOut, m, a)
                      [] impl = "optimized" -> optimizedResidues(fftOut, m, a)
                      [] impl = "simd" -> simdResidues(fftOut, m, a)

bytesOf(residues) == IF impl = "simd" THEN simdBytes(residues)
                     ELSE translated(residues)

NoBytes == [i \in 0 .. N |-> 0]

Init ==
    /\ block \in Blocks
    /\ impl = "reference" /\ pc = "fft" /\ fftOut = <<>> /\ intermediate = <<>>
    /\ output = NoBytes /\ turn = 0 /\ keyRow = <<>> /\ smoothed = NoBytes
    /\ digest = <<>>

Fft ==
    /\ pc = "fft"
    /\ fftOut' = [c \in 0 .. M - 1 |-> column(block.input, c)]
    /\ pc' = "sum"
    /\ UNCHANGED <<block, impl, intermediate, output, turn, keyRow, smoothed, digest>>

\* The three sums, each of whose carry bytes is overwritten by the next sum
\* and put back in the end.
Sums ==
    /\ pc = "sum"
    /\ LET sums == [s \in 0 .. 2 |-> bytesOf(residuesOf(M, s * N * M))]
       IN intermediate' =
            [i \in 0 .. 3 * N + 7 |->
                CASE i < 3 * N -> sums[i \div N][i % N]
                  [] i >= 3 * N /\ i < 3 * N + 3 -> sums[i - 3 * N][N]
                  [] OTHER -> 0]
    /\ pc' = "sbox"
    /\ UNCHANGED <<block, impl, fftOut, output, turn, keyRow, smoothed, digest>>

ApplySBox ==
    /\ pc = "sbox"
    /\ intermediate' = [i \in DOMAIN intermediate |-> SBox[intermediate[i]]]
    /\ pc' = "lastfft"
    /\ UNCHANGED <<block, impl, fftOut, output, turn, keyRow, smoothed, digest>>

LastFft ==
    /\ pc = "lastfft"
    /\ fftOut' = [c \in 0 .. FinalM - 1 |-> column(intermediate, c)]
    /\ pc' = "lastsum"
    /\ UNCHANGED <<block, impl, intermediate, output, turn, keyRow, smoothed, digest>>

LastSum ==
    /\ pc = "lastsum"
    /\ output' = bytesOf(residuesOf(FinalM, 0))
    /\ pc' = IF block.doSmooth THEN "smooth" ELSE "return"
    /\ fftOut' = <<>> /\ intermediate' = <<>>
    /\ UNCHANGED <<block, impl, turn, keyRow, smoothed, digest>>

AsRow(i, j) == As[N * M + (i \div N) * N + j]

\* What output bit i adds, in the loops that index the coefficients.
shiftedRow(i) ==
    LET AShift == i % N
    IN [j \in Column |-> IF j < AShift THEN -AsRow(i, N + j - AShift)
                         ELSE AsRow(i, j - AShift)]

\* SWIFFT_smooth keeps the row in four vectors and rolls them by a byte, the
\* byte that falls out coming back negated.
roll(row) ==
    [j \in Column |-> IF j = 0 THEN (-row[N - 1]) % 256 ELSE row[j - 1]]
currentRow == IF turn % N = 0 THEN [j \in Column |-> AsRow(turn, j) % 256]
              ELSE keyRow

\* One turn of the smoothing loop.
Smooth ==
    /\ pc = "smooth" /\ turn < (N + 1) * 8
    /\ LET added == IF impl = "simd" THEN currentRow ELSE shiftedRow(turn)
       IN smoothed' = IF bitOf(output[turn \div 8], turn % 8) = 0 THEN smoothed
                      ELSE [j \in 0 .. N |-> IF j = N THEN 0
                                             ELSE (smoothed[j] + added[j]) % 256]
    /\ keyRow' = IF impl = "simd" THEN roll(currentRow) ELSE keyRow
    /\ turn' = turn + 1
    /\ UNCHANGED <<block, impl, pc, fftOut, intermediate, output, digest>>

EndSmooth ==
    /\ pc = "smooth" /\ turn = (N + 1) * 8
    /\ output' = smoothed /\ smoothed' = NoBytes /\ turn' = 0 /\ keyRow' = <<>>
    /\ pc' = "return"
    /\ UNCHANGED <<block, impl, fftOut, intermediate, digest>>

Return ==
    /\ pc = "return"
    /\ digest' = Append(digest, output)
    /\ impl' = CASE impl = "reference" -> "optimized"
                 [] impl = "optimized" -> "simd"
                 [] OTHER -> impl
    /\ pc' = IF impl = "simd" THEN "done" ELSE "fft"
    /\ output' = NoBytes
    /\ UNCHANGED <<block, fftOut, intermediate, turn, keyRow, smoothed>>

Next == \/ Fft \/ Sums \/ ApplySBox \/ LastFft \/ LastSum
        \/ Smooth \/ EndSmooth \/ Return

Spec == Init /\ [][Next]_vars

-----------------------------------------------------------------------------
\* d[0] + base d[1] + .. + base^7 d[7] modulo p.  Two numbers below 2^66 are
\* equal when they agree modulo each of these primes.
Primes == {32749, 32719, 32717, 32713, 32707}
ValueModulo(d, base, p) ==
    LET horner[i \in 0 .. 8] ==
            IF i = 8 THEN 0 ELSE (horner[i + 1] * base + d[i]) % p
    IN horner[0]

\* The second loop is linear: how far from zero its result i can be in row j,
\* over all input bytes, and the largest sum of 32 columns that follows.
weight(i, b) == secondLoop([c \in Eight |-> IF c = b THEN 1 ELSE 0])[i]
farthest(i, j) ==
    Sum8([b \in Eight |->
        LET w == weight(i, b) * multipliers[8 * b + j]
        IN Max({LET v == w * fftTable[x][j] IN IF v < 0 THEN -v ELSE v :
                   x \in 0 .. 255})])
SumsFit ==
    \A i, j \in Eight :
        (farthest(i, j) \div 256 + 256) * 256 * 32 < 2^30 + (2^30 - 1) - FIELD_SIZE * 2^22

\* The three implementations return the same bytes for every block: table
\* lookups, deferred and 16-bit reductions and rolled rows never lose a
\* carry, the sums of the optimized one stay positive and within 32 bits
\* whatever the block and the coefficients are, and the
\* base change of each sum yields the base-256 digits of the number whose
\* base-257 digits the sum has computed.
SwifftxRight ==
    /\ pc = "fft" /\ impl = "optimized" => SumsFit
    /\ pc = "sbox" =>
         \A s \in 0 .. 2, g \in Eight :
            LET residues == residuesOf(M, s * N * M)
                digits == octet(residues, g)
                bytes == [i \in Eight |-> intermediate[N * s + 8 * g + i]]
                carry == bitOf(intermediate[3 * N + s], g)
            IN \A p \in Primes :
                 ValueModulo(digits, FIELD_SIZE, p) =
                   (ValueModulo(bytes, 256, p) + carry * (65536 % p)^4) % p
    /\ \A n \in 1 .. Len(digest) : digest[n] = digest[1]
=============================================================================
