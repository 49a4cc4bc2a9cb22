------------------------------- MODULE Transforms -------------------------------
(***************************************************************************)
(* The transforms between the coefficients of a polynomial and its values  *)
(* on an affine space over a binary field, pass by pass over the array as  *)
(* the code makes them:                                                    *)
(*   fft, ifft   FFF::FFT, Gao and Mateer's algorithm.  Its passes go back *)
(*               and forth between the caller's array and a scratch copy,  *)
(*               and the top levels run under another loop, with its own   *)
(*               rule for which array is the source, than the lower ones   *)
(*               that the threads run on blocks;                           *)
(*   novel       Algebra::novelFFT, which the prover uses to extend a      *)
(*               witness to the cosets of its evaluation domain;           *)
(*   invert      invertPointwise, one inversion for a vector of elements.  *)
(* The iterations of an "omp parallel for" write disjoint elements, so a   *)
(* pass is one step.                                                       *)
(***************************************************************************)
EXTENDS FieldOperations

CONSTANTS
    Spaces,         \* records of a basis and a shift
    Inputs,         \* Inputs[n]: the arrays of 2^n elements to transform
    LogThreads,     \* the values of log_omp_max_threads
    CosetShifts,    \* the sequence of cosets that novelFFT evaluates on
    Vectors         \* sequences of elements to invert

VARIABLES
    task,           \* what was called, on what
    fft,            \* the tables of the FFT or novelFFT object
    P, copy,        \* the caller's array and the second one: c_p_cpy of FFF::FFT,
                    \* dst of novelFFT, the stack layersEnd of invertPointwise
    stage, level,   \* the loop that runs, and its counter
    len             \* the counter of taylorExpansion's loop

vars == <<task, fft, P, copy, stage, level, len>>

size == Len(task.basis)
Indices(n) == 0 .. 2^n - 1

\* The i-th element of an ordered basis, counted from 0.
at(basis, i) == basis[i + 1]

getSpaceElementByIndex(basis, shift, index) ==
    shift (+) FieldSum([i \in 1 .. Len(basis) |->
                           IF isBit(index, i - 1) THEN basis[i] ELSE zero],
                       1, Len(basis))
-----------------------------------------------------------------------------
(***************************************************************************)
(* Subspace polynomials: coefficients of x, x^2, x^4 and so on.            *)
(***************************************************************************)

evalLinearPart(coefficients, x) ==
    FieldSum([i \in 1 .. Len(coefficients) |->
                 coefficients[i] (.) power(x, 2^(i - 1))], 1, Len(coefficients))

\* The vanishing polynomial of the span of the first n elements.
computeVanishingPoly(basis, n) ==
    LET upTo[i \in 0 .. n] ==
            IF i = 0 THEN <<one>>
            ELSE LET old == upTo[i - 1]
                     c == evalLinearPart(old, basis[i])
                 IN IF c = zero THEN old
                    ELSE [j \in 1 .. Len(old) + 1 |->
                            CASE j = 1 -> c (.) old[1]
                              [] j = Len(old) + 1 -> one
                              [] OTHER -> (c (.) old[j]) (+) (old[j - 1] (.) old[j - 1])]
    IN upTo[n]

\* The coordinates from the last basis element down, each by whether the rest
\* is outside the span of the elements before it.
getSpaceIndexOfElement(basis, shift, e) ==
    LET n == Len(basis)
        rest[k \in 0 .. n] ==
            IF k = 0 THEN [elem |-> e (+) shift, index |-> 0]
            ELSE LET r == rest[k - 1]
                     outside == evalLinearPart(computeVanishingPoly(basis, n - k),
                                               r.elem) # zero
                 IN [elem |-> IF outside THEN r.elem (+) basis[n - k + 1] ELSE r.elem,
                     index |-> 2 * r.index + (IF outside THEN 1 ELSE 0)]
    IN rest[n].index
-----------------------------------------------------------------------------
(***************************************************************************)
(* The tables of FFF::FFT.                                                 *)
(***************************************************************************)
GFromB(b) ==
    LET n == Len(b.basis)
        inv == inverse(b.basis[n])
    IN [basis |-> [i \in 1 .. n - 1 |-> b.basis[i] (.) inv], shift |-> b.shift (.) inv]

DFromG(g) ==
    [basis |-> [i \in 1 .. Len(g.basis) |->
                   (g.basis[i] (.) g.basis[i]) (+) g.basis[i]],
     shift |-> (g.shift (.) g.shift) (+) g.shift]

\* The space of every level of the recursion.
levelSpaces(space) ==
    LET D[k \in 0 .. Len(space.basis) - 1] ==
            IF k = 0 THEN space ELSE DFromG(GFromB(D[k - 1]))
    IN D

multiExponentiate(b, n) == [i \in Indices(n) |-> power(b, i)]

\* exps[k] are the powers of the last basis element (inverted for an IFFT),
\* subspaces[k] the elements of the space that GFromB makes.
FFTTables(space, inverted) ==
    LET n == Len(space.basis)
        D == levelSpaces(space)
        bm(k) == at(D[k].basis, n - 1 - k)
    IN [exps |-> [k \in 0 .. n - 2 |->
                    LET b == IF inverted THEN inverse(bm(k)) ELSE bm(k)
                    IN multiExponentiate(b, n - k)],
        subspaces |-> [k \in 0 .. n - 2 |->
                    LET g == GFromB(D[k])
                    IN [i \in Indices(n - k - 1) |->
                           getSpaceElementByIndex(g.basis, g.shift, i)]],
        lastD |-> D[n - 1].basis[1],
        lastShift |-> D[n - 1].shift]

\* calc_X_exp: the subspace polynomial of the first i elements, scaled to be
\* one at the next element.
XExp(basis) ==
    [i \in 0 .. Len(basis) - 1 |->
        LET poly == computeVanishingPoly(basis, i)
            scale == inverse(evalLinearPart(poly, at(basis, i)))
        IN [j \in 1 .. Len(poly) |-> scale (.) poly[j]]]
-----------------------------------------------------------------------------
(***************************************************************************)
(* One pass over an array, all blocks of 2^i elements.                     *)
(***************************************************************************)

\* c_vecMul with exps.
Scale(a, i) == [k \in DOMAIN a |-> a[k] (.) fft.exps[size - i][k % 2^i]]

\* taylorExpansionIteration and its inverse, on blocks of l elements.
taylorIteration(a, l) ==
    [k \in DOMAIN a |->
        LET quarter == (k % l) \div (l \div 4)
        IN CASE quarter = 1 -> a[k] (+) a[k + l \div 4] (+) a[k + l \div 2]
             [] quarter = 2 -> a[k] (+) a[k + l \div 4]
             [] OTHER -> a[k]]

i_taylorIteration(a, l) ==
    [k \in DOMAIN a |->
        IF (k % l) \div (l \div 4) \in {1, 2} THEN a[k] (+) a[k + l \div 4] ELSE a[k]]

\* Even elements to the first half of a block, odd ones to the second.
GPartition(a, i) ==
    [k \in DOMAIN a |->
        LET block == k - (k % 2^i)
            half == 2^(i - 1)
            r == k % 2^i
        IN IF r < half THEN a[block + 2 * r] ELSE a[block + 2 * (r - half) + 1]]

iGPartition(a, i) ==
    [k \in DOMAIN a |->
        LET block == k - (k % 2^i)
            r == k % 2^i
        IN IF r % 2 = 0 THEN a[block + r \div 2]
           ELSE a[block + 2^(i - 1) + r \div 2]]

WFromUV(a, i) ==
    LET half == 2^(i - 1)
        u(k) == a[k] (+) (a[k + half] (.) fft.subspaces[size - i][k % 2^i])
    IN [k \in DOMAIN a |-> IF k % 2^i < half THEN u(k) ELSE u(k - half) (+) a[k]]

UVFromW(a, i) ==
    LET half == 2^(i - 1)
        v(k) == a[k - half] (+) a[k]
    IN [k \in DOMAIN a |->
          IF k % 2^i < half
          THEN a[k] (+) (v(k + half) (.) fft.subspaces[size - i][k % 2^i])
          ELSE v(k)]

\* The linear polynomials at the bottom.
Bottom(a) ==
    LET low(k) == a[k] (+) (a[k + 1] (.) fft.lastShift)
    IN [k \in DOMAIN a |->
          IF k % 2 = 0 THEN low(k) ELSE (a[k] (.) fft.lastD) (+) low(k - 1)]

iBottom(a) ==
    LET high(k) == (a[k] (+) a[k - 1]) (.) inverse(fft.lastD)
    IN [k \in DOMAIN a |->
          IF k % 2 = 1 THEN high(k) ELSE a[k] (+) (high(k + 1) (.) fft.lastShift)]
-----------------------------------------------------------------------------
(***************************************************************************)
(* FFF::FFT::fft_cpu with fft_serial.                                      *)
(***************************************************************************)

\* The number of levels that are not run by fft_serial.
general == IF task.threads < size - 1 THEN task.threads ELSE size - 1

\* The array on which fft_serial is called: where the general levels end.
serialArray == IF general % 2 = 1 THEN "copy" ELSE "P"

other(name) == IF name = "P" THEN "copy" ELSE "P"

array(name) == IF name = "P" THEN P ELSE copy

put(name, a) ==
    IF name = "P" THEN P' = a /\ UNCHANGED copy ELSE copy' = a /\ UNCHANGED P

\* Mutant: fft_serial always starts from the caller's array.
mutantSource(i) == IF (size - i) % 2 = 1 /\ i > size - general THEN "copy" ELSE "P"

\* The array "it" of level i, by the parities of the two loops.
source(i) ==
    IF i > size - general
    THEN IF (size - i) % 2 = 1 THEN "copy" ELSE "P"
    ELSE IF (size - general - i) % 2 = 1 THEN other(serialArray) ELSE serialArray

FftScale ==
    /\ stage = "fft" /\ len = 0 /\ level > 1
    /\ put(source(level), Scale(array(source(level)), level))
    /\ len' = 2^level
    /\ UNCHANGED <<task, fft, stage, level>>

FftTaylor ==
    /\ stage = "fft" /\ len > 2
    /\ put(source(level), taylorIteration(array(source(level)), len))
    /\ len' = len \div 2
    /\ UNCHANGED <<task, fft, stage, level>>

FftPartition ==
    /\ stage = "fft" /\ len = 2
    /\ put(other(source(level)), GPartition(array(source(level)), level))
    /\ len' = 0
    /\ level' = level - 1
    /\ UNCHANGED <<task, fft, stage>>

\* The end of fft_serial's first loop: its data is brought back to its array,
\* where the bottom and the serial levels are computed.
FftBottom ==
    /\ stage = "fft" /\ level = 1
    /\ LET moved == (size - general - 1) % 2 = 1
           a == array(IF moved THEN other(serialArray) ELSE serialArray)
       IN put(serialArray, Bottom(a))
    /\ stage' = "serial"
    /\ level' = 2
    /\ UNCHANGED <<task, fft, len>>

FftSerialUp ==
    /\ stage = "serial" /\ level <= size - general
    /\ put(serialArray, WFromUV(array(serialArray), level))
    /\ level' = level + 1
    /\ UNCHANGED <<task, fft, stage, len>>

\* fft_serial has returned on every block; p_cpy is copied to P.
FftMerge ==
    /\ stage = "serial" /\ level > size - general
    /\ P' = array(serialArray)
    /\ stage' = "general"
    /\ UNCHANGED <<task, fft, copy, level, len>>

FftGeneralUp ==
    /\ stage = "general"
    /\ IF level <= size
       THEN P' = WFromUV(P, level) /\ level' = level + 1 /\ UNCHANGED stage
       ELSE stage' = "done" /\ UNCHANGED <<P, level>>
    /\ UNCHANGED <<task, fft, copy, len>>
-----------------------------------------------------------------------------
(***************************************************************************)
(* FFF::FFT::ifft_cpu with ifft_serial.                                    *)
(***************************************************************************)
IfftDown ==
    /\ stage = "ifft"
    /\ IF level > 1
       THEN P' = UVFromW(P, level) /\ level' = level - 1 /\ UNCHANGED stage
       ELSE P' = iBottom(P) /\ level' = 2 /\ stage' = "iserial"
    /\ UNCHANGED <<task, fft, copy, len>>

\* The array "it" that level i writes, by the parities of the two loops.
target(i) ==
    IF i <= size - general
    THEN IF i % 2 = 1 THEN "P" ELSE "copy"
    ELSE IF (i + general - size - 1) % 2 = 1 THEN "P" ELSE "copy"

IfftLevels == IF stage = "iserial" THEN 2 .. size - general
              ELSE IF stage = "igeneral" THEN size - general + 1 .. size
              ELSE {}

IfftPartition ==
    /\ level \in IfftLevels /\ len = 0
    /\ put(target(level), iGPartition(array(other(target(level))), level))
    /\ len' = 4
    /\ UNCHANGED <<task, fft, stage, level>>

IfftTaylor ==
    /\ level \in IfftLevels /\ len > 0 /\ len <= 2^level
    /\ put(target(level), i_taylorIteration(array(target(level)), len))
    /\ len' = 2 * len
    /\ UNCHANGED <<task, fft, stage, level>>

IfftScale ==
    /\ level \in IfftLevels /\ len > 2^level
    /\ put(target(level), Scale(array(target(level)), level))
    /\ len' = 0
    /\ level' = level + 1
    /\ UNCHANGED <<task, fft, stage>>

\* The end of a loop: the result is copied to P if the last level wrote it to
\* the other array (p_cpy is still NULL if the loop had no level).
IfftEndLoop ==
    /\ stage \in {"iserial", "igeneral"} /\ level \notin IfftLevels
    /\ LET ran == IF stage = "iserial" THEN size - general > 1 ELSE general > 0
       IN P' = IF ran /\ target(level - 1) = "copy" THEN copy ELSE P
    /\ stage' = IF stage = "iserial" THEN "igeneral" ELSE "done"
    /\ UNCHANGED <<task, fft, copy, level, len>>
-----------------------------------------------------------------------------
(***************************************************************************)
(* Algebra::novelFFT.                                                      *)
(***************************************************************************)

\* X_exp_precomp of a level: the subspace polynomial at the space element
\* whose low coordinates, up to and including the level's, are cleared.
Xpre(i, shift, k) ==
    evalLinearPart(fft[i], getSpaceElementByIndex(task.basis, shift,
                                                  k - (k % 2^(i + 1))))

novelIFFT ==
    /\ stage = "novelIFFT"
    /\ IF level < size
       THEN /\ P' = [k \in DOMAIN P |->
                       LET odd == 2^level
                       IN IF isBit(k, level) THEN P[k - odd] (+) P[k]
                          ELSE P[k] (+) (Xpre(level, zero, k)
                                           (.) (P[k] (+) P[k + odd]))]
            /\ level' = level + 1
            /\ UNCHANGED <<copy, stage>>
       ELSE /\ copy' = [c \in DOMAIN CosetShifts |-> P]
            /\ level' = level - 1
            /\ stage' = "novelFFT"
            /\ UNCHANGED P
    /\ UNCHANGED <<task, fft, len>>

novelFFT ==
    /\ stage = "novelFFT"
    /\ IF level >= 0
       THEN /\ copy' = [c \in DOMAIN copy |->
                  LET v == copy[c]
                      low(k) == v[k] (+) (Xpre(level, CosetShifts[c], k)
                                            (.) v[k + 2^level])
                  IN [k \in DOMAIN v |->
                        IF isBit(k, level) THEN low(k - 2^level) (+) v[k] ELSE low(k)]]
            /\ level' = level - 1
            /\ UNCHANGED stage
       ELSE stage' = "done" /\ UNCHANGED <<copy, level>>
    /\ UNCHANGED <<task, fft, P, len>>
-----------------------------------------------------------------------------
(***************************************************************************)
(* invertPointwise: P is treeOfElems, copy the stack layersEnd, level      *)
(* currLocation.                                                           *)
(***************************************************************************)
top == copy[Len(copy)]

\* One layer of products; the last node of an odd layer is an only child.
BuildLayer ==
    /\ stage = "build"
    /\ LET parents == (top - level + 1) \div 2
           node(t) == LET child == level + 2 * t
                      IN IF child + 1 = top THEN P[child] ELSE P[child] (.) P[child + 1]
       IN /\ P' = [k \in 0 .. top + parents - 1 |->
                     IF k < top THEN P[k] ELSE node(k - top)]
          /\ IF parents = 1 THEN stage' = "root" /\ UNCHANGED copy
                            ELSE copy' = Append(copy, top + parents) /\ UNCHANGED stage
    /\ level' = top
    /\ UNCHANGED <<task, fft, len>>

InvertRoot ==
    /\ stage = "root"
    /\ P' = [P EXCEPT ![top] = inverse(P[top])]
    /\ stage' = "descend"
    /\ UNCHANGED <<task, fft, copy, level, len>>

DescendLayer ==
    /\ stage = "descend"
    /\ IF copy # <<>>
       THEN LET start == IF Len(copy) = 1 THEN 0 ELSE copy[Len(copy) - 1]
                brother(k) == IF (k - start) % 2 = 0 THEN k + 1 ELSE k - 1
                parent(k) == top + (k - start) \div 2
            IN /\ P' = [k \in DOMAIN P |->
                          IF k < start \/ k >= top THEN P[k]
                          ELSE IF brother(k) = top THEN P[parent(k)]
                          ELSE P[parent(k)] (.) P[brother(k)]]
               /\ copy' = SubSeq(copy, 1, Len(copy) - 1)
               /\ UNCHANGED stage
       ELSE /\ P' = [k \in 0 .. Len(task.input) - 1 |-> P[k]]
            /\ stage' = "done"
            /\ UNCHANGED copy
    /\ UNCHANGED <<task, fft, level, len>>
-----------------------------------------------------------------------------
\* The value of the polynomial with coefficients c.
Value(c, x) ==
    FieldSum([k \in DOMAIN c |-> c[k] (.) power(x, k)], 0, Cardinality(DOMAIN c) - 1)

Values(c, basis, shift) ==
    [k \in DOMAIN c |-> Value(c, getSpaceElementByIndex(basis, shift, k))]

Transform(kind, space, threads, input) ==
    /\ task = [kind |-> kind, basis |-> space.basis, shift |-> space.shift,
               threads |-> threads, input |-> input]
    /\ fft = IF kind = "novel" THEN XExp(space.basis)
             ELSE FFTTables(space, kind = "ifft")
    /\ P = IF kind = "novel" THEN Values(input, space.basis, zero) ELSE input
    /\ copy = [k \in DOMAIN input |-> zero]
    /\ stage = IF kind = "novel" THEN "novelIFFT" ELSE kind
    /\ level = IF kind = "novel" THEN 0 ELSE Len(space.basis)
    /\ len = 0

Inversion(v) ==
    /\ task = [kind |-> "invert", input |-> v]
    /\ fft = <<>>
    /\ P = [k \in 0 .. Len(v) - 1 |-> v[k + 1]]
    /\ copy = <<Len(v)>>
    /\ stage = "build"
    /\ level = 0
    /\ len = 0

Init ==
    \/ \E space \in Spaces : \E input \in Inputs[Len(space.basis)] :
         \/ \E threads \in LogThreads, kind \in {"fft", "ifft"} :
               Transform(kind, space, threads, input)
         \/ Transform("novel", space, 0, input)
    \/ \E v \in Vectors : Inversion(v)

Next ==
    \/ FftScale \/ FftTaylor \/ FftPartition \/ FftBottom
    \/ FftSerialUp \/ FftMerge \/ FftGeneralUp
    \/ IfftDown \/ IfftPartition \/ IfftTaylor \/ IfftScale \/ IfftEndLoop
    \/ novelIFFT \/ novelFFT
    \/ BuildLayer \/ InvertRoot \/ DescendLayer

Spec == Init /\ [][Next]_vars
-----------------------------------------------------------------------------
(***************************************************************************)
(* Whatever the number of threads, and so wherever the passes change       *)
(* arrays and loops, the caller's array ends with what the transform is    *)
(* for: fft leaves the values of the polynomial on the shifted space, in   *)
(* the order of getSpaceElementByIndex; ifft the coefficients of the       *)
(* polynomial with the given values; novelFFT, from the values on the      *)
(* space, the values on every coset; invertPointwise the inverses; and     *)
(* getSpaceIndexOfElement finds every point's place.                       *)
(***************************************************************************)
TransformsRight ==
    stage = "done" =>
        CASE task.kind = "fft" -> P = Values(task.input, task.basis, task.shift)
          [] task.kind = "ifft" -> Values(P, task.basis, task.shift) = task.input
          [] task.kind = "novel" ->
               \A c \in DOMAIN CosetShifts :
                 /\ copy[c] = Values(task.input, task.basis, CosetShifts[c])
                 /\ \A k \in Indices(size) :
                      getSpaceIndexOfElement(task.basis, CosetShifts[c],
                        getSpaceElementByIndex(task.basis, CosetShifts[c], k)) = k
          [] task.kind = "invert" ->
               /\ Len(task.input) = Cardinality(DOMAIN P)
               /\ \A k \in DOMAIN P : P[k] (.) task.input[k + 1] = one
=============================================================================
