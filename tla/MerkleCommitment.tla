---------------------------- MODULE MerkleCommitment ----------------------------
(***************************************************************************)
(* The Merkle commitments of libSTARK: how the prover hashes an evaluation *)
(* table into a root (in parallel segments, or coset by coset in place     *)
(* when the table does not fit in memory), how it answers queries with a   *)
(* sparse subtree, and how the verifier rebuilds the root from the answer. *)
(*                                                                         *)
(* The unit is one 256-bit block.  The hash function is an injective pair  *)
(* constructor and the committed blocks are pairwise distinct, so that two *)
(* digests are equal only when they hash the same blocks in the same       *)
(* places.                                                                 *)
(***************************************************************************)
EXTENDS Integers, Sequences, FiniteSets

CONSTANTS
    LogBlocks,      \* log2 of the number of committed blocks
    LogSegments,    \* the same of segments (threads or cosets): 0 when the
                    \* table is small, and less than LogBlocks
    MaxQueries      \* bound: blocks one verifier queries

ASSUME MerkleAssumption ==
    LogBlocks \in Nat /\ LogSegments \in 0 .. LogBlocks - 1

\* The powers of two, as far as they are used.
ASSUME PowersOfTwo ==
    2^0 = 1 /\ \A n \in 0 .. LogBlocks : 2^n \in Nat /\ 2^(n + 1) = 2 * 2^n

VARIABLES
    stage,      \* "commit", "query", "answer", "deliver" or "verified"
    entireWitnessKept, \* the whole table stays in memory
    data_,      \* the evaluation table, block by block
    tree_,      \* the heap of digests (index 1 is the root)
    rows,       \* rows[s]: tree levels thread s has still to write
    peaks,      \* merklePeakData, the root of each coset
    root_,      \* the commitment sent to the verifier
    queries,    \* the block indices the verifier asked for
    pending,    \* pair indices whose path is not yet in resultsTree
    resultsTree, \* its layers_: one partial map per level
    altered,    \* the answer handed over is not the one the tree gives
    view,       \* the verifier's uniEvalView_t::view
    verified    \* what verifyComitment returned

merkleVars == <<stage, entireWitnessKept, data_, tree_, rows, peaks, root_, queries,
                pending, resultsTree, altered, view, verified>>

Blocks == 0 .. 2^LogBlocks - 1
Segments == 0 .. 2^LogSegments - 1
LogLength == LogBlocks - LogSegments

\* Memory that has been allocated and not written.
garbage == <<>>

\* A block never committed by an honest prover.
otherBlock == <<-1>>

\* The evaluation of the committed polynomials, as sigmentConstructor gives it.
Evaluation(i) == <<i>>

hash(left, right) == <<left, right>>

Twin(i) == IF i % 2 = 0 THEN i + 1 ELSE i - 1
-----------------------------------------------------------------------------
(***************************************************************************)
(* Building the tree.                                                      *)
(***************************************************************************)

\* The heap over a source row of 2^n digests, root at index 1.
constructMerkleTree(src, n) ==
    LET node[i \in 1 .. 2^n - 1] ==
            IF i >= 2^(n - 1)
            THEN LET j == i - 2^(n - 1) IN hash(src[2 * j], src[2 * j + 1])
            ELSE hash(node[2 * i], node[2 * i + 1])
    IN node

\* Mutant: the segment's place in the row is not scaled by its length there.
MutantSubTreeRow(s, level) ==
    LET row == 2^(LogSegments + level)
    IN [i \in DOMAIN tree_ |->
            IF i \in row + s .. row + s + 2^level - 1 /\ i < 2 * row
            THEN IF level = LogLength - 1
                 THEN hash(data_[2 * (i - row)], data_[2 * (i - row) + 1])
                 ELSE hash(tree_[2 * i], tree_[2 * i + 1])
            ELSE tree_[i]]

\* One iteration of constructMerkleSubTree for segment s: the level that has
\* 2^level nodes inside the segment, read from the level below it.
SubTreeRow(s, level) ==
    LET row == 2^(LogSegments + level)
        first == row + 2^level * s
        below(i) == IF level = LogLength - 1
                    THEN data_[2 * (i - row)] ELSE tree_[2 * i]
        beside(i) == IF level = LogLength - 1
                     THEN data_[2 * (i - row) + 1] ELSE tree_[2 * i + 1]
    IN [i \in DOMAIN tree_ |->
            IF i \in first .. first + 2^level - 1
            THEN hash(below(i), beside(i)) ELSE tree_[i]]

\* One level of the in-place hashing of a buffer of 2^n blocks: node i of
\* level s stays at i * 2^s, its sibling's digest is copied next to it.
InPlaceLevel(buff, s) ==
    [i \in DOMAIN buff |->
        CASE i % 2^s = 0 -> hash(buff[i], buff[i + 2^(s - 1)])
          [] i % 2^s = 1 -> buff[i - 1 + 2^(s - 1)]
          [] OTHER -> buff[i]]

InPlaceLevels(buff, n) ==
    LET level[s \in 0 .. n] ==
            IF s = 0 THEN buff ELSE InPlaceLevel(level[s - 1], s)
    IN level

getMerkleCommitmentInplace(buff, n) == InPlaceLevels(buff, n)[n][0]
-----------------------------------------------------------------------------
(***************************************************************************)
(* Paths.  The path to a block starts above the block's pair.              *)
(***************************************************************************)

getPathToBlock(heap, n, blockIndex) ==
    [k \in 1 .. n - 1 |->
        heap[Twin((2^(n - 1) + blockIndex \div 2) \div 2^(k - 1))]]

getPathToBlocksInPlace(buff, n, pairIndex) ==
    [k \in 1 .. n - 1 |->
        InPlaceLevels(buff, n)[k][Twin(pairIndex \div 2^(k - 1)) * 2^k]]

pathDigests(left, right, path, blockIndex) ==
    LET offset(k) == (2^Len(path) + blockIndex \div 2) \div 2^(k - 1)
        curr[k \in 0 .. Len(path)] ==
            IF k = 0 THEN hash(left, right)
            ELSE IF offset(k) % 2 = 0 THEN hash(curr[k - 1], path[k])
            ELSE hash(path[k], curr[k - 1])
    IN curr

verifyPathToBlock(left, right, commitment, path, blockIndex) ==
    pathDigests(left, right, path, blockIndex)[Len(path)] = commitment

\* The part of the table that belongs to coset s, as fftInstance recomputes it.
CosetEval(s) ==
    [i \in 0 .. 2^LogLength - 1 |-> Evaluation(s * 2^LogLength + i)]

\* The path fillBoundaryResults glues together: inside the coset, the twin
\* coset's root, then the path in the tree of coset roots.
PathThroughCoset(pairIndex) ==
    LET s == (2 * pairIndex) \div 2^LogLength
        local == pairIndex - s * 2^(LogLength - 1)
    IN getPathToBlocksInPlace(CosetEval(s), LogLength, local)
         \o <<peaks[Twin(s)]>> \o getPathToBlock(tree_, LogSegments, s)
-----------------------------------------------------------------------------
(***************************************************************************)
(* SparceMerkleTree: level k of the tree is layers[k + 1].                 *)
(***************************************************************************)

\* The indices of a std::map, in its order: each at the place that the number
\* of smaller ones gives it.
Below(S, i) == Cardinality({x \in S : x < i})
Sorted(S) == [j \in 1 .. Cardinality(S) |-> CHOOSE i \in S : Below(S, i) = j - 1]

\* Adds an entry to a partial map, replacing the one it may have.
AddEntry(layer, idx, digest) ==
    [i \in DOMAIN layer \cup {idx} |-> IF i = idx THEN digest ELSE layer[i]]

emptyLayer == [i \in {} |-> garbage]

addPath(layers, left, right, path, pairIdx) ==
    [k \in 1 .. LogBlocks |->
        IF k = 1
        THEN AddEntry(AddEntry(layers[1], 2 * pairIdx, left),
                      2 * pairIdx + 1, right)
        ELSE AddEntry(layers[k], Twin(pairIdx \div 2^(k - 2)), path[k - 1])]

\* Mutant: the mate is hashed first.
MutantHashPair(layer, idx) == hash(layer[2 * idx + 1], layer[2 * idx])

hashPair(layer, idx) == hash(layer[2 * idx], layer[2 * idx + 1])

\* Every second entry, in index order, stands for its pair.
calculateNextLayer(layer, received) ==
    LET keys == Sorted(DOMAIN layer)
        pairs == {keys[j] \div 2 : j \in {k \in DOMAIN keys : k % 2 = 1}}
    IN [i \in DOMAIN received \cup pairs |->
            IF i \in pairs THEN hashPair(layer, i) ELSE received[i]]

calculatedLayers(layers) ==
    LET curr[k \in 0 .. Len(layers)] ==
            IF k = 0 THEN emptyLayer
            ELSE calculateNextLayer(curr[k - 1], layers[k])
    IN curr

calculateRoot(layers) == hashPair(calculatedLayers(layers)[Len(layers)], 0)

\* The indices of each level that the verifier knows, each with whether it is
\* explicit in the serialization or implied by the level below.
withTwins(S) == S \cup {Twin(i) : i \in S}
KnownIndices(pairs) ==
    LET known[k \in 1 .. LogBlocks] ==
            IF k = 1 THEN [i \in pairs |-> TRUE]
            ELSE LET implied == {i \div 2 : i \in DOMAIN known[k - 1]}
                 IN [i \in withTwins(implied) |-> i \notin implied]
    IN known

\* The (level, index) of every digest of the serialization, in its order.
explicitIndices(known, k) == Sorted({i \in DOMAIN known[k] : known[k][i]})
mappingUpTo(known) ==
    LET upTo[k \in 0 .. LogBlocks] ==
            IF k = 0 THEN <<>>
            ELSE upTo[k - 1] \o [j \in DOMAIN explicitIndices(known, k) |->
                                    <<k, explicitIndices(known, k)[j]>>]
    IN upTo
getSerializationMapping(queried) ==
    mappingUpTo(KnownIndices(withTwins(queried)))[LogBlocks]

toVector(layers) ==
    LET mapping == getSerializationMapping(DOMAIN layers[1])
    IN [j \in DOMAIN mapping |-> layers[mapping[j][1]][mapping[j][2]]]

DeSerialize(queried, serialized) ==
    LET mapping == getSerializationMapping(queried)
    IN [k \in 1 .. LogBlocks |->
          [i \in {mapping[j][2] : j \in {l \in DOMAIN mapping : mapping[l][1] = k}}
             |-> serialized[CHOOSE l \in DOMAIN mapping : mapping[l] = <<k, i>>]]]
-----------------------------------------------------------------------------
(***************************************************************************)
(* The prover's commitment phase.                                          *)
(***************************************************************************)

MerkleInit ==
    /\ stage = "commit"
    /\ entireWitnessKept \in BOOLEAN
    /\ ~entireWitnessKept => LogSegments > 0   \* the code is longer than its degree
    /\ data_ = [i \in Blocks |-> garbage]
    /\ tree_ = [i \in 1 .. 2^LogBlocks - 1 |-> garbage]
    /\ rows = [s \in Segments |-> LogLength + 1]
    /\ peaks = [s \in Segments |-> garbage]
    /\ root_ = garbage
    /\ queries = {} /\ pending = {}
    /\ resultsTree = [k \in 1 .. LogBlocks |-> emptyLayer]
    /\ view = [k \in 1 .. LogBlocks |-> emptyLayer]
    /\ altered = FALSE /\ verified = FALSE

\* A thread of getFinalHash runs sigmentConstructor for its segment.
sigmentConstructor(s) ==
    /\ stage = "commit" /\ entireWitnessKept /\ rows[s] = LogLength + 1
    /\ rows' = [rows EXCEPT ![s] = LogLength]
    /\ data_' = [i \in Blocks |->
                   IF i \div 2^LogLength = s THEN Evaluation(i) ELSE data_[i]]
    /\ UNCHANGED <<stage, entireWitnessKept, tree_, peaks, root_, queries,
                   pending, resultsTree, altered, view, verified>>

\* The same thread writes the next level of its subtree.
constructSubtree(s) ==
    /\ stage = "commit" /\ entireWitnessKept /\ rows[s] \in 1 .. LogLength
    /\ rows' = [rows EXCEPT ![s] = @ - 1]
    /\ tree_' = SubTreeRow(s, rows[s] - 1)
    /\ UNCHANGED <<stage, entireWitnessKept, data_, peaks, root_, queries,
                   pending, resultsTree, altered, view, verified>>

\* After the parallel loop: the levels above the segment roots.  Above a single
\* segment there are none, and its root is the one.
finishTreeAfterSegments ==
    /\ stage = "commit" /\ entireWitnessKept /\ \A s \in Segments : rows[s] = 0
    /\ LET top == constructMerkleTree(
                      [s \in Segments |-> tree_[2^LogSegments + s]], LogSegments)
       IN /\ tree_' = [i \in DOMAIN tree_ |->
                         IF i < 2^LogSegments THEN top[i] ELSE tree_[i]]
          /\ root_' = IF LogSegments = 0 THEN tree_[1] ELSE top[1]
    /\ stage' = "query"
    /\ UNCHANGED <<entireWitnessKept, data_, rows, peaks, queries, pending,
                   resultsTree, altered, view, verified>>

\* The table does not fit: a thread evaluates a coset into its own buffer and
\* keeps only the root of the coset.
CommitCoset(s) ==
    /\ stage = "commit" /\ ~entireWitnessKept /\ rows[s] # 0
    /\ rows' = [rows EXCEPT ![s] = 0]
    /\ peaks' = [peaks EXCEPT ![s] =
                    getMerkleCommitmentInplace(CosetEval(s), LogLength)]
    /\ UNCHANGED <<stage, entireWitnessKept, data_, tree_, root_, queries,
                   pending, resultsTree, altered, view, verified>>

\* The tree whose leaves are the coset roots.
CommitPeaks ==
    /\ stage = "commit" /\ ~entireWitnessKept /\ \A s \in Segments : rows[s] = 0
    /\ tree_' = constructMerkleTree(peaks, LogSegments)
    /\ root_' = tree_'[1]
    /\ stage' = "query"
    /\ UNCHANGED <<entireWitnessKept, data_, rows, peaks, queries, pending,
                   resultsTree, altered, view, verified>>
-----------------------------------------------------------------------------
(***************************************************************************)
(* The query phase.                                                        *)
(***************************************************************************)

\* The verifier queries blocks; the prover is sent the indices of their pairs.
getRawQuery(Q) ==
    /\ stage = "query"
    /\ queries' = Q
    /\ pending' = {q \div 2 : q \in Q}
    /\ stage' = "answer"
    /\ UNCHANGED <<entireWitnessKept, data_, tree_, rows, peaks, root_,
                   resultsTree, altered, view, verified>>

\* The path to one pair enters resultsTree, in any order (omp critical).
answerQuery(p) ==
    /\ stage = "answer" /\ p \in pending
    /\ pending' = pending \ {p}
    /\ resultsTree' =
         IF entireWitnessKept
         THEN addPath(resultsTree, data_[2 * p], data_[2 * p + 1],
                      getPathToBlock(tree_, LogBlocks, 2 * p), p)
         ELSE addPath(resultsTree, Evaluation(2 * p), Evaluation(2 * p + 1),
                      PathThroughCoset(p), p)
    /\ UNCHANGED <<stage, entireWitnessKept, data_, tree_, rows, peaks, root_,
                   queries, altered, view, verified>>

\* The answer reaches digestResults, as the tree gives it or with one digest
\* replaced; a buffer without queries is skipped.
digestResults(k) ==
    /\ stage = "answer" /\ pending = {}
    /\ LET sent == toVector(resultsTree)
       IN /\ k \in 0 .. Len(sent)
          /\ altered' = (k # 0)
          /\ view' = IF queries = {} THEN view
                     ELSE DeSerialize(queries,
                              IF k = 0 THEN sent
                              ELSE [sent EXCEPT ![k] = otherBlock])
    /\ stage' = "deliver"
    /\ UNCHANGED <<entireWitnessKept, data_, tree_, rows, peaks, root_,
                   queries, pending, resultsTree, verified>>

verifyComitment ==
    /\ stage = "deliver"
    /\ verified' = (queries = {} \/ calculateRoot(view) = root_)
    /\ stage' = "verified"
    /\ UNCHANGED <<entireWitnessKept, data_, tree_, rows, peaks, root_,
                   queries, pending, resultsTree, altered, view>>

MerkleNext ==
    \/ \E s \in Segments :
          sigmentConstructor(s) \/ constructSubtree(s) \/ CommitCoset(s)
    \/ finishTreeAfterSegments
    \/ CommitPeaks
    \/ \E Q \in SUBSET Blocks : Cardinality(Q) <= MaxQueries /\ getRawQuery(Q)
    \/ \E p \in 0 .. 2^(LogBlocks - 1) - 1 : answerQuery(p)
    \/ \E k \in 0 .. LogBlocks * 2^LogBlocks : digestResults(k)
    \/ verifyComitment

MerkleSpec == MerkleInit /\ [][MerkleNext]_merkleVars
-----------------------------------------------------------------------------
(***************************************************************************)
(* Properties.                                                             *)
(***************************************************************************)

\* Level n of the Merkle tree of the evaluation: the digests of 2^n blocks.
Layer[n \in 0 .. LogBlocks] ==
    IF n = 0 THEN [i \in Blocks |-> Evaluation(i)]
    ELSE [i \in 0 .. 2^(LogBlocks - n) - 1 |->
             hash(Layer[n - 1][2 * i], Layer[n - 1][2 * i + 1])]

\* Whatever the order in which the threads of getFinalHash (or of the coset
\* loop of boundaryPolysEvaluation) build their parts, and in both memory
\* modes, the commitment is the Merkle root of the evaluation, and in the kept
\* mode every path of the finished tree passes verifyPathToBlock.
CommitmentIsMerkleRoot ==
    /\ stage # "commit" => root_ = Layer[LogBlocks][0]
    /\ (stage = "query" /\ entireWitnessKept) =>
          \A b \in Blocks :
             LET p == b \div 2
             IN verifyPathToBlock(data_[2 * p], data_[2 * p + 1], root_,
                                  getPathToBlock(tree_, LogBlocks, b), b)

\* Whatever the order in which paths enter resultsTree, it holds nothing but
\* true digests, and when the last path is in it holds every digest that the
\* verifier will look for (toVector and DeSerialize agree on the mapping,
\* although one starts from the pairs and the other from the queried blocks).
AnswerIsComplete ==
    /\ \A k \in 1 .. LogBlocks : \A i \in DOMAIN resultsTree[k] :
          resultsTree[k][i] = Layer[k - 1][i]
    /\ (stage = "answer" /\ pending = {}) =>
          LET mapping == getSerializationMapping(queries)
          IN /\ \A j \in DOMAIN mapping :
                   mapping[j][2] \in DOMAIN resultsTree[mapping[j][1]]
             /\ Len(toVector(resultsTree)) = Len(mapping)

\* verifyComitment accepts exactly the answers the commitment fixes: an
\* unaltered answer is accepted and every queried block reads as it was
\* committed; an answer with a digest replaced anywhere is rejected.
VerdictIsRight ==
    stage = "verified" =>
        /\ verified = ~altered
        /\ verified => \A q \in queries : view[1][q] = Evaluation(q)

\* The answer is complete, and accepted exactly if it was not altered.
AnswersRight == AnswerIsComplete /\ VerdictIsRight
=============================================================================
