------------------------------ MODULE StarkProtocol ------------------------------
(***************************************************************************)
(* The interactive protocol of libSTARK: the Ali prover and verifier, the  *)
(* Reed-Solomon proximity (Fri) provers and verifiers they drive, and the  *)
(* loop of executeProtocol that carries the messages.                      *)
(*                                                                         *)
(* There is one Fri instance for the witness and one for the composition   *)
(* polynomial in each repetition.  A Fri verifier draws its columns when   *)
(* it is constructed, as a set of paths, and reveals them layer by layer;  *)
(* a digest names the instance and the path whose evaluation it commits    *)
(* to, and whether the instance was started from the combination that the  *)
(* verifier will compute.                                                  *)
(***************************************************************************)
EXTENDS Integers, Sequences, FiniteSets, SequencesExt

CONSTANTS
    Repetitions,    \* number of linear combinations, combSoundness_.size()
    NumWitnesses,   \* number of algebraic registers of the ACSP instance
    LogDegrees,     \* degree bounds (log2) of witness and composition
    PathSets        \* depth |-> the sets of column paths a verifier may draw

VARIABLES
    turn,       \* whose call executeProtocol makes next
    vPhase, pPhase,     \* phase_ of the Ali verifier and prover
    paths,      \* paths[i]: the nodes of instance i's query tree
    queried,    \* queried[i]: the nodes with data queries
    vMsg, pMsg, \* the message in flight in each direction
    kept,       \* the Ali verifier's commitments
    rsV,        \* the Fri verifiers
    rsP,        \* the Fri provers
    results,    \* nextResults_ of the Ali prover
    digested,   \* the answers the Ali verifier digested
    verdict

protocolVars == <<turn, vPhase, pPhase, paths, queried, vMsg, pMsg, kept, rsV,
                  rsP, results, digested, verdict>>

Kinds == {"witness", "composition"}
RS == Kinds \X (1 .. Repetitions)
root == <<>>

\* A digest that was never assigned.
zeroDigest == <<>>

Eta == 3
dimReduction == 2

\* 2 + logBytesPerHash - Log2(sizeof(FieldElement)).
minSpaceDim == 2 + (4 - 3)

\* 2^w is the least power of two that is at least k.
CeilLog2(k) == CHOOSE w \in 0 .. k : 2^w >= k /\ \A u \in 0 .. w - 1 : 2^u < k

\* The number of columns of the committed matrix.
boundaryPolysMatrix_logWidth == CeilLog2(NumWitnesses + Repetitions)

\* The stride with which computeUnivariateForPCPP_Witness reads it.
numColumns == 2^CeilLog2(1 + NumWitnesses)

\* Whether the evaluation an instance is started from is the combination
\* the verifier computes from the matrix.
StartedRight(i) ==
    i[1] = "witness" => numColumns = 2^boundaryPolysMatrix_logWidth

\* Recursion depth of Fri on a space of dimension basisSize.
calculateRecursionDepth(basisSize, logDegBound) ==
    LET depthPoly == logDegBound \div dimReduction
        depthSpace == (basisSize - minSpaceDim) \div dimReduction
    IN IF depthPoly < depthSpace THEN depthPoly ELSE depthSpace

\* Dimensions of the evaluation spaces, from the log2 degrees.
SpaceDim(kind, logDeg) ==
    LET maxLog == CHOOSE m \in {1, logDeg["witness"], logDeg["composition"]} :
                     \A k \in Kinds : logDeg[k] <= m
        dim == maxLog + Eta + 2
    IN IF kind = "witness" THEN dim ELSE dim - 2

Leaves(T) == {p \in T : \A q \in T : Len(q) <= Len(p)}
Chain(p) == Prefixes(p) \ {root}

\* The requests of the next layer: the subproofs of every node of this one,
\* each once, in the order of the maps that hold them.
Subproofs(T, p) == {t \in T : t # root /\ Front(t) = p}
NextLayer(T, requests) == SetToSeq(UNION {Subproofs(T, p) : p \in Range(requests)})

Digest(i, p) == <<i, p, StartedRight(i)>>

noRS == [i \in {} |-> root]
noMessage == [randomness |-> FALSE, queries |-> FALSE, rs |-> noRS]
noAnswer == [commitments |-> {}, results |-> FALSE, rs |-> noRS]
noResponse == [commitments |-> <<>>, data |-> {}]
\* Every depth that the degrees give has its columns, and a verifier draws at
\* least one path, of at least one column.
ASSUME ColumnsAssumption ==
    /\ \A logDeg \in [Kinds -> LogDegrees], k \in Kinds :
          calculateRecursionDepth(SpaceDim(k, logDeg), logDeg[k]) \in DOMAIN PathSets
    /\ \A d \in DOMAIN PathSets : \A draw \in PathSets[d] :
          /\ IsFiniteSet(draw) /\ draw # {}
          /\ \A p \in draw : p \in Seq(Nat) /\ p # root
-----------------------------------------------------------------------------
(***************************************************************************)
(* The constructors: the verifier draws its paths; its first request is    *)
(* for the layer below the root, whose commitment slot is left empty.      *)
(***************************************************************************)

ProtocolInit ==
    /\ \E logDeg \in [Kinds -> LogDegrees] :
         LET depth(k) == calculateRecursionDepth(SpaceDim(k, logDeg), logDeg[k])
         IN \E draw \in [RS -> UNION {PathSets[depth(k)] : k \in Kinds}] :
              /\ \A i \in RS : draw[i] \in PathSets[depth(i[1])]
              /\ paths = [i \in RS |-> UNION {Prefixes(p) : p \in draw[i]}]
    /\ \E leaf \in [RS -> UNION {Leaves(paths[i]) : i \in RS}] :
         /\ \A i \in RS : leaf[i] \in Leaves(paths[i])
         /\ queried = [i \in RS |-> Leaves(paths[i]) \cup Chain(leaf[i])]
    /\ rsV = [i \in RS |-> [requests |-> NextLayer(paths[i], <<root>>),
                            kept |-> [p \in {root} |-> zeroDigest],
                            data |-> {}, done |-> FALSE]]
    /\ rsP = noRS
    /\ turn = "verifier sends"
    /\ vPhase = "START_PROTOCOL" /\ pPhase = "START_PROTOCOL"
    /\ vMsg = noMessage /\ pMsg = noAnswer
    /\ kept = {} /\ results = FALSE /\ digested = FALSE /\ verdict = FALSE
-----------------------------------------------------------------------------
(***************************************************************************)
(* Fri verifier: sendMessage and receiveMessage.                           *)
(***************************************************************************)

doneConstructingProof(v) == v.requests = <<>>

\* Mutant: the positions are asked for with the last layer.
mutantFriRequest(i) ==
    IF NextLayer(paths[i], rsV[i].requests) = <<>>
    THEN [proofs |-> rsV[i].requests, data |-> queried[i]]
    ELSE [proofs |-> rsV[i].requests, data |-> {}]

FriRequest(i) ==
    IF doneConstructingProof(rsV[i])
    THEN [proofs |-> <<>>, data |-> queried[i]]
    ELSE [proofs |-> rsV[i].requests, data |-> {}]

\* Mutant: the commitments are read from the back.
mutantComitments(i, v, comitments) ==
    [v EXCEPT !.kept = [p \in DOMAIN @ \cup Range(v.requests) |->
                           IF p \in Range(v.requests)
                           THEN Reverse(comitments)[CHOOSE k \in DOMAIN v.requests :
                                                       v.requests[k] = p]
                           ELSE @[p]],
              !.requests = NextLayer(paths[i], @)]

\* Keep the commitments of this layer and ask for the next one.
recieveProofConstructionComitments(i, v, comitments) ==
    [v EXCEPT !.kept = [p \in DOMAIN @ \cup Range(v.requests) |->
                           IF p \in Range(v.requests)
                           THEN comitments[CHOOSE k \in DOMAIN v.requests :
                                              v.requests[k] = p]
                           ELSE @[p]],
              !.requests = NextLayer(paths[i], @)]

\* Mutant: the last message does not finish the instance.
mutantFriReceive(i, v, response) ==
    IF ~doneConstructingProof(v)
    THEN recieveProofConstructionComitments(i, v, response.commitments)
    ELSE [v EXCEPT !.data = response.data]

FriReceive(i, v, response) ==
    IF ~doneConstructingProof(v)
    THEN recieveProofConstructionComitments(i, v, response.commitments)
    ELSE [v EXCEPT !.data = response.data, !.done = TRUE]

\* Commitments of every queried node, then the low degree and consistency
\* tests, which fail when the instance was not started right.
FriVerify(i) ==
    /\ \A p \in queried[i] :
          /\ p \in DOMAIN rsV[i].kept /\ Digest(i, p) \in rsV[i].data
          /\ rsV[i].kept[p] = Digest(i, p)
    /\ StartedRight(i)
-----------------------------------------------------------------------------
(***************************************************************************)
(* Fri prover: built is the set of evaluated nodes.                        *)
(***************************************************************************)

constructProofs(i, built, proofs) ==
    [built |-> built \cup UNION {Prefixes(proofs[k]) : k \in DOMAIN proofs},
     commitments |-> [k \in DOMAIN proofs |-> Digest(i, proofs[k])]]

responceToDataQueries(i, data) == {Digest(i, p) : p \in data}

FriProverReceive(i, p, request) ==
    LET c == constructProofs(i, p.built, request.proofs)
    IN [built |-> c.built,
        response |-> [commitments |-> c.commitments,
                      data |-> responceToDataQueries(i, request.data)]]

deleteProof(p) == [p EXCEPT !.built = {}]
-----------------------------------------------------------------------------
(***************************************************************************)
(* The verifier's sendMessage, by phase.                                   *)
(***************************************************************************)

RSRequests == [i \in RS |-> FriRequest(i)]

SendStart ==
    /\ turn = "verifier sends" /\ vPhase = "START_PROTOCOL"
    /\ vMsg' = noMessage
    /\ vPhase' = "UNIVARIATE_COMMITMENTS" /\ turn' = "prover receives"
    /\ UNCHANGED <<pPhase, paths, queried, pMsg, kept, rsV, rsP, results,
                   digested, verdict>>

\* The coefficients; the case falls through to the proximity messages.
SendRandomness ==
    /\ turn = "verifier sends" /\ vPhase = "VERIFIER_RANDOMNESS"
    /\ vMsg' = [randomness |-> TRUE, queries |-> FALSE, rs |-> RSRequests]
    /\ vPhase' = "RS_PROXIMITY" /\ turn' = "prover receives"
    /\ UNCHANGED <<pPhase, paths, queried, pMsg, kept, rsV, rsP, results,
                   digested, verdict>>

\* Every Fri verifier sends, the finished ones included.
SendProximity ==
    /\ turn = "verifier sends" /\ vPhase = "RS_PROXIMITY"
    /\ vMsg' = [randomness |-> FALSE, queries |-> FALSE, rs |-> RSRequests]
    /\ turn' = "prover receives"
    /\ UNCHANGED <<vPhase, pPhase, paths, queried, pMsg, kept, rsV, rsP,
                   results, digested, verdict>>

SendQueries ==
    /\ turn = "verifier sends" /\ vPhase = "QUERY"
    /\ vMsg' = [randomness |-> FALSE, queries |-> TRUE, rs |-> noRS]
    /\ vPhase' = "RESULTS" /\ turn' = "prover receives"
    /\ UNCHANGED <<pPhase, paths, queried, pMsg, kept, rsV, rsP, results,
                   digested, verdict>>
-----------------------------------------------------------------------------
(***************************************************************************)
(* The prover's receiveMessage and sendMessage.                            *)
(***************************************************************************)

\* evaluateBoundryPolys and evaluateZK_Composition_mask.
ReceiveStart ==
    /\ turn = "prover receives" /\ pPhase = "START_PROTOCOL"
    /\ pPhase' = "UNIVARIATE_COMMITMENTS" /\ turn' = "prover sends"
    /\ UNCHANGED <<vPhase, paths, queried, vMsg, pMsg, kept, rsV, rsP, results,
                   digested, verdict>>

\* The instance has queries as soon as some Fri instance has a layer.
HasQueries == \E i \in RS : Subproofs(paths[i], root) # {}

\* The provers after the default case: each receives its request, and the
\* proofs are destructed when the queries arrive.
AfterDefault(provers) ==
    LET received == [i \in DOMAIN provers |->
                        IF i \in DOMAIN vMsg.rs
                        THEN FriProverReceive(i, provers[i], vMsg.rs[i])
                        ELSE provers[i]]
    IN IF vMsg.queries /\ HasQueries
       THEN [i \in DOMAIN provers |-> deleteProof(received[i])] ELSE received

\* The Fri provers are created, each with its root evaluation; the case falls
\* through to the default one.
ReceiveRandomness ==
    /\ turn = "prover receives" /\ pPhase = "VERIFIER_RANDOMNESS"
    /\ rsP' = AfterDefault([i \in RS |-> [built |-> {root},
                                          response |-> noResponse]])
    /\ pPhase' = "RS_PROXIMITY" /\ turn' = "prover sends"
    /\ UNCHANGED <<vPhase, paths, queried, vMsg, pMsg, kept, rsV, results,
                   digested, verdict>>

ReceiveDefault ==
    /\ turn = "prover receives" /\ pPhase = "RS_PROXIMITY"
    /\ rsP' = AfterDefault(rsP)
    /\ results' = (results \/ (vMsg.queries /\ HasQueries))
    /\ turn' = "prover sends"
    /\ UNCHANGED <<vPhase, pPhase, paths, queried, vMsg, pMsg, kept, rsV,
                   digested, verdict>>

SendCommitments ==
    /\ turn = "prover sends" /\ pPhase = "UNIVARIATE_COMMITMENTS"
    /\ pMsg' = [commitments |-> {"boundaryPolysMatrix", "ZK_mask_composition"},
                results |-> FALSE, rs |-> noRS]
    /\ pPhase' = "VERIFIER_RANDOMNESS" /\ turn' = "verifier receives"
    /\ UNCHANGED <<vPhase, paths, queried, vMsg, kept, rsV, rsP, results,
                   digested, verdict>>

SendResponses ==
    /\ turn = "prover sends" /\ pPhase = "RS_PROXIMITY"
    /\ pMsg' = [commitments |-> {}, results |-> results,
                rs |-> [i \in DOMAIN rsP |-> rsP[i].response]]
    /\ turn' = "verifier receives"
    /\ UNCHANGED <<vPhase, pPhase, paths, queried, vMsg, kept, rsV, rsP,
                   results, digested, verdict>>
-----------------------------------------------------------------------------
(***************************************************************************)
(* The verifier's receiveMessage, by phase, and verify.                    *)
(***************************************************************************)

doneInteracting(phase) == phase = "DONE"

AfterRound(phase) ==
    IF doneInteracting(phase) THEN "verify" ELSE "verifier sends"

ReceiveCommitments ==
    /\ turn = "verifier receives" /\ vPhase = "UNIVARIATE_COMMITMENTS"
    /\ kept' = pMsg.commitments
    /\ vPhase' = "VERIFIER_RANDOMNESS" /\ turn' = AfterRound(vPhase')
    /\ UNCHANGED <<pPhase, paths, queried, vMsg, pMsg, rsV, rsP, results,
                   digested, verdict>>

\* Unfinished Fri verifiers receive; the phase ends with the first message
\* that finds them all finished.
ReceiveProximity ==
    /\ turn = "verifier receives" /\ vPhase = "RS_PROXIMITY"
    /\ rsV' = [i \in RS |-> IF rsV[i].done THEN rsV[i]
                            ELSE FriReceive(i, rsV[i], pMsg.rs[i])]
    /\ vPhase' = IF \A i \in RS : rsV[i].done THEN "QUERY" ELSE "RS_PROXIMITY"
    /\ turn' = AfterRound(vPhase')
    /\ UNCHANGED <<pPhase, paths, queried, vMsg, pMsg, kept, rsP, results,
                   digested, verdict>>

ReceiveResults ==
    /\ turn = "verifier receives" /\ vPhase = "RESULTS"
    /\ digested' = pMsg.results
    /\ vPhase' = "DONE" /\ turn' = AfterRound(vPhase')
    /\ UNCHANGED <<pPhase, paths, queried, vMsg, pMsg, kept, rsV, rsP, results,
                   verdict>>

\* The Ali commitments are checked where there are queries, then each Fri
\* instance is verified.
verify ==
    /\ turn = "verify"
    /\ verdict' = /\ HasQueries =>
                        digested /\ kept = {"boundaryPolysMatrix",
                                            "ZK_mask_composition"}
                  /\ \A i \in RS : FriVerify(i)
    /\ turn' = "decided"
    /\ UNCHANGED <<vPhase, pPhase, paths, queried, vMsg, pMsg, kept, rsV, rsP,
                   results, digested>>

ProtocolNext ==
    \/ SendStart \/ SendRandomness \/ SendProximity \/ SendQueries
    \/ ReceiveStart \/ ReceiveRandomness \/ ReceiveDefault
    \/ SendCommitments \/ SendResponses
    \/ ReceiveCommitments \/ ReceiveProximity \/ ReceiveResults
    \/ verify

ProtocolSpec == ProtocolInit /\ [][ProtocolNext]_protocolVars

\* executeProtocol calls the two parties in turn until the verifier is done.
FairSpec == ProtocolSpec /\ WF_protocolVars(ProtocolNext)
-----------------------------------------------------------------------------
(***************************************************************************)
(* Properties.                                                             *)
(***************************************************************************)

\* The two phase machines never get out of step: no call of executeProtocol
\* finds a phase that ends in _COMMON_FATAL, every Fri verifier that is still
\* constructing gets exactly as many commitments as it asked for (the
\* assertion of recieveProofConstructionComitments), and data queries find
\* the nodes they read built, never deleted.
PhasesInStep ==
    /\ turn = "verifier sends" =>
          vPhase \in {"START_PROTOCOL", "VERIFIER_RANDOMNESS", "RS_PROXIMITY",
                      "QUERY"}
    /\ turn = "verifier receives" =>
          /\ vPhase \in {"UNIVARIATE_COMMITMENTS", "RS_PROXIMITY", "RESULTS"}
          /\ vPhase = "RS_PROXIMITY" =>
                \A i \in RS : i \in DOMAIN pMsg.rs /\
                    Len(pMsg.rs[i].commitments) = Len(rsV[i].requests)
    /\ (turn = "prover receives" /\ pPhase = "RS_PROXIMITY") =>
          \A i \in DOMAIN vMsg.rs : vMsg.rs[i].data \subseteq rsP[i].built

\* The prover is committed before it learns a coin: the coefficients leave the
\* verifier only when the witness commitments are kept, a column is revealed
\* only when the evaluation it folds is committed, and the positions that are
\* read are revealed only when every layer is.
CoinsAfterCommitments ==
    turn = "prover receives" =>
        /\ vMsg.randomness => kept # {}
        /\ \A i \in DOMAIN vMsg.rs :
              /\ kept # {}
              /\ \A k \in DOMAIN vMsg.rs[i].proofs :
                    Chain(Front(vMsg.rs[i].proofs[k])) \subseteq
                        DOMAIN rsV[i].kept
              /\ vMsg.rs[i].data # {} => paths[i] = DOMAIN rsV[i].kept
        /\ vMsg.queries => \A i \in RS : rsV[i].done

\* Completeness: the verifier accepts the honest prover, whatever the columns
\* drawn and however the depths of the instances differ.
Decided == turn = "decided"
HonestAccepted == Decided => verdict

\* executeProtocol between the honest prover and the verifier runs through all
\* phases and ends with the verifier's acceptance.
Completeness == PhasesInStep /\ HonestAccepted

\* The loop of executeProtocol ends and the verifier decides.
Decides == <>Decided
=============================================================================
