------------------------ MODULE StarkProtocolProofs ------------------------
(***************************************************************************)
(* For any number of repetitions and witnesses, any degrees and any        *)
(* columns, the two parties of the protocol keep in step, no coin leaves   *)
(* the verifier before the commitments it is about, and the honest prover  *)
(* is accepted when it reads the matrix as wide as it wrote it.            *)
(***************************************************************************)
EXTENDS StarkProtocol, FiniteSetTheorems, SequenceTheorems, TLAPS

-----------------------------------------------------------------------------
(* The inductive invariant. *)

\* A tree of columns: with a node it has all above it.
IsTree(T) ==
    /\ IsFiniteSet(T) /\ T \subseteq Seq(Nat) /\ root \in T
    /\ \A t \in T : Prefixes(t) \subseteq T

\* Every node is in the tree, and the root has no queries.
Drawn ==
    /\ paths = [i \in RS |-> paths[i]] /\ queried = [i \in RS |-> queried[i]]
    /\ \A i \in RS : IsTree(paths[i]) /\ queried[i] \subseteq paths[i] \ {root}

Above(T, n) == {t \in T : Len(t) < n}
Layer(T, n) == {t \in T : Len(t) = n}

\* s lists the elements of S, each once.
Lists(s, S) ==
    /\ s \in Seq(S) /\ Range(s) = S
    /\ \A j, k \in DOMAIN s : s[j] = s[k] => j = k

\* A Fri verifier that asks for layer n has the commitments of all before it.
AsksFor(i, v, n) ==
    /\ Lists(v.requests, Layer(paths[i], n))
    /\ DOMAIN v.kept = Above(paths[i], n)
    /\ \A p \in DOMAIN v.kept : p # root => v.kept[p] = Digest(i, p)

Fetched(i) == {Digest(i, p) : p \in queried[i]}

FriInv(i) ==
    LET v == rsV[i]
    IN /\ v = [requests |-> v.requests, kept |-> v.kept, data |-> v.data,
               done |-> v.done]
       /\ v.done \in BOOLEAN
       /\ \E n \in Nat \ {0} : AsksFor(i, v, n)
       /\ v.done => v.requests = <<>> /\ v.data = Fetched(i)

VerifiersInv ==
    /\ rsV = [i \in RS |-> rsV[i]]
    /\ \A i \in RS : FriInv(i)

\* What a Fri prover answers to the request of its verifier.
Answers(i, response) ==
    /\ response.commitments =
         [k \in DOMAIN rsV[i].requests |-> Digest(i, rsV[i].requests[k])]
    /\ rsV[i].requests = <<>> => response.data = Fetched(i)

\* The Fri provers have evaluated what their verifiers have commitments of,
\* and what they have answered for.
ProversInv ==
    /\ pPhase # "RS_PROXIMITY" => \A i \in RS : DOMAIN rsV[i].kept = {root}
    /\ pPhase = "RS_PROXIMITY" =>
         /\ rsP = [i \in RS |-> rsP[i]]
         /\ \A i \in RS :
              rsP[i] = [built |-> rsP[i].built, response |-> rsP[i].response]
         /\ vPhase = "RS_PROXIMITY" =>
              \A i \in RS : DOMAIN rsV[i].kept \subseteq rsP[i].built
         /\ (vPhase = "RS_PROXIMITY" /\ turn \in {"prover sends", "verifier receives"}) =>
              \A i \in RS : Range(rsV[i].requests) \subseteq rsP[i].built

\* The phases of the two parties when a call of executeProtocol is next.
Phases ==
    <<turn, vPhase, pPhase>> \in
        {<<"verifier sends", "START_PROTOCOL", "START_PROTOCOL">>,
         <<"prover receives", "UNIVARIATE_COMMITMENTS", "START_PROTOCOL">>,
         <<"prover sends", "UNIVARIATE_COMMITMENTS", "UNIVARIATE_COMMITMENTS">>,
         <<"verifier receives", "UNIVARIATE_COMMITMENTS", "VERIFIER_RANDOMNESS">>,
         <<"verifier sends", "VERIFIER_RANDOMNESS", "VERIFIER_RANDOMNESS">>,
         <<"prover receives", "RS_PROXIMITY", "VERIFIER_RANDOMNESS">>,
         <<"verifier sends", "RS_PROXIMITY", "RS_PROXIMITY">>,
         <<"prover receives", "RS_PROXIMITY", "RS_PROXIMITY">>,
         <<"prover sends", "RS_PROXIMITY", "RS_PROXIMITY">>,
         <<"verifier receives", "RS_PROXIMITY", "RS_PROXIMITY">>,
         <<"verifier sends", "QUERY", "RS_PROXIMITY">>,
         <<"prover receives", "RESULTS", "RS_PROXIMITY">>,
         <<"prover sends", "RESULTS", "RS_PROXIMITY">>,
         <<"verifier receives", "RESULTS", "RS_PROXIMITY">>,
         <<"verify", "DONE", "RS_PROXIMITY">>,
         <<"decided", "DONE", "RS_PROXIMITY">>}

bothCommitments == {"boundaryPolysMatrix", "ZK_mask_composition"}

\* The message in flight is the one of the phase.
Messages ==
    /\ turn = "prover receives" =>
         CASE vPhase = "UNIVARIATE_COMMITMENTS" -> vMsg = noMessage
           [] vPhase = "RS_PROXIMITY" ->
                /\ vMsg.queries = FALSE /\ vMsg.rs = RSRequests
           [] vPhase = "RESULTS" ->
                vMsg = [randomness |-> FALSE, queries |-> TRUE, rs |-> noRS]
           [] OTHER -> TRUE
    /\ (turn = "prover sends" /\ vPhase = "RS_PROXIMITY") =>
         \A i \in RS : Answers(i, rsP[i].response)
    /\ (turn = "prover sends" /\ vPhase = "RESULTS") => (HasQueries => results)
    /\ turn = "verifier receives" =>
         CASE vPhase = "UNIVARIATE_COMMITMENTS" -> pMsg.commitments = bothCommitments
           [] vPhase = "RS_PROXIMITY" ->
                /\ DOMAIN pMsg.rs = RS
                /\ \A i \in RS : Answers(i, pMsg.rs[i])
           [] vPhase = "RESULTS" -> HasQueries => pMsg.results
           [] OTHER -> TRUE

\* What the Ali verifier has received.
Received ==
    /\ vPhase \notin {"START_PROTOCOL", "UNIVARIATE_COMMITMENTS"} =>
         kept = bothCommitments
    /\ vPhase \in {"QUERY", "RESULTS", "DONE"} => \A i \in RS : rsV[i].done
    /\ vPhase = "DONE" => (HasQueries => digested)
    /\ (turn = "decided" /\ \A i \in RS : StartedRight(i)) => verdict

IInv ==
    /\ Drawn /\ VerifiersInv /\ ProversInv /\ Phases /\ Messages /\ Received
-----------------------------------------------------------------------------
(* Paths and trees. *)

LEMMA PrefixFacts ==
    ASSUME NEW t \in Seq(Nat), NEW m \in 0 .. Len(t)
    PROVE  /\ SubSeq(t, 1, m) \in Seq(Nat) /\ Len(SubSeq(t, 1, m)) = m
           /\ \A k \in 1 .. m : SubSeq(t, 1, m)[k] = t[k]
           /\ \A l \in 0 .. m : SubSeq(SubSeq(t, 1, m), 1, l) = SubSeq(t, 1, l)
           /\ SubSeq(t, 1, Len(t)) = t
           /\ SubSeq(t, 1, 0) = root
<1>0. Len(t) \in Nat
  OBVIOUS
<1>1. \A s \in Seq(Nat) : \A l \in 0 .. Len(s) :
        /\ SubSeq(s, 1, l) \in Seq(Nat) /\ Len(SubSeq(s, 1, l)) = l
        /\ \A k \in 1 .. l : SubSeq(s, 1, l)[k] = s[k]
  <2> SUFFICES ASSUME NEW s \in Seq(Nat), NEW l \in 0 .. Len(s)
               PROVE  /\ SubSeq(s, 1, l) \in Seq(Nat) /\ Len(SubSeq(s, 1, l)) = l
                      /\ \A k \in 1 .. l : SubSeq(s, 1, l)[k] = s[k]
    OBVIOUS
  <2>1. l \in Int /\ 1 \in Int /\ \A k \in 1 .. l : s[k] \in Nat
    OBVIOUS
  <2> QED BY <2>1, SubSeqProperties
<1>2. \A l \in 0 .. m : SubSeq(SubSeq(t, 1, m), 1, l) = SubSeq(t, 1, l)
  <2> TAKE l \in 0 .. m
  <2> DEFINE r == SubSeq(t, 1, m)
             a == SubSeq(r, 1, l)
             b == SubSeq(t, 1, l)
  <2>1. r \in Seq(Nat) /\ Len(r) = m /\ \A k \in 1 .. m : r[k] = t[k]
    BY <1>1
  <2> HIDE DEF r
  <2>2. a \in Seq(Nat) /\ Len(a) = l /\ \A k \in 1 .. l : a[k] = r[k]
    BY <1>1, <2>1
  <2>3. l \in 0 .. Len(t)
    BY <1>0
  <2>4. b \in Seq(Nat) /\ Len(b) = l /\ \A k \in 1 .. l : b[k] = t[k]
    BY <1>1, <2>3
  <2> HIDE DEF a, b
  <2>5. \A k \in 1 .. l : a[k] = b[k]
    <3> TAKE k \in 1 .. l
    <3>1. k \in 1 .. m
      BY <1>0
    <3> QED BY <2>1, <2>2, <2>4, <3>1
  <2>6. a = b
    BY <2>2, <2>4, <2>5
  <2> QED BY <2>6 DEF a, b, r
<1>3. SubSeq(t, 1, Len(t)) = t
  BY SubSeqFull
<1>4. SubSeq(t, 1, 0) = root
  BY SubSeqEmpty DEF root
<1> QED BY <1>1, <1>2, <1>3, <1>4

LEMMA FrontFacts ==
    ASSUME NEW t \in Seq(Nat), t # root
    PROVE  /\ Len(t) \in Nat \ {0} /\ Front(t) \in Prefixes(t)
           /\ Front(t) \in Seq(Nat) /\ Len(Front(t)) = Len(t) - 1
           /\ Front(t) = SubSeq(t, 1, Len(t) - 1)
<1>1. Len(t) \in Nat \ {0}
  BY DEF root
<1>2. Len(t) - 1 \in 0 .. Len(t)
  BY <1>1
<1> QED BY <1>1, <1>2, PrefixFacts DEF Front, Prefixes

\* A set is listed by SetToSeq.
LEMMA SetToSeqLists ==
    ASSUME NEW S, IsFiniteSet(S)
    PROVE  Lists(SetToSeq(S), S)
<1> DEFINE n == Cardinality(S)
           s == SetToSeq(S)
<1>1. n \in Nat /\ ExistsBijection(1 .. n, S)
  BY FS_CardinalityType
<1>2. PICK f : f \in Bijection(1 .. n, S)
  BY <1>1, Zenon DEF ExistsBijection
<1>3. f \in [1 .. n -> S] /\ IsInjective(f)
  BY <1>2, Zenon DEF Bijection, Injection
<1>4. s \in [1 .. n -> S] /\ IsInjective(s)
  BY <1>3, Zenon DEF SetToSeq
<1> HIDE DEF s
<1>5. s \in Injection(1 .. n, S)
  BY <1>4, Zenon DEF Injection
<1> HIDE DEF n
<1>6. s \in Bijection(1 .. n, S)
  <2>1. IsFiniteSet(1 .. n) /\ Cardinality(1 .. n) = n
    BY <1>1, FS_Interval, FS_CountingElements
  <2>2. Cardinality(1 .. n) = Cardinality(S)
    BY <2>1 DEF n
  <2> QED BY <1>5, <2>1, <2>2, FS_Injection, Zenon DEF Bijection
<1>7. \A y \in S : \E x \in 1 .. n : s[x] = y
  BY <1>6, Zenon DEF Bijection, Surjection
<1>8. s \in Seq(S) /\ DOMAIN s = 1 .. n
  BY <1>1, <1>4
<1> QED BY <1>4, <1>7, <1>8 DEF Lists, Range, IsInjective, s

LEMMA PrefixesFinite ==
    ASSUME NEW t \in Seq(Nat)
    PROVE  IsFiniteSet(Prefixes(t))
<1> DEFINE f == [l \in 0 .. Len(t) |-> SubSeq(t, 1, l)]
<1>1. f \in Surjection(0 .. Len(t), Prefixes(t))
  BY DEF Surjection, Prefixes
<1>2. IsFiniteSet(0 .. Len(t))
  BY FS_Interval
<1> QED BY <1>1, <1>2, FS_Surjection

\* The nodes on some paths are a tree.
LEMMA PathsAreTree ==
    ASSUME NEW draw, IsFiniteSet(draw), draw # {}, draw \subseteq Seq(Nat)
    PROVE  IsTree(UNION {Prefixes(p) : p \in draw})
<1> DEFINE T == UNION {Prefixes(p) : p \in draw}
           f == [p \in draw |-> Prefixes(p)]
<1>1. IsFiniteSet({Prefixes(p) : p \in draw})
  <2>1. f \in Surjection(draw, {Prefixes(p) : p \in draw})
    BY DEF Surjection
  <2> QED BY <2>1, FS_Surjection
<1>2. IsFiniteSet(T)
  BY <1>1, PrefixesFinite, FS_UNION
<1>3. \A p \in draw : \A t \in Prefixes(p) :
        t \in Seq(Nat) /\ Prefixes(t) \subseteq Prefixes(p)
  <2> TAKE p \in draw
  <2> TAKE t \in Prefixes(p)
  <2>1. p \in Seq(Nat) /\ Len(p) \in Nat
    OBVIOUS
  <2>2. PICK m \in 0 .. Len(p) : t = SubSeq(p, 1, m)
    BY DEF Prefixes
  <2>3. t \in Seq(Nat) /\ Len(t) = m
    BY <2>1, <2>2, PrefixFacts
  <2>4. ASSUME NEW u \in Prefixes(t) PROVE u \in Prefixes(p)
    <3>1. PICK l \in 0 .. m : u = SubSeq(t, 1, l)
      BY <2>3 DEF Prefixes
    <3>2. u = SubSeq(p, 1, l) /\ l \in 0 .. Len(p)
      BY <2>1, <2>2, <3>1, PrefixFacts
    <3> QED BY <3>2 DEF Prefixes
  <2> QED BY <2>3, <2>4
<1>4. root \in T
  <2>1. PICK p \in draw : TRUE
    OBVIOUS
  <2>2. p \in Seq(Nat) /\ Len(p) \in Nat /\ 0 \in 0 .. Len(p)
    OBVIOUS
  <2>3. root = SubSeq(p, 1, 0)
    BY <2>2, PrefixFacts
  <2>4. root \in Prefixes(p)
    BY <2>2, <2>3 DEF Prefixes
  <2> QED BY <2>4
<1> QED BY <1>2, <1>3, <1>4 DEF IsTree

LEMMA LengthFacts ==
    ASSUME NEW T, IsTree(T), NEW t \in T
    PROVE  /\ t \in Seq(Nat) /\ Len(t) \in Nat /\ (Len(t) = 0 <=> t = root)
           /\ t # root => Front(t) \in T /\ Len(Front(t)) = Len(t) - 1
           /\ \A l \in 0 .. Len(t) : SubSeq(t, 1, l) \in T /\ Len(SubSeq(t, 1, l)) = l
<1>1. t \in Seq(Nat) /\ Prefixes(t) \subseteq T
  BY DEF IsTree
<1>2. Len(t) \in Nat /\ (Len(t) = 0 <=> t = root)
  BY <1>1 DEF root
<1>3. t # root => Front(t) \in T /\ Len(Front(t)) = Len(t) - 1
  BY <1>1, FrontFacts
<1>4. ASSUME NEW l \in 0 .. Len(t)
      PROVE  SubSeq(t, 1, l) \in T /\ Len(SubSeq(t, 1, l)) = l
  BY <1>1, PrefixFacts DEF Prefixes
<1> QED BY <1>1, <1>2, <1>3, <1>4

\* The requests after those of a layer are those of the layer below it.
LEMMA NextLayerLists ==
    ASSUME NEW T, IsTree(T), NEW n \in Nat, NEW s, Lists(s, Layer(T, n))
    PROVE  Lists(NextLayer(T, s), Layer(T, n + 1))
<1> DEFINE below == UNION {Subproofs(T, p) : p \in Range(s)}
<1>1. below = Layer(T, n + 1)
  <2>1. Range(s) = Layer(T, n)
    BY DEF Lists
  <2>2. ASSUME NEW t \in T
        PROVE  (t # root /\ Front(t) \in Layer(T, n)) <=> Len(t) = n + 1
    BY LengthFacts DEF Layer
  <2> QED BY <2>1, <2>2 DEF Subproofs, Layer
<1>2. IsFiniteSet(Layer(T, n + 1))
  BY FS_Subset DEF Layer, IsTree
<1> QED BY <1>1, <1>2, SetToSeqLists DEF NextLayer

\* Below an empty layer there is none.
LEMMA EmptyLayer ==
    ASSUME NEW T, IsTree(T), NEW n \in Nat, Layer(T, n) = {}
    PROVE  Above(T, n) = T
<1>1. ASSUME NEW t \in T, ~(Len(t) < n) PROVE FALSE
  <2>1. n \in 0 .. Len(t)
    BY <1>1, LengthFacts
  <2>2. SubSeq(t, 1, n) \in Layer(T, n)
    BY <2>1, LengthFacts DEF Layer
  <2> QED BY <2>2
<1> QED BY <1>1 DEF Above
-----------------------------------------------------------------------------
(* The initial states. *)

LEMMA FirstLayer ==
    ASSUME NEW T, IsTree(T)
    PROVE  Lists(<<root>>, Layer(T, 0)) /\ Above(T, 1) = {root}
<1>1. \A t \in T : t \in Seq(Nat) /\ Len(t) \in Nat /\ (Len(t) = 0 <=> t = root)
  BY LengthFacts
<1>2. Layer(T, 0) = {root} /\ Above(T, 1) = {root}
  BY <1>1 DEF Layer, Above, IsTree
<1> QED BY <1>2 DEF Lists, Range

LEMMA InitDrawn == ProtocolInit => Drawn
<1> SUFFICES ASSUME ProtocolInit PROVE Drawn
  OBVIOUS
<1> DEFINE depth(logDeg, k) == calculateRecursionDepth(SpaceDim(k, logDeg), logDeg[k])
<1>1. PICK logDeg \in [Kinds -> LogDegrees] :
        \E draw \in [RS -> UNION {PathSets[depth(logDeg, k)] : k \in Kinds}] :
              /\ \A i \in RS : draw[i] \in PathSets[depth(logDeg, i[1])]
              /\ paths = [i \in RS |-> UNION {Prefixes(p) : p \in draw[i]}]
  BY DEF ProtocolInit
<1>2. PICK draw :
              /\ \A i \in RS : draw[i] \in PathSets[depth(logDeg, i[1])]
              /\ paths = [i \in RS |-> UNION {Prefixes(p) : p \in draw[i]}]
  BY <1>1
<1>3. \A k \in Kinds : depth(logDeg, k) \in DOMAIN PathSets
  BY ColumnsAssumption
<1> HIDE DEF depth
<1>4. ASSUME NEW i \in RS
      PROVE  /\ IsFiniteSet(draw[i]) /\ draw[i] # {}
             /\ \A p \in draw[i] : p \in Seq(Nat) /\ p # root
  <2>1. i[1] \in Kinds
    BY DEF RS
  <2> QED BY <1>2, <1>3, <2>1, ColumnsAssumption
<1>5. ASSUME NEW i \in RS PROVE IsTree(paths[i])
  BY <1>2, <1>4, PathsAreTree
<1>6. PICK leaf : /\ \A i \in RS : leaf[i] \in Leaves(paths[i])
                  /\ queried = [i \in RS |-> Leaves(paths[i]) \cup Chain(leaf[i])]
  BY DEF ProtocolInit
<1>7. ASSUME NEW i \in RS PROVE queried[i] \subseteq paths[i] \ {root}
  <2>1. PICK p \in draw[i] : p \in Seq(Nat) /\ p # root
    BY <1>4
  <2>2. p \in paths[i]
    <3>1. Len(p) \in 0 .. Len(p) /\ SubSeq(p, 1, Len(p)) = p
      BY <2>1, PrefixFacts
    <3>2. p \in Prefixes(p)
      BY <3>1 DEF Prefixes
    <3> QED BY <1>2, <3>2
  <2>3. root \notin Leaves(paths[i])
    BY <1>5, <2>1, <2>2, LengthFacts DEF Leaves, root
  <2>4. Leaves(paths[i]) \subseteq paths[i]
    BY DEF Leaves
  <2>5. Chain(leaf[i]) \subseteq paths[i] \ {root}
    BY <1>5, <1>6, <2>4 DEF Chain, IsTree
  <2> QED BY <1>6, <2>3, <2>4, <2>5
<1> QED BY <1>2, <1>5, <1>6, <1>7 DEF Drawn

LEMMA InitInv == ProtocolInit => IInv
<1> SUFFICES ASSUME ProtocolInit PROVE IInv
  OBVIOUS
<1>1. Drawn
  BY InitDrawn
<1>2. ASSUME NEW i \in RS
      PROVE FriInv(i) /\ DOMAIN rsV[i].kept = {root}
  <2>0. IsTree(paths[i])
    BY <1>1 DEF Drawn
  <2>1. rsV[i] = [requests |-> NextLayer(paths[i], <<root>>),
                  kept |-> [p \in {root} |-> zeroDigest], data |-> {}, done |-> FALSE]
    BY DEF ProtocolInit
  <2>2. Lists(NextLayer(paths[i], <<root>>), Layer(paths[i], 1))
    BY <2>0, FirstLayer, NextLayerLists
  <2>3. AsksFor(i, rsV[i], 1)
    BY <2>0, <2>1, <2>2, FirstLayer DEF AsksFor
  <2> QED BY <2>1, <2>3 DEF FriInv
<1>3. VerifiersInv
  BY <1>2 DEF VerifiersInv, ProtocolInit
<1>4. ProversInv
  BY <1>2 DEF ProversInv, ProtocolInit
<1>5. Phases
  BY DEF ProtocolInit, Phases
<1>6. Messages /\ Received
  BY DEF ProtocolInit, Messages, Received
<1> QED BY <1>1, <1>3, <1>4, <1>5, <1>6 DEF IInv
-----------------------------------------------------------------------------
(* The calls that leave the Fri verifiers alone. *)

LEMMA SameVerifiers ==
    ASSUME IInv, UNCHANGED <<paths, queried, rsV>>
    PROVE  /\ Drawn' /\ VerifiersInv'
           /\ HasQueries' = HasQueries /\ RSRequests' = RSRequests
           /\ \A i, r : Answers(i, r)' = Answers(i, r)
<1>1. Drawn'
  BY DEF IInv, Drawn
<1>2. \A i : FriInv(i)' = FriInv(i)
  BY DEF FriInv, AsksFor, Fetched
<1>3. VerifiersInv'
  BY <1>2 DEF IInv, VerifiersInv
<1>4. HasQueries' = HasQueries /\ RSRequests' = RSRequests
  BY DEF HasQueries, RSRequests, FriRequest
<1>5. \A i, r : Answers(i, r)' = Answers(i, r)
  BY DEF Answers, Fetched
<1> QED BY <1>1, <1>3, <1>4, <1>5

LEMMA SendStartInv == ASSUME IInv, SendStart PROVE IInv'
<1>1. vPhase = "START_PROTOCOL" /\ pPhase = "START_PROTOCOL"
  BY DEF IInv, Phases, SendStart
<1>2. UNCHANGED <<paths, queried, rsV>>
  BY DEF SendStart
<1>3. Drawn' /\ VerifiersInv'
  BY <1>2, SameVerifiers
<1>4. ProversInv'
  BY <1>1 DEF IInv, ProversInv, SendStart
<1>5. Phases'
  BY <1>1 DEF Phases, SendStart
<1>6. Messages'
  BY <1>1, <1>2, SameVerifiers DEF IInv, Messages, SendStart
<1>7. Received'
  BY <1>1, <1>2, SameVerifiers DEF IInv, Received, SendStart
<1> QED BY <1>3, <1>4, <1>5, <1>6, <1>7 DEF IInv

LEMMA SendRandomnessInv == ASSUME IInv, SendRandomness PROVE IInv'
<1>1. vPhase = "VERIFIER_RANDOMNESS" /\ pPhase = "VERIFIER_RANDOMNESS"
  BY DEF IInv, Phases, SendRandomness
<1>2. UNCHANGED <<paths, queried, rsV>>
  BY DEF SendRandomness
<1>3. Drawn' /\ VerifiersInv'
  BY <1>2, SameVerifiers
<1>4. ProversInv'
  BY <1>1 DEF IInv, ProversInv, SendRandomness
<1>5. Phases'
  BY <1>1 DEF Phases, SendRandomness
<1>6. Messages'
  BY <1>1, <1>2, SameVerifiers DEF IInv, Messages, SendRandomness
<1>7. Received'
  BY <1>1, <1>2, SameVerifiers DEF IInv, Received, SendRandomness
<1> QED BY <1>3, <1>4, <1>5, <1>6, <1>7 DEF IInv

LEMMA SendProximityInv == ASSUME IInv, SendProximity PROVE IInv'
<1>1. vPhase = "RS_PROXIMITY" /\ pPhase = "RS_PROXIMITY"
  BY DEF IInv, Phases, SendProximity
<1>2. UNCHANGED <<paths, queried, rsV>>
  BY DEF SendProximity
<1>3. Drawn' /\ VerifiersInv'
  BY <1>2, SameVerifiers
<1>4. ProversInv'
  BY <1>1 DEF IInv, ProversInv, SendProximity
<1>5. Phases'
  BY <1>1 DEF Phases, SendProximity
<1>6. Messages'
  BY <1>1, <1>2, SameVerifiers DEF IInv, Messages, SendProximity
<1>7. Received'
  BY <1>1, <1>2, SameVerifiers DEF IInv, Received, SendProximity
<1> QED BY <1>3, <1>4, <1>5, <1>6, <1>7 DEF IInv

LEMMA SendQueriesInv == ASSUME IInv, SendQueries PROVE IInv'
<1>1. vPhase = "QUERY" /\ pPhase = "RS_PROXIMITY"
  BY DEF IInv, Phases, SendQueries
<1>2. UNCHANGED <<paths, queried, rsV>>
  BY DEF SendQueries
<1>3. Drawn' /\ VerifiersInv'
  BY <1>2, SameVerifiers
<1>4. ProversInv'
  BY <1>1 DEF IInv, ProversInv, SendQueries
<1>5. Phases'
  BY <1>1 DEF Phases, SendQueries
<1>6. Messages'
  BY <1>1, <1>2, SameVerifiers DEF IInv, Messages, SendQueries
<1>7. Received'
  BY <1>1, <1>2, SameVerifiers DEF IInv, Received, SendQueries
<1> QED BY <1>3, <1>4, <1>5, <1>6, <1>7 DEF IInv

LEMMA ReceiveStartInv == ASSUME IInv, ReceiveStart PROVE IInv'
<1>1. vPhase = "UNIVARIATE_COMMITMENTS" /\ pPhase = "START_PROTOCOL"
  BY DEF IInv, Phases, ReceiveStart
<1>2. UNCHANGED <<paths, queried, rsV>>
  BY DEF ReceiveStart
<1>3. Drawn' /\ VerifiersInv'
  BY <1>2, SameVerifiers
<1>4. ProversInv'
  BY <1>1 DEF IInv, ProversInv, ReceiveStart
<1>5. Phases'
  BY <1>1 DEF Phases, ReceiveStart
<1>6. Messages'
  BY <1>1, <1>2, SameVerifiers DEF IInv, Messages, ReceiveStart
<1>7. Received'
  BY <1>1, <1>2, SameVerifiers DEF IInv, Received, ReceiveStart
<1> QED BY <1>3, <1>4, <1>5, <1>6, <1>7 DEF IInv

LEMMA SendCommitmentsInv == ASSUME IInv, SendCommitments PROVE IInv'
<1>1. vPhase = "UNIVARIATE_COMMITMENTS" /\ pPhase = "UNIVARIATE_COMMITMENTS"
  BY DEF IInv, Phases, SendCommitments
<1>2. UNCHANGED <<paths, queried, rsV>>
  BY DEF SendCommitments
<1>3. Drawn' /\ VerifiersInv'
  BY <1>2, SameVerifiers
<1>4. ProversInv'
  BY <1>1 DEF IInv, ProversInv, SendCommitments
<1>5. Phases'
  BY <1>1 DEF Phases, SendCommitments
<1>6. Messages'
  BY <1>1, <1>2, SameVerifiers DEF Messages, bothCommitments, SendCommitments
<1>7. Received'
  BY <1>1, <1>2, SameVerifiers DEF IInv, Received, SendCommitments
<1> QED BY <1>3, <1>4, <1>5, <1>6, <1>7 DEF IInv

LEMMA SendResponsesInv == ASSUME IInv, SendResponses PROVE IInv'
<1>1. vPhase \in {"RS_PROXIMITY", "RESULTS"} /\ pPhase = "RS_PROXIMITY"
  BY DEF IInv, Phases, SendResponses
<1>2. UNCHANGED <<paths, queried, rsV>>
  BY DEF SendResponses
<1>3. Drawn' /\ VerifiersInv'
  BY <1>2, SameVerifiers
<1>4. ProversInv'
  BY <1>1 DEF IInv, ProversInv, SendResponses
<1>5. Phases'
  BY <1>1 DEF Phases, SendResponses
<1>6. Messages'
  <2>1. DOMAIN rsP = RS
    BY <1>1 DEF IInv, ProversInv
  <2>2. /\ turn' = "verifier receives" /\ vPhase' = vPhase
        /\ pMsg'.results = results /\ DOMAIN pMsg'.rs = RS
        /\ \A i \in RS : pMsg'.rs[i] = rsP[i].response
    BY <2>1 DEF SendResponses
  <2>3. vPhase = "RS_PROXIMITY" => \A i \in RS : Answers(i, rsP[i].response)
    BY DEF IInv, Messages, SendResponses
  <2>4. vPhase = "RS_PROXIMITY" => (\A i \in RS : Answers(i, pMsg.rs[i]))'
    <3> SUFFICES ASSUME vPhase = "RS_PROXIMITY", NEW i \in RS
                 PROVE  Answers(i, pMsg.rs[i])'
      OBVIOUS
    <3> DEFINE r == rsP[i].response
    <3>1. Answers(i, r)
      BY <2>3
    <3>2. pMsg'.rs[i] = r
      BY <2>2
    <3> HIDE DEF r
    <3> QED BY <1>2, <3>1, <3>2 DEF Answers, Fetched
  <2>5. vPhase = "RESULTS" => (HasQueries => results)
    BY DEF IInv, Messages, SendResponses
  <2>6. HasQueries' = HasQueries
    BY <1>2, SameVerifiers
  <2> QED BY <1>1, <2>2, <2>4, <2>5, <2>6 DEF Messages
<1>7. Received'
  BY <1>1, <1>2, SameVerifiers DEF IInv, Received, SendResponses
<1> QED BY <1>3, <1>4, <1>5, <1>6, <1>7 DEF IInv

LEMMA ReceiveCommitmentsInv == ASSUME IInv, ReceiveCommitments PROVE IInv'
<1>1. vPhase = "UNIVARIATE_COMMITMENTS" /\ pPhase = "VERIFIER_RANDOMNESS"
  BY DEF IInv, Phases, ReceiveCommitments
<1>2. UNCHANGED <<paths, queried, rsV>>
  BY DEF ReceiveCommitments
<1>3. Drawn' /\ VerifiersInv'
  BY <1>2, SameVerifiers
<1>4. ProversInv'
  BY <1>1 DEF IInv, ProversInv, ReceiveCommitments
<1>5. Phases'
  BY <1>1 DEF Phases, AfterRound, doneInteracting, ReceiveCommitments
<1>6. Messages'
  BY <1>1, <1>2, SameVerifiers DEF IInv, Messages, ReceiveCommitments
<1>7. Received'
  <2>1. pMsg.commitments = bothCommitments
    BY <1>1 DEF IInv, Messages, ReceiveCommitments
  <2>2. turn' = "verifier sends" /\ vPhase' = "VERIFIER_RANDOMNESS" /\ kept' = bothCommitments
    BY <2>1 DEF ReceiveCommitments, AfterRound, doneInteracting
  <2> QED BY <2>2 DEF Received
<1> QED BY <1>3, <1>4, <1>5, <1>6, <1>7 DEF IInv

LEMMA ReceiveResultsInv == ASSUME IInv, ReceiveResults PROVE IInv'
<1>1. vPhase = "RESULTS" /\ pPhase = "RS_PROXIMITY"
  BY DEF IInv, Phases, ReceiveResults
<1>2. UNCHANGED <<paths, queried, rsV>>
  BY DEF ReceiveResults
<1>3. Drawn' /\ VerifiersInv'
  BY <1>2, SameVerifiers
<1>4. ProversInv'
  BY <1>1 DEF IInv, ProversInv, ReceiveResults
<1>5. Phases'
  BY <1>1 DEF Phases, AfterRound, doneInteracting, ReceiveResults
<1>6. Messages'
  BY <1>1, <1>2, SameVerifiers DEF IInv, Messages, ReceiveResults
<1>7. Received'
  <2>1. HasQueries => pMsg.results
    BY <1>1 DEF IInv, Messages, ReceiveResults
  <2>2. turn' = "verify" /\ vPhase' = "DONE" /\ digested' = pMsg.results /\ kept' = kept
    BY DEF ReceiveResults, AfterRound, doneInteracting
  <2>3. kept = bothCommitments /\ \A i \in RS : rsV[i].done
    BY <1>1 DEF IInv, Received
  <2> QED BY <1>2, <2>1, <2>2, <2>3, SameVerifiers DEF Received
<1> QED BY <1>3, <1>4, <1>5, <1>6, <1>7 DEF IInv

-----------------------------------------------------------------------------
(* The prover receives. *)

\* A Fri verifier without requests has the commitments of the whole tree.
LEMMA AllKept ==
    ASSUME Drawn, VerifiersInv, NEW i \in RS, rsV[i].requests = <<>>
    PROVE  DOMAIN rsV[i].kept = paths[i]
<1>1. PICK n \in Nat \ {0} : AsksFor(i, rsV[i], n)
  BY DEF VerifiersInv, FriInv
<1>2. Layer(paths[i], n) = {}
  BY <1>1 DEF AsksFor, Lists, Range
<1> QED BY <1>1, <1>2, EmptyLayer DEF AsksFor, Drawn

\* A prover that receives the request of its verifier answers it, and has then
\* evaluated what it answers for.
LEMMA ProverAnswers ==
    ASSUME Drawn, VerifiersInv, NEW i \in RS, NEW p
    PROVE  LET r == FriProverReceive(i, p, FriRequest(i))
           IN /\ r = [built |-> r.built, response |-> r.response]
              /\ Answers(i, r.response)
              /\ p.built \subseteq r.built
              /\ Range(rsV[i].requests) \subseteq r.built
<1> DEFINE q == rsV[i].requests
           r == FriProverReceive(i, p, FriRequest(i))
<1>1. PICK n \in Nat \ {0} : AsksFor(i, rsV[i], n)
  BY DEF VerifiersInv, FriInv
<1>2. q \in Seq(Layer(paths[i], n)) /\ IsTree(paths[i])
  BY <1>1 DEF AsksFor, Lists, Drawn
<1>3. /\ FriRequest(i).proofs = q
      /\ FriRequest(i).data = IF q = <<>> THEN queried[i] ELSE {}
  BY DEF FriRequest, doneConstructingProof
<1>4. r = [built |-> p.built \cup UNION {Prefixes(q[k]) : k \in DOMAIN q},
           response |-> [commitments |-> [k \in DOMAIN q |-> Digest(i, q[k])],
                         data |-> {Digest(i, x) : x \in FriRequest(i).data}]]
  BY <1>3 DEF FriProverReceive, constructProofs, responceToDataQueries
<1>5. ASSUME NEW k \in DOMAIN q PROVE q[k] \in Prefixes(q[k])
  <2>1. q[k] \in paths[i]
    BY <1>2 DEF Layer
  <2>2. q[k] \in Seq(Nat) /\ Len(q[k]) \in 0 .. Len(q[k])
    BY <1>2, <2>1 DEF IsTree
  <2>3. SubSeq(q[k], 1, Len(q[k])) = q[k]
    BY <2>2, PrefixFacts
  <2> QED BY <2>2, <2>3 DEF Prefixes
<1>6. Range(q) \subseteq r.built
  BY <1>4, <1>5 DEF Range
<1>7. Answers(i, r.response)
  BY <1>3, <1>4 DEF Answers, Fetched
<1> QED BY <1>4, <1>6, <1>7

LEMMA ReceiveRandomnessInv == ASSUME IInv, ReceiveRandomness PROVE IInv'
<1>1. vPhase = "RS_PROXIMITY" /\ pPhase = "VERIFIER_RANDOMNESS"
  BY DEF IInv, Phases, ReceiveRandomness
<1>2. UNCHANGED <<paths, queried, rsV>>
  BY DEF ReceiveRandomness
<1>3. Drawn' /\ VerifiersInv'
  BY <1>2, SameVerifiers
<1>4. turn' = "prover sends" /\ pPhase' = "RS_PROXIMITY" /\ vPhase' = "RS_PROXIMITY"
  BY <1>1 DEF ReceiveRandomness
<1> DEFINE new == [built |-> {root}, response |-> noResponse]
<1>5. rsP' = [i \in RS |-> FriProverReceive(i, new, FriRequest(i))]
  <2>1. vMsg.queries = FALSE /\ vMsg.rs = RSRequests
    BY <1>1 DEF IInv, Messages, ReceiveRandomness
  <2>2. vMsg.rs = [i \in RS |-> FriRequest(i)]
    BY <2>1 DEF RSRequests
  <2> QED BY <2>1, <2>2 DEF ReceiveRandomness, AfterDefault
<1>6. \A i \in RS : DOMAIN rsV[i].kept = {root}
  BY <1>1 DEF IInv, ProversInv
<1>7. ASSUME NEW i \in RS
      PROVE  /\ rsP'[i] = [built |-> rsP'[i].built, response |-> rsP'[i].response]
             /\ Answers(i, rsP'[i].response)
             /\ DOMAIN rsV[i].kept \subseteq rsP'[i].built
             /\ Range(rsV[i].requests) \subseteq rsP'[i].built
  BY <1>5, <1>6, ProverAnswers DEF IInv
<1>8. ProversInv'
  BY <1>2, <1>4, <1>5, <1>7 DEF ProversInv
<1>9. Phases'
  BY <1>4 DEF Phases
<1>10. Messages'
  BY <1>2, <1>4, <1>7 DEF Messages, Answers, Fetched
<1>11. Received'
  BY <1>1, <1>2, <1>4 DEF IInv, Received, ReceiveRandomness
<1> QED BY <1>3, <1>8, <1>9, <1>10, <1>11 DEF IInv

\* A request of a layer, or of the data.
LEMMA ReceiveDefaultProximity ==
    ASSUME IInv, ReceiveDefault, vPhase = "RS_PROXIMITY" PROVE IInv'
<1>1. pPhase = "RS_PROXIMITY"
  BY DEF ReceiveDefault
<1>2. UNCHANGED <<paths, queried, rsV>>
  BY DEF ReceiveDefault
<1>3. Drawn' /\ VerifiersInv'
  BY <1>2, SameVerifiers
<1>4. turn' = "prover sends" /\ pPhase' = "RS_PROXIMITY" /\ vPhase' = "RS_PROXIMITY"
  BY <1>1 DEF ReceiveDefault
<1>5. rsP' = [i \in RS |-> FriProverReceive(i, rsP[i], FriRequest(i))]
  <2>1. vMsg.queries = FALSE /\ vMsg.rs = RSRequests
    BY <1>1 DEF IInv, Messages, ReceiveDefault
  <2>2. vMsg.rs = [i \in RS |-> FriRequest(i)]
    BY <2>1 DEF RSRequests
  <2>3. DOMAIN rsP = RS
    BY <1>1 DEF IInv, ProversInv
  <2> QED BY <2>1, <2>2, <2>3 DEF ReceiveDefault, AfterDefault
<1>6. \A i \in RS : DOMAIN rsV[i].kept \subseteq rsP[i].built
  BY <1>1 DEF IInv, ProversInv
<1>7. ASSUME NEW i \in RS
      PROVE  /\ rsP'[i] = [built |-> rsP'[i].built, response |-> rsP'[i].response]
             /\ Answers(i, rsP'[i].response)
             /\ DOMAIN rsV[i].kept \subseteq rsP'[i].built
             /\ Range(rsV[i].requests) \subseteq rsP'[i].built
  BY <1>5, <1>6, ProverAnswers DEF IInv
<1>8. ProversInv'
  BY <1>2, <1>4, <1>5, <1>7 DEF ProversInv
<1>9. Phases'
  BY <1>4 DEF Phases
<1>10. Messages'
  BY <1>2, <1>4, <1>7 DEF Messages, Answers, Fetched
<1>11. Received'
  BY <1>1, <1>2, <1>4 DEF IInv, Received, ReceiveDefault
<1> QED BY <1>3, <1>8, <1>9, <1>10, <1>11 DEF IInv

\* The queries of the Ali verifier.
LEMMA ReceiveDefaultQueries ==
    ASSUME IInv, ReceiveDefault, vPhase = "RESULTS" PROVE IInv'
<1>1. pPhase = "RS_PROXIMITY"
  BY DEF ReceiveDefault
<1>2. UNCHANGED <<paths, queried, rsV>>
  BY DEF ReceiveDefault
<1>3. Drawn' /\ VerifiersInv'
  BY <1>2, SameVerifiers
<1>4. turn' = "prover sends" /\ pPhase' = "RS_PROXIMITY" /\ vPhase' = "RESULTS"
  BY <1>1 DEF ReceiveDefault
<1>5. vMsg.queries = TRUE /\ vMsg.rs = noRS
  <2>1. turn = "prover receives" /\ Messages
    BY DEF IInv, ReceiveDefault
  <2>2. vMsg = [randomness |-> FALSE, queries |-> TRUE, rs |-> noRS]
    BY <2>1 DEF Messages
  <2> QED BY <2>2
<1>6. /\ rsP = [i \in RS |-> rsP[i]]
      /\ \A i \in RS : rsP[i] = [built |-> rsP[i].built, response |-> rsP[i].response]
  BY <1>1 DEF IInv, ProversInv
<1>7. rsP' = IF HasQueries THEN [i \in RS |-> deleteProof(rsP[i])] ELSE rsP
  <2>1. DOMAIN rsP = RS /\ DOMAIN vMsg.rs = {}
    BY <1>5, <1>6 DEF noRS
  <2> QED BY <1>5, <1>6, <2>1 DEF ReceiveDefault, AfterDefault
<1>8. ProversInv'
  BY <1>2, <1>4, <1>6, <1>7 DEF ProversInv, deleteProof
<1>9. Phases'
  BY <1>4 DEF Phases
<1>10. Messages'
  <2>1. HasQueries => results'
    BY <1>5 DEF ReceiveDefault
  <2>2. (HasQueries => results)'
    BY <1>2, <2>1, SameVerifiers
  <2> QED BY <1>4, <2>2 DEF Messages
<1>11. Received'
  BY <1>1, <1>2, <1>4 DEF IInv, Received, ReceiveDefault
<1> QED BY <1>3, <1>8, <1>9, <1>10, <1>11 DEF IInv

LEMMA ReceiveDefaultInv == ASSUME IInv, ReceiveDefault PROVE IInv'
<1>1. vPhase \in {"RS_PROXIMITY", "RESULTS"}
  BY DEF IInv, Phases, ReceiveDefault
<1> QED BY <1>1, ReceiveDefaultProximity, ReceiveDefaultQueries

-----------------------------------------------------------------------------
(* The verifier receives a layer or the data, and decides. *)

\* A Fri verifier that receives what it asked for.
LEMMA FriReceives ==
    ASSUME Drawn, VerifiersInv, NEW i \in RS, NEW r, Answers(i, r), ~rsV[i].done,
           rsV'[i] = FriReceive(i, rsV[i], r), UNCHANGED <<paths, queried>>
    PROVE  /\ FriInv(i)'
           /\ DOMAIN rsV'[i].kept \subseteq DOMAIN rsV[i].kept \cup Range(rsV[i].requests)
<1> DEFINE v == rsV[i]
           w == rsV'[i]
<1>0. v = [requests |-> v.requests, kept |-> v.kept, data |-> v.data, done |-> v.done]
  BY DEF VerifiersInv, FriInv
<1>1. PICK n \in Nat \ {0} : AsksFor(i, v, n)
  BY DEF VerifiersInv, FriInv
<1>2. CASE v.requests = <<>>
  <2>1. w = [requests |-> v.requests, kept |-> v.kept, data |-> r.data, done |-> TRUE]
    BY <1>0, <1>2 DEF FriReceive, doneConstructingProof
  <2>2. r.data = Fetched(i)
    BY <1>2 DEF Answers
  <2>3. AsksFor(i, w, n)
    BY <1>1, <2>1 DEF AsksFor
  <2> QED BY <1>2, <2>1, <2>2, <2>3 DEF FriInv, AsksFor, Fetched
<1>3. CASE v.requests # <<>>
  <2> DEFINE q == v.requests
             k == [p \in DOMAIN v.kept \cup Range(q) |->
                     IF p \in Range(q)
                     THEN r.commitments[CHOOSE j \in DOMAIN q : q[j] = p]
                     ELSE v.kept[p]]
  <2>1. w = [requests |-> NextLayer(paths[i], q), kept |-> k, data |-> v.data,
             done |-> v.done]
    BY <1>0, <1>3 DEF FriReceive, doneConstructingProof,
                      recieveProofConstructionComitments
  <2>2. Lists(q, Layer(paths[i], n)) /\ IsTree(paths[i])
    BY <1>1 DEF AsksFor, Drawn
  <2>3. Lists(NextLayer(paths[i], q), Layer(paths[i], n + 1))
    BY <2>2, NextLayerLists
  <2>4. Above(paths[i], n + 1) = Above(paths[i], n) \cup Layer(paths[i], n)
    <3>1. \A t \in paths[i] : Len(t) \in Nat
      BY <2>2, LengthFacts
    <3> QED BY <3>1 DEF Above, Layer
  <2>5. DOMAIN k = Above(paths[i], n + 1)
    BY <1>1, <2>2, <2>4 DEF AsksFor, Lists
  <2>6. ASSUME NEW p \in DOMAIN k, p # root PROVE k[p] = Digest(i, p)
    <3>1. CASE p \in Range(q)
      <4>1. \E j \in DOMAIN q : q[j] = p
        BY <3>1 DEF Range
      <4> DEFINE j == CHOOSE x \in DOMAIN q : q[x] = p
      <4>2. j \in DOMAIN q /\ q[j] = p
        BY <4>1
      <4>3. k[p] = r.commitments[j]
        BY <3>1
      <4> HIDE DEF j, k, q
      <4>4. r.commitments[j] = Digest(i, q[j])
        BY <4>2 DEF Answers, q
      <4> QED BY <4>2, <4>3, <4>4
    <3>2. CASE p \notin Range(q)
      BY <1>1, <2>6, <3>2 DEF AsksFor
    <3> QED BY <3>1, <3>2
  <2> HIDE DEF k
  <2>7. AsksFor(i, w, n + 1)
    BY <2>1, <2>3, <2>5, <2>6 DEF AsksFor
  <2>8. \E m \in Nat \ {0} : AsksFor(i, w, m)
    BY <2>7
  <2>9. /\ w = [requests |-> w.requests, kept |-> w.kept, data |-> w.data, done |-> w.done]
        /\ w.done = FALSE
    BY <2>1 DEF VerifiersInv, FriInv
  <2>10. (\E m \in Nat \ {0} : AsksFor(i, rsV[i], m))'
    BY <2>8 DEF AsksFor
  <2>11. FriInv(i)'
    BY <2>9, <2>10 DEF FriInv
  <2> QED BY <2>1, <2>11 DEF k
<1> QED BY <1>2, <1>3

LEMMA ReceiveProximityInv == ASSUME IInv, ReceiveProximity PROVE IInv'
<1>1. turn = "verifier receives" /\ vPhase = "RS_PROXIMITY" /\ pPhase = "RS_PROXIMITY"
  BY DEF IInv, Phases, ReceiveProximity
<1>2. UNCHANGED <<paths, queried>>
  BY DEF ReceiveProximity
<1>3. Drawn'
  BY <1>2 DEF IInv, Drawn
<1>4. \A i \in RS : Answers(i, pMsg.rs[i])
  BY <1>1 DEF IInv, Messages
<1>5. rsV' = [i \in RS |-> rsV'[i]]
  BY DEF ReceiveProximity
<1>6. ASSUME NEW i \in RS
      PROVE  /\ FriInv(i)' /\ (rsV[i].done => rsV'[i].done)
             /\ DOMAIN rsV'[i].kept \subseteq DOMAIN rsV[i].kept \cup Range(rsV[i].requests)
  <2>1. CASE rsV[i].done
    <3>1. rsV'[i] = rsV[i]
      BY <2>1 DEF ReceiveProximity
    <3>2. FriInv(i)
      BY DEF IInv, VerifiersInv
    <3> QED BY <1>2, <3>1, <3>2 DEF FriInv, AsksFor, Fetched
  <2>2. CASE ~rsV[i].done
    <3>1. rsV'[i] = FriReceive(i, rsV[i], pMsg.rs[i])
      BY <2>2 DEF ReceiveProximity
    <3> QED BY <1>2, <1>4, <2>2, <3>1, FriReceives DEF IInv
  <2> QED BY <2>1, <2>2
<1>7. VerifiersInv'
  BY <1>5, <1>6 DEF VerifiersInv
<1>8. /\ vPhase' \in {"RS_PROXIMITY", "QUERY"} /\ turn' = "verifier sends"
      /\ pPhase' = "RS_PROXIMITY"
      /\ vPhase' = "QUERY" => \A i \in RS : rsV[i].done
  BY <1>1 DEF ReceiveProximity, AfterRound, doneInteracting
<1>9. ProversInv'
  <2>1. ASSUME NEW i \in RS
        PROVE  DOMAIN rsV[i].kept \cup Range(rsV[i].requests) \subseteq rsP[i].built
    BY <1>1 DEF IInv, ProversInv
  <2>2. rsP' = rsP
    BY DEF ReceiveProximity
  <2> QED BY <1>1, <1>6, <1>8, <2>1, <2>2 DEF IInv, ProversInv
<1>10. Phases'
  BY <1>8 DEF Phases
<1>11. Messages'
  BY <1>8 DEF Messages
<1>12. Received'
  BY <1>1, <1>6, <1>8 DEF IInv, Received, ReceiveProximity
<1> QED BY <1>3, <1>7, <1>9, <1>10, <1>11, <1>12 DEF IInv

\* What verify computes.
LEMMA verifyInv == ASSUME IInv, verify PROVE IInv'
<1>1. vPhase = "DONE" /\ pPhase = "RS_PROXIMITY"
  BY DEF IInv, Phases, verify
<1>2. UNCHANGED <<paths, queried, rsV>>
  BY DEF verify
<1>3. Drawn' /\ VerifiersInv'
  BY <1>2, SameVerifiers
<1>4. ProversInv'
  BY <1>1 DEF IInv, ProversInv, verify
<1>5. Phases' /\ Messages'
  BY <1>1 DEF Phases, Messages, verify
<1>6. kept = bothCommitments /\ (HasQueries => digested) /\ \A i \in RS : rsV[i].done
  BY <1>1 DEF IInv, Received
<1>7. ASSUME NEW i \in RS, StartedRight(i) PROVE FriVerify(i)
  <2>1. rsV[i].requests = <<>> /\ rsV[i].data = Fetched(i)
    BY <1>6 DEF IInv, VerifiersInv, FriInv
  <2>2. DOMAIN rsV[i].kept = paths[i]
    BY <2>1, AllKept DEF IInv
  <2>3. queried[i] \subseteq paths[i] \ {root}
    BY DEF IInv, Drawn
  <2>4. \A p \in DOMAIN rsV[i].kept : p # root => rsV[i].kept[p] = Digest(i, p)
    BY DEF IInv, VerifiersInv, FriInv, AsksFor
  <2> QED BY <1>7, <2>1, <2>2, <2>3, <2>4 DEF FriVerify, Fetched
<1>8. (\A i \in RS : StartedRight(i)) => verdict'
  BY <1>6, <1>7 DEF verify, bothCommitments
<1>9. Received'
  BY <1>1, <1>2, <1>6, <1>8, SameVerifiers DEF Received, verify
<1> QED BY <1>3, <1>4, <1>5, <1>9 DEF IInv
-----------------------------------------------------------------------------
(* Theorems. *)

LEMMA StutterInv == ASSUME IInv, UNCHANGED protocolVars PROVE IInv'
<1>1. UNCHANGED <<paths, queried, rsV>>
  BY DEF protocolVars
<1>2. Drawn' /\ VerifiersInv' /\ ProversInv' /\ Phases'
  BY <1>1, SameVerifiers DEF IInv, ProversInv, Phases, protocolVars
<1>3. Messages'
  <2>1. UNCHANGED <<turn, vPhase, vMsg, pMsg, rsP, results>>
    BY DEF protocolVars
  <2>2. Messages
    BY DEF IInv
  <2>3. RSRequests' = RSRequests /\ HasQueries' = HasQueries
    BY <1>1 DEF RSRequests, FriRequest, doneConstructingProof, HasQueries
  <2>4. \A i \in RS : Answers(i, rsP[i].response)' <=> Answers(i, rsP[i].response)
    BY <1>1, <2>1 DEF Answers, Fetched
  <2>5. \A i \in RS : Answers(i, pMsg.rs[i])' <=> Answers(i, pMsg.rs[i])
    BY <1>1, <2>1 DEF Answers, Fetched
  <2> QED BY <2>1, <2>2, <2>3, <2>4, <2>5 DEF Messages
<1>4. Received'
  BY DEF IInv, Received, protocolVars, HasQueries
<1> QED BY <1>2, <1>3, <1>4 DEF IInv

LEMMA Invariance == ProtocolSpec => []IInv
<1>1. ProtocolInit => IInv
  BY InitInv
<1>2. IInv /\ [ProtocolNext]_protocolVars => IInv'
  BY SendStartInv, SendRandomnessInv, SendProximityInv, SendQueriesInv,
     ReceiveStartInv, ReceiveRandomnessInv, ReceiveDefaultInv, SendCommitmentsInv,
     SendResponsesInv, ReceiveCommitmentsInv, ReceiveProximityInv,
     ReceiveResultsInv, verifyInv, StutterInv DEF ProtocolNext
<1> QED BY <1>1, <1>2, PTL DEF ProtocolSpec

\* The phases of the parties fit in every call, every request is answered with
\* as many commitments, and the prover has what it is asked for.
THEOREM PhasesStayInStep == ProtocolSpec => []PhasesInStep
<1>1. IInv => PhasesInStep
  <2> SUFFICES ASSUME IInv PROVE PhasesInStep
    OBVIOUS
  <2>1. turn = "verifier sends" =>
          vPhase \in {"START_PROTOCOL", "VERIFIER_RANDOMNESS", "RS_PROXIMITY", "QUERY"}
    BY DEF IInv, Phases
  <2>2. turn = "verifier receives" =>
          vPhase \in {"UNIVARIATE_COMMITMENTS", "RS_PROXIMITY", "RESULTS"}
    BY DEF IInv, Phases
  <2>3. ASSUME turn = "verifier receives", vPhase = "RS_PROXIMITY", NEW i \in RS
        PROVE  /\ i \in DOMAIN pMsg.rs
               /\ Len(pMsg.rs[i].commitments) = Len(rsV[i].requests)
    <3>1. DOMAIN pMsg.rs = RS /\ Answers(i, pMsg.rs[i])
      BY <2>3 DEF IInv, Messages
    <3>2. PICK n \in Nat \ {0} : AsksFor(i, rsV[i], n)
      BY DEF IInv, VerifiersInv, FriInv
    <3>3. rsV[i].requests \in Seq(Layer(paths[i], n))
      BY <3>2 DEF AsksFor, Lists
    <3> QED BY <3>1, <3>3 DEF Answers
  <2>4. ASSUME turn = "prover receives", pPhase = "RS_PROXIMITY", NEW i \in DOMAIN vMsg.rs
        PROVE  vMsg.rs[i].data \subseteq rsP[i].built
    <3>1. vPhase \in {"RS_PROXIMITY", "RESULTS"}
      BY <2>4 DEF IInv, Phases
    <3>2. CASE vPhase = "RS_PROXIMITY"
      <4>1. vMsg.rs = RSRequests
        BY <2>4, <3>2 DEF IInv, Messages
      <4>2. i \in RS /\ vMsg.rs[i] = FriRequest(i)
        BY <4>1 DEF RSRequests
      <4>3. DOMAIN rsV[i].kept \subseteq rsP[i].built
        BY <2>4, <3>2, <4>2 DEF IInv, ProversInv
      <4>4. CASE rsV[i].requests = <<>>
        BY <4>2, <4>3, <4>4, AllKept DEF IInv, Drawn, FriRequest, doneConstructingProof
      <4>5. CASE rsV[i].requests # <<>>
        BY <4>2, <4>5 DEF FriRequest, doneConstructingProof
      <4> QED BY <4>4, <4>5
    <3>3. CASE vPhase = "RESULTS"
      <4>1. vMsg = [randomness |-> FALSE, queries |-> TRUE, rs |-> noRS]
        BY <2>4, <3>3 DEF IInv, Messages
      <4> QED BY <4>1 DEF noRS
    <3> QED BY <3>1, <3>2, <3>3
  <2> QED BY <2>1, <2>2, <2>3, <2>4 DEF PhasesInStep
<1> QED BY <1>1, Invariance, PTL

\* What a request folds has been committed.
LEMMA ChainIsKept ==
    ASSUME Drawn, VerifiersInv, NEW i \in RS, NEW k \in DOMAIN rsV[i].requests
    PROVE  Chain(Front(rsV[i].requests[k])) \subseteq DOMAIN rsV[i].kept
<1> DEFINE q == rsV[i].requests
           f == Front(q[k])
<1>1. PICK n \in Nat \ {0} : AsksFor(i, rsV[i], n)
  BY DEF VerifiersInv, FriInv
<1>2. q[k] \in Layer(paths[i], n)
  BY <1>1 DEF AsksFor, Lists
<1>3. q[k] \in paths[i] /\ Len(q[k]) = n /\ IsTree(paths[i])
  BY <1>2 DEF Drawn, Layer
<1> HIDE DEF q
<1>4. f \in paths[i] /\ Len(f) = n - 1
  BY <1>3, LengthFacts
<1> HIDE DEF f
<1>5. ASSUME NEW t \in Prefixes(f) PROVE t \in Above(paths[i], n)
  <2>1. PICK l \in 0 .. Len(f) : t = SubSeq(f, 1, l)
    BY DEF Prefixes
  <2>2. t \in paths[i] /\ Len(t) = l
    BY <1>3, <1>4, <2>1, LengthFacts
  <2>3. Len(t) < n
    BY <1>4, <2>1, <2>2
  <2> QED BY <2>2, <2>3 DEF Above
<1>6. DOMAIN rsV[i].kept = Above(paths[i], n)
  BY <1>1 DEF AsksFor
<1> QED BY <1>5, <1>6 DEF Chain, f, q

\* The coefficients, the columns and the positions leave the verifier only when
\* the commitments that they are about are in.
THEOREM CoinsFollowCommitments == ProtocolSpec => []CoinsAfterCommitments
<1>1. IInv => CoinsAfterCommitments
  <2> SUFFICES ASSUME IInv, turn = "prover receives"
               PROVE  /\ vMsg.randomness => kept # {}
                      /\ \A i \in DOMAIN vMsg.rs :
                            /\ kept # {}
                            /\ \A k \in DOMAIN vMsg.rs[i].proofs :
                                  Chain(Front(vMsg.rs[i].proofs[k])) \subseteq
                                      DOMAIN rsV[i].kept
                            /\ vMsg.rs[i].data # {} => paths[i] = DOMAIN rsV[i].kept
                      /\ vMsg.queries => \A i \in RS : rsV[i].done
    BY DEF CoinsAfterCommitments
  <2>1. vPhase \in {"UNIVARIATE_COMMITMENTS", "RS_PROXIMITY", "RESULTS"}
    BY DEF IInv, Phases
  <2>2. CASE vPhase = "UNIVARIATE_COMMITMENTS"
    <3>1. vMsg = noMessage
      BY <2>2 DEF IInv, Messages
    <3> QED BY <3>1 DEF noMessage, noRS
  <2>3. CASE vPhase = "RS_PROXIMITY"
    <3>1. vMsg.queries = FALSE /\ vMsg.rs = RSRequests
      BY <2>3 DEF IInv, Messages
    <3>2. kept # {}
      BY <2>3 DEF IInv, Received, bothCommitments
    <3>3. ASSUME NEW i \in DOMAIN vMsg.rs
          PROVE  i \in RS /\ vMsg.rs[i] = FriRequest(i)
      BY <3>1 DEF RSRequests
    <3>4. ASSUME NEW i \in RS, NEW k \in DOMAIN FriRequest(i).proofs
          PROVE  Chain(Front(FriRequest(i).proofs[k])) \subseteq DOMAIN rsV[i].kept
      <4>1. FriRequest(i).proofs = rsV[i].requests
        BY DEF FriRequest, doneConstructingProof
      <4> QED BY <3>4, <4>1, ChainIsKept DEF IInv
    <3>5. ASSUME NEW i \in RS, FriRequest(i).data # {}
          PROVE  paths[i] = DOMAIN rsV[i].kept
      <4>1. rsV[i].requests = <<>>
        BY <3>5 DEF FriRequest, doneConstructingProof
      <4> QED BY <4>1, AllKept DEF IInv
    <3> QED BY <3>1, <3>2, <3>3, <3>4, <3>5
  <2>4. CASE vPhase = "RESULTS"
    <3>1. vMsg = [randomness |-> FALSE, queries |-> TRUE, rs |-> noRS]
      BY <2>4 DEF IInv, Messages
    <3>2. \A i \in RS : rsV[i].done
      BY <2>4 DEF IInv, Received
    <3> QED BY <3>1, <3>2 DEF noRS
  <2> QED BY <2>1, <2>2, <2>3, <2>4
<1> QED BY <1>1, Invariance, PTL

\* The honest prover, when it reads the committed matrix with the width that it
\* was written with, meets no phase out of step and is accepted.
THEOREM HonestProverIsAccepted ==
    ASSUME numColumns = 2^boundaryPolysMatrix_logWidth
    PROVE  ProtocolSpec => []Completeness
<1>1. \A i \in RS : StartedRight(i)
  BY DEF StartedRight
<1>2. IInv => HonestAccepted
  BY <1>1 DEF IInv, Received, HonestAccepted, Decided
<1> QED BY <1>2, Invariance, PhasesStayInStep, PTL DEF Completeness
=============================================================================
