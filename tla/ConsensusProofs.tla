------------------------- MODULE ConsensusProofs ----------------------------
(***************************************************************************)
(* Type correctness and safety of Consensus, for any validators, stakes and *)
(* blocks, and that it implements Ledger.  The inductive invariant of chains *)
(* and votes is SafetyInv, in two halves: ChainInv is about the chains and *)
(* the blocks the engine holds, VoteInv about votes and the quorums they   *)
(* form.  The views and the election each have an invariant of their own.  *)
(***************************************************************************)
EXTENDS Consensus, FiniteSetTheorems, WellFoundedInduction, TLAPS

-----------------------------------------------------------------------------
(* Chains are non-empty sequences. *)

\* Storing one more block leaves a non-empty chain.
LEMMA AppendNonEmpty ==
    ASSUME NEW S, NEW c \in Seq(S), NEW x \in S
    PROVE  Append(c, x) \in Seq(S) \ {<<>>}
<1>1. Append(c, x) \in Seq(S) /\ Len(Append(c, x)) = Len(c) + 1 /\ Len(c) \in Nat
  OBVIOUS
<1>2. Append(c, x) # <<>>
  BY <1>1
<1> QED
  BY <1>1, <1>2

\* It holds what was there, and then the block.
LEMMA AppendHolds ==
    ASSUME NEW c \in Seq(Block), NEW x \in Block
    PROVE  /\ Len(Append(c, x)) = Len(c) + 1
           /\ \A i \in 1..Len(c) : Append(c, x)[i] = c[i]
           /\ Append(c, x)[Len(c) + 1] = x
  OBVIOUS

\* The chain a node starts with holds the genesis block only.
LEMMA GenesisChain ==
    /\ <<Genesis>> \in Seq(Block) \ {<<>>}
    /\ Len(<<Genesis>>) = 1
    /\ <<Genesis>>[1] = Genesis
<1>1. Genesis \in Block
  BY GenesisAssumption
<1> QED
  BY <1>1

\* Every stored chain has a length.
LEMMA ChainType ==
    ASSUME TypeOK, NEW n \in Node
    PROVE  chain[n] \in Seq(Block) /\ Len(chain[n]) \in Nat /\ Len(chain[n]) > 0
<1>1. chain[n] \in Seq(Block) \ {<<>>}
  BY DEF TypeOK
<1> QED
  BY <1>1

-----------------------------------------------------------------------------
(* Leader election stays within the validators. *)

\* A non-empty set of naturals has a least element.
LEMMA LeastNatural ==
    ASSUME NEW S \in SUBSET Nat, S # {}
    PROVE  \E k \in S : \A j \in S : k <= j
<1> DEFINE R == OpToRel(<, Nat)
<1>1. \A j, k \in Nat : j < k => <<j, k>> \in R
  BY DEF OpToRel
<1>2. IsWellFoundedOn(R, Nat)
  BY NatLessThanWellFounded
<1> HIDE DEF R
<1>3. PICK k \in S : \A j \in S : ~(<<j, k>> \in R)
  BY <1>2, WFMin
<1>4. \A j \in S : ~(j < k)
  BY <1>1, <1>3
<1> QED
  BY <1>4

\* The scheduled leader of a height is a validator.
LEMMA ScheduledType ==
    ASSUME NEW h \in Nat
    PROVE  Scheduled(h) \in Node
<1>1. N \in Nat /\ N >= 3
  BY NodeAssumption, FS_CardinalityType DEF N
<1>2. h % N \in 0..(N - 1)
  BY <1>1
<1> QED
  BY <1>2, NodeAssumption DEF Scheduled

\* updateLeaderStatusLocked elects a validator, whoever is suspected.
LEMMA ElectType ==
    ASSUME NEW S, NEW h \in Nat
    PROVE  Elect(S, h) \in Node
<1> DEFINE at(k) == Order[(h + k) % N]
           offset == {k \in 0..(N - 1) : at(k) \notin S}
<1>1. N \in Nat /\ N >= 3
  BY NodeAssumption, FS_CardinalityType DEF N
<1>2. \A k \in 0..(N - 1) : (h + k) % N \in 0..(N - 1)
  BY <1>1
<1>3. \A k \in 0..(N - 1) : at(k) \in Node
  BY <1>2, NodeAssumption
<1>4. CASE offset = {}
  BY <1>4, ScheduledType DEF Elect
<1>5. CASE offset # {}
  <2>0. offset \in SUBSET Nat
    BY <1>1
  <2>1. \E k \in offset : \A j \in offset : k <= j
    <3> HIDE DEF offset
    <3> QED BY <2>0, <1>5, LeastNatural
  <2> QED
    BY <2>1, <1>3 DEF Elect
<1> QED
  BY <1>4, <1>5

-----------------------------------------------------------------------------
(* Type correctness. *)

\* GetLatestBlock returns a block, at a natural height.
LEMMA TipType ==
    ASSUME TypeOK, NEW n \in Node
    PROVE  GetLatestBlock(n) \in Block /\ LatestHeight(n) \in Nat
<1>1. chain[n] \in Seq(Block) /\ chain[n] # <<>>
  BY DEF TypeOK
<1>2. Len(chain[n]) \in 1..Len(chain[n])
  BY <1>1
<1>3. chain[n][Len(chain[n])] \in Block
  BY <1>1, <1>2
<1> QED
  BY <1>3, BlockAssumption DEF GetLatestBlock, LatestHeight

\* NewConsensus sets every field to a value of its type.
LEMMA InitType == Init => TypeOK
<1> SUFFICES ASSUME Init PROVE TypeOK
  OBVIOUS
<1>1. <<Genesis>> \in Seq(Block) \ {<<>>}
  BY GenesisChain
<1>2. MaxView \in Nat /\ MaxInterrupts \in Nat
  BY BoundAssumption
<1> QED
  BY <1>1, <1>2 DEF Init, TypeOK, View, Phase

\* The election writes leader fields of their types.
LEMMA UpdateLeaderType ==
    ASSUME TypeOK, NEW n \in Node, NEW S \in SUBSET Node, NEW k \in Nat,
           updateLeaderStatus(n, S, k)
    PROVE  /\ electedLeaderID' \in [Node -> Node \cup {None}]
           /\ isLeader' \in [Node -> BOOLEAN]
           /\ suspectedOfflineLeaders' \in [Node -> SUBSET Node]
           /\ consecutiveViewChanges' \in [Node -> Nat]
<1>1. Elect(S, LatestHeight(n) + 1) \in Node
  BY TipType, ElectType
<1> QED
  BY <1>1 DEF updateLeaderStatus, TypeOK

\* resetConsensusState keeps the types of the fields it clears.
LEMMA ResetType ==
    ASSUME TypeOK, NEW n \in Node, resetConsensusState(n)
    PROVE  /\ phase' \in [Node -> Phase]
           /\ preparedBlock' \in [Node -> Block \cup {None}]
           /\ preparedView' \in [Node -> View]
           /\ lockedBlock' \in [Node -> Block \cup {None}]
           /\ prepareVotes' \in [Node -> [Block -> SUBSET Node]]
           /\ receivedVotes' \in [Node -> [Block -> SUBSET Node]]
           /\ sentPrepareVotes' \in [Node -> SUBSET Block]
           /\ sentVotes' \in [Node -> SUBSET Block]
  BY BoundAssumption DEF resetConsensusState, TypeOK, Phase, View

\* A tick of the leader loop keeps the types.
LEMMA LeaderTickType ==
    ASSUME TypeOK, NEW n \in Node, LeaderTick(n)
    PROVE  TypeOK'
<1>1. suspectedOfflineLeaders[n] \in SUBSET Node /\ consecutiveViewChanges[n] \in Nat
  BY DEF TypeOK
<1>2. /\ electedLeaderID' \in [Node -> Node \cup {None}]
      /\ isLeader' \in [Node -> BOOLEAN]
      /\ suspectedOfflineLeaders' \in [Node -> SUBSET Node]
      /\ consecutiveViewChanges' \in [Node -> Nat]
  BY <1>1, UpdateLeaderType DEF LeaderTick
<1>3. proposing' \in [Node -> Proposed \cup {None}]
  <2>1. CASE UNCHANGED proposing
    BY <2>1 DEF TypeOK
  <2>2. ASSUME NEW b \in Block,
               proposing' = [proposing EXCEPT ![n] =
                      [block |-> b, height |-> LatestHeight(n) + 1,
                       view |-> currentView[n], sent |-> FALSE]]
        PROVE  proposing' \in [Node -> Proposed \cup {None}]
    BY <2>2, TipType DEF TypeOK, Proposed
  <2> QED
    BY <2>1, <2>2 DEF LeaderTick
<1> QED
  BY <1>2, <1>3 DEF LeaderTick, TypeOK, viewVars, roundVars, stickyVars

\* ProposeBlock keeps the types.
LEMMA ProposeBlockType ==
    ASSUME TypeOK, NEW n \in Node, ProposeBlock(n)
    PROVE  TypeOK'
<1>1. proposing[n] \in Proposed /\ proposing' = [proposing EXCEPT ![n].sent = TRUE]
  BY DEF ProposeBlock, TypeOK
<1>2. proposing' \in [Node -> Proposed \cup {None}]
  BY <1>1 DEF TypeOK, Proposed
<1>3. msgs' \subseteq Message
  BY <1>1 DEF ProposeBlock, TypeOK, Message, Proposal, Proposed
<1> QED
  BY <1>2, <1>3 DEF ProposeBlock, TypeOK, viewVars, roundVars, stickyVars, leaderVars

\* The end of a proposal keeps the types.
LEMMA ProposalExpiresType ==
    ASSUME TypeOK, NEW n \in Node, ProposalExpires(n)
    PROVE  TypeOK'
<1>1. interrupts' \in 0..MaxInterrupts
  BY BoundAssumption DEF ProposalExpires, Interrupt, TypeOK
<1> QED
  BY <1>1 DEF ProposalExpires, TypeOK, viewVars, roundVars, stickyVars, leaderVars

\* Entering a proposal's view keeps the types of the fields it may wipe,
LEMMA EnterViewType ==
    ASSUME TypeOK, NEW n \in Node, NEW m \in Proposal, EnterView(n, m)
    PROVE  /\ currentView' \in [Node -> View]
           /\ lockedBlock' \in [Node -> Block \cup {None}]
           /\ prepareVotes' \in [Node -> [Block -> SUBSET Node]]
           /\ receivedVotes' \in [Node -> [Block -> SUBSET Node]]
           /\ sentVotes' \in [Node -> SUBSET Block]
           /\ isLeader' \in [Node -> BOOLEAN]
           /\ electedLeaderID' \in [Node -> Node \cup {None}]
<1>1. m.view \in View /\ m.block \in Block
  BY DEF Proposal
<1>2. Scheduled(HeightOf[m.block]) \in Node
  BY <1>1, ScheduledType, BlockAssumption
<1>3. currentView' \in [Node -> View] /\ electedLeaderID' \in [Node -> Node \cup {None}]
  BY <1>1, <1>2 DEF EnterView, TypeOK
<1>4. lockedBlock' \in [Node -> Block \cup {None}] /\ sentVotes' \in [Node -> SUBSET Block]
  BY DEF EnterView, TypeOK
<1>5. /\ prepareVotes' \in [Node -> [Block -> SUBSET Node]]
      /\ receivedVotes' \in [Node -> [Block -> SUBSET Node]]
  BY DEF EnterView, TypeOK
<1>6. isLeader' \in [Node -> BOOLEAN]
  BY DEF EnterView, TypeOK
<1> QED
  BY <1>3, <1>4, <1>5, <1>6

\* and leaves the other fields alone.
LEMMA EnterViewFrame ==
    ASSUME TypeOK, NEW n \in Node, NEW m \in Proposal, EnterView(n, m)
    PROVE  /\ currentHeight' \in [Node -> Nat]
           /\ highestSeenView' \in [Node -> View]
           /\ timeoutVotes' \in [Node -> [View -> SUBSET Node]]
           /\ lastPreparedBlock' \in [Node -> Block \cup {None}]
           /\ lastPreparedHeight' \in [Node -> Nat]
           /\ proposing' \in [Node -> Proposed \cup {None}]
           /\ chain' \in [Node -> Seq(Block) \ {<<>>}]
           /\ interrupts' \in 0..MaxInterrupts
<1>1. UNCHANGED <<currentHeight, highestSeenView, timeoutVotes, stickyVars,
                  proposing, chain, interrupts>>
  BY DEF EnterView
<1> QED
  BY <1>1 DEF TypeOK, stickyVars

\* processProposal keeps the types, however it ends.
LEMMA ProcessProposalType ==
    ASSUME TypeOK, NEW n \in Node, NEW m \in msgs, ProcessProposal(n, m)
    PROVE  TypeOK'
<1>1. m \in Proposal /\ m.view \in View /\ m.block \in Block /\ m.proposer \in Node
  BY DEF ProcessProposal, TypeOK, Message, Proposal, Vote, Timeout, Gossip
<1>2. CASE RejectStale(n, m)
  BY <1>2, BoundAssumption, SMTT(30)
  DEF RejectStale, TypeOK, View, viewVars, stickyVars, leaderVars
<1>3. SuspectsLeft(n, m) \in SUBSET Node
  BY DEF SuspectsLeft, TypeOK
<1>4. CASE RejectNonLeader(n, m)
  <2>1. EnterView(n, m)
    BY <1>4 DEF RejectNonLeader
  <2>2. /\ phase' \in [Node -> Phase]
        /\ preparedBlock' \in [Node -> Block \cup {None}]
        /\ preparedView' \in [Node -> View]
        /\ sentPrepareVotes' \in [Node -> SUBSET Block]
    <3>1. /\ phase \in [Node -> Phase]
          /\ preparedBlock \in [Node -> Block \cup {None}]
          /\ preparedView \in [Node -> View]
          /\ sentPrepareVotes \in [Node -> SUBSET Block]
      BY DEF TypeOK
    <3>2. 0 \in View
      BY BoundAssumption DEF View
    <3>3. phase' \in [Node -> Phase]
      BY <1>4, <3>1 DEF RejectNonLeader, Phase
    <3>4. preparedBlock' \in [Node -> Block \cup {None}]
      BY <1>4, <3>1 DEF RejectNonLeader
    <3>5. preparedView' \in [Node -> View]
      BY <1>4, <3>1, <3>2 DEF RejectNonLeader
    <3>6. sentPrepareVotes' \in [Node -> SUBSET Block]
      BY <1>4, <3>1 DEF RejectNonLeader
    <3> QED
      BY <3>3, <3>4, <3>5, <3>6
  <2>3. /\ suspectedOfflineLeaders' \in [Node -> SUBSET Node]
        /\ consecutiveViewChanges' \in [Node -> Nat]
    BY <1>3, <1>4 DEF RejectNonLeader, TypeOK
  <2>4. msgs' = msgs
    BY <1>4 DEF RejectNonLeader
  <2> QED
    BY <1>1, <2>1, <2>2, <2>3, <2>4, EnterViewType, EnterViewFrame DEF TypeOK
<1>5. CASE AcceptProposal(n, m)
  <2>1. EnterView(n, m)
    BY <1>5 DEF AcceptProposal
  <2>2. /\ phase' \in [Node -> Phase]
        /\ preparedBlock' \in [Node -> Block \cup {None}]
        /\ preparedView' \in [Node -> View]
        /\ sentPrepareVotes' \in [Node -> SUBSET Block]
    BY <1>1, <1>5 DEF AcceptProposal, TypeOK, Phase
  <2>3. /\ suspectedOfflineLeaders' \in [Node -> SUBSET Node]
        /\ consecutiveViewChanges' \in [Node -> Nat]
    BY <1>3, <1>5 DEF AcceptProposal, TypeOK
  <2>4. msgs' \subseteq Message
    BY <1>1, <1>5 DEF AcceptProposal, TypeOK, Message, Vote
  <2> QED
    BY <1>1, <2>1, <2>2, <2>3, <2>4, EnterViewType, EnterViewFrame DEF TypeOK
<1> QED
  BY <1>2, <1>4, <1>5 DEF ProcessProposal

\* processPrepareVote keeps the types.
LEMMA ProcessPrepareVoteType ==
    ASSUME TypeOK, NEW n \in Node, NEW m \in msgs, ProcessPrepareVote(n, m)
    PROVE  TypeOK'
<1>1. m.block \in Block /\ m.voter \in Node
  BY DEF ProcessPrepareVote, TypeOK, Message, Proposal, Vote, Timeout, Gossip
<1>2. prepareVotes' \in [Node -> [Block -> SUBSET Node]]
  <2>1. prepareVotes \in [Node -> [Block -> SUBSET Node]]
    BY DEF TypeOK
  <2>2. prepareVotes[n][m.block] \cup {m.voter} \in SUBSET Node
    BY <1>1, <2>1
  <2>3. prepareVotes' = [prepareVotes EXCEPT ![n][m.block] =
                            prepareVotes[n][m.block] \cup {m.voter}]
    BY DEF ProcessPrepareVote
  <2> QED
    BY <1>1, <2>1, <2>2, <2>3
<1>3. /\ lastPreparedBlock' \in [Node -> Block \cup {None}]
      /\ lastPreparedHeight' \in [Node -> Nat]
  BY <1>1 DEF ProcessPrepareVote, TypeOK
<1>4. /\ phase' \in [Node -> Phase]
      /\ lockedBlock' \in [Node -> Block \cup {None}]
      /\ sentVotes' \in [Node -> SUBSET Block]
  <2>1. /\ phase \in [Node -> Phase]
        /\ lockedBlock \in [Node -> Block \cup {None}]
        /\ sentVotes \in [Node -> SUBSET Block]
    BY DEF TypeOK
  <2>2. CASE UNCHANGED <<phase, lockedBlock, sentVotes, msgs>>
    BY <2>1, <2>2
  <2>3. CASE /\ phase' = [phase EXCEPT ![n] = "Prepared"]
             /\ lockedBlock' = [lockedBlock EXCEPT ![n] = m.block]
             /\ voteForBlock(n, m.block)
    BY <1>1, <2>1, <2>3 DEF voteForBlock, Phase
  <2> QED
    BY <2>2, <2>3 DEF ProcessPrepareVote
<1>5. msgs' \subseteq Message
  BY <1>1 DEF ProcessPrepareVote, voteForBlock, TypeOK, Message, Vote
<1> QED
  BY <1>2, <1>3, <1>4, <1>5 DEF ProcessPrepareVote, TypeOK, viewVars, leaderVars

\* processVote keeps the types, whether it commits or not.
LEMMA ProcessVoteType ==
    ASSUME TypeOK, NEW n \in Node, NEW m \in msgs, ProcessVote(n, m)
    PROVE  TypeOK'
<1>1. m.block \in Block /\ m.voter \in Node
  BY DEF ProcessVote, TypeOK, Message, Proposal, Vote, Timeout, Gossip
<1>2. commitVoters(n, m.block, m.voter) \in SUBSET Node
  BY <1>1 DEF commitVoters, TypeOK
<1>3. ASSUME recordVote(n, m.block, commitVoters(n, m.block, m.voter)),
             phase' \in [Node -> Phase]
      PROVE  TypeOK'
  <2>1. receivedVotes' \in [Node -> [Block -> SUBSET Node]]
    BY <1>1, <1>2, <1>3 DEF recordVote, TypeOK
  <2> QED
    BY <1>3, <2>1 DEF recordVote, TypeOK, viewVars, stickyVars, leaderVars
<1>4. CASE commitBlock(n, m.block)
  <2>1. resetConsensusState(n)
    BY <1>4 DEF commitBlock
  <2>2. chain' \in [Node -> Seq(Block) \ {<<>>}]
    <3>1. chain[n] \in Seq(Block)
      BY DEF TypeOK
    <3>2. Append(chain[n], m.block) \in Seq(Block) \ {<<>>}
      BY <3>1, <1>1, AppendNonEmpty
    <3> QED
      BY <3>2, <1>4 DEF commitBlock, TypeOK
  <2>3. /\ currentHeight' \in [Node -> Nat]
        /\ currentView' \in [Node -> View]
        /\ consecutiveViewChanges' \in [Node -> Nat]
        /\ timeoutVotes' \in [Node -> [View -> SUBSET Node]]
    <3>1. 1 \in View /\ HeightOf[m.block] \in Nat
      BY <1>1, BlockAssumption, BoundAssumption DEF View
    <3>2. currentHeight' \in [Node -> Nat] /\ currentView' \in [Node -> View]
      BY <1>4, <3>1 DEF commitBlock, TypeOK
    <3>3. consecutiveViewChanges' \in [Node -> Nat]
      BY <1>4 DEF commitBlock, TypeOK
    <3>4. timeoutVotes' \in [Node -> [View -> SUBSET Node]]
      BY <1>4 DEF commitBlock, TypeOK
    <3> QED
      BY <3>2, <3>3, <3>4
  <2>4. /\ lastPreparedBlock' \in [Node -> Block \cup {None}]
        /\ lastPreparedHeight' \in [Node -> Nat]
    BY <1>4 DEF commitBlock, TypeOK
  <2>5. msgs' \subseteq Message
    BY <1>1, <1>4 DEF commitBlock, TypeOK, Message, Gossip
  <2> QED
    BY <1>4, <2>1, <2>2, <2>3, <2>4, <2>5, ResetType DEF commitBlock, TypeOK
<1>5. phase \in [Node -> Phase] /\ [phase EXCEPT ![n] = "Committed"] \in [Node -> Phase]
  BY DEF TypeOK, Phase
<1> QED
  BY <1>3, <1>4, <1>5 DEF ProcessVote

\* A block from a peer keeps the types.
LEMMA ReceiveBlockType ==
    ASSUME TypeOK, NEW n \in Node, NEW m \in msgs, ReceiveBlock(n, m)
    PROVE  TypeOK'
<1>1. m.block \in Block
  BY DEF ReceiveBlock, TypeOK, Message, Proposal, Vote, Timeout, Gossip
<1>2. Append(chain[n], m.block) \in Seq(Block) \ {<<>>}
  <2>1. chain[n] \in Seq(Block)
    BY DEF TypeOK
  <2> QED
    BY <1>1, <2>1, AppendNonEmpty
<1>3. chain' \in [Node -> Seq(Block) \ {<<>>}]
  BY <1>2 DEF ReceiveBlock, TypeOK
<1> QED
  BY <1>3 DEF ReceiveBlock, TypeOK, viewVars, roundVars, stickyVars, leaderVars

\* The height catch-up keeps the types.
LEMMA SyncHeightType ==
    ASSUME TypeOK, NEW n \in Node, SyncHeight(n)
    PROVE  TypeOK'
<1>1. LatestHeight(n) \in Nat
  BY TipType
<1> QED
  BY <1>1 DEF SyncHeight, TypeOK, roundVars, stickyVars, leaderVars

\* The number of interrupts stays within its bound.
LEMMA InterruptType ==
    ASSUME TypeOK, NEW n, NEW kind, Interrupt(n, kind)
    PROVE  interrupts' \in 0..MaxInterrupts
BY BoundAssumption DEF Interrupt, TypeOK

\* The reset of a stuck phase keeps the types.
LEMMA ResetStuckPhaseType ==
    ASSUME TypeOK, NEW n \in Node, ResetStuckPhase(n)
    PROVE  TypeOK'
<1>1. interrupts' \in 0..MaxInterrupts
  BY InterruptType DEF ResetStuckPhase
<1>2. resetConsensusState(n)
  BY DEF ResetStuckPhase
<1> QED
  BY <1>1, <1>2, ResetType DEF ResetStuckPhase, TypeOK, viewVars, stickyVars, leaderVars

\* startViewChange keeps the types.
LEMMA StartViewChangeType ==
    ASSUME TypeOK, NEW n \in Node, StartViewChange(n)
    PROVE  TypeOK'
<1> DEFINE newView == IF highestSeenView[n] > currentView[n]
                      THEN highestSeenView[n] ELSE currentView[n] + 1
           changes == consecutiveViewChanges[n] + 1
<1>1. interrupts' \in 0..MaxInterrupts
  BY InterruptType DEF StartViewChange
<1>2. newView \in View
  BY BoundAssumption DEF StartViewChange, TypeOK, View
<1>3. suspectsAfter(n, changes) \in SUBSET Node /\ changes \in Nat
  BY DEF suspectsAfter, TypeOK
<1>4. resetConsensusState(n) /\ updateLeaderStatus(n, suspectsAfter(n, changes), changes)
  BY DEF StartViewChange
<1>5. currentView' \in [Node -> View]
  BY <1>2 DEF StartViewChange, TypeOK
<1>6. msgs' \subseteq Message
  BY <1>2 DEF StartViewChange, TypeOK, Message, Timeout
<1>7. UNCHANGED <<currentHeight, highestSeenView, timeoutVotes, stickyVars, proposing, chain>>
  BY DEF StartViewChange
<1> HIDE DEF changes
<1> QED
  BY <1>1, <1>3, <1>4, <1>5, <1>6, <1>7, ResetType, UpdateLeaderType DEF TypeOK, stickyVars

\* processTimeout keeps the types, with a quorum of timeouts or without.
LEMMA ProcessTimeoutType ==
    ASSUME TypeOK, NEW n \in Node, NEW m \in msgs, ProcessTimeout(n, m)
    PROVE  TypeOK'
<1>1. m.view \in View /\ m.voter \in Node
  BY DEF ProcessTimeout, TypeOK, Message, Proposal, Vote, Timeout, Gossip
<1> DEFINE recorded == [timeoutVotes[n] EXCEPT ![m.view] = timeoutVotes[n][m.view] \cup {m.voter}]
<1>2. recorded \in [View -> SUBSET Node]
  BY <1>1 DEF TypeOK
<1>3. highestSeenView' \in [Node -> View]
  BY <1>1 DEF ProcessTimeout, TypeOK
<1>4. UNCHANGED <<currentHeight, stickyVars, proposing, chain, msgs, interrupts>>
  BY DEF ProcessTimeout
<1>5. CASE /\ timeoutVotes' = [timeoutVotes EXCEPT ![n] =
                 [v \in View |-> IF v <= currentView[n] THEN {} ELSE recorded[v]]]
           /\ currentView' = [currentView EXCEPT ![n] = m.view]
           /\ resetConsensusState(n)
           /\ updateLeaderStatus(n, suspectedOfflineLeaders[n], consecutiveViewChanges[n])
  <2>1. [v \in View |-> IF v <= currentView[n] THEN {} ELSE recorded[v]] \in [View -> SUBSET Node]
    BY <1>2
  <2>2. timeoutVotes' \in [Node -> [View -> SUBSET Node]]
    BY <1>5, <2>1 DEF TypeOK
  <2>3. currentView' \in [Node -> View]
    BY <1>1, <1>5 DEF TypeOK
  <2>4. suspectedOfflineLeaders[n] \in SUBSET Node /\ consecutiveViewChanges[n] \in Nat
    BY DEF TypeOK
  <2> QED
    BY <1>3, <1>4, <1>5, <2>2, <2>3, <2>4, ResetType, UpdateLeaderType DEF TypeOK, stickyVars
<1>6. CASE /\ timeoutVotes' = [timeoutVotes EXCEPT ![n] = recorded]
           /\ UNCHANGED <<currentView, roundVars, leaderVars>>
  <2>1. timeoutVotes' \in [Node -> [View -> SUBSET Node]]
    BY <1>2, <1>6 DEF TypeOK
  <2> QED
    BY <1>3, <1>4, <1>6, <2>1 DEF TypeOK, roundVars, stickyVars, leaderVars
<1> QED
  BY <1>5, <1>6 DEF ProcessTimeout

\* A restart keeps the types.
LEMMA RestartType ==
    ASSUME TypeOK, NEW n \in Node, Restart(n)
    PROVE  TypeOK'
<1>1. interrupts' \in 0..MaxInterrupts
  BY InterruptType DEF Restart
<1>2. 0 \in View
  BY BoundAssumption DEF View
<1>3. resetConsensusState(n)
  BY DEF Restart
<1>4. /\ currentView' \in [Node -> View]
      /\ currentHeight' \in [Node -> Nat]
      /\ highestSeenView' \in [Node -> View]
      /\ timeoutVotes' \in [Node -> [View -> SUBSET Node]]
  BY <1>2 DEF Restart, TypeOK
<1>5. /\ lastPreparedBlock' \in [Node -> Block \cup {None}]
      /\ lastPreparedHeight' \in [Node -> Nat]
      /\ electedLeaderID' \in [Node -> Node \cup {None}]
      /\ isLeader' \in [Node -> BOOLEAN]
  BY DEF Restart, TypeOK
<1>6. /\ suspectedOfflineLeaders' \in [Node -> SUBSET Node]
      /\ consecutiveViewChanges' \in [Node -> Nat]
      /\ proposing' \in [Node -> Proposed \cup {None}]
  BY DEF Restart, TypeOK
<1>7. chain' \in [Node -> Seq(Block) \ {<<>>}] /\ UNCHANGED msgs
  BY GenesisChain DEF Restart, TypeOK
<1> QED
  BY <1>1, <1>3, <1>4, <1>5, <1>6, <1>7, ResetType DEF TypeOK

\* Every field of the engine keeps its type, whatever the handlers, timers,
\* restarts and message orders do.
THEOREM TypeCorrect == Spec => []TypeOK
<1>1. ASSUME TypeOK, [Next]_vars PROVE TypeOK'
  <2>1. CASE UNCHANGED vars
    BY <1>1, <2>1 DEF TypeOK, vars, viewVars, roundVars, stickyVars, leaderVars
  <2>2. ASSUME NEW n \in Node, Step(n) PROVE TypeOK'
    BY <1>1, <2>2, LeaderTickType, ProposeBlockType, ProposalExpiresType, SyncHeightType,
       ResetStuckPhaseType, StartViewChangeType, RestartType DEF Step
  <2>3. ASSUME NEW n \in Node, NEW m \in msgs, Deliver(n, m) PROVE TypeOK'
    BY <1>1, <2>3, ProcessProposalType, ProcessPrepareVoteType, ProcessVoteType,
       ProcessTimeoutType, ReceiveBlockType DEF Deliver
  <2> QED
    BY <1>1, <2>1, <2>2, <2>3 DEF Next
<1> QED
  BY <1>1, InitType, PTL DEF Spec

-----------------------------------------------------------------------------
(* Quorums by stake. *)

\* More validators hold no less stake.
LEMMA StakeMonotone ==
    ASSUME NEW S \in SUBSET Node, NEW T \in SUBSET Node, S \subseteq T
    PROVE  Stake[S] <= Stake[T]
<1>1. S \cap (T \ S) = {} /\ S \cup (T \ S) = T /\ T \ S \in SUBSET Node
  OBVIOUS
<1>2. Stake[T] = Stake[S] + Stake[T \ S]
  BY <1>1, StakeAssumption
<1>3. Stake[S] \in Nat /\ Stake[T \ S] \in Nat
  BY <1>1, StakeAssumption
<1> QED
  BY <1>2, <1>3

\* hasQuorum and hasPrepareQuorum hold of exactly the sets with strictly more
\* than two thirds of the stake; the +1 of requiredStake makes it strict.
LEMMA QuorumIsTwoThirds ==
    ASSUME NEW S \in SUBSET Node
    PROVE  /\ hasQuorum(S) <=> 3 * Stake[S] > 2 * Stake[Node]
           /\ hasPrepareQuorum(S) <=> 3 * Stake[S] > 2 * Stake[Node]
<1>1. Stake[S] \in Nat /\ Stake[Node] \in Nat /\ Stake[S] <= Stake[Node]
  BY StakeAssumption, StakeMonotone
<1>2. \A t, s \in Nat : s >= (2 * t) \div 3 + 1 <=> 3 * s > 2 * t
  OBVIOUS
<1>3. 3 * Stake[S] > 2 * Stake[Node] => Stake[Node] # 0
  BY <1>1
<1>4. Stake[S] >= requiredStake <=> 3 * Stake[S] > 2 * Stake[Node]
  BY <1>1, <1>2 DEF requiredStake
<1> QED
  BY <1>3, <1>4 DEF hasQuorum, hasPrepareQuorum

\* Two sets above two thirds share more than one third.
LEMMA TwoThirdsIntersect ==
    ASSUME NEW S \in SUBSET Node, NEW T \in SUBSET Node,
           3 * Stake[S] > 2 * Stake[Node], 3 * Stake[T] > 2 * Stake[Node]
    PROVE  3 * Stake[S \cap T] > Stake[Node]
<1>1. S \cap (T \ S) = {} /\ S \cup (T \ S) = S \cup T
  OBVIOUS
<1>2. (S \cap T) \cap (T \ S) = {} /\ (S \cap T) \cup (T \ S) = T
  OBVIOUS
<1>3. Stake[S \cup T] = Stake[S] + Stake[T \ S]
  BY <1>1, StakeAssumption
<1>4. Stake[T] = Stake[S \cap T] + Stake[T \ S]
  BY <1>2, StakeAssumption
<1>5. Stake[S \cup T] <= Stake[Node]
  BY StakeMonotone
<1>6. /\ Stake[S] \in Nat /\ Stake[T] \in Nat /\ Stake[Node] \in Nat
      /\ Stake[S \cap T] \in Nat /\ Stake[T \ S] \in Nat /\ Stake[S \cup T] \in Nat
  BY StakeAssumption
<1> QED
  BY <1>3, <1>4, <1>5, <1>6

-----------------------------------------------------------------------------
(* The chains. *)

\* Appending a child of the tip to one chain leaves every chain linked and
\* the genesis block in place.
LEMMA ExtendKeepsChains ==
    ASSUME TypeOK, ChainLinked, GenesisKept, NEW n \in Node, NEW b \in Block,
           ParentOf[b] = GetLatestBlock(n),
           chain' = [chain EXCEPT ![n] = Append(@, b)]
    PROVE  /\ ChainLinked'
           /\ GenesisKept'
           /\ GetLatestBlock(n)' = b
           /\ LatestHeight(n)' = LatestHeight(n) + 1
           /\ \A k \in Node \ {n} : GetLatestBlock(k)' = GetLatestBlock(k)
<1> DEFINE c == chain[n]
<1>1. c \in Seq(Block) /\ Len(c) \in Nat /\ Len(c) > 0
  BY DEF TypeOK
<1>2. /\ chain'[n] = Append(c, b)
      /\ \A k \in Node \ {n} : chain'[k] = chain[k]
  BY DEF TypeOK
<1>3. /\ Len(chain'[n]) = Len(c) + 1
      /\ \A i \in 1..Len(c) : chain'[n][i] = c[i]
      /\ chain'[n][Len(c) + 1] = b
  <2> HIDE DEF c
  <2>1. /\ Len(Append(c, b)) = Len(c) + 1
        /\ \A i \in 1..Len(c) : Append(c, b)[i] = c[i]
        /\ Append(c, b)[Len(c) + 1] = b
    BY <1>1, AppendHolds
  <2> QED BY <1>2, <2>1
<1>4. c[Len(c)] \in Block /\ ParentOf[b] = c[Len(c)] /\ HeightOf[c[Len(c)]] = Len(c) - 1
  <2>1. Len(c) \in 1..Len(c)
    <3> HIDE DEF c
    <3> QED BY <1>1
  <2>2. c[Len(c)] \in Block
    <3> HIDE DEF c
    <3> QED BY <1>1, <2>1
  <2>3. ParentOf[b] = c[Len(c)]
    BY DEF GetLatestBlock
  <2>4. HeightOf[c[Len(c)]] = Len(c) - 1
    BY <2>1 DEF ChainLinked
  <2> QED BY <2>2, <2>3, <2>4
<1>5. HeightOf[b] = Len(c)
  <2>1. ParentOf[b] # None
    BY <1>4, BlockAssumption
  <2>2. HeightOf[b] = HeightOf[ParentOf[b]] + 1
    BY <2>1, BlockAssumption
  <2>3. HeightOf[ParentOf[b]] = Len(c) - 1
    BY <1>4
  <2> HIDE DEF c
  <2> QED
    BY <1>1, <2>2, <2>3
<1>6. ChainLinked'
  <2>1. ASSUME NEW i \in 1..Len(chain'[n])
        PROVE  /\ HeightOf[chain'[n][i]] = i - 1
               /\ i > 1 => ParentOf[chain'[n][i]] = chain'[n][i - 1]
    <3>1. CASE i = Len(c) + 1
      BY <1>1, <1>3, <1>4, <1>5, <3>1
    <3>2. CASE i \in 1..Len(c)
      BY <1>1, <1>3, <3>2 DEF ChainLinked
    <3> QED
      BY <1>1, <1>3, <3>1, <3>2
  <2> QED
    BY <1>2, <2>1 DEF ChainLinked
<1>7. GenesisKept'
  <2>1. chain'[n][1] = c[1]
    BY <1>1, <1>3
  <2> QED
    BY <1>2, <2>1 DEF GenesisKept
<1>8. GetLatestBlock(n)' = b /\ \A k \in Node \ {n} : GetLatestBlock(k)' = GetLatestBlock(k)
  BY <1>2, <1>3 DEF GetLatestBlock
<1>9. LatestHeight(n)' = LatestHeight(n) + 1
  BY <1>1, <1>4, <1>5, <1>8 DEF LatestHeight, GetLatestBlock
<1> QED
  BY <1>6, <1>7, <1>8, <1>9

\* A step that leaves the chains alone keeps ChainInv if the blocks it makes
\* a node hold are ones it held, or children of its tip.
LEMMA ChainsUntouched ==
    ASSUME ChainInv, UNCHANGED chain,
           \A k \in Node : \A b \in {preparedBlock'[k], lockedBlock'[k]} \ {None} :
               \/ b \in {preparedBlock[k], lockedBlock[k]}
               \/ ParentOf[b] = GetLatestBlock(k)
    PROVE  ChainInv'
<1>1. ChainLinked' /\ GenesisKept'
  BY DEF ChainInv, ChainLinked, GenesisKept
<1>2. \A k \in Node : /\ GetLatestBlock(k)' = GetLatestBlock(k)
                      /\ LatestHeight(k)' = LatestHeight(k)
  BY DEF GetLatestBlock, LatestHeight
<1>3. HeldOnTip'
  BY <1>2 DEF ChainInv, HeldOnTip
<1> QED
  BY <1>1, <1>3 DEF ChainInv

\* A block the engine holds at the next height is a child of the tip.
LEMMA HeldIsChild ==
    ASSUME TypeOK, ChainInv, NEW n \in Node, NEW b \in Block,
           b \in {preparedBlock[n], lockedBlock[n]}, IsNext(n, b)
    PROVE  ParentOf[b] = GetLatestBlock(n)
<1>1. b # None
  BY BlockAssumption
<1>2. LatestHeight(n) \in Nat
  BY TipType
<1>3. ~(HeightOf[b] <= LatestHeight(n))
  BY <1>2 DEF IsNext
<1> QED
  BY <1>1, <1>3 DEF ChainInv, HeldOnTip

\* Resetting the round, or accepting a proposal, keeps ChainInv.
LEMMA ResetKeepsChains ==
    ASSUME TypeOK, ChainInv, NEW n \in Node, resetConsensusState(n), UNCHANGED chain
    PROVE  ChainInv'
<1>1. \A k \in Node : /\ preparedBlock'[k] \in {preparedBlock[k], None}
                      /\ lockedBlock'[k] \in {lockedBlock[k], None}
  BY DEF resetConsensusState, TypeOK
<1> QED
  BY <1>1, ChainsUntouched

\* processProposal keeps ChainInv: the block it prepares is a child of the tip.
LEMMA ProposalKeepsChains ==
    ASSUME TypeOK, ChainInv, NEW n \in Node, NEW m \in msgs, ProcessProposal(n, m)
    PROVE  ChainInv'
<1>1. ParentOf[m.block] = GetLatestBlock(n)
  BY DEF ProcessProposal
<1>2. preparedBlock \in [Node -> Block \cup {None}] /\ lockedBlock \in [Node -> Block \cup {None}]
  BY DEF TypeOK
<1>3. \A k \in Node : lockedBlock'[k] \in {lockedBlock[k], None}
  BY <1>2 DEF ProcessProposal, RejectStale, RejectNonLeader, AcceptProposal, EnterView
<1>4. \A k \in Node : \/ preparedBlock'[k] \in {preparedBlock[k], None}
                      \/ k = n /\ preparedBlock'[k] = m.block
  BY <1>2 DEF ProcessProposal, RejectStale, RejectNonLeader, AcceptProposal
<1>5. UNCHANGED chain
  BY DEF ProcessProposal, RejectStale, RejectNonLeader, AcceptProposal, EnterView
<1> QED
  BY <1>1, <1>3, <1>4, <1>5, ChainsUntouched

\* Committing, or importing, a block keeps ChainInv: what else is held is at
\* most at the height just reached.
LEMMA ReceiveKeepsChains ==
    ASSUME TypeOK, ChainInv, NEW n \in Node, NEW m \in msgs, ReceiveBlock(n, m)
    PROVE  ChainInv'
<1>1. m.block \in Block
  BY DEF ReceiveBlock, TypeOK, Message, Proposal, Vote, Timeout, Gossip
<1>2. /\ ParentOf[m.block] = GetLatestBlock(n)
      /\ chain' = [chain EXCEPT ![n] = Append(@, m.block)]
      /\ UNCHANGED <<preparedBlock, lockedBlock>>
  BY DEF ReceiveBlock, roundVars
<1>3. /\ ChainLinked' /\ GenesisKept'
      /\ LatestHeight(n)' = LatestHeight(n) + 1
      /\ \A k \in Node \ {n} : GetLatestBlock(k)' = GetLatestBlock(k)
  BY <1>1, <1>2, ExtendKeepsChains DEF ChainInv
<1>4. ASSUME NEW k \in Node, NEW b \in {preparedBlock'[k], lockedBlock'[k]} \ {None}
      PROVE  HeightOf[b] <= LatestHeight(k)' \/ ParentOf[b] = GetLatestBlock(k)'
  <2>0. /\ preparedBlock[k] \in Block \cup {None} /\ lockedBlock[k] \in Block \cup {None}
        /\ preparedBlock'[k] = preparedBlock[k] /\ lockedBlock'[k] = lockedBlock[k]
    <3>1. preparedBlock \in [Node -> Block \cup {None}] /\ lockedBlock \in [Node -> Block \cup {None}]
      BY DEF TypeOK
    <3> QED BY <1>2, <3>1
  <2>1. b \in {preparedBlock[k], lockedBlock[k]} \ {None} /\ b \in Block
    BY <2>0
  <2>2. HeightOf[b] <= LatestHeight(k) \/ ParentOf[b] = GetLatestBlock(k)
    BY <2>1 DEF ChainInv, HeldOnTip
  <2>3. CASE k # n
    BY <1>3, <2>2, <2>3 DEF LatestHeight
  <2>4. CASE k = n
    <3>1. HeightOf[b] \in Nat /\ LatestHeight(n) \in Nat /\ GetLatestBlock(n) \in Block
      BY <2>1, TipType, BlockAssumption
    <3>2. ParentOf[b] = GetLatestBlock(n) => HeightOf[b] = LatestHeight(n) + 1
      BY <2>1, <3>1, BlockAssumption DEF LatestHeight
    <3>3. HeightOf[b] <= LatestHeight(n) \/ ParentOf[b] = GetLatestBlock(n)
      BY <2>2, <2>4
    <3>4. HeightOf[b] <= LatestHeight(n) + 1
      BY <3>1, <3>2, <3>3
    <3>5. HeightOf[b] <= LatestHeight(n)'
      BY <1>3, <3>4
    <3> QED
      BY <2>4, <3>5
  <2> QED
    BY <2>3, <2>4
<1> QED
  BY <1>3, <1>4 DEF ChainInv, HeldOnTip

\* processVote keeps ChainInv: what it commits is held and is at the next height.
LEMMA VoteKeepsChains ==
    ASSUME TypeOK, ChainInv, NEW n \in Node, NEW m \in msgs, ProcessVote(n, m)
    PROVE  ChainInv'
<1>1. m.block \in Block
  BY DEF ProcessVote, TypeOK, Message, Proposal, Vote, Timeout, Gossip
<1>2. CASE UNCHANGED <<chain, preparedBlock, lockedBlock>>
  BY <1>2, ChainsUntouched
<1>3. CASE /\ m.block \in {lockedBlock[n], preparedBlock[n]}
           /\ IsNext(n, m.block)
           /\ commitBlock(n, m.block)
  <2>1. ParentOf[m.block] = GetLatestBlock(n)
    BY <1>1, <1>3, HeldIsChild
  <2>2. /\ chain' = [chain EXCEPT ![n] = Append(@, m.block)]
        /\ \A k \in Node : preparedBlock'[k] = IF k = n THEN None ELSE preparedBlock[k]
        /\ \A k \in Node : lockedBlock'[k] = IF k = n THEN None ELSE lockedBlock[k]
    BY <1>3 DEF commitBlock, resetConsensusState, TypeOK
  <2>3. /\ ChainLinked' /\ GenesisKept'
        /\ \A k \in Node \ {n} : GetLatestBlock(k)' = GetLatestBlock(k)
    BY <1>1, <2>1, <2>2, ExtendKeepsChains DEF ChainInv
  <2>4. \A k \in Node \ {n} : LatestHeight(k)' = LatestHeight(k)
    BY <2>3 DEF LatestHeight
  <2>5. HeldOnTip'
    <3> SUFFICES ASSUME NEW k \in Node,
                        NEW b \in {preparedBlock'[k], lockedBlock'[k]} \ {None}
                 PROVE  HeightOf[b] <= LatestHeight(k)' \/ ParentOf[b] = GetLatestBlock(k)'
      BY DEF HeldOnTip
    <3>1. k # n /\ b \in {preparedBlock[k], lockedBlock[k]} \ {None}
      BY <2>2
    <3>2. HeightOf[b] <= LatestHeight(k) \/ ParentOf[b] = GetLatestBlock(k)
      BY <3>1 DEF ChainInv, HeldOnTip
    <3> QED
      BY <2>3, <2>4, <3>1, <3>2
  <2> QED
    BY <2>3, <2>5 DEF ChainInv
<1> QED
  BY <1>2, <1>3 DEF ProcessVote, recordVote

\* processPrepareVote keeps ChainInv: it locks only the prepared block.
LEMMA PrepareVoteKeepsChains ==
    ASSUME TypeOK, ChainInv, NEW n \in Node, NEW m \in msgs, ProcessPrepareVote(n, m)
    PROVE  ChainInv'
<1>1. UNCHANGED <<chain, preparedBlock>>
  BY DEF ProcessPrepareVote
<1>2. \A k \in Node : lockedBlock'[k] \in {lockedBlock[k], preparedBlock[k]}
  BY DEF ProcessPrepareVote, TypeOK
<1> QED
  BY <1>1, <1>2, ChainsUntouched

\* A restart keeps ChainInv: it leaves the genesis block, and holds nothing.
LEMMA RestartKeepsChains ==
    ASSUME TypeOK, ChainInv, NEW n \in Node, Restart(n)
    PROVE  ChainInv'
<1>1. /\ chain'[n] = <<Genesis>>
      /\ \A k \in Node \ {n} : chain'[k] = chain[k]
  BY DEF Restart, TypeOK
<1>2. /\ preparedBlock'[n] = None /\ lockedBlock'[n] = None
      /\ \A k \in Node \ {n} :
            preparedBlock'[k] = preparedBlock[k] /\ lockedBlock'[k] = lockedBlock[k]
  BY DEF Restart, resetConsensusState, TypeOK
<1>3. ChainLinked'
  <2>1. ASSUME NEW k \in Node, NEW i \in 1..Len(chain'[k])
        PROVE  /\ HeightOf[chain'[k][i]] = i - 1
               /\ i > 1 => ParentOf[chain'[k][i]] = chain'[k][i - 1]
    <3>1. CASE k = n
      <4>1. i = 1 /\ chain'[k][i] = Genesis
        BY <1>1, <3>1, GenesisChain
      <4> QED
        BY <4>1, GenesisAssumption
    <3>2. CASE k # n
      BY <1>1, <3>2 DEF ChainInv, ChainLinked
    <3> QED
      BY <3>1, <3>2
  <2> QED
    BY <2>1 DEF ChainLinked
<1>4. GenesisKept'
  BY <1>1, GenesisChain DEF ChainInv, GenesisKept
<1>5. HeldOnTip'
  <2>1. \A k \in Node \ {n} : /\ GetLatestBlock(k)' = GetLatestBlock(k)
                             /\ LatestHeight(k)' = LatestHeight(k)
    BY <1>1 DEF GetLatestBlock, LatestHeight
  <2> QED
    BY <1>2, <2>1 DEF ChainInv, HeldOnTip
<1> QED
  BY <1>3, <1>4, <1>5 DEF ChainInv

\* The engine starts with ChainInv: nothing is held above the genesis block.
LEMMA ChainInvInit == Init => ChainInv
<1> SUFFICES ASSUME Init PROVE ChainInv
  OBVIOUS
<1>1. \A n \in Node : chain[n] = <<Genesis>> /\ preparedBlock[n] = None /\ lockedBlock[n] = None
  BY DEF Init
<1>2. ChainLinked
  <2> SUFFICES ASSUME NEW n \in Node, NEW i \in 1..Len(chain[n])
               PROVE  /\ HeightOf[chain[n][i]] = i - 1
                      /\ i > 1 => ParentOf[chain[n][i]] = chain[n][i - 1]
    BY DEF ChainLinked
  <2>1. chain[n] = <<Genesis>>
    BY <1>1
  <2>2. Len(chain[n]) = 1 /\ chain[n][1] = Genesis
    BY <2>1, GenesisChain
  <2>3. i \in 1..1
    BY <2>2
  <2>4. i = 1 /\ ~(i > 1) /\ i - 1 = 0
    BY <2>3
  <2>5. HeightOf[chain[n][i]] = 0
    BY <2>2, <2>4, GenesisAssumption
  <2> QED
    BY <2>4, <2>5
<1>3. HeldOnTip
  BY <1>1 DEF HeldOnTip
<1>4. GenesisKept
  BY <1>1, GenesisChain DEF GenesisKept
<1> QED
  BY <1>2, <1>3, <1>4 DEF ChainInv

\* No step breaks ChainInv.
LEMMA ChainInvStep ==
    ASSUME TypeOK, ChainInv, [Next]_vars
    PROVE  ChainInv'
<1>1. CASE UNCHANGED vars
  BY <1>1, ChainsUntouched DEF vars, roundVars
<1>2. ASSUME NEW n \in Node, Step(n) PROVE ChainInv'
  <2>1. CASE LeaderTick(n) \/ ProposeBlock(n) \/ ProposalExpires(n) \/ SyncHeight(n)
    <3>1. UNCHANGED <<chain, preparedBlock, lockedBlock>>
      BY <2>1 DEF LeaderTick, ProposeBlock, ProposalExpires, SyncHeight, roundVars
    <3> QED
      BY <3>1, ChainsUntouched
  <2>2. CASE ResetStuckPhase(n) \/ StartViewChange(n)
    <3>1. resetConsensusState(n) /\ UNCHANGED chain
      BY <2>2 DEF ResetStuckPhase, StartViewChange
    <3> QED
      BY <3>1, ResetKeepsChains
  <2> QED
    BY <1>2, <2>1, <2>2, RestartKeepsChains DEF Step
<1>3. ASSUME NEW n \in Node, NEW m \in msgs, Deliver(n, m) PROVE ChainInv'
  <2>1. CASE ProcessTimeout(n, m)
    <3>1. /\ UNCHANGED chain
          /\ resetConsensusState(n) \/ UNCHANGED <<preparedBlock, lockedBlock>>
      BY <2>1 DEF ProcessTimeout, roundVars
    <3> QED
      BY <3>1, ResetKeepsChains, ChainsUntouched
  <2> QED
    BY <1>3, <2>1, ProposalKeepsChains, PrepareVoteKeepsChains, VoteKeepsChains,
       ReceiveKeepsChains DEF Deliver
<1> QED
  BY <1>1, <1>2, <1>3 DEF Next

-----------------------------------------------------------------------------
(* The votes. *)

\* A quorum stays one when votes are added.
LEMMA QuorumGrows ==
    ASSUME NEW S \in SUBSET Node, NEW T \in SUBSET Node, S \subseteq T
    PROVE  /\ hasQuorum(S) => hasQuorum(T)
           /\ hasPrepareQuorum(S) => hasPrepareQuorum(T)
<1>1. Stake[S] \in Nat /\ Stake[T] \in Nat /\ Stake[S] <= Stake[T]
  BY StakeMonotone, StakeAssumption
<1>2. requiredStake \in Int
  BY StakeAssumption DEF requiredStake
<1> QED
  BY <1>1, <1>2 DEF hasQuorum, hasPrepareQuorum

\* Votes are never taken back.
LEMMA VotesGrow ==
    ASSUME msgs \subseteq msgs', NEW b
    PROVE  /\ VotedFor(b) \subseteq VotedFor(b)'
           /\ PreparedBy(b) \subseteq PreparedBy(b)'
BY DEF VotedFor, PreparedBy

\* A step that stores no block, casts no commit vote and files no vote keeps
\* VoteInv.
LEMMA VotesUntouched ==
    ASSUME VoteInv, \A k \in Node : chain'[k] \in {chain[k], <<Genesis>>},
           msgs \subseteq msgs',
           \A m \in msgs' \ msgs : m.type \notin {"vote", "block"},
           \A k \in Node : /\ \A b \in Block : /\ prepareVotes'[k][b] \subseteq prepareVotes[k][b]
                                              /\ receivedVotes'[k][b] \subseteq receivedVotes[k][b]
                           /\ sentVotes'[k] \subseteq sentVotes[k]
                           /\ lockedBlock'[k] \in {lockedBlock[k], None}
    PROVE  VoteInv'
<1>1. \A b : VotedFor(b)' = VotedFor(b)
  BY DEF VotedFor
<1>2. \A b : PreparedBy(b) \subseteq PreparedBy(b)' /\ PreparedBy(b)' \subseteq Node
  BY DEF PreparedBy
<1>3. VotesReal'
  BY <1>1, <1>2 DEF VoteInv, VotesReal
<1>4. LockedIsVoted'
  BY <1>1 DEF VoteInv, LockedIsVoted
<1>5. ChainsCertified'
  <2>1. ASSUME NEW k \in Node, NEW i \in 2..Len(chain'[k])
        PROVE  chain'[k] = chain[k]
    <3>1. Len(chain'[k]) # 1
      <4> SUFFICES ASSUME Len(chain'[k]) = 1
                   PROVE  FALSE
        OBVIOUS
      <4>1. i \in 2..1
        OBVIOUS
      <4> QED
        BY <4>1
    <3> QED
      BY <3>1, GenesisChain
  <2>2. \A k \in Node : \A i \in 2..Len(chain'[k]) : hasQuorum(VotedFor(chain'[k][i]))
    BY <2>1 DEF VoteInv, ChainsCertified
  <2> QED
    BY <1>1, <2>2 DEF ChainsCertified, VotedFor
<1>6. GossipCertified'
  BY <1>1 DEF VoteInv, GossipCertified
<1>7. VotesPrepared'
  BY <1>1, <1>2, QuorumGrows DEF VoteInv, VotesPrepared, PreparedBy
<1> QED
  BY <1>3, <1>4, <1>5, <1>6, <1>7 DEF VoteInv

\* Blocks stored or gossiped keep their quorum when messages are added.
LEMMA StoredStaysCertified ==
    ASSUME ChainsCertified, GossipCertified, UNCHANGED chain, msgs \subseteq msgs',
           \A m \in msgs' \ msgs : m.type # "block"
    PROVE  ChainsCertified' /\ GossipCertified'
<1>1. ASSUME NEW b, hasQuorum(VotedFor(b)) PROVE hasQuorum(VotedFor(b)')
  <2>1. /\ VotedFor(b) \in SUBSET Node /\ VotedFor(b)' \in SUBSET Node
        /\ VotedFor(b) \subseteq VotedFor(b)'
    BY DEF VotedFor
  <2> QED
    BY <1>1, <2>1, QuorumGrows
<1>2. ChainsCertified'
  BY <1>1 DEF ChainsCertified, VotedFor
<1>3. GossipCertified'
  BY <1>1 DEF GossipCertified
<1> QED
  BY <1>2, <1>3

\* resetConsensusState forgets votes and locks, and VoteInv survives that.
LEMMA ResetKeepsVotes ==
    ASSUME TypeOK, VoteInv, NEW n \in Node, resetConsensusState(n),
           \A k \in Node : chain'[k] \in {chain[k], <<Genesis>>},
           msgs \subseteq msgs', \A m \in msgs' \ msgs : m.type \notin {"vote", "block"}
    PROVE  VoteInv'
<1>1. \A k \in Node : /\ \A b \in Block : /\ prepareVotes'[k][b] \subseteq prepareVotes[k][b]
                                         /\ receivedVotes'[k][b] \subseteq receivedVotes[k][b]
                      /\ sentVotes'[k] \subseteq sentVotes[k]
                      /\ lockedBlock'[k] \in {lockedBlock[k], None}
  BY DEF resetConsensusState, TypeOK
<1> QED
  BY <1>1, VotesUntouched

\* processProposal sends a prepare vote at most, and keeps VoteInv.
LEMMA ProposalKeepsVotes ==
    ASSUME TypeOK, VoteInv, NEW n \in Node, NEW m \in msgs, ProcessProposal(n, m)
    PROVE  VoteInv'
<1>1. UNCHANGED chain
  BY DEF ProcessProposal, RejectStale, RejectNonLeader, AcceptProposal, EnterView
<1>2. msgs \subseteq msgs' /\ \A x \in msgs' \ msgs : x.type \notin {"vote", "block"}
  BY DEF ProcessProposal, RejectStale, RejectNonLeader, AcceptProposal
<1>3. \A k \in Node : /\ \A b \in Block : /\ prepareVotes'[k][b] \subseteq prepareVotes[k][b]
                                         /\ receivedVotes'[k][b] \subseteq receivedVotes[k][b]
                      /\ sentVotes'[k] \subseteq sentVotes[k]
                      /\ lockedBlock'[k] \in {lockedBlock[k], None}
  <2>1. CASE RejectStale(n, m)
    BY <2>1 DEF RejectStale
  <2>2. CASE EnterView(n, m)
    BY <2>2 DEF EnterView, TypeOK
  <2> QED
    BY <2>1, <2>2 DEF ProcessProposal, RejectNonLeader, AcceptProposal
<1> QED
  BY <1>1, <1>2, <1>3, VotesUntouched

\* A prepare vote that completes a quorum locks the block and casts the
\* commit vote, which is thereby prepared.
LEMMA PrepareVoteKeepsVotes ==
    ASSUME TypeOK, VoteInv, NEW n \in Node, NEW m \in msgs, ProcessPrepareVote(n, m)
    PROVE  VoteInv'
<1> DEFINE b == m.block
           voters == prepareVotes[n][b] \cup {m.voter}
           cast == [type |-> "vote", block |-> b, voter |-> n]
<1>1. b \in Block /\ m.voter \in Node /\ m = [type |-> "prepare", block |-> b, voter |-> m.voter]
  BY DEF ProcessPrepareVote, TypeOK, Message, Proposal, Vote, Timeout, Gossip
<1>2. voters \subseteq PreparedBy(b) /\ PreparedBy(b) \subseteq Node
  BY <1>1 DEF VoteInv, VotesReal, PreparedBy
<1>3. UNCHANGED <<chain, receivedVotes>> /\ prepareVotes' = [prepareVotes EXCEPT ![n][b] = voters]
  BY DEF ProcessPrepareVote
<1>4. \/ UNCHANGED <<lockedBlock, sentVotes, msgs>>
      \/ /\ hasPrepareQuorum(voters)
         /\ lockedBlock' = [lockedBlock EXCEPT ![n] = b]
         /\ voteForBlock(n, b)
  BY DEF ProcessPrepareVote
<1>5. msgs \subseteq msgs' /\ msgs' \subseteq msgs \cup {cast}
  BY <1>4 DEF voteForBlock
<1>6. \A x : PreparedBy(x)' = PreparedBy(x) /\ VotedFor(x) \subseteq VotedFor(x)'
  BY <1>5 DEF PreparedBy, VotedFor
<1>7. VotesReal'
  <2>1. \A k \in Node, x \in Block : prepareVotes'[k][x] \subseteq PreparedBy(x)
    BY <1>1, <1>2, <1>3 DEF VoteInv, VotesReal, TypeOK
  <2>2. \A k \in Node, x \in Block : receivedVotes'[k][x] \subseteq VotedFor(x)'
    BY <1>3, <1>6 DEF VoteInv, VotesReal
  <2>3. ASSUME NEW k \in Node, NEW x \in Block, x \in sentVotes'[k] PROVE k \in VotedFor(x)'
    <3>1. CASE x \in sentVotes[k]
      BY <1>6, <3>1 DEF VoteInv, VotesReal
    <3>2. CASE x \notin sentVotes[k]
      <4>1. k = n /\ x = b /\ cast \in msgs'
        BY <1>4, <2>3, <3>2 DEF voteForBlock, TypeOK
      <4> QED
        BY <4>1 DEF VotedFor
    <3> QED
      BY <3>1, <3>2
  <2> QED
    BY <1>6, <2>1, <2>2, <2>3 DEF VotesReal
<1>8. LockedIsVoted'
  <2>1. CASE UNCHANGED <<lockedBlock, sentVotes, msgs>>
    BY <2>1 DEF VoteInv, LockedIsVoted, VotedFor
  <2>2. CASE lockedBlock' = [lockedBlock EXCEPT ![n] = b] /\ voteForBlock(n, b)
    <3>1. n \in VotedFor(b)'
      <4>1. CASE b \in sentVotes[n]
        BY <1>1, <1>6, <4>1 DEF VoteInv, VotesReal
      <4>2. CASE b \notin sentVotes[n]
        BY <2>2, <4>2 DEF voteForBlock, VotedFor
      <4> QED
        BY <4>1, <4>2
    <3>2. \A k \in Node : lockedBlock'[k] = IF k = n THEN b ELSE lockedBlock[k]
      BY <2>2 DEF TypeOK
    <3> QED
      BY <1>5, <3>1, <3>2 DEF VoteInv, LockedIsVoted, VotedFor
  <2> QED
    BY <1>4, <2>1, <2>2
<1>9. ChainsCertified' /\ GossipCertified'
  BY <1>3, <1>5, StoredStaysCertified DEF VoteInv
<1>10. VotesPrepared'
  <2>1. ASSUME NEW x \in Block, VotedFor(x)' # {} PROVE hasPrepareQuorum(PreparedBy(x))
    <3>1. CASE VotedFor(x) # {}
      BY <3>1 DEF VoteInv, VotesPrepared
    <3>2. CASE VotedFor(x) = {}
      <4>1. x = b /\ msgs' # msgs
        BY <1>5, <2>1, <3>2 DEF VotedFor
      <4> QED
        BY <1>2, <1>4, <4>1, QuorumGrows
    <3> QED
      BY <3>1, <3>2
  <2> QED
    BY <1>6, <2>1 DEF VotesPrepared
<1> QED
  BY <1>7, <1>8, <1>9, <1>10 DEF VoteInv

\* Storing a block that has a commit quorum keeps every chain certified.
LEMMA ExtendKeepsCertified ==
    ASSUME TypeOK, ChainsCertified, NEW n \in Node, NEW b \in Block, hasQuorum(VotedFor(b)),
           chain' = [chain EXCEPT ![n] = Append(@, b)],
           \A x : VotedFor(x)' = VotedFor(x)
    PROVE  ChainsCertified'
<1>1. chain[n] \in Seq(Block) /\ Len(chain[n]) \in Nat
  BY ChainType
<1>2. chain'[n] = Append(chain[n], b) /\ \A k \in Node \ {n} : chain'[k] = chain[k]
  BY DEF TypeOK
<1>3. ASSUME NEW k \in Node, NEW i \in 2..Len(chain'[k])
      PROVE  hasQuorum(VotedFor(chain'[k][i]))
  <2>1. CASE k # n
    BY <1>2, <1>3, <2>1 DEF ChainsCertified
  <2>2. CASE k = n /\ i = Len(chain[n]) + 1
    BY <1>1, <1>2, <2>2
  <2>3. CASE k = n /\ i # Len(chain[n]) + 1
    <3>1. i \in 2..Len(chain[n]) /\ chain'[n][i] = chain[n][i]
      BY <1>1, <1>2, <1>3, <2>3
    <3> QED
      BY <2>3, <3>1 DEF ChainsCertified
  <2> QED
    BY <2>1, <2>2, <2>3
<1> QED
  BY <1>3 DEF ChainsCertified, VotedFor

\* processVote keeps VoteInv: it counts a vote that was cast, and commits on a
\* quorum of those.
LEMMA VoteKeepsVotes ==
    ASSUME TypeOK, VoteInv, NEW n \in Node, NEW m \in msgs, ProcessVote(n, m)
    PROVE  VoteInv'
<1> DEFINE b == m.block
           voters == commitVoters(n, b, m.voter)
<1>1. b \in Block /\ m.voter \in Node /\ m = [type |-> "vote", block |-> b, voter |-> m.voter]
  BY DEF ProcessVote, TypeOK, Message, Proposal, Vote, Timeout, Gossip
<1>2. voters \subseteq VotedFor(b) /\ VotedFor(b) \subseteq Node
  BY <1>1 DEF VoteInv, VotesReal, VotedFor, commitVoters
<1>3. CASE recordVote(n, b, voters)
  <2>1. /\ UNCHANGED <<chain, msgs, prepareVotes, sentVotes, lockedBlock>>
        /\ receivedVotes' = [receivedVotes EXCEPT ![n][b] = voters]
    BY <1>3 DEF recordVote
  <2>2. \A k \in Node, x \in Block : receivedVotes'[k][x] \subseteq VotedFor(x)
    BY <1>1, <1>2, <2>1 DEF VoteInv, VotesReal, TypeOK
  <2>3. \A x : VotedFor(x)' = VotedFor(x) /\ PreparedBy(x)' = PreparedBy(x)
    BY <2>1 DEF VotedFor, PreparedBy
  <2>4. VotesReal'
    BY <2>1, <2>2, <2>3 DEF VoteInv, VotesReal
  <2>5. LockedIsVoted'
    BY <2>1 DEF VoteInv, LockedIsVoted, VotedFor
  <2>6. ChainsCertified' /\ GossipCertified'
    BY <2>1, StoredStaysCertified DEF VoteInv
  <2>7. VotesPrepared'
    BY <2>3 DEF VoteInv, VotesPrepared
  <2> QED
    BY <2>4, <2>5, <2>6, <2>7 DEF VoteInv
<1>4. CASE hasQuorum(voters) /\ commitBlock(n, b)
  <2>1. /\ resetConsensusState(n)
        /\ chain' = [chain EXCEPT ![n] = Append(@, b)]
        /\ msgs' = msgs \cup {[type |-> "block", block |-> b]}
    BY <1>4 DEF commitBlock
  <2>2. \A x : VotedFor(x)' = VotedFor(x) /\ PreparedBy(x)' = PreparedBy(x)
    BY <2>1 DEF VotedFor, PreparedBy
  <2>3. hasQuorum(VotedFor(b))
    BY <1>2, <1>4, QuorumGrows
  <2>4. VotesReal'
    <3>1. \A k \in Node, x \in Block : /\ prepareVotes'[k][x] \subseteq prepareVotes[k][x]
                                       /\ receivedVotes'[k][x] \subseteq receivedVotes[k][x]
                                       /\ sentVotes'[k] \subseteq sentVotes[k]
      BY <2>1 DEF resetConsensusState, TypeOK
    <3> QED
      BY <2>2, <3>1 DEF VoteInv, VotesReal
  <2>5. LockedIsVoted'
    <3>1. \A k \in Node : lockedBlock'[k] \in {lockedBlock[k], None}
      BY <2>1 DEF resetConsensusState, TypeOK
    <3> QED
      BY <2>1, <3>1 DEF VoteInv, LockedIsVoted, VotedFor
  <2>6. ChainsCertified'
    BY <1>1, <2>1, <2>2, <2>3, ExtendKeepsCertified DEF VoteInv
  <2>7. GossipCertified'
    BY <2>1, <2>2, <2>3 DEF VoteInv, GossipCertified
  <2>8. VotesPrepared'
    BY <2>2 DEF VoteInv, VotesPrepared
  <2> QED
    BY <2>4, <2>5, <2>6, <2>7, <2>8 DEF VoteInv
<1> QED
  BY <1>3, <1>4 DEF ProcessVote

\* AddBlockFromPeer keeps VoteInv: gossip carries certified blocks.
LEMMA ReceiveKeepsVotes ==
    ASSUME TypeOK, VoteInv, NEW n \in Node, NEW m \in msgs, ReceiveBlock(n, m)
    PROVE  VoteInv'
<1>1. m.block \in Block /\ hasQuorum(VotedFor(m.block))
  BY DEF ReceiveBlock, TypeOK, Message, Proposal, Vote, Timeout, Gossip, VoteInv, GossipCertified
<1>2. /\ chain' = [chain EXCEPT ![n] = Append(@, m.block)]
      /\ UNCHANGED <<msgs, prepareVotes, receivedVotes, sentVotes, lockedBlock>>
  BY DEF ReceiveBlock, roundVars
<1>3. \A x : VotedFor(x)' = VotedFor(x) /\ PreparedBy(x)' = PreparedBy(x)
  BY <1>2 DEF VotedFor, PreparedBy
<1>4. VotesReal' /\ VotesPrepared' /\ GossipCertified'
  BY <1>2, <1>3 DEF VoteInv, VotesReal, VotesPrepared, GossipCertified
<1>5. LockedIsVoted'
  BY <1>2 DEF VoteInv, LockedIsVoted, VotedFor
<1>6. ChainsCertified'
  BY <1>1, <1>2, <1>3, ExtendKeepsCertified DEF VoteInv
<1> QED
  BY <1>4, <1>5, <1>6 DEF VoteInv

\* The engine starts with VoteInv: there are no votes.
LEMMA VoteInvInit == Init => VoteInv
<1> SUFFICES ASSUME Init PROVE VoteInv
  OBVIOUS
<1>1. \A b : VotedFor(b) = {}
  BY DEF Init, VotedFor
<1>2. VotesReal
  BY DEF Init, VotesReal
<1>3. LockedIsVoted /\ GossipCertified
  BY DEF Init, LockedIsVoted, GossipCertified
<1>4. ChainsCertified
  <2> SUFFICES ASSUME NEW n \in Node, NEW i \in 2..Len(chain[n])
               PROVE  FALSE
    BY DEF ChainsCertified
  <2>1. Len(chain[n]) = 1
    BY GenesisChain DEF Init
  <2> QED
    BY <2>1
<1>5. VotesPrepared
  BY <1>1 DEF VotesPrepared
<1> QED
  BY <1>2, <1>3, <1>4, <1>5 DEF VoteInv

\* No step breaks VoteInv.
LEMMA VoteInvStep ==
    ASSUME TypeOK, VoteInv, [Next]_vars
    PROVE  VoteInv'
<1>1. CASE UNCHANGED vars
  BY <1>1, VotesUntouched DEF vars, roundVars
<1>2. ASSUME NEW n \in Node, Step(n) PROVE VoteInv'
  <2>1. CASE LeaderTick(n) \/ ProposeBlock(n) \/ ProposalExpires(n) \/ SyncHeight(n)
    <3>1. UNCHANGED <<chain, prepareVotes, receivedVotes, sentVotes, lockedBlock>>
      BY <2>1 DEF LeaderTick, ProposeBlock, ProposalExpires, SyncHeight, roundVars
    <3>2. \/ UNCHANGED msgs
          \/ \E b, v : msgs' = msgs \cup {[type |-> "proposal", block |-> b, view |-> v,
                                          proposer |-> n]}
      <4>1. CASE LeaderTick(n) \/ ProposalExpires(n) \/ SyncHeight(n)
        <5>1. UNCHANGED msgs
          BY <4>1 DEF LeaderTick, ProposalExpires, SyncHeight
        <5> QED
          BY <5>1
      <4>2. CASE ProposeBlock(n)
        BY <4>2 DEF ProposeBlock
      <4> QED
        BY <2>1, <4>1, <4>2
    <3>3. msgs \subseteq msgs' /\ \A m \in msgs' \ msgs : m.type \notin {"vote", "block"}
      BY <3>2
    <3> QED
      BY <3>1, <3>3, VotesUntouched
  <2>2. CASE ResetStuckPhase(n) \/ StartViewChange(n) \/ Restart(n)
    <3>1. /\ resetConsensusState(n)
          /\ \A k \in Node : chain'[k] \in {chain[k], <<Genesis>>}
      <4>1. CASE ResetStuckPhase(n)
        BY <4>1 DEF ResetStuckPhase
      <4>2. CASE StartViewChange(n)
        BY <4>2 DEF StartViewChange
      <4>3. CASE Restart(n)
        <5>1. resetConsensusState(n) /\ chain' = [chain EXCEPT ![n] = <<Genesis>>]
          BY <4>3 DEF Restart
        <5>2. \A k \in Node : chain'[k] = IF k = n THEN <<Genesis>> ELSE chain[k]
          BY <5>1 DEF TypeOK
        <5> QED
          BY <5>1, <5>2
      <4> QED
        BY <2>2, <4>1, <4>2, <4>3
    <3>2. \/ UNCHANGED msgs
          \/ \E v : msgs' = msgs \cup {[type |-> "timeout", view |-> v, voter |-> n]}
      <4>1. CASE ResetStuckPhase(n) \/ Restart(n)
        <5>1. UNCHANGED msgs
          BY <4>1 DEF ResetStuckPhase, Restart
        <5> QED
          BY <5>1
      <4>2. CASE StartViewChange(n)
        BY <4>2 DEF StartViewChange
      <4> QED
        BY <2>2, <4>1, <4>2
    <3>3. msgs \subseteq msgs' /\ \A m \in msgs' \ msgs : m.type \notin {"vote", "block"}
      BY <3>2
    <3> QED
      BY <3>1, <3>3, ResetKeepsVotes
  <2> QED
    BY <1>2, <2>1, <2>2 DEF Step
<1>3. ASSUME NEW n \in Node, NEW m \in msgs, Deliver(n, m) PROVE VoteInv'
  <2>1. CASE ProcessTimeout(n, m)
    <3>1. UNCHANGED <<chain, msgs>>
      BY <2>1 DEF ProcessTimeout
    <3>2. \/ resetConsensusState(n)
          \/ UNCHANGED <<prepareVotes, receivedVotes, sentVotes, lockedBlock>>
      BY <2>1 DEF ProcessTimeout, roundVars
    <3> QED
      BY <3>1, <3>2, ResetKeepsVotes, VotesUntouched
  <2> QED
    BY <1>3, <2>1, ProposalKeepsVotes, PrepareVoteKeepsVotes, VoteKeepsVotes,
       ReceiveKeepsVotes DEF Deliver
<1> QED
  BY <1>1, <1>2, <1>3 DEF Next

-----------------------------------------------------------------------------
(* The theorems. *)

\* SafetyInv is inductive, so the engine keeps it: whatever order proposals,
\* votes, gossip, timers and restarts come in, chains stay linked, held
\* blocks fit the tip, and every stored block is certified.
THEOREM SafetyHolds == Spec => []SafetyInv
<1>1. Init => SafetyInv
  BY ChainInvInit, VoteInvInit DEF SafetyInv
<1>2. TypeOK /\ SafetyInv /\ [Next]_vars => SafetyInv'
  BY ChainInvStep, VoteInvStep DEF SafetyInv
<1> QED
  BY <1>1, <1>2, TypeCorrect, PTL DEF Spec

\* Every node's chain stays hash-linked from the genesis block on, although
\* commitBlock itself compares heights only.
THEOREM ChainsLinked == Spec => []ChainLinked
<1>1. SafetyInv => ChainLinked
  BY DEF SafetyInv, ChainInv
<1> QED
  BY <1>1, SafetyHolds, PTL

\* A locked block is one the node has voted for.
THEOREM LocksAreVoted == Spec => []LockedIsVoted
<1>1. SafetyInv => LockedIsVoted
  BY DEF SafetyInv, VoteInv
<1> QED
  BY <1>1, SafetyHolds, PTL

\* Every block stored has commit votes, and every block voted for has prepare
\* votes, from more than two thirds of the stake.
THEOREM StoredBlocksCertified == Spec => []CommitsCertified
<1>1. SafetyInv => CommitsCertified
  <2> SUFFICES ASSUME SafetyInv PROVE CommitsCertified
    OBVIOUS
  <2>1. \A b : VotedFor(b) \in SUBSET Node /\ PreparedBy(b) \in SUBSET Node
    BY DEF VotedFor, PreparedBy
  <2>2. \A n \in Node : \A i \in 2..Len(chain[n]) :
           3 * Stake[VotedFor(chain[n][i])] > 2 * Stake[Node]
    BY <2>1, QuorumIsTwoThirds DEF SafetyInv, VoteInv, ChainsCertified
  <2>3. \A b \in Block : VotedFor(b) # {} => 3 * Stake[PreparedBy(b)] > 2 * Stake[Node]
    BY <2>1, QuorumIsTwoThirds DEF SafetyInv, VoteInv, VotesPrepared
  <2> QED
    BY <2>2, <2>3 DEF CommitsCertified
<1> QED
  BY <1>1, SafetyHolds, PTL

\* Two nodes store different blocks at a height only when validators with more
\* than a third of the stake voted for both: for every validator set and
\* every stake distribution.
THEOREM ForksAreAccountable == Spec => []ForkAccountable
<1>1. TypeOK /\ SafetyInv => ForkAccountable
  <2> SUFFICES ASSUME TypeOK, SafetyInv, NEW n \in Node, NEW k \in Node,
                      NEW i \in 1..Len(chain[n]), i <= Len(chain[k]),
                      chain[n][i] # chain[k][i]
               PROVE  3 * Stake[VotedFor(chain[n][i]) \cap VotedFor(chain[k][i])] > Stake[Node]
    BY DEF ForkAccountable
  <2>1. Len(chain[n]) \in Nat /\ Len(chain[k]) \in Nat
    BY ChainType
  <2>2. i # 1
    BY DEF SafetyInv, ChainInv, GenesisKept
  <2>3. /\ i \in 2..Len(chain[n])
        /\ i \in 2..Len(chain[k])
    BY <2>1, <2>2
  <2>4. hasQuorum(VotedFor(chain[n][i])) /\ hasQuorum(VotedFor(chain[k][i]))
    BY <2>3 DEF SafetyInv, VoteInv, ChainsCertified
  <2>5. VotedFor(chain[n][i]) \in SUBSET Node /\ VotedFor(chain[k][i]) \in SUBSET Node
    BY DEF VotedFor
  <2> QED
    BY <2>4, <2>5, QuorumIsTwoThirds, TwoThirdsIntersect
<1> QED
  BY <1>1, TypeCorrect, SafetyHolds, PTL

-----------------------------------------------------------------------------
(* Leaders and suspects. *)

\* Counting on from any height meets every position of the rotation.
LEMMA RotationCovers ==
    ASSUME NEW h \in Nat, NEW j \in 0..(N - 1)
    PROVE  \E k \in 0..(N - 1) : (h + k) % N = j
<1>1. N \in Nat /\ N >= 3
  BY NodeAssumption, FS_CardinalityType DEF N
<1> DEFINE r == h % N
           q == h \div N
<1>2. r \in 0..(N - 1) /\ q \in Nat /\ h = N * q + r
  BY <1>1
<1> HIDE DEF r, q
<1>3. ASSUME NEW p \in Nat PROVE (N * p + j) % N = j
  BY <1>1
<1>4. CASE j >= r
  <2>1. j - r \in 0..(N - 1) /\ h + (j - r) = N * q + j
    BY <1>1, <1>2, <1>4
  <2> QED
    BY <1>2, <1>3, <2>1
<1>5. CASE j < r
  <2>1. j - r + N \in 0..(N - 1) /\ h + (j - r + N) = N * (q + 1) + j
    BY <1>1, <1>2, <1>5
  <2> QED
    BY <1>2, <1>3, <2>1
<1> QED
  BY <1>2, <1>4, <1>5

\* The election passes over suspects, unless everybody is one.
LEMMA ElectsUnsuspected ==
    ASSUME NEW S, NEW h \in Nat
    PROVE  Elect(S, h) \notin S \/ AllSuspected(S)
<1> DEFINE at(k) == Order[(h + k) % N]
           offset == {k \in 0..(N - 1) : at(k) \notin S}
<1>1. N \in Nat /\ N >= 3
  BY NodeAssumption, FS_CardinalityType DEF N
<1>2. CASE offset = {}
  <2>1. ASSUME NEW j \in 0..(N - 1) PROVE Order[j] \in S
    <3>1. PICK k \in 0..(N - 1) : (h + k) % N = j
      BY RotationCovers
    <3> QED
      BY <1>2, <3>1
  <2> QED
    BY <2>1 DEF AllSuspected
<1>3. CASE offset # {}
  <2>1. offset \in SUBSET Nat
    BY <1>1
  <2>2. \E k \in offset : \A j \in offset : k <= j
    <3> HIDE DEF offset
    <3> QED
      BY <1>3, <2>1, LeastNatural
  <2> QED
    BY <1>3, <2>2 DEF Elect
<1> QED
  BY <1>2, <1>3

\* An election leaves the node that won it unsuspected.
LEMMA UpdateLeaderUnsuspected ==
    ASSUME TypeOK, LeaderNotSuspected, NEW n \in Node, NEW S, NEW c,
           updateLeaderStatus(n, S, c)
    PROVE  LeaderNotSuspected'
<1>1. Elect(S, LatestHeight(n) + 1) \notin S \/ AllSuspected(S)
  BY TipType, ElectsUnsuspected
<1>2. isLeader'[n] => n \notin suspectedOfflineLeaders'[n]
  BY <1>1 DEF updateLeaderStatus, TypeOK
<1>3. \A k \in Node \ {n} : /\ isLeader'[k] = isLeader[k]
                            /\ suspectedOfflineLeaders'[k] = suspectedOfflineLeaders[k]
  BY DEF updateLeaderStatus, TypeOK
<1> QED
  BY <1>2, <1>3 DEF LeaderNotSuspected

\* A step that fires no election and adds no suspect keeps the property.
LEMMA SuspectsShrink ==
    ASSUME LeaderNotSuspected, UNCHANGED isLeader,
           \A k \in Node : suspectedOfflineLeaders'[k] \subseteq suspectedOfflineLeaders[k]
    PROVE  LeaderNotSuspected'
BY DEF LeaderNotSuspected

\* processProposal elects when it enters a higher view, and only clears
\* suspicions otherwise.
LEMMA ProposalUnsuspected ==
    ASSUME TypeOK, LeaderNotSuspected, NEW n \in Node, NEW m \in msgs, ProcessProposal(n, m)
    PROVE  LeaderNotSuspected'
<1> DEFINE S == suspectedOfflineLeaders[n]
           advance == m.view > currentView[n]
<1>1. CASE RejectStale(n, m)
  BY <1>1, SuspectsShrink DEF RejectStale, leaderVars
<1>2. CASE RejectNonLeader(n, m) \/ AcceptProposal(n, m)
  <2>1. /\ isLeader' = [isLeader EXCEPT ![n] =
                IF advance THEN Elect(S, LatestHeight(n) + 1) = n ELSE @]
        /\ \A k \in Node \ {n} : suspectedOfflineLeaders'[k] = suspectedOfflineLeaders[k]
        /\ suspectedOfflineLeaders'[n] \subseteq SuspectsLeft(n, m)
    <3>0. suspectedOfflineLeaders \in [Node -> SUBSET Node]
      BY DEF TypeOK
    <3>1. CASE RejectNonLeader(n, m)
      BY <3>0, <3>1 DEF RejectNonLeader, EnterView
    <3>2. CASE AcceptProposal(n, m)
      BY <3>0, <3>2 DEF AcceptProposal, EnterView
    <3> QED
      BY <1>2, <3>1, <3>2
  <2>2. Elect(S, LatestHeight(n) + 1) \notin S \/ AllSuspected(S)
    BY TipType, ElectsUnsuspected
  <2>3. isLeader'[n] => n \notin suspectedOfflineLeaders'[n]
    BY <2>1, <2>2 DEF SuspectsLeft, LeaderNotSuspected, TypeOK
  <2>4. \A k \in Node \ {n} : isLeader'[k] = isLeader[k]
    BY <2>1 DEF TypeOK
  <2> QED
    BY <2>1, <2>3, <2>4 DEF LeaderNotSuspected
<1> QED
  BY <1>1, <1>2 DEF ProcessProposal

\* A node that acts as leader never holds itself suspected, for any rotation
\* order, suspicion threshold and sequence of view changes: what a view change
\* adds, the election it runs before it ends passes over or clears.
THEOREM LeadersAreUnsuspected == Spec => []LeaderNotSuspected
<1>1. Init => LeaderNotSuspected
  BY DEF Init, LeaderNotSuspected
<1>2. ASSUME TypeOK, LeaderNotSuspected, [Next]_vars PROVE LeaderNotSuspected'
  <2>1. CASE UNCHANGED vars
    BY <1>2, <2>1 DEF LeaderNotSuspected, vars, leaderVars
  <2>2. ASSUME NEW n \in Node, LeaderTick(n) \/ StartViewChange(n)
        PROVE  LeaderNotSuspected'
    BY <1>2, <2>2, UpdateLeaderUnsuspected DEF LeaderTick, StartViewChange
  <2>3. ASSUME NEW n \in Node, ProposeBlock(n) \/ ProposalExpires(n) \/ SyncHeight(n)
                               \/ ResetStuckPhase(n)
        PROVE  LeaderNotSuspected'
    BY <1>2, <2>3, SuspectsShrink
    DEF ProposeBlock, ProposalExpires, SyncHeight, ResetStuckPhase, leaderVars
  <2>4. ASSUME NEW n \in Node, Restart(n) PROVE LeaderNotSuspected'
    BY <1>2, <2>4 DEF Restart, LeaderNotSuspected, TypeOK
  <2>5. ASSUME NEW n \in Node, NEW m \in msgs, Deliver(n, m) PROVE LeaderNotSuspected'
    <3>1. CASE ProcessProposal(n, m)
      BY <1>2, <3>1, ProposalUnsuspected
    <3>2. CASE ProcessPrepareVote(n, m) \/ ProcessVote(n, m) \/ ReceiveBlock(n, m)
      <4>1. UNCHANGED <<isLeader, suspectedOfflineLeaders>>
        BY <3>2 DEF ProcessPrepareVote, ProcessVote, recordVote, commitBlock, ReceiveBlock,
                    leaderVars
      <4> QED
        BY <1>2, <4>1, SuspectsShrink
    <3>3. CASE ProcessTimeout(n, m)
      <4>1. CASE UNCHANGED leaderVars
        BY <1>2, <4>1, SuspectsShrink DEF leaderVars
      <4>2. CASE updateLeaderStatus(n, suspectedOfflineLeaders[n], consecutiveViewChanges[n])
        BY <1>2, <4>2, UpdateLeaderUnsuspected
      <4> QED
        BY <3>3, <4>1, <4>2 DEF ProcessTimeout
    <3> QED
      BY <2>5, <3>1, <3>2, <3>3 DEF Deliver
  <2> QED
    BY <1>2, <2>1, <2>2, <2>3, <2>4, <2>5 DEF Next, Step
<1> QED
  BY <1>1, <1>2, TypeCorrect, PTL DEF Spec

-----------------------------------------------------------------------------
(* Views. *)

\* What ViewJustified asks of the view v of node n.
Justified(n, v) ==
    v > 1 => \/ n \in TimedOut(v)
             \/ 3 * Cardinality(TimedOut(v)) >= N
             \/ \E m \in msgs : m.type = "proposal" /\ m.view = v

\* Messages are never withdrawn, so more timeouts are on record, and a reason
\* to be in a view remains one.
LEMMA JustifiedGrows ==
    ASSUME msgs \subseteq msgs', NEW v
    PROVE  /\ TimedOut(v) \subseteq TimedOut(v)'
           /\ \A n \in Node : Justified(n, v) => Justified(n, v)'
<1>1. TimedOut(v) \subseteq TimedOut(v)' /\ TimedOut(v)' \subseteq Node
  BY DEF TimedOut
<1>2. IsFiniteSet(TimedOut(v)')
  BY <1>1, NodeAssumption, FS_Subset
<1>3. /\ Cardinality(TimedOut(v)) <= Cardinality(TimedOut(v)')
      /\ Cardinality(TimedOut(v)) \in Nat /\ Cardinality(TimedOut(v)') \in Nat
  BY <1>1, <1>2, FS_Subset, FS_CardinalityType
<1>4. N \in Nat
  BY NodeAssumption, FS_CardinalityType DEF N
<1> QED
  BY <1>1, <1>3, <1>4 DEF Justified

\* A step keeps the invariant when a node stays in its view or has a reason
\* for the one it is in next, and counts no timeout that was not broadcast.
LEMMA ViewsFollow ==
    ASSUME TypeOK, TypeOK', TimeoutsReal, ViewJustified, msgs \subseteq msgs',
           \A k \in Node : \A w \in View :
               currentView'[k] = w => w = currentView[k] \/ Justified(k, w)',
           \A k \in Node : \A v \in View :
               timeoutVotes'[k][v] \subseteq timeoutVotes[k][v] \cup TimedOut(v)'
    PROVE  TimeoutsReal' /\ ViewJustified'
<1>1. \A v : TimedOut(v) \subseteq TimedOut(v)'
  BY JustifiedGrows
<1>2. TimeoutsReal'
  BY <1>1 DEF TimeoutsReal
<1>3. ASSUME NEW k \in Node, NEW w \in View, currentView'[k] = w PROVE Justified(k, w)'
  <2>1. CASE w = currentView[k]
    <3>1. Justified(k, w)
      BY <2>1 DEF ViewJustified, Justified
    <3> QED
      BY <3>1, JustifiedGrows
  <2> QED
    BY <1>3, <2>1
<1>4. \A k \in Node : currentView'[k] \in View
  BY DEF TypeOK
<1>5. ViewJustified'
  BY <1>3, <1>4 DEF ViewJustified, Justified
<1> QED
  BY <1>2, <1>5

\* startViewChange broadcasts its own timeout for the view it enters.
LEMMA StartViewChangeJustified ==
    ASSUME TypeOK, TypeOK', TimeoutsReal, ViewJustified, NEW n \in Node, StartViewChange(n)
    PROVE  TimeoutsReal' /\ ViewJustified'
<1> DEFINE newView == IF highestSeenView[n] > currentView[n]
                      THEN highestSeenView[n] ELSE currentView[n] + 1
<1>1. /\ currentView' = [currentView EXCEPT ![n] = newView]
      /\ msgs' = msgs \cup {[type |-> "timeout", view |-> newView, voter |-> n]}
      /\ UNCHANGED timeoutVotes
  BY DEF StartViewChange
<1> HIDE DEF newView
<1>2. ASSUME NEW w \in View, w = newView PROVE Justified(n, w)'
  BY <1>1, <1>2 DEF Justified, TimedOut
<1>3. \A k \in Node : \A w \in View :
          currentView'[k] = w => w = currentView[k] \/ Justified(k, w)'
  <2>1. currentView \in [Node -> View]
    BY DEF TypeOK
  <2>2. \A k \in Node : currentView'[k] = IF k = n THEN newView ELSE currentView[k]
    BY <1>1, <2>1
  <2> QED
    BY <1>2, <2>2
<1> QED
  BY <1>1, <1>3, ViewsFollow

\* processTimeout moves on the word of f + 1 validators, at least a third.
LEMMA ProcessTimeoutJustified ==
    ASSUME TypeOK, TypeOK', TimeoutsReal, ViewJustified, NEW n \in Node, NEW m \in msgs,
           ProcessTimeout(n, m)
    PROVE  TimeoutsReal' /\ ViewJustified'
<1> DEFINE voters == timeoutVotes[n][m.view] \cup {m.voter}
<1>1. m.view \in View /\ m.voter \in TimedOut(m.view)
  <2>1. m \in Timeout
    BY DEF ProcessTimeout, TypeOK, Message, Proposal, Vote, Timeout, Gossip
  <2>2. m = [type |-> "timeout", view |-> m.view, voter |-> m.voter] /\ m.voter \in Node
    BY <2>1 DEF Timeout
  <2> QED
    BY <2>1, <2>2 DEF Timeout, TimedOut
<1>2. msgs' = msgs /\ voters \subseteq TimedOut(m.view) /\ TimedOut(m.view) \subseteq Node
  BY <1>1 DEF ProcessTimeout, TimeoutsReal, TimedOut
<1>3. \A k \in Node : \A v \in View :
          timeoutVotes'[k][v] \subseteq timeoutVotes[k][v] \cup TimedOut(v)
  <2> DEFINE recorded == [timeoutVotes[n] EXCEPT ![m.view] = voters]
             purged == [u \in View |-> IF u <= currentView[n] THEN {} ELSE recorded[u]]
  <2>0. timeoutVotes \in [Node -> [View -> SUBSET Node]]
    BY DEF TypeOK
  <2>1. \A v \in View : recorded[v] \subseteq timeoutVotes[n][v] \cup TimedOut(v)
    BY <1>1, <1>2, <2>0
  <2>2. \A v \in View : purged[v] \in {recorded[v], {}}
    OBVIOUS
  <2>3. \/ timeoutVotes' = [timeoutVotes EXCEPT ![n] = recorded]
        \/ timeoutVotes' = [timeoutVotes EXCEPT ![n] = purged]
    BY DEF ProcessTimeout
  <2> HIDE DEF recorded, purged
  <2>4. timeoutVotes'[n] \in {recorded, purged}
    BY <2>0, <2>3
  <2>5. \A k \in Node \ {n} : timeoutVotes'[k] = timeoutVotes[k]
    BY <2>0, <2>3
  <2> QED
    BY <2>1, <2>2, <2>4, <2>5
<1>4. ASSUME Cardinality(voters) >= timeoutsRequired PROVE Justified(n, m.view)
  <2>1. /\ IsFiniteSet(TimedOut(m.view))
        /\ Cardinality(voters) <= Cardinality(TimedOut(m.view))
        /\ Cardinality(voters) \in Nat /\ Cardinality(TimedOut(m.view)) \in Nat
    BY <1>2, NodeAssumption, FS_Subset, FS_CardinalityType
  <2>2. N \in Nat /\ N >= 3
    BY NodeAssumption, FS_CardinalityType DEF N
  <2>3. 3 * ((N - 1) \div 3 + 1) >= N
    BY <2>2
  <2> HIDE DEF voters
  <2>4. 3 * Cardinality(TimedOut(m.view)) >= N
    BY <1>4, <2>1, <2>2, <2>3 DEF timeoutsRequired
  <2> QED
    BY <2>4 DEF Justified
<1>5. \A w \in View : /\ TimedOut(w)' = TimedOut(w)
                      /\ \A k \in Node : Justified(k, w)' = Justified(k, w)
  BY <1>2 DEF TimedOut, Justified
<1>6. \A k \in Node : \A w \in View :
          currentView'[k] = w => w = currentView[k] \/ Justified(k, w)'
  <2>1. \/ UNCHANGED currentView
        \/ currentView' = [currentView EXCEPT ![n] = m.view] /\ Justified(n, m.view)
    BY <1>4 DEF ProcessTimeout
  <2>2. currentView \in [Node -> View]
    BY DEF TypeOK
  <2> QED
    BY <1>1, <1>5, <2>1, <2>2
<1> QED
  BY <1>2, <1>3, <1>5, <1>6, ViewsFollow

\* processProposal enters the view of a proposal that was made.
LEMMA ProposalJustified ==
    ASSUME TypeOK, TypeOK', TimeoutsReal, ViewJustified, NEW n \in Node, NEW m \in msgs,
           ProcessProposal(n, m)
    PROVE  TimeoutsReal' /\ ViewJustified'
<1>1. m.type = "proposal" /\ msgs \subseteq msgs' /\ UNCHANGED timeoutVotes
  BY DEF ProcessProposal, RejectStale, RejectNonLeader, AcceptProposal, EnterView, viewVars
<1>2. currentView' \in {currentView, [currentView EXCEPT ![n] = m.view]}
  BY DEF ProcessProposal, RejectStale, RejectNonLeader, AcceptProposal, EnterView, viewVars
<1>3. Justified(n, m.view)'
  BY <1>1 DEF Justified
<1>4. \A k \in Node : \A w \in View :
          currentView'[k] = w => w = currentView[k] \/ Justified(k, w)'
  BY <1>2, <1>3 DEF TypeOK
<1> QED
  BY <1>1, <1>4, ViewsFollow

\* Every other step leaves the views alone, or returns to view 0 or 1.
LEMMA OtherStepsJustified ==
    ASSUME TypeOK, TypeOK', TimeoutsReal, ViewJustified, NEW n \in Node, msgs \subseteq msgs',
           \/ UNCHANGED <<currentView, timeoutVotes>>
           \/ /\ \E w \in {0, 1} : currentView' = [currentView EXCEPT ![n] = w]
              /\ timeoutVotes' = [timeoutVotes EXCEPT ![n] = [v \in View |-> {}]]
    PROVE  TimeoutsReal' /\ ViewJustified'
<1>1. CASE UNCHANGED <<currentView, timeoutVotes>>
  BY <1>1, ViewsFollow
<1>2. ASSUME NEW w \in {0, 1}, currentView' = [currentView EXCEPT ![n] = w],
             timeoutVotes' = [timeoutVotes EXCEPT ![n] = [v \in View |-> {}]]
      PROVE  TimeoutsReal' /\ ViewJustified'
  <2>1. Justified(n, w)'
    BY DEF Justified
  <2>2. \A k \in Node : \A u \in View :
            currentView'[k] = u => u = currentView[k] \/ Justified(k, u)'
    BY <1>2, <2>1 DEF TypeOK
  <2>3. \A k \in Node \ {n} : timeoutVotes'[k] = timeoutVotes[k]
    BY <1>2 DEF TypeOK
  <2>4. \A v \in View : timeoutVotes'[n][v] = {}
    BY <1>2 DEF TypeOK
  <2>5. \A k \in Node : \A v \in View :
            timeoutVotes'[k][v] \subseteq timeoutVotes[k][v] \cup TimedOut(v)'
    BY <2>3, <2>4
  <2> QED
    BY <2>2, <2>5, ViewsFollow
<1> QED
  BY <1>1, <1>2

\* A node is in a view above 1 only for a reason on record, for any number of
\* validators and any bound on views: its own timeout, a third of the
\* validators asking for the view, or a proposal made in it.  The strengthening
\* is TimeoutsReal: the head count of processTimeout counts real timeouts.
THEOREM ViewsAreJustified == Spec => []ViewJustified
<1>1. Init => TimeoutsReal /\ ViewJustified
  BY DEF Init, TimeoutsReal, ViewJustified
<1>2. ASSUME TypeOK, TypeOK', TimeoutsReal, ViewJustified, [Next]_vars
      PROVE  TimeoutsReal' /\ ViewJustified'
  <2>1. CASE UNCHANGED vars
    BY <1>2, <2>1 DEF TimeoutsReal, ViewJustified, TimedOut, vars, viewVars
  <2>2. ASSUME NEW n \in Node, Step(n) PROVE TimeoutsReal' /\ ViewJustified'
    <3>1. CASE StartViewChange(n)
      BY <1>2, <3>1, StartViewChangeJustified
    <3>2. CASE LeaderTick(n) \/ ProposeBlock(n) \/ ProposalExpires(n) \/ SyncHeight(n)
               \/ ResetStuckPhase(n)
      <4>1. UNCHANGED <<currentView, timeoutVotes>> /\ msgs \subseteq msgs'
        BY <3>2 DEF LeaderTick, ProposeBlock, ProposalExpires, SyncHeight, ResetStuckPhase,
                    viewVars
      <4> QED
        BY <1>2, <4>1, OtherStepsJustified
    <3>3. CASE Restart(n)
      <4>1. /\ currentView' = [currentView EXCEPT ![n] = 0]
            /\ timeoutVotes' = [timeoutVotes EXCEPT ![n] = [v \in View |-> {}]]
            /\ msgs \subseteq msgs'
        BY <3>3 DEF Restart
      <4> QED
        BY <1>2, <4>1, OtherStepsJustified
    <3> QED
      BY <2>2, <3>1, <3>2, <3>3 DEF Step
  <2>3. ASSUME NEW n \in Node, NEW m \in msgs, Deliver(n, m)
        PROVE  TimeoutsReal' /\ ViewJustified'
    <3>1. CASE ProcessProposal(n, m)
      BY <1>2, <3>1, ProposalJustified
    <3>2. CASE ProcessTimeout(n, m)
      BY <1>2, <3>2, ProcessTimeoutJustified
    <3>3. CASE ProcessPrepareVote(n, m) \/ ProcessVote(n, m) \/ ReceiveBlock(n, m)
      <4>1. msgs \subseteq msgs'
        BY <3>3 DEF ProcessPrepareVote, voteForBlock, ProcessVote, recordVote, commitBlock,
                    ReceiveBlock
      <4>2. \/ UNCHANGED <<currentView, timeoutVotes>>
            \/ /\ \E w \in {0, 1} : currentView' = [currentView EXCEPT ![n] = w]
               /\ timeoutVotes' = [timeoutVotes EXCEPT ![n] = [v \in View |-> {}]]
        BY <3>3 DEF ProcessPrepareVote, ProcessVote, recordVote, commitBlock, ReceiveBlock,
                    viewVars
      <4> QED
        BY <1>2, <4>1, <4>2, OtherStepsJustified
    <3> QED
      BY <2>3, <3>1, <3>2, <3>3 DEF Deliver
  <2> QED
    BY <1>2, <2>1, <2>2, <2>3 DEF Next
<1> QED
  BY <1>1, <1>2, TypeCorrect, PTL DEF Spec

-----------------------------------------------------------------------------
(* Consensus implements Ledger: every step of the engine casts one commit  *)
(* vote, extends one chain by a certified child of its tip, or is          *)
(* invisible.                                                              *)

\* The two modules count quorums alike.
LEMMA SameQuorum == \A S : L!hasQuorum(S) = hasQuorum(S)
BY DEF L!hasQuorum, L!requiredStake, hasQuorum, requiredStake

\* A step that stores no block and casts no commit vote is invisible.
LEMMA Invisible ==
    ASSUME UNCHANGED chain, msgs \subseteq msgs', \A m \in msgs' \ msgs : m.type # "vote"
    PROVE  UNCHANGED L!ledgerVars
<1>1. \A b : VotedFor(b)' = VotedFor(b)
  BY DEF VotedFor
<1>2. [b \in Block |-> VotedFor(b)]' = [b \in Block |-> VotedFor(b)]
  BY <1>1
<1> QED
  BY <1>2 DEF L!ledgerVars

\* A stored block that is a certified child of the tip is an Extend step.
LEMMA Extends ==
    ASSUME NEW n \in Node, NEW b \in Block, ParentOf[b] = GetLatestBlock(n),
           hasQuorum(VotedFor(b)), chain' = [chain EXCEPT ![n] = Append(@, b)],
           \A x : VotedFor(x)' = VotedFor(x)
    PROVE  L!LedgerNext
<1>1. [x \in Block |-> VotedFor(x)]' = [x \in Block |-> VotedFor(x)]
  OBVIOUS
<1>2. L!Extend(n, b)
  BY <1>1, SameQuorum DEF L!Extend, L!Tip, GetLatestBlock
<1> QED
  BY <1>2 DEF L!LedgerNext

\* processPrepareVote casts at most one commit vote, the node's own.
LEMMA PrepareVoteRefines ==
    ASSUME TypeOK, NEW n \in Node, NEW m \in msgs, ProcessPrepareVote(n, m)
    PROVE  [L!LedgerNext]_(L!ledgerVars)
<1> DEFINE b == m.block
           cast == [type |-> "vote", block |-> b, voter |-> n]
<1>1. b \in Block
  BY DEF ProcessPrepareVote, TypeOK, Message, Proposal, Vote, Timeout, Gossip
<1>2. UNCHANGED chain /\ (UNCHANGED msgs \/ msgs' = msgs \cup {cast})
  BY DEF ProcessPrepareVote, voteForBlock
<1>3. CASE UNCHANGED msgs
  BY <1>2, <1>3, Invisible
<1>4. CASE msgs' = msgs \cup {cast}
  <2>1. VotedFor(b)' = VotedFor(b) \cup {n} /\ \A x \in Block \ {b} : VotedFor(x)' = VotedFor(x)
    BY <1>4 DEF VotedFor
  <2>2. [x \in Block |-> VotedFor(x)]'
          = [[x \in Block |-> VotedFor(x)] EXCEPT ![b] = @ \cup {n}]
    BY <1>1, <2>1
  <2>3. L!CastVote(n, b)
    BY <1>2, <2>2 DEF L!CastVote
  <2> QED
    BY <1>1, <2>3 DEF L!LedgerNext
<1> QED
  BY <1>2, <1>3, <1>4

\* processVote is invisible, or commits a certified child of the tip.
LEMMA VoteRefines ==
    ASSUME TypeOK, SafetyInv, NEW n \in Node, NEW m \in msgs, ProcessVote(n, m)
    PROVE  [L!LedgerNext]_(L!ledgerVars)
<1> DEFINE b == m.block
           voters == commitVoters(n, b, m.voter)
<1>1. b \in Block /\ m.voter \in Node /\ m = [type |-> "vote", block |-> b, voter |-> m.voter]
  BY DEF ProcessVote, TypeOK, Message, Proposal, Vote, Timeout, Gossip
<1>2. voters \subseteq VotedFor(b) /\ VotedFor(b) \subseteq Node
  BY <1>1 DEF SafetyInv, VoteInv, VotesReal, VotedFor, commitVoters
<1>3. CASE recordVote(n, b, voters)
  BY <1>3, Invisible DEF recordVote
<1>4. CASE /\ hasQuorum(voters) /\ b \in {lockedBlock[n], preparedBlock[n]}
           /\ IsNext(n, b)
           /\ commitBlock(n, b)
  <2>1. ParentOf[b] = GetLatestBlock(n)
    BY <1>1, <1>4, HeldIsChild DEF SafetyInv
  <2>2. hasQuorum(VotedFor(b))
    BY <1>2, <1>4, QuorumGrows
  <2>3. chain' = [chain EXCEPT ![n] = Append(@, b)] /\ \A x : VotedFor(x)' = VotedFor(x)
    BY <1>4 DEF commitBlock, VotedFor
  <2> QED
    BY <1>1, <2>1, <2>2, <2>3, Extends
<1> QED
  BY <1>3, <1>4 DEF ProcessVote

\* AddBlockFromPeer stores a certified child of the tip.
LEMMA ReceiveRefines ==
    ASSUME TypeOK, SafetyInv, NEW n \in Node, NEW m \in msgs, ReceiveBlock(n, m)
    PROVE  [L!LedgerNext]_(L!ledgerVars)
<1>1. m.block \in Block /\ hasQuorum(VotedFor(m.block))
  BY DEF ReceiveBlock, TypeOK, Message, Proposal, Vote, Timeout, Gossip, SafetyInv, VoteInv,
         GossipCertified
<1>2. /\ ParentOf[m.block] = GetLatestBlock(n)
      /\ chain' = [chain EXCEPT ![n] = Append(@, m.block)]
      /\ \A x : VotedFor(x)' = VotedFor(x)
  BY DEF ReceiveBlock, VotedFor
<1> QED
  BY <1>1, <1>2, Extends

\* Every step of the engine is a step of Ledger, or is invisible to it.
LEMMA StepRefines ==
    ASSUME TypeOK, SafetyInv, [Next]_vars
    PROVE  [L!LedgerNext]_(L!ledgerVars)
<1>1. CASE UNCHANGED vars
  BY <1>1, Invisible DEF vars
<1>2. ASSUME NEW n \in Node, Step(n) PROVE [L!LedgerNext]_(L!ledgerVars)
  <2>1. CASE Restart(n)
    <3>1. /\ chain' = [chain EXCEPT ![n] = <<Genesis>>]
          /\ [x \in Block |-> VotedFor(x)]' = [x \in Block |-> VotedFor(x)]
      BY <2>1 DEF Restart, VotedFor
    <3>2. L!Forget(n)
      BY <3>1 DEF L!Forget
    <3> QED
      BY <3>2 DEF L!LedgerNext
  <2>2. CASE \/ LeaderTick(n) \/ ProposeBlock(n) \/ ProposalExpires(n) \/ SyncHeight(n)
             \/ ResetStuckPhase(n) \/ StartViewChange(n)
    <3>1. UNCHANGED chain
      BY <2>2 DEF LeaderTick, ProposeBlock, ProposalExpires, SyncHeight, ResetStuckPhase,
                  StartViewChange
    <3>2. msgs \subseteq msgs' /\ \A m \in msgs' \ msgs : m.type # "vote"
      BY <2>2 DEF LeaderTick, ProposeBlock, ProposalExpires, SyncHeight, ResetStuckPhase,
                  StartViewChange
    <3> QED
      BY <3>1, <3>2, Invisible
  <2> QED
    BY <1>2, <2>1, <2>2 DEF Step
<1>3. ASSUME NEW n \in Node, NEW m \in msgs, Deliver(n, m)
      PROVE  [L!LedgerNext]_(L!ledgerVars)
  <2>1. CASE ProcessProposal(n, m)
    <3>1. UNCHANGED chain
      BY <2>1 DEF ProcessProposal, RejectStale, RejectNonLeader, AcceptProposal, EnterView
    <3>2. msgs \subseteq msgs' /\ \A x \in msgs' \ msgs : x.type # "vote"
      <4>1. \/ msgs' = msgs
            \/ msgs' = msgs \cup {[type |-> "prepare", block |-> m.block, voter |-> n]}
        BY <2>1, Zenon DEF ProcessProposal, RejectStale, RejectNonLeader, AcceptProposal
      <4> QED
        BY <4>1
    <3> QED
      BY <3>1, <3>2, Invisible
  <2>2. CASE ProcessTimeout(n, m)
    BY <2>2, Invisible DEF ProcessTimeout
  <2> QED
    BY <1>3, <2>1, <2>2, PrepareVoteRefines, VoteRefines, ReceiveRefines DEF Deliver
<1> QED
  BY <1>1, <1>2, <1>3 DEF Next

\* The engine implements the ledger it promises.
THEOREM RefinesLedger == Spec => ImplementsLedger
<1>1. Init => L!LedgerInit
  BY DEF Init, L!LedgerInit, VotedFor
<1>2. TypeOK /\ SafetyInv /\ [Next]_vars => [L!LedgerNext]_(L!ledgerVars)
  BY StepRefines
<1> QED
  BY <1>1, <1>2, TypeCorrect, SafetyHolds, PTL DEF Spec, ImplementsLedger, L!LedgerSpec
=============================================================================
