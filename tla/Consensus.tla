------------------------------ MODULE Consensus ------------------------------
(***************************************************************************)
(* The PBFT engine of src/consensus/consensus.go, one copy per validator,  *)
(* together with the leader loop of src/core/blockchain.go that feeds it   *)
(* proposals and the block gossip that lets a node learn a block without   *)
(* voting for it.                                                          *)
(*                                                                         *)
(* Every handler of the engine runs under c.mu and is one action here.     *)
(* The network is the set msgs of everything ever broadcast: a message may *)
(* reach a node late, out of order, repeatedly, back at its sender (the    *)
(* star-topology relay echoes) or never.  Time is abstracted: a condition  *)
(* "more than 30 s since ..." may hold at any moment.                      *)
(*                                                                         *)
(* A block is its hash.  Its parent and height are functions of it.        *)
(***************************************************************************)
EXTENDS Integers, Sequences, FiniteSets, StakeQuorum

CONSTANTS
    Order,         \* GetActiveValidators: the ids sorted, as a function on 0..N-1
    Block,         \* the blocks that can ever be created
    ParentOf,      \* the parent hash in a block's header
    HeightOf,      \* the height in a block's header
    Genesis,       \* the block every node starts from
    None,          \* Go's nil / ""
    CommitResult,  \* what blockChain.CommitBlock may answer: TRUE, or FALSE for an error
    SuspectAfter,  \* consecutive view changes before a leader is suspected (50)
    Jitter,        \* bound: FALSE keeps to schedules in which votes reach a node while it
                   \* holds their block, and a proposal reaches it once a round
    Lost,          \* bound: proposals and votes that never arrive, see LostMessage
    MaxView,       \* bound: no node starts a view above this one
    Ticking,       \* bound: the nodes whose leader loop ticks
    Interruptible, \* bound: pairs <<n, k>>: interrupt k may befall node n
    MaxInterrupts  \* bound: how many interrupts happen, over all nodes

N == Cardinality(Node)

ASSUME NodeAssumption ==
    /\ IsFiniteSet(Node)
    /\ N >= 3                       \* MinPBFTValidators: below it nobody votes
    /\ Order \in [0..(N - 1) -> Node]
    /\ None \notin Node

ASSUME BlockAssumption ==
    /\ None \notin Block
    /\ ParentOf \in [Block -> Block \cup {None}]
    /\ HeightOf \in [Block -> Nat]
    /\ \A b \in Block : ParentOf[b] # None => HeightOf[b] = HeightOf[ParentOf[b]] + 1

ASSUME GenesisAssumption == Genesis \in Block /\ HeightOf[Genesis] = 0

\* Timers that fire, and the process restarting.
InterruptKind == {"expire", "stuck", "viewchange", "restart"}

\* What the node from sends about the block never reaches the node to.
LostMessage == [type : {"proposal", "prepare", "vote"}, block : Block, from : Node, to : Node]

ASSUME BoundAssumption ==
    /\ CommitResult \subseteq BOOLEAN
    /\ SuspectAfter \in Nat
    /\ Jitter \in BOOLEAN
    /\ Lost \subseteq LostMessage
    /\ MaxView \in Nat \ {0}
    /\ Ticking \subseteq Node
    /\ Interruptible \subseteq Node \X InterruptKind
    /\ MaxInterrupts \in Nat

-----------------------------------------------------------------------------
VARIABLES
    currentView, currentHeight, highestSeenView, timeoutVotes,
    phase, preparedBlock, preparedView, lockedBlock,
    prepareVotes, receivedVotes, sentPrepareVotes, sentVotes,
    lastPreparedBlock, lastPreparedHeight,
    electedLeaderID, isLeader, suspectedOfflineLeaders, consecutiveViewChanges,
    proposing,     \* the leader loop's proposal in flight, None when isProposing is false
    chain,         \* the blocks the node has stored, genesis first
    msgs,          \* everything broadcast so far
    interrupts     \* timers fired and restarts so far, for the bound

viewVars   == <<currentView, currentHeight, highestSeenView, timeoutVotes>>
roundVars  == <<phase, preparedBlock, preparedView, lockedBlock,
                prepareVotes, receivedVotes, sentPrepareVotes, sentVotes>>
stickyVars == <<lastPreparedBlock, lastPreparedHeight>>
leaderVars == <<electedLeaderID, isLeader, suspectedOfflineLeaders,
                consecutiveViewChanges>>
vars == <<viewVars, roundVars, stickyVars, leaderVars, proposing, chain, msgs, interrupts>>

View  == 0..MaxView
Phase == {"Idle", "PrePrepared", "Prepared", "Committed"}

Proposal == [type : {"proposal"}, block : Block, view : View, proposer : Node]
Vote     == [type : {"prepare", "vote"}, block : Block, voter : Node]
Timeout  == [type : {"timeout"}, view : View, voter : Node]
Gossip   == [type : {"block"}, block : Block]
Message  == Proposal \cup Vote \cup Timeout \cup Gossip

Init ==
    /\ currentView = [n \in Node |-> 0]
    /\ currentHeight = [n \in Node |-> 0]
    /\ highestSeenView = [n \in Node |-> 0]
    /\ timeoutVotes = [n \in Node |-> [v \in View |-> {}]]
    /\ phase = [n \in Node |-> "Idle"]
    /\ preparedBlock = [n \in Node |-> None]
    /\ preparedView = [n \in Node |-> 0]
    /\ lockedBlock = [n \in Node |-> None]
    /\ prepareVotes = [n \in Node |-> [b \in Block |-> {}]]
    /\ receivedVotes = [n \in Node |-> [b \in Block |-> {}]]
    /\ sentPrepareVotes = [n \in Node |-> {}]
    /\ sentVotes = [n \in Node |-> {}]
    /\ lastPreparedBlock = [n \in Node |-> None]
    /\ lastPreparedHeight = [n \in Node |-> 0]
    /\ electedLeaderID = [n \in Node |-> None]
    /\ isLeader = [n \in Node |-> FALSE]
    /\ suspectedOfflineLeaders = [n \in Node |-> {}]
    /\ consecutiveViewChanges = [n \in Node |-> 0]
    /\ proposing = [n \in Node |-> None]
    /\ chain = [n \in Node |-> <<Genesis>>]
    /\ msgs = {}
    /\ interrupts = 0

\* The step is an interrupt the bounds allow.
Interrupt(n, kind) ==
    /\ <<n, kind>> \in Interruptible
    /\ interrupts < MaxInterrupts
    /\ interrupts' = interrupts + 1

Arrives(n, m, sender) ==
    [type |-> m.type, block |-> m.block, from |-> sender, to |-> n] \notin Lost

GetLatestBlock(n) == chain[n][Len(chain[n])]
LatestHeight(n) == HeightOf[GetLatestBlock(n)]

-----------------------------------------------------------------------------
\* processTimeout's f + 1, by head count.
MutantTimeoutsF == (N - 1) \div 3
timeoutsRequired == (N - 1) \div 3 + 1

(* Leader election. *)

\* The validator whose turn a height is; the view plays no part.
Scheduled(height) == Order[height % N]

MutantElectScheduled(suspects, height) == Scheduled(height)

\* The scheduled validator, or the next one in order that is not suspected;
\* the scheduled one after all when everybody is suspected.
Elect(suspects, height) ==
    LET at(k)  == Order[(height + k) % N]
        offset == {k \in 0..(N - 1) : at(k) \notin suspects}
    IN  IF offset = {}
        THEN Scheduled(height)
        ELSE at(CHOOSE k \in offset : \A j \in offset : k <= j)

AllSuspected(suspects) == \A k \in 0..(N - 1) : Order[k] \in suspects

\* updateLeaderStatusLocked, entered with these suspects and this many
\* consecutive view changes.
updateLeaderStatus(n, suspects, changes) ==
    LET leader == Elect(suspects, LatestHeight(n) + 1)
    IN  /\ electedLeaderID' = [electedLeaderID EXCEPT ![n] = leader]
        /\ isLeader' = [isLeader EXCEPT ![n] = (leader = n)]
        /\ suspectedOfflineLeaders' = [suspectedOfflineLeaders EXCEPT
              ![n] = IF AllSuspected(suspects) THEN {} ELSE suspects]
        /\ consecutiveViewChanges' = [consecutiveViewChanges EXCEPT
              ![n] = IF AllSuspected(suspects) THEN 0 ELSE changes]

resetConsensusState(n) ==
    /\ phase' = [phase EXCEPT ![n] = "Idle"]
    /\ lockedBlock' = [lockedBlock EXCEPT ![n] = None]
    /\ preparedBlock' = [preparedBlock EXCEPT ![n] = None]
    /\ preparedView' = [preparedView EXCEPT ![n] = 0]
    /\ receivedVotes' = [receivedVotes EXCEPT ![n] = [b \in Block |-> {}]]
    /\ prepareVotes' = [prepareVotes EXCEPT ![n] = [b \in Block |-> {}]]
    /\ sentVotes' = [sentVotes EXCEPT ![n] = {}]
    /\ sentPrepareVotes' = [sentPrepareVotes EXCEPT ![n] = {}]

-----------------------------------------------------------------------------
(* The leader loop: one ticker goroutine per node.  It picks a block, then  *)
(* hands it to ProposeBlock; the engine may run between the two.            *)

Created == {m.block : m \in {x \in msgs : x.type = "proposal"}}
           \cup {proposing[n].block : n \in {x \in Node : proposing[x] # None}}

\* The block the loop proposes: the one prepared but not committed, if its
\* recorded height says it is next (lastPreparedHeight+1 == GetBlockCount()),
\* else a new block on the tip.
MayPropose(n, b) ==
    LET sticky == lastPreparedBlock[n] # None
                  /\ lastPreparedHeight[n] + 1 = LatestHeight(n) + 1
    IN  IF sticky THEN b = lastPreparedBlock[n]
        ELSE ParentOf[b] = GetLatestBlock(n) /\ b \notin Created

\* isProposing still blocks a new proposal.
Busy(n) ==
    /\ proposing[n] # None
    /\ LatestHeight(n) + 1 <= proposing[n].height
    /\ currentView[n] = proposing[n].view

\* A tick re-runs the election; the elected node, unless busy, picks a block.
LeaderTick(n) ==
    /\ n \in Ticking
    /\ proposing[n] # None => proposing[n].sent
    /\ updateLeaderStatus(n, suspectedOfflineLeaders[n], consecutiveViewChanges[n])
    /\ \/ /\ electedLeaderID'[n] # n \/ Busy(n)
          /\ UNCHANGED proposing
       \/ /\ electedLeaderID'[n] = n
          /\ ~Busy(n)
          /\ \E b \in Block :
                /\ MayPropose(n, b)
                /\ proposing' = [proposing EXCEPT ![n] =
                      [block |-> b, height |-> LatestHeight(n) + 1,
                       view |-> currentView[n], sent |-> FALSE]]
    /\ UNCHANGED <<viewVars, roundVars, stickyVars, chain, msgs, interrupts>>

\* The engine checks isLeader, signs the block with c.mu released, and
\* broadcasts it in the view it is in by then: the check may have passed
\* before the leadership was lost, or come after.
ProposeBlock(n) ==
    /\ proposing[n] # None
    /\ ~proposing[n].sent
    /\ proposing' = [proposing EXCEPT ![n].sent = TRUE]
    /\ \/ msgs' = msgs \cup {[type |-> "proposal", block |-> proposing[n].block,
                              view |-> currentView[n], proposer |-> n]}
       \/ ~isLeader[n] /\ UNCHANGED msgs
    /\ UNCHANGED <<viewVars, roundVars, stickyVars, leaderVars, chain, interrupts>>

\* The waiter goroutine: after 20 s, a commit or a view change it clears
\* isProposing.
ProposalExpires(n) ==
    /\ Interrupt(n, "expire")
    /\ proposing[n] # None
    /\ proposing[n].sent
    /\ proposing' = [proposing EXCEPT ![n] = None]
    /\ UNCHANGED <<viewVars, roundVars, stickyVars, leaderVars, chain, msgs>>

-----------------------------------------------------------------------------
(* processProposal: everything it can end in, once ValidateBlock has found  *)
(* the block on the tip and it is not a repeat of the one prepared.         *)

\* A block prepared at a lower height is dropped first, even when the
\* proposal is then rejected.
Superseded(n, b) ==
    preparedBlock[n] # None /\ HeightOf[b] > HeightOf[preparedBlock[n]]

MutantStaleOrEqual(n, m) == m.view <= currentView[n]
Stale(n, m) == m.view < currentView[n]

RejectStale(n, m) ==
    /\ Stale(n, m)
    /\ Superseded(n, m.block)
    /\ preparedBlock' = [preparedBlock EXCEPT ![n] = None]
    /\ preparedView' = [preparedView EXCEPT ![n] = 0]
    /\ UNCHANGED <<viewVars, phase, lockedBlock, prepareVotes, receivedVotes,
                   sentPrepareVotes, sentVotes, stickyVars, leaderVars, proposing,
                   chain, msgs, interrupts>>

\* The proposal's view is entered: a higher one wipes the round and re-runs
\* the election before the scheduled leader is derived from the height.
EnterView(n, m) ==
    LET advance == m.view > currentView[n]
        wiped(f, empty) == [f EXCEPT ![n] = IF advance THEN empty ELSE @]
        suspects == suspectedOfflineLeaders[n]
    IN  /\ ~Stale(n, m)
        /\ currentView' = [currentView EXCEPT ![n] = m.view]
        /\ lockedBlock' = wiped(lockedBlock, None)
        /\ prepareVotes' = wiped(prepareVotes, [b \in Block |-> {}])
        /\ receivedVotes' = wiped(receivedVotes, [b \in Block |-> {}])
        /\ sentVotes' = wiped(sentVotes, {})
        /\ isLeader' = wiped(isLeader, Elect(suspects, LatestHeight(n) + 1) = n)
        /\ electedLeaderID' = [electedLeaderID EXCEPT ![n] = Scheduled(HeightOf[m.block])]
        /\ UNCHANGED <<currentHeight, highestSeenView, timeoutVotes, stickyVars,
                       proposing, chain, interrupts>>

\* The suspects left after EnterView's election.
SuspectsLeft(n, m) ==
    IF m.view > currentView[n] /\ AllSuspected(suspectedOfflineLeaders[n])
    THEN {} ELSE suspectedOfflineLeaders[n]

\* It is not the proposer's turn at this height: the view stays entered.
RejectNonLeader(n, m) ==
    LET advance == m.view > currentView[n]
        dropped == advance \/ Superseded(n, m.block)
    IN  /\ m.proposer # Scheduled(HeightOf[m.block])
        /\ EnterView(n, m)
        /\ phase' = [phase EXCEPT ![n] = IF advance THEN "Idle" ELSE @]
        /\ preparedBlock' = [preparedBlock EXCEPT ![n] = IF dropped THEN None ELSE @]
        /\ preparedView' = [preparedView EXCEPT ![n] = IF dropped THEN 0 ELSE @]
        /\ sentPrepareVotes' = [sentPrepareVotes EXCEPT ![n] = IF advance THEN {} ELSE @]
        /\ suspectedOfflineLeaders' =
              [suspectedOfflineLeaders EXCEPT ![n] = SuspectsLeft(n, m)]
        /\ consecutiveViewChanges' = [consecutiveViewChanges EXCEPT ![n] =
              IF advance /\ AllSuspected(suspectedOfflineLeaders[n]) THEN 0 ELSE @]
        /\ UNCHANGED msgs

\* The block becomes the prepared one, whatever the phase was, and the node
\* sends its prepare vote unless it did so for this hash in this round.
AcceptProposal(n, m) ==
    LET sent == IF m.view > currentView[n] THEN {} ELSE sentPrepareVotes[n]
    IN  /\ m.proposer = Scheduled(HeightOf[m.block])
        /\ EnterView(n, m)
        /\ phase' = [phase EXCEPT ![n] = "PrePrepared"]
        /\ preparedBlock' = [preparedBlock EXCEPT ![n] = m.block]
        /\ preparedView' = [preparedView EXCEPT ![n] = m.view]
        /\ sentPrepareVotes' = [sentPrepareVotes EXCEPT ![n] = sent \cup {m.block}]
        /\ suspectedOfflineLeaders' =
              [suspectedOfflineLeaders EXCEPT ![n] = SuspectsLeft(n, m) \ {m.proposer}]
        /\ consecutiveViewChanges' = [consecutiveViewChanges EXCEPT ![n] = 0]
        /\ msgs' = IF m.block \in sent THEN msgs
                   ELSE msgs \cup {[type |-> "prepare", block |-> m.block, voter |-> n]}

ProcessProposal(n, m) ==
    /\ m.type = "proposal"
    /\ Arrives(n, m, m.proposer)
    /\ Jitter \/ m.block \notin sentPrepareVotes[n] \/ m.view > currentView[n]
    /\ ParentOf[m.block] = GetLatestBlock(n)
    /\ ~(preparedBlock[n] = m.block /\ m.view <= preparedView[n])
    /\ RejectStale(n, m) \/ RejectNonLeader(n, m) \/ AcceptProposal(n, m)

-----------------------------------------------------------------------------
(* Votes.  A vote counts once per hash and voter.  No handler reads the     *)
(* view a vote carries, so votes have none here: a vote of an old view      *)
(* counts in a new one.                                                     *)

\* A vote that can still matter to n: for a block it holds, or may come to
\* hold.  The code also files votes for blocks it does not hold at heights it
\* has passed; nothing reads those again.
Relevant(n, b) ==
    \/ b \in {preparedBlock[n], lockedBlock[n]}
    \/ Jitter /\ HeightOf[b] > LatestHeight(n)

MutantVoteWrongMap(n, b) ==
    /\ sentVotes' = [sentVotes EXCEPT ![n] = @ \cup {b}]
    /\ msgs' = IF b \in sentPrepareVotes[n] THEN msgs
               ELSE msgs \cup {[type |-> "vote", block |-> b, voter |-> n]}

\* The commit vote, once per hash and round.
voteForBlock(n, b) ==
    /\ sentVotes' = [sentVotes EXCEPT ![n] = @ \cup {b}]
    /\ msgs' = IF b \in sentVotes[n] THEN msgs
               ELSE msgs \cup {[type |-> "vote", block |-> b, voter |-> n]}

ProcessPrepareVote(n, m) ==
    LET b == m.block
        voters == prepareVotes[n][b] \cup {m.voter}
        prepared == hasPrepareQuorum(voters) /\ preparedBlock[n] = b
    IN  /\ m.type = "prepare"
        /\ Arrives(n, m, m.voter)
        /\ Relevant(n, b)
        /\ m.voter \notin prepareVotes[n][b]
        /\ prepareVotes' = [prepareVotes EXCEPT ![n][b] = voters]
        /\ lastPreparedBlock' = [lastPreparedBlock EXCEPT ![n] = IF prepared THEN b ELSE @]
        /\ lastPreparedHeight' = [lastPreparedHeight EXCEPT
              ![n] = IF prepared THEN currentHeight[n] ELSE @]
        /\ IF prepared /\ phase[n] = "PrePrepared"
           THEN /\ phase' = [phase EXCEPT ![n] = "Prepared"]
                /\ lockedBlock' = [lockedBlock EXCEPT ![n] = b]
                /\ voteForBlock(n, b)
           ELSE UNCHANGED <<phase, lockedBlock, sentVotes, msgs>>
        /\ UNCHANGED <<viewVars, preparedBlock, preparedView, receivedVotes,
                       sentPrepareVotes, leaderVars, proposing, chain, interrupts>>

\* commitBlock after blockChain.CommitBlock succeeded: the chain grows, the
\* block is gossiped, and the next round starts in view 1.
commitBlock(n, b) ==
    /\ chain' = [chain EXCEPT ![n] = Append(@, b)]
    /\ currentHeight' = [currentHeight EXCEPT ![n] = HeightOf[b]]
    /\ currentView' = [currentView EXCEPT ![n] = 1]
    /\ consecutiveViewChanges' = [consecutiveViewChanges EXCEPT ![n] = 0]
    /\ lastPreparedBlock' = [lastPreparedBlock EXCEPT
          ![n] = IF lastPreparedHeight[n] <= HeightOf[b] THEN None ELSE @]
    /\ lastPreparedHeight' = [lastPreparedHeight EXCEPT
          ![n] = IF lastPreparedHeight[n] <= HeightOf[b] THEN 0 ELSE @]
    /\ timeoutVotes' = [timeoutVotes EXCEPT ![n] = [v \in View |-> {}]]
    /\ resetConsensusState(n)
    /\ msgs' = msgs \cup {[type |-> "block", block |-> b]}
    /\ UNCHANGED <<highestSeenView, electedLeaderID, isLeader,
                   suspectedOfflineLeaders, proposing, interrupts>>

\* The votes for b, with the one just arrived.
MutantCountPrepares(n, b, voter) == receivedVotes[n][b] \cup prepareVotes[n][b] \cup {voter}
commitVoters(n, b, voter) == receivedVotes[n][b] \cup {voter}

\* commitBlock's height check.
MutantAnyHeight(n, b) == TRUE
IsNext(n, b) == HeightOf[b] = LatestHeight(n) + 1

recordVote(n, b, voters) ==
    /\ receivedVotes' = [receivedVotes EXCEPT ![n][b] = voters]
    /\ UNCHANGED <<viewVars, preparedBlock, preparedView, lockedBlock, prepareVotes,
                   sentPrepareVotes, sentVotes, stickyVars, leaderVars, proposing,
                   chain, msgs, interrupts>>

ProcessVote(n, m) ==
    LET b == m.block
        voters == commitVoters(n, b, m.voter)
        known == b \in {lockedBlock[n], preparedBlock[n]}
        committing == hasQuorum(voters) /\ known
    IN  /\ m.type = "vote"
        /\ Arrives(n, m, m.voter)
        /\ Relevant(n, b)
        /\ m.voter \notin receivedVotes[n][b]
        /\ \/ /\ ~committing
              /\ recordVote(n, b, voters)
              /\ UNCHANGED phase
           \/ \* not the next height, or CommitBlock returned an error
              /\ committing
              /\ ~IsNext(n, b) \/ FALSE \in CommitResult
              /\ recordVote(n, b, voters)
              /\ phase' = [phase EXCEPT ![n] = "Committed"]
           \/ /\ committing
              /\ IsNext(n, b)
              /\ TRUE \in CommitResult
              /\ commitBlock(n, b)

-----------------------------------------------------------------------------
(* Blocks learned by gossip, and view changes. *)

\* AddBlockFromPeer: the block is checked against the tip and stored; the
\* engine is not told.
ReceiveBlock(n, m) ==
    /\ m.type = "block"
    /\ HeightOf[m.block] > LatestHeight(n)
    /\ ParentOf[m.block] = GetLatestBlock(n)
    /\ chain' = [chain EXCEPT ![n] = Append(@, m.block)]
    /\ UNCHANGED <<viewVars, roundVars, stickyVars, leaderVars, proposing, msgs, interrupts>>

\* The view timer finds that the chain ran ahead and only catches up.
SyncHeight(n) ==
    /\ currentHeight[n] # 0
    /\ LatestHeight(n) > currentHeight[n]
    /\ currentHeight' = [currentHeight EXCEPT ![n] = LatestHeight(n)]
    /\ UNCHANGED <<currentView, highestSeenView, timeoutVotes, roundVars, stickyVars,
                   leaderVars, proposing, chain, msgs, interrupts>>

\* startViewChange, stuck in a phase but rate-limited: the round is wiped and
\* the view stays.
ResetStuckPhase(n) ==
    /\ Interrupt(n, "stuck")
    /\ phase[n] # "Idle"
    /\ resetConsensusState(n)
    /\ UNCHANGED <<viewVars, stickyVars, leaderVars, proposing, chain, msgs>>

\* The leader is suspected once the view has changed this often under it.
MutantSuspectUnknown(n, changes) ==
    IF changes >= SuspectAfter
    THEN suspectedOfflineLeaders[n] \cup {electedLeaderID[n]} ELSE suspectedOfflineLeaders[n]
suspectsAfter(n, changes) ==
    IF changes >= SuspectAfter /\ electedLeaderID[n] # None
    THEN suspectedOfflineLeaders[n] \cup {electedLeaderID[n]} ELSE suspectedOfflineLeaders[n]

\* startViewChange, all the way.
StartViewChange(n) ==
    LET newView == IF highestSeenView[n] > currentView[n]
                   THEN highestSeenView[n] ELSE currentView[n] + 1
        changes == consecutiveViewChanges[n] + 1
    IN  /\ Interrupt(n, "viewchange")
        /\ newView <= MaxView
        /\ currentView' = [currentView EXCEPT ![n] = newView]
        /\ resetConsensusState(n)
        /\ updateLeaderStatus(n, suspectsAfter(n, changes), changes)
        /\ msgs' = msgs \cup {[type |-> "timeout", view |-> newView, voter |-> n]}
        /\ UNCHANGED <<currentHeight, highestSeenView, timeoutVotes, stickyVars,
                       proposing, chain>>

ProcessTimeout(n, m) ==
    LET voters == timeoutVotes[n][m.view] \cup {m.voter}
        recorded == [timeoutVotes[n] EXCEPT ![m.view] = voters]
    IN  /\ m.type = "timeout"
        /\ m.view > currentView[n]
        /\ highestSeenView' = [highestSeenView EXCEPT ![n] = IF m.view > @ THEN m.view ELSE @]
        /\ IF Cardinality(voters) >= timeoutsRequired
           THEN /\ timeoutVotes' = [timeoutVotes EXCEPT ![n] =
                      [v \in View |-> IF v <= currentView[n] THEN {} ELSE recorded[v]]]
                /\ currentView' = [currentView EXCEPT ![n] = m.view]
                /\ resetConsensusState(n)
                /\ updateLeaderStatus(n, suspectedOfflineLeaders[n], consecutiveViewChanges[n])
           ELSE /\ timeoutVotes' = [timeoutVotes EXCEPT ![n] = recorded]
                /\ UNCHANGED <<currentView, roundVars, leaderVars>>
        /\ UNCHANGED <<currentHeight, stickyVars, proposing, chain, msgs, interrupts>>

\* The process restarts: the engine starts over, on a chain of the genesis
\* block alone, because the storage reads no block back (BlockCommit's Load).
Restart(n) ==
    /\ Interrupt(n, "restart")
    /\ currentView' = [currentView EXCEPT ![n] = 0]
    /\ currentHeight' = [currentHeight EXCEPT ![n] = 0]
    /\ highestSeenView' = [highestSeenView EXCEPT ![n] = 0]
    /\ timeoutVotes' = [timeoutVotes EXCEPT ![n] = [v \in View |-> {}]]
    /\ resetConsensusState(n)
    /\ lastPreparedBlock' = [lastPreparedBlock EXCEPT ![n] = None]
    /\ lastPreparedHeight' = [lastPreparedHeight EXCEPT ![n] = 0]
    /\ electedLeaderID' = [electedLeaderID EXCEPT ![n] = None]
    /\ isLeader' = [isLeader EXCEPT ![n] = FALSE]
    /\ suspectedOfflineLeaders' = [suspectedOfflineLeaders EXCEPT ![n] = {}]
    /\ consecutiveViewChanges' = [consecutiveViewChanges EXCEPT ![n] = 0]
    /\ proposing' = [proposing EXCEPT ![n] = None]
    /\ chain' = [chain EXCEPT ![n] = <<Genesis>>]
    /\ UNCHANGED msgs

-----------------------------------------------------------------------------
Deliver(n, m) ==
    \/ ProcessProposal(n, m)
    \/ ProcessPrepareVote(n, m)
    \/ ProcessVote(n, m)
    \/ ProcessTimeout(n, m)
    \/ ReceiveBlock(n, m)

Step(n) ==
    \/ LeaderTick(n)
    \/ ProposeBlock(n)
    \/ ProposalExpires(n)
    \/ SyncHeight(n)
    \/ ResetStuckPhase(n)
    \/ StartViewChange(n)
    \/ Restart(n)

Next == \E n \in Node : Step(n) \/ \E m \in msgs : Deliver(n, m)

Spec == Init /\ [][Next]_vars

\* The leader loop's goroutine keeps running, and the handler goroutines of a
\* node keep taking what has arrived.  No timer is needed.
Fairness ==
    \A n \in Node :
        /\ WF_vars(LeaderTick(n) \/ ProposeBlock(n))
        /\ WF_vars(\E m \in msgs : Deliver(n, m))

FairSpec == Spec /\ Fairness

-----------------------------------------------------------------------------
(* Properties. *)

Proposed == [block : Block, height : Nat, view : View, sent : BOOLEAN]

\* The engine's fields keep their Go types, and every message names a block,
\* a view and a validator.
TypeOK ==
    /\ currentView \in [Node -> View]
    /\ currentHeight \in [Node -> Nat]
    /\ highestSeenView \in [Node -> View]
    /\ timeoutVotes \in [Node -> [View -> SUBSET Node]]
    /\ phase \in [Node -> Phase]
    /\ preparedBlock \in [Node -> Block \cup {None}]
    /\ preparedView \in [Node -> View]
    /\ lockedBlock \in [Node -> Block \cup {None}]
    /\ prepareVotes \in [Node -> [Block -> SUBSET Node]]
    /\ receivedVotes \in [Node -> [Block -> SUBSET Node]]
    /\ sentPrepareVotes \in [Node -> SUBSET Block]
    /\ sentVotes \in [Node -> SUBSET Block]
    /\ lastPreparedBlock \in [Node -> Block \cup {None}]
    /\ lastPreparedHeight \in [Node -> Nat]
    /\ electedLeaderID \in [Node -> Node \cup {None}]
    /\ isLeader \in [Node -> BOOLEAN]
    /\ suspectedOfflineLeaders \in [Node -> SUBSET Node]
    /\ consecutiveViewChanges \in [Node -> Nat]
    /\ proposing \in [Node -> Proposed \cup {None}]
    /\ chain \in [Node -> Seq(Block) \ {<<>>}]
    /\ msgs \subseteq Message
    /\ interrupts \in 0..MaxInterrupts

\* The validators that ever cast a prepare, or a commit, vote for a block.
PreparedBy(b) == {n \in Node : [type |-> "prepare", block |-> b, voter |-> n] \in msgs}
VotedFor(b) == {n \in Node : [type |-> "vote", block |-> b, voter |-> n] \in msgs}

\* Every chain stays hash-linked, heights counting up by one, although
\* commitBlock compares heights only and gossip may extend the chain between
\* the parent check of processProposal and the commit.
ChainLinked ==
    \A n \in Node : \A i \in 1..Len(chain[n]) :
        /\ HeightOf[chain[n][i]] = i - 1
        /\ i > 1 => ParentOf[chain[n][i]] = chain[n][i - 1]

\* Whatever views, restarts and stale votes did, a stored block was voted for
\* by more than two thirds of the stake, and each of those votes was cast
\* after a prepare quorum.
CommitsCertified ==
    /\ \A n \in Node : \A i \in 2..Len(chain[n]) :
          3 * Stake[VotedFor(chain[n][i])] > 2 * Stake[Node]
    /\ \A b \in Block : VotedFor(b) # {} => 3 * Stake[PreparedBy(b)] > 2 * Stake[Node]

\* When two nodes store different blocks at a height, validators holding more
\* than a third of the stake cast commit votes for both: a fork needs that many
\* votes to change sides.
ForkAccountable ==
    \A n, k \in Node : \A i \in 1..Len(chain[n]) :
        (i <= Len(chain[k]) /\ chain[n][i] # chain[k][i])
            => 3 * Stake[VotedFor(chain[n][i]) \cap VotedFor(chain[k][i])] > Stake[Node]

\* A locked block is one this node has cast its commit vote for: no phase
\* waits on a vote that nobody sends.
LockedIsVoted ==
    \A n \in Node : lockedBlock[n] # None => n \in VotedFor(lockedBlock[n])

\* A block the engine holds, prepared or locked, is a child of the tip or is
\* at a height the chain has reached: so commitBlock's height check implies
\* the parent check it does not make.
HeldOnTip ==
    \A n \in Node : \A b \in {preparedBlock[n], lockedBlock[n]} \ {None} :
        HeightOf[b] <= LatestHeight(n) \/ ParentOf[b] = GetLatestBlock(n)

\* Every chain starts with the genesis block, and never shrinks below it.
GenesisKept == \A n \in Node : chain[n][1] = Genesis

ChainInv == ChainLinked /\ HeldOnTip /\ GenesisKept

\* The votes a node has counted, and those it remembers casting, were cast.
VotesReal ==
    \A n \in Node : \A b \in Block :
        /\ prepareVotes[n][b] \subseteq PreparedBy(b)
        /\ receivedVotes[n][b] \subseteq VotedFor(b)
        /\ b \in sentVotes[n] => n \in VotedFor(b)

\* What is stored or gossiped has a commit quorum, what is voted for has a
\* prepare quorum.
ChainsCertified ==
    \A n \in Node : \A i \in 2..Len(chain[n]) :
        hasQuorum(VotedFor(chain[n][i]))
GossipCertified == \A m \in msgs : m.type = "block" => hasQuorum(VotedFor(m.block))
VotesPrepared == \A b \in Block : VotedFor(b) # {} => hasPrepareQuorum(PreparedBy(b))

VoteInv ==
    /\ VotesReal
    /\ LockedIsVoted
    /\ ChainsCertified
    /\ GossipCertified
    /\ VotesPrepared

\* The inductive invariant behind ChainLinked, CommitsCertified,
\* ForkAccountable and the refinement of Ledger.
SafetyInv == ChainInv /\ VoteInv

\* The validators that ever asked for a view.
TimedOut(v) == {n \in Node : [type |-> "timeout", view |-> v, voter |-> n] \in msgs}

\* A view above the one a commit resets to was entered for a reason: the
\* node's own timer, at least a third of the validators asking for it, or a
\* proposal made in it.
ViewJustified ==
    \A n \in Node : LET v == currentView[n] IN
        v > 1 => \/ n \in TimedOut(v)
                 \/ 3 * Cardinality(TimedOut(v)) >= N
                 \/ \E m \in msgs : m.type = "proposal" /\ m.view = v

\* The timeouts a node has counted were broadcast; with ViewJustified this is
\* inductive.
TimeoutsReal ==
    \A n \in Node : \A v \in View : timeoutVotes[n][v] \subseteq TimedOut(v)

\* A node that takes itself for the leader does not suspect itself of being
\* offline, however suspicions come, rotate and are cleared.
LeaderNotSuspected ==
    \A n \in Node : isLeader[n] => n \notin suspectedOfflineLeaders[n]

\* Without timers, every node stores a block above the genesis block, in
\* whatever order proposals, votes and gossip reach it, votes that arrive
\* before the block they are for included.
RoundCompletes == <>(\A n \in Node : Len(chain[n]) > 1)

\* Two nodes never store different blocks at the same height.
Agreement ==
    \A n, k \in Node : \A i \in 1..Len(chain[n]) :
        i <= Len(chain[k]) => chain[n][i] = chain[k][i]

\* What the engine promises of the chains, with the commit votes ever
\* broadcast as the votes: whatever happens in rounds, views and restarts,
\* every step casts a vote, extends one chain by a certified child of its
\* tip, loses a chain, or leaves both alone.
L == INSTANCE Ledger WITH votes <- [b \in Block |-> VotedFor(b)]
ImplementsLedger == L!LedgerSpec

=============================================================================
