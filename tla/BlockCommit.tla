---------------------------- MODULE BlockCommit ----------------------------
(***************************************************************************)
(* How one node turns blocks into state: CommitBlock of                    *)
(* src/core/blockchain.go and its callers (the consensus engine, the       *)
(* gossip handlers and the sync loop through AddBlockFromPeer), the block  *)
(* storage of src/state/state.go, the account database behind              *)
(* ExecuteBlock, and the boot sequence that reads all of it back.          *)
(*                                                                         *)
(* The callers are goroutines.  What they share is guarded by different    *)
(* locks: addFromPeerMu is taken by peer blocks only, the in-memory chain  *)
(* by bc.lock, the storage by s.mu, the account database by nothing beyond *)
(* the atomicity of its batch writes.  A crash loses memory at any step.   *)
(*                                                                         *)
(* There is one block per height (that validators agree on it is the       *)
(* subject of Consensus), so a block is its height.  The accounts are      *)
(* abstracted to what a double or a lost execution changes: the sequence   *)
(* of blocks the total supply reflects, the genesis vault, whether the     *)
(* first genesis allocation has a balance, and the blocks whose senders    *)
(* have paid.  The chain is not a devnet, where nonces and balances are    *)
(* not enforced.                                                           *)
(***************************************************************************)
EXTENDS Integers, Sequences, FiniteSets

CONSTANTS
    MaxHeight,   \* bound: the heights blocks exist for
    Peers,       \* goroutines that receive gossiped blocks
    HasTxs,      \* the blocks that carry transactions, hence nonces
    Spends,      \* the blocks that spend the whole first genesis allocation
    Drains,      \* the blocks that empty another account, which nothing fills again
    SeedServes,  \* the heights the seed's in-memory chain holds (GetBlocksRange)
    MaxCrashes,  \* bound: crashes
    MaxErrors,   \* bound: failing writes
    TearsIndex,  \* whether a crash may leave block_index.json half written
    Callers      \* bound: which of "consensus", "gossip", "sync" call CommitBlock

Block == 0..MaxHeight
nobody == "nobody"
Thread == {"consensus", "sync"} \cup Peers
SeedCount == MaxHeight + 1

ASSUME CommitAssumption ==
    /\ MaxHeight \in Nat
    /\ MaxCrashes \in Nat
    /\ MaxErrors \in Nat
    /\ TearsIndex \in BOOLEAN
    /\ HasTxs \subseteq Block \ {0}
    /\ Spends \subseteq HasTxs
    /\ Drains \subseteq HasTxs
    /\ SeedServes \subseteq Block
    /\ Peers \cap {"consensus", "sync", nobody} = {}

nil == -1

VARIABLES
    disk,      \* block files, block_index.json, chain_state.json
    db,        \* the account database
    index,     \* s.blockIndex
    total,     \* s.totalBlocks; the best block is the one before it
    chain,     \* bc.chain
    stage,     \* where the boot sequence is; "up" once the servers run
    peerSync,  \* bc.peerSyncInProgress
    peerMu,    \* holder of bc.addFromPeerMu
    storeMu,   \* holder of s.mu, when StoreBlock is part way
    th,        \* the goroutines
    page,      \* the blocks of the page the sync loop still has to add
    faults,    \* crashes, failed writes, torn index, crash between the two genesis commits
    executed,  \* history: how often each block was executed under addFromPeerMu since boot
    everRun,   \* the blocks ever executed: their senders' nonces and balances are used up
    seen       \* history: the highest block any reader could have seen

storage == <<disk, index, total>>
vars == <<disk, db, index, total, chain, stage, peerSync, peerMu, storeMu, th, page, faults,
          executed, everRun, seen>>

Call(pc, b, via) == [pc |-> pc, block |-> b, via |-> via, snap |-> <<>>]
Idle == Call("idle", nil, "none")
NeverExecuted == [b \in Block |-> 0]
SetMax(S) == CHOOSE x \in S : \A y \in S : y <= x

\* GetLatestBlock: nil when the best hash is not in the index.
Latest == IF total - 1 \in index THEN total - 1 ELSE nil
GetBlockCount == IF Latest = nil THEN 0 ELSE Latest + 1

Init ==
    /\ disk = [files |-> {}, index |-> {}, torn |-> FALSE, total |-> 0]
    /\ db = [applied |-> <<>>, vault |-> 0, alloc |-> FALSE]
    /\ index = {}
    /\ total = 0
    /\ chain = <<>>
    /\ stage = "load"
    /\ peerSync = FALSE
    /\ peerMu = nobody
    /\ storeMu = nobody
    /\ th = [t \in Thread |-> Idle]
    /\ page = {}
    /\ faults = [crashes |-> 0, errors |-> 0, torn |-> FALSE, split |-> FALSE]
    /\ executed = NeverExecuted
    /\ everRun = {}
    /\ seen = nil

(***************************************************************************)
(* Boot: NewStorage reads the two JSON files, initializeChain puts the     *)
(* latest block in memory or makes the genesis block, and the node then    *)
(* runs ExecuteGenesisBlock, two database commits, on chain[0].            *)
(***************************************************************************)
\* The JSON type of a header's nonce as storeBlockToDisk writes it, and the
\* one that loadBlockFromDisk unmarshals; another one is an error.
NonceWritten == "string"
NonceWanted == "number"
loadBlockFromDisk(b) == b \in disk.files /\ NonceWritten = NonceWanted

\* loadBlockIndex skips the blocks it cannot load; when there is none it can,
\* it resets what loadChainState has read.  An index that does not parse is an
\* error before that.
LoadedIndex == {b \in disk.index : ~disk.torn /\ loadBlockFromDisk(b)}
LoadedTotal ==
    IF ~disk.torn /\ disk.index # {} /\ LoadedIndex = {} THEN 0
    ELSE SetMax({disk.total} \cup {b + 1 : b \in LoadedIndex})

Load ==
    /\ stage = "load"
    /\ stage' = "genesis"
    /\ IF LoadedTotal - 1 \in LoadedIndex
       THEN /\ index' = LoadedIndex
            /\ total' = LoadedTotal
            /\ chain' = <<LoadedTotal - 1>>
            /\ UNCHANGED disk
       ELSE /\ index' = LoadedIndex \cup {0}
            /\ total' = IF LoadedTotal = 0 THEN 1 ELSE LoadedTotal
            /\ chain' = <<0>>
            /\ disk' = [disk EXCEPT !.files = @ \cup {0}, !.index = index', !.torn = FALSE, !.total = total']
    /\ UNCHANGED <<db, peerSync, peerMu, storeMu, th, page, faults, executed, everRun, seen>>

\* mintBlockReward and applyTransactions on a copy of the accounts, written back in one batch.
Executed(d, snap, b) ==
    [applied |-> Append(snap, b),
     vault |-> IF b = 0 THEN d.vault + 1 ELSE d.vault,
     alloc |-> d.alloc /\ b \notin Spends]

\* applyTransactions' checks.  The nonces of a block that was executed before
\* are used up, which peer sync accepts; what its senders paid is gone, which
\* nothing accepts.
NoncesFit(b) == b \in HasTxs \cap everRun => peerSync
Payable(b) == (b \in Spends => db.alloc) /\ b \notin Drains \cap everRun
Executable(b) == NoncesFit(b) /\ Payable(b)

MutantGenesisUnchecked ==
    /\ stage = "genesis"
    /\ \/ /\ ~Executable(Head(chain))
          /\ stage' = "up"
          /\ UNCHANGED <<db, everRun>>
       \/ /\ Executable(Head(chain))
          /\ db' = Executed(db, db.applied, Head(chain))
          /\ everRun' = everRun \cup {Head(chain)}
          /\ stage' = "distribute"
    /\ seen' = IF stage' = "up" /\ Latest > seen THEN Latest ELSE seen
    /\ UNCHANGED <<storage, chain, peerSync, peerMu, storeMu, th, page, faults, executed>>

ExecuteGenesisMint ==
    /\ stage = "genesis"
    /\ \/ /\ db.alloc \/ ~Executable(Head(chain))
          /\ stage' = "up"
          /\ UNCHANGED <<db, everRun>>
       \/ /\ ~db.alloc /\ Executable(Head(chain))
          /\ db' = Executed(db, db.applied, Head(chain))
          /\ everRun' = everRun \cup {Head(chain)}
          /\ stage' = "distribute"
    /\ seen' = IF stage' = "up" /\ Latest > seen THEN Latest ELSE seen
    /\ UNCHANGED <<storage, chain, peerSync, peerMu, storeMu, th, page, faults, executed>>

\* An empty vault makes SubBalance fail, which is logged.  The state root then
\* goes into the header of chain[0], whose hash does not cover it: StoreBlock
\* finds the block with the attestations it has and leaves the storage alone.
ExecuteGenesisDistribute ==
    /\ stage = "distribute"
    /\ stage' = "up"
    /\ db' = IF db.vault > 0 THEN [db EXCEPT !.vault = @ - 1, !.alloc = TRUE] ELSE db
    /\ seen' = IF Latest > seen THEN Latest ELSE seen
    /\ UNCHANGED <<storage, chain, peerSync, peerMu, storeMu, th, page, faults, executed, everRun>>

(***************************************************************************)
(* The callers of CommitBlock.                                             *)
(***************************************************************************)
Free(t) == stage = "up" /\ th[t].pc = "idle"

\* The storage's readers wait for s.mu.
Readable == storeMu = nobody

\* consensus.commitBlock: only the block after the latest.
ConsensusCommits(b) ==
    /\ "consensus" \in Callers
    /\ Free("consensus") /\ Readable
    /\ Latest # nil /\ b = Latest + 1
    /\ th' = [th EXCEPT !["consensus"] = Call("commit", b, "consensus")]
    /\ UNCHANGED <<storage, db, chain, stage, peerSync, peerMu, storeMu, page, faults, executed, everRun, seen>>

\* The height check and ValidateBlock's parent check, both against the storage.
MutantAcceptsAhead(b) == Latest = nil \/ b > Latest
Acceptable(b) == Latest = nil \/ b = Latest + 1
Known(b) == Latest # nil /\ b <= Latest

\* AddBlockFromPeer.  A known block is ignored, one that does not extend the
\* chain is an error, on which the sync loop falls back to ImportBlock.
MutantEnterUnlocked(t, b) ==
    /\ peerMu' = t
    /\ peerSync' = TRUE
    /\ th' = [th EXCEPT ![t] = Call("commit", b, "peer")]

EnterPeer(t, b) ==
    /\ peerMu = nobody
    /\ peerMu' = t
    /\ peerSync' = TRUE
    /\ th' = [th EXCEPT ![t] = Call("commit", b, "peer")]

Fallback(b) == Call("fallback", b, "import")

AddBlockFromPeer(t, b) ==
    /\ "gossip" \in Callers
    /\ Free(t) /\ Readable
    /\ Acceptable(b) /\ ~Known(b)
    /\ EnterPeer(t, b)
    /\ UNCHANGED <<storage, db, chain, stage, storeMu, page, faults, executed, everRun, seen>>

\* syncFromPeer: the next page starts at the local block count; its blocks are
\* taken by height.
PageFrom(n) == {b \in SeedServes : b >= n}

SyncFetch ==
    /\ "sync" \in Callers
    /\ Free("sync") /\ Readable
    /\ page = {}
    /\ GetBlockCount < SeedCount
    /\ PageFrom(GetBlockCount) # {}
    /\ page' = PageFrom(GetBlockCount)
    /\ UNCHANGED <<storage, db, chain, stage, peerSync, peerMu, storeMu, th, faults, executed, everRun, seen>>

\* A block that is not next is an error of AddBlockFromPeer.
SyncAdd ==
    /\ Free("sync") /\ Readable
    /\ \E b \in page :
          /\ \A c \in page : b <= c
          /\ \/ /\ Known(b)
                /\ peerMu = nobody
                /\ page' = page \ {b}
                /\ UNCHANGED <<th, peerSync, peerMu>>
             \/ /\ Acceptable(b) /\ ~Known(b)
                /\ EnterPeer("sync", b)
                /\ UNCHANGED page
             \/ /\ ~Acceptable(b) /\ ~Known(b)
                /\ peerMu = nobody
                /\ th' = [th EXCEPT !["sync"] = Fallback(b)]
                /\ UNCHANGED <<page, peerSync, peerMu>>
    /\ UNCHANGED <<storage, db, chain, stage, storeMu, faults, executed, everRun, seen>>

\* The fallback to ImportBlock sets the flag without taking the lock.
SyncFallback ==
    /\ stage = "up"
    /\ th["sync"].pc = "fallback"
    /\ peerSync' = TRUE
    /\ th' = [th EXCEPT !["sync"].pc = "import"]
    /\ UNCHANGED <<storage, db, chain, stage, peerMu, storeMu, page, faults, executed, everRun, seen>>

\* ImportBlock: a block that is not next is a side block and left alone.
SyncImport ==
    /\ stage = "up" /\ Readable
    /\ th["sync"].pc = "import"
    /\ LET b == th["sync"].block
       IN  \/ /\ Acceptable(b)
              /\ th' = [th EXCEPT !["sync"].pc = "commit"]
              /\ UNCHANGED <<page, peerSync>>
           \/ /\ ~Acceptable(b)
              /\ peerSync' = FALSE
              /\ th' = [th EXCEPT !["sync"] = Idle]
              /\ page' = page \ {b}
    /\ UNCHANGED <<storage, db, chain, stage, peerMu, storeMu, faults, executed, everRun, seen>>

(***************************************************************************)
(* CommitBlock.  Return hands control back to the caller, which lets go of *)
(* the flag and, for a peer block, the lock.                               *)
(***************************************************************************)
MutantErrorKeepsFlag(t, ok) ==
    /\ peerSync' = IF th[t].via = "consensus" \/ ~ok THEN peerSync ELSE FALSE
    /\ peerMu' = IF th[t].via = "peer" THEN nobody ELSE peerMu
    /\ IF t = "sync" /\ ~ok /\ th[t].via = "peer"
       THEN th' = [th EXCEPT ![t] = Fallback(th[t].block)] /\ UNCHANGED page
       ELSE th' = [th EXCEPT ![t] = Idle] /\ page' = IF t = "sync" THEN page \ {th[t].block} ELSE page

MutantErrorKeepsLock(t, ok) ==
    /\ peerSync' = IF th[t].via = "consensus" THEN peerSync ELSE FALSE
    /\ peerMu' = IF th[t].via = "peer" /\ ok THEN nobody ELSE peerMu
    /\ IF t = "sync" /\ ~ok /\ th[t].via = "peer"
       THEN th' = [th EXCEPT ![t] = Fallback(th[t].block)] /\ UNCHANGED page
       ELSE th' = [th EXCEPT ![t] = Idle] /\ page' = IF t = "sync" THEN page \ {th[t].block} ELSE page

Return(t, ok) ==
    /\ peerSync' = IF th[t].via = "consensus" THEN peerSync ELSE FALSE
    /\ peerMu' = IF th[t].via = "peer" THEN nobody ELSE peerMu
    /\ IF t = "sync" /\ ~ok /\ th[t].via = "peer"
       THEN th' = [th EXCEPT ![t] = Fallback(th[t].block)] /\ UNCHANGED page
       ELSE th' = [th EXCEPT ![t] = Idle] /\ page' = IF t = "sync" THEN page \ {th[t].block} ELSE page

\* The duplicate guard looks at the in-memory chain.
AlreadyCommitted(b) == chain # <<>> /\ b <= chain[Len(chain)]

MutantStoresFirst(t) ==
    /\ stage = "up" /\ th[t].pc = "commit"
    /\ IF AlreadyCommitted(th[t].block)
       THEN Return(t, TRUE)
       ELSE th' = [th EXCEPT ![t].pc = "store"] /\ UNCHANGED <<peerSync, peerMu, page>>
    /\ UNCHANGED <<storage, db, chain, stage, storeMu, faults, executed, everRun, seen>>

CheckDuplicate(t) ==
    /\ stage = "up" /\ th[t].pc = "commit"
    /\ IF AlreadyCommitted(th[t].block)
       THEN Return(t, TRUE)
       ELSE th' = [th EXCEPT ![t].pc = "exec"] /\ UNCHANGED <<peerSync, peerMu, page>>
    /\ UNCHANGED <<storage, db, chain, stage, storeMu, faults, executed, everRun, seen>>

\* ExecuteBlock reads the accounts ...
ExecuteRead(t) ==
    /\ stage = "up" /\ th[t].pc = "exec"
    /\ IF Executable(th[t].block)
       THEN th' = [th EXCEPT ![t].pc = "write", ![t].snap = db.applied] /\ UNCHANGED <<peerSync, peerMu, page>>
       ELSE Return(t, FALSE)
    /\ UNCHANGED <<storage, db, chain, stage, storeMu, faults, executed, everRun, seen>>

\* ... and writes them back in one batch.
ExecuteWrite(t) ==
    /\ stage = "up" /\ th[t].pc = "write"
    /\ db' = Executed(db, th[t].snap, th[t].block)
    /\ executed' = IF th[t].via = "peer" THEN [executed EXCEPT ![th[t].block] = @ + 1] ELSE executed
    /\ everRun' = everRun \cup {th[t].block}
    /\ th' = [th EXCEPT ![t].pc = "store", ![t].snap = <<>>]
    /\ UNCHANGED <<storage, chain, stage, peerSync, peerMu, storeMu, page, faults, seen>>

\* StoreBlock: the block file, then the indices in memory, then the two JSON
\* files.  A block that is there is left alone, unless this copy of it has more
\* attestations.
MutantCountsStores(t) ==
    /\ stage = "up" /\ th[t].pc = "store" /\ Readable
    /\ \/ /\ th[t].block \in index
          /\ th' = [th EXCEPT ![t].pc = "append"]
          /\ UNCHANGED <<storage, storeMu>>
       \/ /\ storeMu' = t
          /\ disk' = [disk EXCEPT !.files = @ \cup {th[t].block}]
          /\ index' = index \cup {th[t].block}
          /\ total' = total + 1
          /\ th' = [th EXCEPT ![t].pc = "saveIndex"]
    /\ UNCHANGED <<db, chain, stage, peerSync, peerMu, page, faults, executed, everRun, seen>>

StoreFile(t) ==
    /\ stage = "up" /\ th[t].pc = "store" /\ Readable
    /\ \/ /\ th[t].block \in index
          /\ th' = [th EXCEPT ![t].pc = "append"]
          /\ UNCHANGED <<storage, storeMu>>
       \/ /\ storeMu' = t
          /\ disk' = [disk EXCEPT !.files = @ \cup {th[t].block}]
          /\ index' = index \cup {th[t].block}
          /\ total' = IF th[t].block >= total THEN th[t].block + 1 ELSE total
          /\ th' = [th EXCEPT ![t].pc = "saveIndex"]
    /\ UNCHANGED <<db, chain, stage, peerSync, peerMu, page, faults, executed, everRun, seen>>

SaveIndex(t) ==
    /\ stage = "up" /\ th[t].pc = "saveIndex"
    /\ disk' = [disk EXCEPT !.index = index, !.torn = FALSE]
    /\ th' = [th EXCEPT ![t].pc = "saveState"]
    /\ UNCHANGED <<db, index, total, chain, stage, peerSync, peerMu, storeMu, page, faults, executed, everRun, seen>>

SaveState(t) ==
    /\ stage = "up" /\ th[t].pc = "saveState"
    /\ disk' = [disk EXCEPT !.total = total]
    /\ storeMu' = nobody
    /\ seen' = IF Latest > seen THEN Latest ELSE seen
    /\ th' = [th EXCEPT ![t].pc = "append"]
    /\ UNCHANGED <<db, index, total, chain, stage, peerSync, peerMu, page, faults, executed, everRun>>

\* A write of StoreBlock fails; what precedes it stays done.
StoreFails(t) ==
    /\ stage = "up" /\ th[t].pc \in {"store", "saveIndex", "saveState"}
    /\ th[t].pc = "store" => Readable
    /\ faults.errors < MaxErrors
    /\ faults' = [faults EXCEPT !.errors = @ + 1]
    /\ storeMu' = nobody
    /\ seen' = IF Latest > seen THEN Latest ELSE seen
    /\ Return(t, FALSE)
    /\ UNCHANGED <<storage, db, chain, stage, executed, everRun>>

AppendChain(t) ==
    /\ stage = "up" /\ th[t].pc = "append"
    /\ chain' = Append(chain, th[t].block)
    /\ Return(t, TRUE)
    /\ UNCHANGED <<storage, db, stage, storeMu, faults, executed, everRun, seen>>

\* block_index.json is truncated before it is written.
Crash ==
    /\ faults.crashes < MaxCrashes
    /\ \E tear \in {FALSE, TearsIndex} :
          /\ tear => \E t \in Thread : th[t].pc = "saveIndex"
          /\ disk' = [disk EXCEPT !.torn = @ \/ tear]
          /\ faults' = [faults EXCEPT !.crashes = @ + 1, !.torn = @ \/ tear, !.split = @ \/ stage = "distribute"]
    /\ stage' = "load"
    /\ index' = {}
    /\ total' = 0
    /\ chain' = <<>>
    /\ peerSync' = FALSE
    /\ peerMu' = nobody
    /\ storeMu' = nobody
    /\ th' = [t \in Thread |-> Idle]
    /\ page' = {}
    /\ executed' = NeverExecuted
    /\ UNCHANGED <<db, everRun, seen>>

Step(t) ==
    \/ CheckDuplicate(t)
    \/ ExecuteRead(t)
    \/ ExecuteWrite(t)
    \/ StoreFile(t)
    \/ SaveIndex(t)
    \/ SaveState(t)
    \/ AppendChain(t)

Boot == Load \/ ExecuteGenesisMint \/ ExecuteGenesisDistribute
Sync == SyncFetch \/ SyncAdd \/ SyncFallback \/ SyncImport

Next ==
    \/ Boot
    \/ Sync
    \/ \E b \in Block : ConsensusCommits(b)
    \/ \E t \in Peers, b \in Block : AddBlockFromPeer(t, b)
    \/ \E t \in Thread : Step(t)
    \/ \E t \in Thread : StoreFails(t)
    \/ Crash

Spec == Init /\ [][Next]_vars

\* The boot sequence, the sync loop and a CommitBlock under way go on; nobody
\* owes the node a gossiped block or a consensus decision.
Fairness == WF_vars(Boot) /\ WF_vars(Sync) /\ \A t \in Thread : WF_vars(Step(t))
FairSpec == Spec /\ Fairness

Count(b, s) == Cardinality({i \in DOMAIN s : s[i] = b})

\* The values of the variables.
TypeOK ==
    /\ disk \in [files : SUBSET Block, index : SUBSET Block, torn : BOOLEAN, total : 0..(MaxHeight + 1)]
    /\ db.applied \in Seq(Block) /\ db.vault \in Nat /\ db.alloc \in BOOLEAN
    /\ index \subseteq Block /\ total \in 0..(MaxHeight + 1)
    /\ chain \in Seq(Block)
    /\ stage \in {"load", "genesis", "distribute", "up"}
    /\ peerSync \in BOOLEAN
    /\ peerMu \in Thread \cup {nobody} /\ storeMu \in Thread \cup {nobody}
    /\ \A t \in Thread :
          /\ th[t].pc \in {"idle", "fallback", "import", "commit", "exec", "write", "store",
                           "saveIndex", "saveState", "append"}
          /\ th[t].block \in Block \cup {nil}
          /\ th[t].via \in {"none", "consensus", "peer", "import"}
          /\ th[t].snap \in Seq(Block)
    /\ page \subseteq Block
    /\ faults \in [crashes : 0..MaxCrashes, errors : 0..MaxErrors, torn : BOOLEAN, split : BOOLEAN]

\* The block storage never has a gap, neither in memory nor in the index on
\* disk, whatever the interleaving of callers, crashes and failed saves; a
\* half-written index is what breaks it (the parent check is skipped when the
\* latest block is unknown).
IndexLinked ==
    ~faults.torn => \A S \in {index, disk.index} : \A b \in S : 0..b \subseteq S

\* A block is on disk only after its execution was written to the account
\* database: CommitBlock executes before it stores.
StoredWasExecuted == disk.files \ {0} \subseteq everRun

\* addFromPeerMu does what its comment says: the goroutines that hold it
\* execute no height twice in one run of the node, whatever the consensus
\* engine and the sync loop's ImportBlock do beside it without the lock.  A
\* failed save voids it, and a torn index, which makes Acceptable vacuous.
PeersSerialized ==
    faults.errors = 0 /\ ~faults.torn => \A b \in Block : executed[b] <= 1

\* peerSyncInProgress, which makes nonces and signatures optional, is set
\* only while some peer block is being added.
FlagNotLeaked ==
    peerSync => \E t \in Thread : th[t].via \in {"peer", "import"}

\* ExecuteGenesisBlock mints the genesis supply once, over any number of
\* boots, although every boot executes chain[0] that finds no balance in the
\* first allocation: as long as no block has spent that balance and no crash
\* came between the two commits of a boot.
GenesisMintedOnce ==
    ~faults.split /\ everRun \cap Spends = {} => Count(0, db.applied) <= 1

\* The node cannot execute its next block again, having done so before a
\* crash or a failed save: the block's senders have no second payment.
Stalled ==
    /\ faults.crashes + faults.errors > 0
    /\ Latest + 1 \in everRun
    /\ ~Payable(Latest + 1)

\* A node whose seed serves every block ends up with all of them and keeps
\* them, over crashes, failed saves and concurrent commits, unless a block
\* that cannot be paid for twice was executed and then lost: no lock, flag,
\* used nonce or fallback ever keeps the sync loop from the next block.
SyncCatchesUp ==
    SeedServes = Block =>
        <>[](faults.torn \/ (stage = "up" /\ (Latest = MaxHeight \/ Stalled)))

\* CommitBlock's guard, as its comment describes it: a height is not
\* executed a second time.
ExecutedOnce == \A b \in Block : Count(b, db.applied) <= 1

\* What the storage has shown a reader it has after a restart too, if every
\* save succeeded and the index was not torn.
StoredIsKept ==
    stage = "up" /\ Readable /\ faults.errors = 0 /\ ~faults.torn => seen <= Latest
=============================================================================
