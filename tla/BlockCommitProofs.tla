------------------------ MODULE BlockCommitProofs ---------------------------
(***************************************************************************)
(* The block storage is sound for any number of gossip goroutines, any     *)
(* height, any seed and any number of crashes and failed writes: it has no *)
(* gap, it never runs ahead of the account database, and the peer-sync     *)
(* flag does not outlive its owner.  The genesis supply is minted once     *)
(* over all boots of the node, as long as its first allocation is unspent. *)
(***************************************************************************)
EXTENDS BlockCommit, FiniteSetTheorems, TLAPS

-----------------------------------------------------------------------------
(* The inductive invariant. *)

Goroutine ==
    [pc : {"idle", "fallback", "import", "commit", "exec", "write", "store",
           "saveIndex", "saveState", "append"},
     block : Block \cup {nil},
     via : {"none", "consensus", "peer", "import"},
     snap : Seq(Block)]

\* TypeOK, with the variables' domains.
Types ==
    /\ disk \in [files : SUBSET Block, index : SUBSET Block, torn : BOOLEAN, total : 0..(MaxHeight + 1)]
    /\ db \in [applied : Seq(Block), vault : Nat, alloc : BOOLEAN]
    /\ index \in SUBSET Block
    /\ total \in 0..(MaxHeight + 1)
    /\ chain \in Seq(Block)
    /\ stage \in {"load", "genesis", "distribute", "up"}
    /\ peerSync \in BOOLEAN
    /\ peerMu \in Thread \cup {nobody}
    /\ storeMu \in Thread \cup {nobody}
    /\ th \in [Thread -> Goroutine]
    /\ page \in SUBSET Block
    /\ faults \in [crashes : 0..MaxCrashes, errors : 0..MaxErrors, torn : BOOLEAN, split : BOOLEAN]
    /\ seen \in Block \cup {nil}

\* A goroutine has a block exactly while it works, which it does only when the
\* node is up; the fallback is an import; the in-memory chain has a block.
Working ==
    /\ \A t \in Thread : th[t].pc = "idle" => th[t] = Idle
    /\ \A t \in Thread : th[t].pc # "idle" => th[t].block \in Block /\ stage = "up"
    /\ \A t \in Thread : th[t].pc \in {"fallback", "import"} => th[t].via = "import"
    /\ stage # "load" => chain # <<>>

\* A goroutine between two writes of StoreBlock holds the storage's lock.
Locked == \A t \in Thread : th[t].pc \in {"saveIndex", "saveState"} => storeMu = t

\* A block on its way to the storage was executed.
Ran ==
    /\ disk.files \ {0} \subseteq everRun
    /\ \A t \in Thread :
          th[t].pc \in {"store", "saveIndex", "saveState", "append"} => th[t].block \in everRun

Closed(S) == \A b \in S : 0..b \subseteq S

\* What the indices name has a file.
Filed ==
    /\ index \subseteq disk.files
    /\ disk.index \subseteq disk.files
    /\ stage = "load" => index = {}
    /\ disk.torn => faults.torn

\* Neither index has a gap; each contains its best block; the one on disk
\* follows the one in memory; and a block goes on top of its ancestors.
Linked ==
    ~faults.torn =>
        /\ Closed(index)
        /\ Closed(disk.index)
        /\ disk.total # 0 => disk.total - 1 \in disk.index
        /\ stage # "load" => total - 1 \in index /\ disk.index \subseteq index
        /\ \A t \in Thread : th[t].pc = "saveState" => disk.index = index
        /\ \A t \in Thread :
              th[t].pc \in {"commit", "exec", "write", "store"} => 0..(th[t].block - 1) \subseteq index

IInv == Types /\ Working /\ Locked /\ Ran /\ Filed /\ Linked /\ FlagNotLeaked

-----------------------------------------------------------------------------
(* One goroutine moves. *)

\* The others stay where they are.
Others(t) ==
    /\ th' \in [Thread -> Goroutine]
    /\ \A u \in Thread \ {t} : th'[u] = th[u]

\* A goroutine's next step, on the same block for the same caller.
Proceeds(t, pc) ==
    /\ Others(t)
    /\ th'[t].pc = pc
    /\ th'[t].block = th[t].block
    /\ th'[t].via = th[t].via

LEMMA IdleIsGoroutine == Idle \in Goroutine /\ Idle.pc = "idle"
  BY DEF Idle, Call, Goroutine

\* A goroutine that has just taken a block.
LEMMA CallIsGoroutine ==
    ASSUME NEW b \in Block, NEW pc \in {"commit", "fallback"},
           NEW via \in {"consensus", "peer", "import"}
    PROVE  /\ Call(pc, b, via) \in Goroutine
           /\ Call(pc, b, via).pc = pc
           /\ Call(pc, b, via).block = b
           /\ Call(pc, b, via).via = via
  BY DEF Call, Goroutine

LEMMA FallsBack ==
    ASSUME NEW b \in Block
    PROVE  /\ Fallback(b) \in Goroutine
           /\ Fallback(b).pc = "fallback"
           /\ Fallback(b).block = b
           /\ Fallback(b).via = "import"
  BY CallIsGoroutine DEF Fallback

LEMMA SetsPc ==
    ASSUME NEW t \in Thread, th \in [Thread -> Goroutine],
           NEW pc \in {"import", "commit", "exec", "saveIndex", "saveState", "append"},
           th' = [th EXCEPT ![t].pc = pc]
    PROVE  Proceeds(t, pc)
<1>1. th[t] \in Goroutine
  OBVIOUS
<1>2. [th[t] EXCEPT !.pc = pc] \in Goroutine
  BY <1>1 DEF Goroutine
<1>3. th'[t] = [th[t] EXCEPT !.pc = pc]
  OBVIOUS
<1>4. th'[t].pc = pc /\ th'[t].block = th[t].block /\ th'[t].via = th[t].via
  BY <1>1, <1>3 DEF Goroutine
<1>5. Others(t)
  BY <1>2 DEF Others
<1> QED BY <1>4, <1>5 DEF Proceeds

LEMMA Replaces ==
    ASSUME NEW t \in Thread, th \in [Thread -> Goroutine],
           NEW r \in Goroutine, th' = [th EXCEPT ![t] = r]
    PROVE  Others(t) /\ th'[t] = r
  BY DEF Others

\* Return: the goroutine is idle, or falls back; a page is consumed only by the
\* sync loop; the flag goes with the goroutine that owns it.
LEMMA Returns ==
    ASSUME Types, Working, FlagNotLeaked, NEW t \in Thread, NEW ok \in BOOLEAN,
           th[t].pc # "idle", Return(t, ok), stage' = stage, chain' = chain \/ chain' # <<>>
    PROVE  /\ Others(t)
           /\ th'[t].pc \in {"idle", "fallback"}
           /\ page' \in SUBSET Block
           /\ peerSync' \in BOOLEAN
           /\ peerMu' \in Thread \cup {nobody}
           /\ Working'
           /\ FlagNotLeaked'
<1> DEFINE falls == t = "sync" /\ ~ok /\ th[t].via = "peer"
<1>1. th[t] \in Goroutine /\ th[t].block \in Block /\ stage = "up"
  BY DEF Types, Working
<1>2. Fallback(th[t].block) \in Goroutine /\ Fallback(th[t].block).pc = "fallback"
      /\ Fallback(th[t].block).block = th[t].block /\ Fallback(th[t].block).via = "import"
  BY <1>1, FallsBack
<1>3. Others(t) /\ th'[t] = IF falls THEN Fallback(th[t].block) ELSE Idle
  <2>1. CASE falls
    BY <1>2, <2>1, Replaces DEF Return, Types
  <2>2. CASE ~falls
    BY <2>2, Replaces, IdleIsGoroutine DEF Return, Types
  <2> QED BY <2>1, <2>2
<1>4. page' \in SUBSET Block
  BY DEF Return, Types
<1>5. peerSync' \in BOOLEAN /\ peerMu' \in Thread \cup {nobody}
  BY DEF Return, Types
<1>6. th'[t].pc \in {"idle", "fallback"}
  BY <1>2, <1>3, IdleIsGoroutine
<1>7. Working'
  <2>1. \A u \in Thread : th'[u].pc = "idle" => th'[u] = Idle
    BY <1>2, <1>3 DEF Working, Others
  <2>2. \A u \in Thread : th'[u].pc # "idle" => th'[u].block \in Block /\ stage' = "up"
    BY <1>1, <1>2, <1>3, IdleIsGoroutine DEF Working, Others
  <2>3. stage' # "load" => chain' # <<>>
    BY DEF Working
  <2>4. \A u \in Thread : th'[u].pc \in {"fallback", "import"} => th'[u].via = "import"
    BY <1>2, <1>3, IdleIsGoroutine DEF Working, Others
  <2> QED BY <2>1, <2>2, <2>3, <2>4 DEF Working
<1>8. FlagNotLeaked'
  <2> SUFFICES ASSUME peerSync' PROVE \E u \in Thread : th'[u].via \in {"peer", "import"}
    BY DEF FlagNotLeaked
  <2>1. th[t].via = "consensus" /\ peerSync
    BY DEF Return
  <2>2. PICK u \in Thread : th[u].via \in {"peer", "import"}
    BY <2>1 DEF FlagNotLeaked
  <2>3. u # t
    BY <2>1, <2>2
  <2>4. th'[u] = th[u]
    BY <1>3, <2>3 DEF Others
  <2> QED BY <2>2, <2>4
<1> QED BY <1>3, <1>4, <1>5, <1>6, <1>7, <1>8

\* The next step of CommitBlock or ImportBlock, seen from the callers.
LEMMA Keeps ==
    ASSUME Types, Working, FlagNotLeaked, NEW t \in Thread, NEW pc,
           Proceeds(t, pc), th[t].pc # "idle", pc # "idle",
           pc \in {"fallback", "import"} => th[t].via = "import",
           UNCHANGED <<stage, chain>>,
           peerSync' = peerSync \/ th[t].via = "import"
    PROVE  Working' /\ FlagNotLeaked'
<1>1. \A u \in Thread : th'[u].pc = "idle" => th'[u] = Idle
  BY DEF Working, Proceeds, Others
<1>2. \A u \in Thread : th'[u].pc # "idle" => th'[u].block \in Block /\ stage' = "up"
  BY DEF Working, Proceeds, Others
<1>3. \A u \in Thread : th'[u].pc \in {"fallback", "import"} => th'[u].via = "import"
  BY DEF Working, Proceeds, Others
<1>4. \A u \in Thread : th'[u].via = th[u].via
  BY DEF Proceeds, Others
<1>5. FlagNotLeaked'
  BY <1>4 DEF FlagNotLeaked
<1> QED BY <1>1, <1>2, <1>3, <1>5 DEF Working

\* A free goroutine takes a block.
LEMMA Enters ==
    ASSUME Types, Working, FlagNotLeaked, NEW t \in Thread, Free(t),
           NEW b \in Block, NEW pc \in {"commit", "fallback"},
           NEW via \in {"consensus", "peer", "import"},
           pc = "fallback" => via = "import",
           th' = [th EXCEPT ![t] = Call(pc, b, via)],
           UNCHANGED <<stage, chain>>,
           peerSync' = peerSync \/ via # "consensus"
    PROVE  Others(t) /\ th'[t].pc = pc /\ th'[t].block = b /\ Working' /\ FlagNotLeaked'
<1>1. Others(t) /\ th'[t] = Call(pc, b, via)
  <2>1. Call(pc, b, via) \in Goroutine
    BY CallIsGoroutine
  <2>2. th \in [Thread -> Goroutine]
    BY DEF Types
  <2> QED BY <2>1, <2>2, Replaces
<1>2. th'[t].pc = pc /\ th'[t].block = b /\ th'[t].via = via
  BY <1>1, CallIsGoroutine
<1>3. Working'
  <2>1. \A u \in Thread : th'[u].pc = "idle" => th'[u] = Idle
    BY <1>1, <1>2 DEF Working, Others
  <2>2. \A u \in Thread : th'[u].pc # "idle" => th'[u].block \in Block /\ stage' = "up"
    BY <1>1, <1>2 DEF Working, Others, Free
  <2>3. \A u \in Thread : th'[u].pc \in {"fallback", "import"} => th'[u].via = "import"
    BY <1>1, <1>2 DEF Working, Others
  <2> QED BY <2>1, <2>2, <2>3 DEF Working
<1>4. FlagNotLeaked'
  <2>1. th[t].via = "none"
    BY DEF Working, Free, Idle, Call
  <2>2. \A u \in Thread : th[u].via \in {"peer", "import"} => th'[u].via \in {"peer", "import"}
    BY <1>1, <2>1 DEF Others
  <2> QED BY <1>2, <2>2 DEF FlagNotLeaked
<1> QED BY <1>1, <1>2, <1>3, <1>4

\* The same steps, seen from the storage, which they leave alone.
LEMMA Moves ==
    ASSUME IInv, NEW t \in Thread, Others(t),
           UNCHANGED <<disk, index, total, stage, faults, seen>>,
           storeMu' = storeMu, everRun \subseteq everRun',
           th'[t].pc \notin {"saveIndex", "saveState"},
           th'[t].pc \in {"store", "append"} => th'[t].block \in everRun',
           ~faults.torn /\ th'[t].pc \in {"commit", "exec", "write", "store"}
                => 0..(th'[t].block - 1) \subseteq index
    PROVE  Locked' /\ Ran' /\ Filed' /\ Linked'
<1>1. Locked'
  BY DEF IInv, Locked, Others
<1>2. Ran'
  BY DEF IInv, Ran, Others
<1>3. Filed'
  BY DEF IInv, Filed
<1>4. Linked'
  <2> SUFFICES ASSUME ~faults.torn PROVE Linked'
    BY DEF Linked
  <2>1. \A u \in Thread : th'[u].pc = "saveState" => disk'.index = index'
    BY DEF IInv, Linked, Others
  <2>2. \A u \in Thread : th'[u].pc \in {"commit", "exec", "write", "store"}
            => 0..(th'[u].block - 1) \subseteq index'
    BY DEF IInv, Linked, Others
  <2> QED BY <2>1, <2>2 DEF IInv, Linked, Closed
<1> QED BY <1>1, <1>2, <1>3, <1>4

\* The height check admits only a block whose ancestors are all stored.
LEMMA AcceptableIsLinked ==
    ASSUME IInv, ~faults.torn, stage = "up", NEW b \in Block, Acceptable(b)
    PROVE  0..(b - 1) \subseteq index
<1>1. total - 1 \in index /\ index \subseteq 0..MaxHeight /\ Closed(index)
  BY DEF IInv, Types, Linked, Block
<1>2. b = total
  BY <1>1, CommitAssumption DEF Acceptable, Latest, nil, IInv, Types, Block
<1> QED BY <1>1, <1>2 DEF Closed

-----------------------------------------------------------------------------
(* The actions. *)

LEMMA InitInv == Init => IInv
<1> SUFFICES ASSUME Init PROVE IInv
  OBVIOUS
<1> USE DEF Init
<1>1. \A t \in Thread : th[t] = Idle /\ th[t].pc = "idle"
  BY IdleIsGoroutine
<1>2. Types
  <2>1. 0 \in 0..(MaxHeight + 1) /\ 0 \in 0..MaxCrashes /\ 0 \in 0..MaxErrors
    BY CommitAssumption
  <2>2. disk \in [files : SUBSET Block, index : SUBSET Block, torn : BOOLEAN, total : 0..(MaxHeight + 1)]
    BY <2>1
  <2>3. db \in [applied : Seq(Block), vault : Nat, alloc : BOOLEAN]
    OBVIOUS
  <2>4. faults \in [crashes : 0..MaxCrashes, errors : 0..MaxErrors, torn : BOOLEAN, split : BOOLEAN]
    BY <2>1
  <2>5. th \in [Thread -> Goroutine]
    BY IdleIsGoroutine
  <2> QED BY <2>1, <2>2, <2>3, <2>4, <2>5 DEF Types
<1>3. Working /\ Locked /\ Ran
  BY <1>1 DEF Working, Locked, Ran, Thread
<1>4. Filed /\ Linked
  BY <1>1 DEF Filed, Linked, Closed
<1>5. FlagNotLeaked
  BY DEF FlagNotLeaked
<1> QED BY <1>2, <1>3, <1>4, <1>5 DEF IInv

LEMMA ConsensusCommitsInv == ASSUME IInv, NEW b \in Block, ConsensusCommits(b) PROVE IInv'
<1> DEFINE t == "consensus"
<1>1. t \in Thread /\ Free(t) /\ stage = "up" /\ Acceptable(b)
  BY DEF ConsensusCommits, Thread, Free, Acceptable
<1>2. th' = [th EXCEPT ![t] = Call("commit", b, "consensus")]
  BY DEF ConsensusCommits
<1>3. UNCHANGED <<disk, db, index, total, chain, stage, peerSync, peerMu, storeMu, page, faults, everRun, seen>>
  BY DEF ConsensusCommits, storage
<1>4. Others(t) /\ th'[t].pc = "commit" /\ th'[t].block = b /\ Working' /\ FlagNotLeaked'
  BY <1>1, <1>2, <1>3, Enters DEF IInv
<1>5. Locked' /\ Ran' /\ Filed' /\ Linked'
  BY <1>1, <1>3, <1>4, Moves, AcceptableIsLinked
<1>6. Types'
  BY <1>3, <1>4 DEF IInv, Types, Others
<1> QED BY <1>4, <1>5, <1>6 DEF IInv

\* EnterPeer, for a gossiped block and for one of the sync loop.
LEMMA EnterPeerInv ==
    ASSUME IInv, NEW t \in Thread, NEW b \in Block, Free(t), Acceptable(b), EnterPeer(t, b),
           UNCHANGED <<disk, db, index, total, chain, stage, storeMu, page, faults, everRun, seen>>
    PROVE  IInv'
<1>1. th' = [th EXCEPT ![t] = Call("commit", b, "peer")] /\ peerMu' = t /\ peerSync' = TRUE
  BY DEF EnterPeer
<1>2. Others(t) /\ th'[t].pc = "commit" /\ th'[t].block = b /\ Working' /\ FlagNotLeaked'
  BY <1>1, Enters DEF IInv
<1>3. Locked' /\ Ran' /\ Filed' /\ Linked'
  BY <1>2, Moves, AcceptableIsLinked DEF Free
<1>4. Types'
  BY <1>1, <1>2 DEF IInv, Types, Others
<1> QED BY <1>2, <1>3, <1>4 DEF IInv

LEMMA AddBlockFromPeerInv ==
    ASSUME IInv, NEW t \in Peers, NEW b \in Block, AddBlockFromPeer(t, b)
    PROVE  IInv'
<1>1. t \in Thread
  BY DEF Thread
<1>2. Free(t) /\ Acceptable(b) /\ EnterPeer(t, b)
  BY DEF AddBlockFromPeer
<1>3. UNCHANGED <<disk, db, index, total, chain, stage, storeMu, page, faults, everRun, seen>>
  BY DEF AddBlockFromPeer, storage
<1> QED BY <1>1, <1>2, <1>3, EnterPeerInv

\* The goroutines and what only they use are as before.
LEMMA StaysInv ==
    ASSUME IInv, UNCHANGED <<disk, db, index, total, chain, stage, peerSync, peerMu, storeMu, th,
                             faults, everRun, seen>>,
           page' \in SUBSET Block
    PROVE  IInv'
  BY DEF IInv, Types, Working, Locked, Ran, Filed, Linked, Closed, FlagNotLeaked

LEMMA SyncInv == ASSUME IInv, Sync PROVE IInv'
<1> DEFINE t == "sync"
<1>0. t \in Thread
  BY DEF Thread
<1>1. CASE SyncFetch
  <2>1. page' \in SUBSET Block
    BY <1>1, CommitAssumption DEF SyncFetch, PageFrom
  <2> QED BY <1>1, <2>1, StaysInv DEF SyncFetch, storage
<1>2. CASE SyncAdd
  <2>1. PICK b \in page :
          \/ Known(b) /\ page' = page \ {b} /\ UNCHANGED <<th, peerSync, peerMu>>
          \/ Acceptable(b) /\ EnterPeer(t, b) /\ UNCHANGED page
          \/ th' = [th EXCEPT ![t] = Fallback(b)] /\ UNCHANGED <<page, peerSync, peerMu>>
    BY <1>2 DEF SyncAdd
  <2>2. b \in Block /\ Free(t)
    BY <1>2, <2>1 DEF SyncAdd, IInv, Types
  <2>3. UNCHANGED <<disk, db, index, total, chain, stage, storeMu, faults, everRun, seen>>
    BY <1>2 DEF SyncAdd, storage
  <2>4. CASE page' = page \ {b} /\ UNCHANGED <<th, peerSync, peerMu>>
    <3>1. page' \in SUBSET Block
      BY <2>4 DEF IInv, Types
    <3> QED BY <2>3, <2>4, <3>1, StaysInv
  <2>5. CASE Acceptable(b) /\ EnterPeer(t, b) /\ UNCHANGED page
    BY <1>0, <2>2, <2>3, <2>5, EnterPeerInv
  <2>6. CASE th' = [th EXCEPT ![t] = Fallback(b)] /\ UNCHANGED <<page, peerSync, peerMu>>
    <3>1. th' = [th EXCEPT ![t] = Call("fallback", b, "import")]
      BY <2>6 DEF Fallback
    <3>2. Others(t) /\ th'[t].pc = "fallback" /\ th'[t].block = b /\ Working' /\ FlagNotLeaked'
      BY <1>0, <2>2, <2>3, <2>6, <3>1, Enters DEF IInv
    <3>3. Locked' /\ Ran' /\ Filed' /\ Linked'
      BY <1>0, <2>3, <3>2, Moves
    <3>4. Types'
      BY <2>3, <2>6, <3>2 DEF IInv, Types, Others
    <3> QED BY <3>2, <3>3, <3>4 DEF IInv
  <2> QED BY <2>1, <2>4, <2>5, <2>6
<1>3. CASE SyncFallback
  <2>1. th[t].pc = "fallback" /\ peerSync' = TRUE /\ th' = [th EXCEPT ![t].pc = "import"]
    BY <1>3 DEF SyncFallback
  <2>2. UNCHANGED <<disk, db, index, total, chain, stage, peerMu, storeMu, page, faults, everRun, seen>>
    BY <1>3 DEF SyncFallback, storage
  <2>3. Proceeds(t, "import") /\ th[t].via = "import"
    BY <1>0, <2>1, SetsPc DEF IInv, Types, Working
  <2>4. Working' /\ FlagNotLeaked'
    BY <1>0, <2>1, <2>2, <2>3, Keeps DEF IInv
  <2>5. Locked' /\ Ran' /\ Filed' /\ Linked'
    BY <1>0, <2>2, <2>3, Moves DEF Proceeds
  <2>6. Types'
    BY <2>1, <2>2, <2>3 DEF IInv, Types, Proceeds, Others
  <2> QED BY <2>4, <2>5, <2>6 DEF IInv
<1>4. CASE SyncImport
  <2> DEFINE b == th[t].block
  <2>1. th[t].pc = "import" /\ th[t].via = "import" /\ b \in Block /\ stage = "up"
    BY <1>0, <1>4 DEF SyncImport, IInv, Working
  <2>2. UNCHANGED <<disk, db, index, total, chain, stage, peerMu, storeMu, faults, everRun, seen>>
    BY <1>4 DEF SyncImport, storage
  <2>3. CASE Acceptable(b) /\ th' = [th EXCEPT ![t].pc = "commit"] /\ UNCHANGED <<page, peerSync>>
    <3>1. Proceeds(t, "commit")
      BY <1>0, <2>3, SetsPc DEF IInv, Types
    <3>2. Working' /\ FlagNotLeaked'
      BY <1>0, <2>1, <2>2, <2>3, <3>1, Keeps DEF IInv
    <3>3. ~faults.torn => 0..(b - 1) \subseteq index
      BY <2>1, <2>3, AcceptableIsLinked
    <3>4. Locked' /\ Ran' /\ Filed' /\ Linked'
      BY <1>0, <2>2, <3>1, <3>3, Moves DEF Proceeds
    <3>5. Types'
      BY <2>2, <2>3, <3>1 DEF IInv, Types, Proceeds, Others
    <3> QED BY <3>2, <3>4, <3>5 DEF IInv
  <2>4. CASE peerSync' = FALSE /\ th' = [th EXCEPT ![t] = Idle] /\ page' = page \ {b}
    <3>1. Others(t) /\ th'[t] = Idle
      BY <1>0, <2>4, Replaces, IdleIsGoroutine DEF IInv, Types
    <3>2. th'[t].pc = "idle"
      BY <3>1, IdleIsGoroutine
    <3>3. Working' /\ FlagNotLeaked'
      BY <2>2, <2>4, <3>1, <3>2 DEF IInv, Working, Others, FlagNotLeaked
    <3>4. Locked' /\ Ran' /\ Filed' /\ Linked'
      BY <1>0, <2>2, <3>1, <3>2, Moves
    <3>5. Types'
      BY <2>2, <2>4, <3>1 DEF IInv, Types, Others
    <3> QED BY <3>3, <3>4, <3>5 DEF IInv
  <2> QED BY <1>4, <2>3, <2>4 DEF SyncImport
<1> QED BY <1>1, <1>2, <1>3, <1>4 DEF Sync

\* CommitBlock returns without having touched the storage.
LEMMA ReturnInv ==
    ASSUME IInv, NEW t \in Thread, NEW ok \in BOOLEAN, th[t].pc # "idle", Return(t, ok),
           UNCHANGED <<disk, db, index, total, stage, storeMu, faults, everRun, seen>>,
           chain' \in Seq(Block), chain' = chain \/ chain' # <<>>
    PROVE  IInv'
<1>1. /\ Others(t)
      /\ th'[t].pc \in {"idle", "fallback"}
      /\ page' \in SUBSET Block
      /\ peerSync' \in BOOLEAN
      /\ peerMu' \in Thread \cup {nobody}
      /\ Working'
      /\ FlagNotLeaked'
  BY Returns DEF IInv
<1>2. Locked' /\ Ran' /\ Filed' /\ Linked'
  BY <1>1, Moves
<1>3. Types'
  BY <1>1 DEF IInv, Types, Others
<1> QED BY <1>1, <1>2, <1>3 DEF IInv

LEMMA CheckDuplicateInv == ASSUME IInv, NEW t \in Thread, CheckDuplicate(t) PROVE IInv'
<1>1. th[t].pc = "commit"
  BY DEF CheckDuplicate
<1>2. UNCHANGED <<disk, db, index, total, chain, stage, storeMu, faults, everRun, seen>>
  BY DEF CheckDuplicate, storage
<1>3. CASE Return(t, TRUE)
  <2>1. chain' \in Seq(Block)
    BY <1>2 DEF IInv, Types
  <2> QED BY <1>1, <1>2, <1>3, <2>1, ReturnInv
<1>4. CASE th' = [th EXCEPT ![t].pc = "exec"] /\ UNCHANGED <<peerSync, peerMu, page>>
  <2>1. Proceeds(t, "exec")
    BY <1>4, SetsPc DEF IInv, Types
  <2>2. Working' /\ FlagNotLeaked'
    BY <1>1, <1>2, <1>4, <2>1, Keeps DEF IInv
  <2>3. Locked' /\ Ran' /\ Filed' /\ Linked'
    <3>1. ~faults.torn => 0..(th[t].block - 1) \subseteq index
      BY <1>1 DEF IInv, Linked
    <3> QED BY <1>2, <2>1, <3>1, Moves DEF Proceeds
  <2>4. Types'
    BY <1>2, <1>4, <2>1 DEF IInv, Types, Proceeds, Others
  <2> QED BY <2>2, <2>3, <2>4 DEF IInv
<1> QED BY <1>3, <1>4 DEF CheckDuplicate

LEMMA ExecuteReadInv == ASSUME IInv, NEW t \in Thread, ExecuteRead(t) PROVE IInv'
<1>1. th[t].pc = "exec"
  BY DEF ExecuteRead
<1>2. UNCHANGED <<disk, db, index, total, chain, stage, storeMu, faults, everRun, seen>>
  BY DEF ExecuteRead, storage
<1>3. CASE Return(t, FALSE)
  <2>1. chain' \in Seq(Block)
    BY <1>2 DEF IInv, Types
  <2> QED BY <1>1, <1>2, <1>3, <2>1, ReturnInv
<1>4. CASE th' = [th EXCEPT ![t].pc = "write", ![t].snap = db.applied] /\ UNCHANGED <<peerSync, peerMu, page>>
  <2>1. Proceeds(t, "write")
    <3>1. th[t] \in Goroutine /\ db.applied \in Seq(Block)
      BY DEF IInv, Types
    <3>2. th'[t] = [th[t] EXCEPT !.pc = "write", !.snap = db.applied]
      BY <1>4 DEF IInv, Types
    <3>3. /\ th'[t] \in Goroutine
          /\ th'[t].pc = "write" /\ th'[t].block = th[t].block /\ th'[t].via = th[t].via
      BY <3>1, <3>2 DEF Goroutine
    <3>4. th' = [u \in Thread |-> IF u = t THEN th'[t] ELSE th[u]]
      BY <1>4 DEF IInv, Types
    <3>5. Others(t)
      BY <3>3, <3>4 DEF Others, IInv, Types
    <3> QED BY <3>3, <3>5 DEF Proceeds
  <2>2. Working' /\ FlagNotLeaked'
    BY <1>1, <1>2, <1>4, <2>1, Keeps DEF IInv
  <2>3. Locked' /\ Ran' /\ Filed' /\ Linked'
    <3>1. ~faults.torn => 0..(th[t].block - 1) \subseteq index
      BY <1>1 DEF IInv, Linked
    <3> QED BY <1>2, <2>1, <3>1, Moves DEF Proceeds
  <2>4. Types'
    BY <1>2, <1>4, <2>1 DEF IInv, Types, Proceeds, Others
  <2> QED BY <2>2, <2>3, <2>4 DEF IInv
<1> QED BY <1>3, <1>4 DEF ExecuteRead

\* What an execution writes back.
LEMMA ExecutedIsTyped ==
    ASSUME NEW b \in Block, NEW snap \in Seq(Block),
           db \in [applied : Seq(Block), vault : Nat, alloc : BOOLEAN]
    PROVE  Executed(db, snap, b) \in [applied : Seq(Block), vault : Nat, alloc : BOOLEAN]
<1>1. Append(snap, b) \in Seq(Block)
  OBVIOUS
<1>2. (IF b = 0 THEN db.vault + 1 ELSE db.vault) \in Nat
  OBVIOUS
<1>3. (db.alloc /\ b \notin Spends) \in BOOLEAN
  OBVIOUS
<1> QED BY <1>1, <1>2, <1>3, Zenon DEF Executed

LEMMA ExecuteWriteInv == ASSUME IInv, NEW t \in Thread, ExecuteWrite(t) PROVE IInv'
<1>1. th[t].pc = "write" /\ th[t] \in Goroutine /\ th[t].block \in Block
  BY DEF ExecuteWrite, IInv, Types, Working
<1>2. UNCHANGED <<disk, index, total, chain, stage, peerSync, peerMu, storeMu, page, faults, seen>>
      /\ everRun' = everRun \cup {th[t].block}
  BY DEF ExecuteWrite, storage
<1>3. Proceeds(t, "store")
  <2>1. th' = [th EXCEPT ![t].pc = "store", ![t].snap = <<>>] /\ th \in [Thread -> Goroutine]
    BY DEF ExecuteWrite, IInv, Types
  <2>2. th'[t] = [th[t] EXCEPT !.pc = "store", !.snap = <<>>]
    BY <2>1
  <2>3. /\ th'[t] \in Goroutine
        /\ th'[t].pc = "store" /\ th'[t].block = th[t].block /\ th'[t].via = th[t].via
    <3>1. <<>> \in Seq(Block)
      OBVIOUS
    <3> DEFINE none == <<>>
    <3>2. th'[t] = [th[t] EXCEPT !.pc = "store", !.snap = none] /\ none \in Seq(Block)
      BY <2>2, <3>1
    <3> HIDE DEF none
    <3> QED BY <1>1, <3>2 DEF Goroutine
  <2>4. th' = [u \in Thread |-> IF u = t THEN th'[t] ELSE th[u]]
    BY <2>1
  <2>5. Others(t)
    BY <2>1, <2>3, <2>4 DEF Others
  <2> QED BY <2>3, <2>5 DEF Proceeds
<1>4. Working' /\ FlagNotLeaked'
  BY <1>1, <1>2, <1>3, Keeps DEF IInv
<1>5. Locked' /\ Ran' /\ Filed' /\ Linked'
  <2>1. ~faults.torn => 0..(th[t].block - 1) \subseteq index
    BY <1>1 DEF IInv, Linked
  <2>2. everRun \subseteq everRun' /\ th[t].block \in everRun'
    BY <1>2
  <2> QED BY <1>2, <1>3, <2>1, <2>2, Moves DEF Proceeds
<1>6. Types'
  <2>1. db' \in [applied : Seq(Block), vault : Nat, alloc : BOOLEAN]
    BY <1>1, ExecutedIsTyped DEF ExecuteWrite, IInv, Types, Goroutine
  <2> QED BY <1>2, <1>3, <2>1 DEF IInv, Types, Proceeds, Others
<1> QED BY <1>4, <1>5, <1>6 DEF IInv

-----------------------------------------------------------------------------
(* StoreBlock. *)

LEMMA StoreFileInv == ASSUME IInv, NEW t \in Thread, StoreFile(t) PROVE IInv'
<1> DEFINE b == th[t].block
<1>1. th[t].pc = "store" /\ th[t] \in Goroutine /\ b \in Block /\ stage = "up" /\ storeMu = nobody
  BY DEF StoreFile, Readable, IInv, Types, Working
<1>2. UNCHANGED <<db, chain, stage, peerSync, peerMu, page, faults, everRun, seen>>
  BY DEF StoreFile
<1>3. b \in everRun /\ (~faults.torn => 0..(b - 1) \subseteq index)
  BY <1>1 DEF IInv, Ran, Linked
<1>4. CASE th' = [th EXCEPT ![t].pc = "append"] /\ UNCHANGED <<storage, storeMu>>
  <2>1. th' = [th EXCEPT ![t].pc = "append"] /\ UNCHANGED <<disk, index, total, storeMu>>
    BY <1>4 DEF storage
  <2>2. Proceeds(t, "append")
    BY <2>1, SetsPc DEF IInv, Types
  <2>3. Working' /\ FlagNotLeaked'
    BY <1>1, <1>2, <2>2, Keeps DEF IInv
  <2>4. Locked' /\ Ran' /\ Filed' /\ Linked'
    BY <1>2, <1>3, <2>1, <2>2, Moves DEF Proceeds
  <2>5. Types'
    BY <1>2, <2>1, <2>2 DEF IInv, Types, Proceeds, Others
  <2> QED BY <2>3, <2>4, <2>5 DEF IInv
<1>5. CASE /\ storeMu' = t
           /\ disk' = [disk EXCEPT !.files = @ \cup {b}]
           /\ index' = index \cup {b}
           /\ total' = IF b >= total THEN b + 1 ELSE total
           /\ th' = [th EXCEPT ![t].pc = "saveIndex"]
  <2>1. /\ storeMu' = t
        /\ disk' = [disk EXCEPT !.files = @ \cup {b}]
        /\ index' = index \cup {b}
        /\ total' = IF b >= total THEN b + 1 ELSE total
        /\ th' = [th EXCEPT ![t].pc = "saveIndex"]
    BY <1>5
  <2>2. Proceeds(t, "saveIndex")
    BY <2>1, SetsPc DEF IInv, Types
  <2>3. Working' /\ FlagNotLeaked'
    BY <1>1, <1>2, <2>2, Keeps DEF IInv
  <2>4. /\ disk'.files = disk.files \cup {b} /\ disk'.index = disk.index
        /\ disk'.torn = disk.torn /\ disk'.total = disk.total
        /\ disk' \in [files : SUBSET Block, index : SUBSET Block, torn : BOOLEAN, total : 0..(MaxHeight + 1)]
    BY <1>1, <2>1 DEF IInv, Types
  <2>5. Types'
    <3>1. total' \in 0..(MaxHeight + 1)
      BY <1>1, <2>1, CommitAssumption DEF IInv, Types, Block
    <3> QED BY <1>1, <1>2, <2>1, <2>2, <2>4, <3>1 DEF IInv, Types, Proceeds, Others
  <2>6. \A u \in Thread : th[u].pc \notin {"saveIndex", "saveState"}
    <3>1. nobody \notin Thread
      BY CommitAssumption DEF Thread, nobody
    <3> QED BY <1>1, <3>1 DEF IInv, Locked
  <2>7. Locked'
    BY <2>1, <2>2, <2>6 DEF Locked, Proceeds, Others
  <2>8. Ran'
    BY <1>2, <1>3, <2>2, <2>4 DEF IInv, Ran, Proceeds, Others
  <2>9. Filed'
    BY <1>1, <1>2, <2>1, <2>4 DEF IInv, Filed
  <2>10. Linked'
    <3> SUFFICES ASSUME ~faults.torn PROVE Linked'
      BY <1>2 DEF Linked
    <3>1. 0..b \subseteq index'
      BY <1>1, <1>3, <2>1 DEF Block
    <3>2. Closed(index')
      BY <2>1, <3>1 DEF IInv, Linked, Closed
    <3>3. total' - 1 \in index'
      BY <1>1, <2>1 DEF IInv, Types, Linked, Block
    <3>4. \A u \in Thread : th'[u].pc = "saveState" => disk'.index = index'
      BY <2>2, <2>6 DEF Proceeds, Others
    <3>5. \A u \in Thread : th'[u].pc \in {"commit", "exec", "write", "store"}
             => 0..(th'[u].block - 1) \subseteq index'
      BY <2>1, <2>2 DEF IInv, Linked, Proceeds, Others
    <3> QED BY <1>1, <1>2, <2>1, <2>4, <3>2, <3>3, <3>4, <3>5 DEF IInv, Linked
  <2> QED BY <2>3, <2>5, <2>7, <2>8, <2>9, <2>10 DEF IInv
<1> QED BY <1>4, <1>5 DEF StoreFile

LEMMA SaveIndexInv == ASSUME IInv, NEW t \in Thread, SaveIndex(t) PROVE IInv'
<1>1. th[t].pc = "saveIndex" /\ stage = "up" /\ storeMu = t
  BY DEF SaveIndex, IInv, Locked
<1>2. UNCHANGED <<db, index, total, chain, stage, peerSync, peerMu, storeMu, page, faults, everRun, seen>>
  BY DEF SaveIndex
<1>3. Proceeds(t, "saveState")
  BY SetsPc DEF SaveIndex, IInv, Types
<1>4. Working' /\ FlagNotLeaked'
  BY <1>1, <1>2, <1>3, Keeps DEF IInv
<1>5. /\ disk'.files = disk.files /\ disk'.index = index /\ disk'.torn = FALSE /\ disk'.total = disk.total
      /\ disk' \in [files : SUBSET Block, index : SUBSET Block, torn : BOOLEAN, total : 0..(MaxHeight + 1)]
  BY DEF SaveIndex, IInv, Types
<1>6. Types'
  BY <1>2, <1>3, <1>5 DEF IInv, Types, Proceeds, Others
<1>7. Locked' /\ Ran'
  BY <1>1, <1>2, <1>3, <1>5 DEF IInv, Locked, Ran, Proceeds, Others
<1>8. Filed'
  BY <1>1, <1>2, <1>5 DEF IInv, Filed
<1>9. Linked'
  BY <1>1, <1>2, <1>3, <1>5 DEF IInv, Linked, Closed, Proceeds, Others
<1> QED BY <1>4, <1>6, <1>7, <1>8, <1>9 DEF IInv

\* The highest block a reader can have seen is a block.
LEMMA SeesBlocks ==
    ASSUME IInv, seen' = IF Latest > seen THEN Latest ELSE seen
    PROVE  seen' \in Block \cup {nil}
  BY DEF Latest, IInv, Types

LEMMA SaveStateInv == ASSUME IInv, NEW t \in Thread, SaveState(t) PROVE IInv'
<1>1. th[t].pc = "saveState" /\ stage = "up" /\ storeMu = t
  BY DEF SaveState, IInv, Locked
<1>2. UNCHANGED <<db, index, total, chain, stage, peerSync, peerMu, page, faults, everRun>>
      /\ storeMu' = nobody
  BY DEF SaveState
<1>3. Proceeds(t, "append")
  BY SetsPc DEF SaveState, IInv, Types
<1>4. Working' /\ FlagNotLeaked'
  BY <1>1, <1>2, <1>3, Keeps DEF IInv
<1>5. /\ disk'.files = disk.files /\ disk'.index = disk.index /\ disk'.torn = disk.torn /\ disk'.total = total
      /\ disk' \in [files : SUBSET Block, index : SUBSET Block, torn : BOOLEAN, total : 0..(MaxHeight + 1)]
  BY DEF SaveState, IInv, Types
<1>6. ~faults.torn => disk.index = index
  BY <1>1 DEF IInv, Linked
<1>7. seen' \in Block \cup {nil}
  BY SeesBlocks DEF SaveState
<1>8. Types'
  BY <1>2, <1>3, <1>5, <1>7 DEF IInv, Types, Proceeds, Others
<1>9. Locked' /\ Ran'
  BY <1>1, <1>2, <1>3, <1>5 DEF IInv, Locked, Ran, Proceeds, Others
<1>10. Filed'
  BY <1>2, <1>5 DEF IInv, Filed
<1>11. Linked'
  BY <1>1, <1>2, <1>3, <1>5, <1>6 DEF IInv, Linked, Closed, Proceeds, Others
<1> QED BY <1>4, <1>8, <1>9, <1>10, <1>11 DEF IInv

LEMMA StoreFailsInv == ASSUME IInv, NEW t \in Thread, StoreFails(t) PROVE IInv'
<1>1. th[t].pc \in {"store", "saveIndex", "saveState"} /\ (th[t].pc = "store" => storeMu = nobody)
  BY DEF StoreFails, Readable
<1>2. UNCHANGED <<disk, db, index, total, chain, stage, everRun>> /\ storeMu' = nobody
  BY DEF StoreFails, storage
<1>3. /\ Others(t)
      /\ th'[t].pc \in {"idle", "fallback"}
      /\ page' \in SUBSET Block
      /\ peerSync' \in BOOLEAN
      /\ peerMu' \in Thread \cup {nobody}
      /\ Working'
      /\ FlagNotLeaked'
  BY <1>1, <1>2, Returns DEF StoreFails, IInv
<1>4. /\ faults'.torn = faults.torn /\ faults'.errors = faults.errors + 1 /\ faults.errors \in Nat
      /\ faults' \in [crashes : 0..MaxCrashes, errors : 0..MaxErrors, torn : BOOLEAN, split : BOOLEAN]
  <2> DEFINE e == faults.errors + 1
  <2>1. faults \in [crashes : 0..MaxCrashes, errors : 0..MaxErrors, torn : BOOLEAN, split : BOOLEAN]
    BY DEF IInv, Types
  <2>2. faults' = [faults EXCEPT !.errors = e] /\ faults.errors < MaxErrors
    BY DEF StoreFails
  <2>3. e \in 0..MaxErrors /\ faults.errors \in Nat
    BY <2>1, <2>2, CommitAssumption
  <2> HIDE DEF e
  <2>4. faults' \in [crashes : 0..MaxCrashes, errors : 0..MaxErrors, torn : BOOLEAN, split : BOOLEAN]
        /\ faults'.torn = faults.torn /\ faults'.errors = e
    BY <2>1, <2>2, <2>3
  <2> QED BY <2>3, <2>4 DEF e
<1>5. seen' \in Block \cup {nil}
  BY SeesBlocks DEF StoreFails
<1>6. Types'
  BY <1>2, <1>3, <1>4, <1>5 DEF IInv, Types, Others
<1>7. Locked'
  <2>1. nobody \notin Thread
    BY CommitAssumption DEF Thread, nobody
  <2>2. \A u \in Thread \ {t} : th[u].pc \notin {"saveIndex", "saveState"}
    BY <1>1, <2>1 DEF IInv, Locked
  <2> QED BY <1>3, <2>2 DEF Locked, Others
<1>8. Ran' /\ Filed'
  BY <1>2, <1>3, <1>4 DEF IInv, Ran, Filed, Others
<1>9. Linked'
  BY <1>2, <1>3, <1>4 DEF IInv, Linked, Closed, Others
<1> QED BY <1>3, <1>6, <1>7, <1>8, <1>9 DEF IInv

LEMMA AppendChainInv == ASSUME IInv, NEW t \in Thread, AppendChain(t) PROVE IInv'
<1>1. th[t].pc = "append" /\ th[t].block \in Block /\ Return(t, TRUE) /\ chain \in Seq(Block)
  BY DEF AppendChain, IInv, Working, Types
<1>2. chain' \in Seq(Block) /\ chain' # <<>>
  BY <1>1 DEF AppendChain
<1>3. UNCHANGED <<disk, db, index, total, stage, storeMu, faults, everRun, seen>>
  BY DEF AppendChain, storage
<1> QED BY <1>1, <1>2, <1>3, ReturnInv

-----------------------------------------------------------------------------
(* The boot and the crash. *)

\* A boot reads no block back: it keeps the count of chain_state.json if the
\* index was torn, and starts from nothing otherwise.
LEMMA LoadsNothing ==
    ASSUME IInv
    PROVE  /\ LoadedIndex = {}
           /\ LoadedTotal \in {0, disk.total}
           /\ ~faults.torn => LoadedTotal = 0
<1>1. LoadedIndex = {}
  BY DEF LoadedIndex, loadBlockFromDisk, NonceWritten, NonceWanted
<1>2. disk.total \in Int /\ disk.index \in SUBSET Block
  BY DEF IInv, Types
<1>3. SetMax({disk.total} \cup {b + 1 : b \in LoadedIndex}) = disk.total
  <2>1. {disk.total} \cup {b + 1 : b \in LoadedIndex} = {disk.total}
    BY <1>1
  <2>2. \A x \in {disk.total} : (\A y \in {disk.total} : y <= x) <=> x = disk.total
    BY <1>2
  <2> QED BY <2>1, <2>2 DEF SetMax
<1>4. LoadedTotal \in {0, disk.total}
  BY <1>3 DEF LoadedTotal
<1>5. ASSUME ~faults.torn PROVE LoadedTotal = 0
  <2>1. ~disk.torn /\ (disk.total # 0 => disk.total - 1 \in disk.index)
    BY <1>5 DEF IInv, Filed, Linked
  <2>2. CASE disk.index = {}
    BY <1>4, <2>1, <2>2
  <2>3. CASE disk.index # {}
    BY <1>1, <2>1, <2>3 DEF LoadedTotal
  <2> QED BY <2>2, <2>3
<1> QED BY <1>1, <1>4, <1>5

LEMMA LoadInv == ASSUME IInv, Load PROVE IInv'
<1>1. stage = "load" /\ stage' = "genesis"
      /\ UNCHANGED <<db, peerSync, peerMu, storeMu, th, page, faults, everRun, seen>>
  BY DEF Load
<1>2. \A t \in Thread : th[t].pc = "idle"
  BY <1>1 DEF IInv, Working
<1>3. LoadedIndex = {} /\ LoadedTotal \in 0..(MaxHeight + 1) /\ (~faults.torn => LoadedTotal = 0)
      /\ 0 \in Block /\ 1 \in 0..(MaxHeight + 1)
  BY LoadsNothing, CommitAssumption DEF IInv, Types, Block
<1>4. /\ index' = {0}
      /\ total' = IF LoadedTotal = 0 THEN 1 ELSE LoadedTotal
      /\ chain' = <<0>>
      /\ disk' = [disk EXCEPT !.files = @ \cup {0}, !.index = index', !.torn = FALSE, !.total = total']
  BY <1>3 DEF Load
<1>5. chain' \in Seq(Block) /\ chain' # <<>>
  BY <1>3, <1>4
<1>6. index' \in SUBSET Block /\ total' \in 0..(MaxHeight + 1)
  BY <1>3, <1>4
<1>7. /\ disk'.files = disk.files \cup {0} /\ disk'.index = index' /\ disk'.torn = FALSE /\ disk'.total = total'
      /\ disk' \in [files : SUBSET Block, index : SUBSET Block, torn : BOOLEAN, total : 0..(MaxHeight + 1)]
  <2> DEFINE F == disk.files \cup {0}
  <2>1. F \in SUBSET Block
    BY <1>3 DEF IInv, Types
  <2>2. disk' = [disk EXCEPT !.files = F, !.index = index', !.torn = FALSE, !.total = total']
    BY <1>4 DEF IInv, Types
  <2> HIDE DEF F
  <2>3. disk'.files = F /\ disk'.index = index' /\ disk'.torn = FALSE /\ disk'.total = total'
        /\ disk' \in [files : SUBSET Block, index : SUBSET Block, torn : BOOLEAN, total : 0..(MaxHeight + 1)]
    BY <1>6, <2>1, <2>2 DEF IInv, Types
  <2> QED BY <2>3 DEF F
<1>8. Types'
  BY <1>1, <1>5, <1>6, <1>7 DEF IInv, Types
<1>9. Working' /\ Locked' /\ Ran' /\ FlagNotLeaked'
  BY <1>1, <1>2, <1>5, <1>7 DEF IInv, Working, Locked, Ran, FlagNotLeaked
<1>10. Filed'
  BY <1>1, <1>4, <1>7 DEF IInv, Filed
<1>11. Linked'
  <2> SUFFICES ASSUME ~faults.torn PROVE Linked'
    BY <1>1 DEF Linked
  <2>1. index' = {0} /\ total' = 1
    BY <1>3, <1>4
  <2>2. Closed({0})
    BY DEF Closed
  <2> QED BY <1>1, <1>2, <1>7, <2>1, <2>2 DEF Linked
<1> QED BY <1>8, <1>9, <1>10, <1>11 DEF IInv

LEMMA GenesisInv ==
    ASSUME IInv, ExecuteGenesisMint \/ ExecuteGenesisDistribute
    PROVE  IInv'
<1>1. /\ stage \in {"genesis", "distribute"} /\ stage' \in {"distribute", "up"}
      /\ UNCHANGED <<disk, index, total, chain, peerSync, peerMu, storeMu, th, page, faults>>
      /\ everRun \subseteq everRun'
      /\ seen' = (IF Latest > seen THEN Latest ELSE seen) \/ seen' = seen
  BY DEF ExecuteGenesisMint, ExecuteGenesisDistribute, storage
<1>3. seen' \in Block \cup {nil}
  <2>1. CASE seen' = IF Latest > seen THEN Latest ELSE seen
    BY <2>1, SeesBlocks
  <2>2. CASE seen' = seen
    BY <2>2 DEF IInv, Types
  <2> QED BY <1>1, <2>1, <2>2
<1>4. \A t \in Thread : th[t].pc = "idle"
  BY <1>1 DEF IInv, Working
<1>5. db' \in [applied : Seq(Block), vault : Nat, alloc : BOOLEAN]
  <2>0. db \in [applied : Seq(Block), vault : Nat, alloc : BOOLEAN]
    BY DEF IInv, Types
  <2>1. CASE ExecuteGenesisMint
    <3>1. Head(chain) \in Block /\ db.applied \in Seq(Block)
      BY <1>1 DEF IInv, Types, Working
    <3>2. Executed(db, db.applied, Head(chain)) \in [applied : Seq(Block), vault : Nat, alloc : BOOLEAN]
      BY <2>0, <3>1, ExecutedIsTyped
    <3> QED BY <2>0, <2>1, <3>2 DEF ExecuteGenesisMint
  <2>2. CASE ExecuteGenesisDistribute
    <3>1. db.vault > 0 => db.vault - 1 \in Nat
      BY <2>0
    <3> DEFINE v == db.vault - 1
    <3>2. db.vault > 0 => db' = [db EXCEPT !.vault = v, !.alloc = TRUE] /\ v \in Nat
      BY <2>2, <3>1 DEF ExecuteGenesisDistribute
    <3>3. ~(db.vault > 0) => db' = db
      BY <2>2 DEF ExecuteGenesisDistribute
    <3> HIDE DEF v
    <3> QED BY <2>0, <3>2, <3>3
  <2> QED BY <2>1, <2>2
<1>6. Types'
  BY <1>1, <1>3, <1>5 DEF IInv, Types
<1>7. Working' /\ Locked' /\ Ran' /\ FlagNotLeaked'
  BY <1>1, <1>4 DEF IInv, Working, Locked, Ran, FlagNotLeaked
<1>8. Filed'
  BY <1>1 DEF IInv, Filed
<1>9. Linked'
  BY <1>1, <1>4 DEF IInv, Linked, Closed
<1> QED BY <1>6, <1>7, <1>8, <1>9 DEF IInv

LEMMA CrashInv == ASSUME IInv, Crash PROVE IInv'
<1>1. PICK tear \in {FALSE, TearsIndex} :
        /\ disk' = [disk EXCEPT !.torn = @ \/ tear]
        /\ faults' = [faults EXCEPT !.crashes = @ + 1, !.torn = @ \/ tear, !.split = @ \/ stage = "distribute"]
  BY DEF Crash
<1>2. /\ faults.crashes < MaxCrashes
      /\ stage' = "load" /\ index' = {} /\ total' = 0 /\ chain' = <<>> /\ peerSync' = FALSE
      /\ peerMu' = nobody /\ storeMu' = nobody /\ th' = [t \in Thread |-> Idle] /\ page' = {}
      /\ UNCHANGED <<db, everRun, seen>>
  BY DEF Crash
<1>3. tear \in BOOLEAN
  BY CommitAssumption
<1>4. \A t \in Thread : th'[t] = Idle /\ th'[t].pc = "idle"
  BY <1>2, IdleIsGoroutine
<1>5. /\ disk'.files = disk.files /\ disk'.index = disk.index /\ disk'.total = disk.total
      /\ disk'.torn = (disk.torn \/ tear)
      /\ disk' \in [files : SUBSET Block, index : SUBSET Block, torn : BOOLEAN, total : 0..(MaxHeight + 1)]
  <2> DEFINE d == disk.torn \/ tear
  <2>1. disk \in [files : SUBSET Block, index : SUBSET Block, torn : BOOLEAN, total : 0..(MaxHeight + 1)]
    BY DEF IInv, Types
  <2>2. disk' = [disk EXCEPT !.torn = d] /\ d \in BOOLEAN
    BY <1>1, <1>3, <2>1
  <2> HIDE DEF d
  <2>3. /\ disk'.files = disk.files /\ disk'.index = disk.index /\ disk'.total = disk.total /\ disk'.torn = d
        /\ disk' \in [files : SUBSET Block, index : SUBSET Block, torn : BOOLEAN, total : 0..(MaxHeight + 1)]
    BY <2>1, <2>2
  <2> QED BY <2>3 DEF d
<1>6. /\ faults'.torn = (faults.torn \/ tear) /\ faults'.errors = faults.errors
      /\ faults' \in [crashes : 0..MaxCrashes, errors : 0..MaxErrors, torn : BOOLEAN, split : BOOLEAN]
  <2> DEFINE f == faults.torn \/ tear
             g == faults.split \/ stage = "distribute"
             c == faults.crashes + 1
  <2>1. faults \in [crashes : 0..MaxCrashes, errors : 0..MaxErrors, torn : BOOLEAN, split : BOOLEAN]
    BY DEF IInv, Types
  <2>2. faults' = [faults EXCEPT !.crashes = c, !.torn = f, !.split = g]
    BY <1>1, <2>1
  <2>3. c \in 0..MaxCrashes /\ f \in BOOLEAN /\ g \in BOOLEAN
    <3>1. c \in 0..MaxCrashes
      BY <1>2, <2>1, CommitAssumption
    <3>2. f \in BOOLEAN
      BY <1>3, <2>1
    <3>3. g \in BOOLEAN
      BY <2>1
    <3> QED BY <3>1, <3>2, <3>3
  <2> HIDE DEF c, f, g
  <2>4. /\ faults'.torn = f /\ faults'.errors = faults.errors
        /\ faults' \in [crashes : 0..MaxCrashes, errors : 0..MaxErrors, torn : BOOLEAN, split : BOOLEAN]
    BY <2>1, <2>2, <2>3
  <2> QED BY <2>4 DEF f
<1>7. Types'
  <2>1. th' \in [Thread -> Goroutine]
    BY <1>2, IdleIsGoroutine
  <2>2. total' \in 0..(MaxHeight + 1)
    BY <1>2, CommitAssumption
  <2>3. chain' \in Seq(Block)
    BY <1>2
  <2>4. index' \in SUBSET Block /\ page' \in SUBSET Block
    BY <1>2
  <2>5. stage' \in {"load", "genesis", "distribute", "up"} /\ peerSync' \in BOOLEAN
        /\ peerMu' \in Thread \cup {nobody} /\ storeMu' \in Thread \cup {nobody}
    BY <1>2, Zenon
  <2>6. /\ db' \in [applied : Seq(Block), vault : Nat, alloc : BOOLEAN]
        /\ seen' \in Block \cup {nil}
    BY <1>2 DEF IInv, Types
  <2> QED BY <1>5, <1>6, <2>1, <2>2, <2>3, <2>4, <2>5, <2>6, Zenon DEF Types
<1>8. Working' /\ Locked'
  BY <1>2, <1>4 DEF Working, Locked
<1>9. Ran' /\ FlagNotLeaked'
  BY <1>2, <1>4, <1>5 DEF IInv, Ran, FlagNotLeaked
<1>10. Filed'
  BY <1>2, <1>5, <1>6 DEF IInv, Filed
<1>11. Linked'
  BY <1>2, <1>4, <1>5, <1>6 DEF IInv, Linked, Closed
<1> QED BY <1>7, <1>8, <1>9, <1>10, <1>11 DEF IInv

LEMMA NextInv == IInv /\ [Next]_vars => IInv'
<1> SUFFICES ASSUME IInv, [Next]_vars PROVE IInv'
  OBVIOUS
<1>1. CASE Boot
  BY <1>1, LoadInv, GenesisInv DEF Boot
<1>2. CASE Sync
  BY <1>2, SyncInv
<1>3. CASE \E b \in Block : ConsensusCommits(b)
  BY <1>3, ConsensusCommitsInv
<1>4. CASE \E t \in Peers, b \in Block : AddBlockFromPeer(t, b)
  BY <1>4, AddBlockFromPeerInv
<1>5. CASE \E t \in Thread : Step(t)
  BY <1>5, CheckDuplicateInv, ExecuteReadInv, ExecuteWriteInv, StoreFileInv, SaveIndexInv,
     SaveStateInv, AppendChainInv DEF Step
<1>6. CASE \E t \in Thread : StoreFails(t)
  BY <1>6, StoreFailsInv
<1>7. CASE Crash
  BY <1>7, CrashInv
<1>8. CASE UNCHANGED vars
  <2>1. UNCHANGED <<disk, db, index, total, chain, stage, peerSync, peerMu, storeMu, th, page, faults, everRun, seen>>
    BY <1>8 DEF vars
  <2>2. page' \in SUBSET Block
    BY <2>1 DEF IInv, Types
  <2> QED BY <2>1, <2>2, StaysInv
<1> QED BY <1>1, <1>2, <1>3, <1>4, <1>5, <1>6, <1>7, <1>8 DEF Next

LEMMA Invariance == Spec => []IInv
  BY InitInv, NextInv, PTL DEF Spec

-----------------------------------------------------------------------------
(* The theorems. *)

\* The node's memory, its files and its database keep their types, and the
\* heights their bound (CommitBlock, StoreBlock and the boot sequence).
THEOREM CommitIsTyped == Spec => []TypeOK
<1>1. IInv => TypeOK
  BY DEF IInv, Types, TypeOK, Goroutine
<1> QED BY <1>1, Invariance, PTL

\* The block storage has no gap, neither in memory nor in the index on disk,
\* however many goroutines add blocks, crashes come and saves fail.
THEOREM IndexStaysLinked == Spec => []IndexLinked
<1>1. IInv => IndexLinked
  BY DEF IInv, Linked, Closed, IndexLinked
<1> QED BY <1>1, Invariance, PTL

\* CommitBlock stores no block it has not executed first.
THEOREM StoredBlocksWereExecuted == Spec => []StoredWasExecuted
<1>1. IInv => StoredWasExecuted
  BY DEF IInv, Ran, StoredWasExecuted
<1> QED BY <1>1, Invariance, PTL

\* peerSyncInProgress is set only while some peer block is being added.
THEOREM FlagIsNotLeaked == Spec => []FlagNotLeaked
<1>1. IInv => FlagNotLeaked
  BY DEF IInv
<1> QED BY <1>1, Invariance, PTL

-----------------------------------------------------------------------------
(* The genesis supply. *)

\* No crash came between the two commits of a boot, and the first allocation is
\* unspent.
Sound == ~faults.split /\ everRun \cap Spends = {}

\* CommitBlock's guard turns the genesis block away.
Placed == \A t \in Thread : th[t].pc \in {"exec", "write"} => th[t].block # 0

\* A minted genesis block shows in the accounts: the first allocation has a
\* balance, or the second commit is about to give it one.
Shown == db.alloc \/ (stage = "distribute" /\ db.vault > 0)

\* An execution under way has read as many mints as there are.
Minting ==
    Sound =>
        /\ Count(0, db.applied) <= 1
        /\ \A t \in Thread : th[t].pc = "write" => Count(0, th[t].snap) = Count(0, db.applied)
        /\ Count(0, db.applied) > 0 => Shown

MintInv == IInv /\ Placed /\ Minting

\* How an execution changes the number of genesis mints.
LEMMA CountAppend ==
    ASSUME NEW s \in Seq(Block), NEW b \in Block
    PROVE  /\ Count(0, s) \in Nat
           /\ Count(0, Append(s, b)) = IF b = 0 THEN Count(0, s) + 1 ELSE Count(0, s)
<1> DEFINE S == {i \in DOMAIN s : s[i] = 0}
           T == {i \in DOMAIN Append(s, b) : Append(s, b)[i] = 0}
           n == Len(s) + 1
<1>1. /\ Len(s) \in Nat /\ DOMAIN s = 1..Len(s)
      /\ DOMAIN Append(s, b) = 1..n
      /\ Append(s, b)[n] = b
      /\ \A i \in 1..Len(s) : Append(s, b)[i] = s[i]
  OBVIOUS
<1>2. S \subseteq 1..Len(s) /\ n \notin S
  BY <1>1
<1>3. IsFiniteSet(S)
  <2> HIDE DEF S
  <2>1. IsFiniteSet(1..Len(s))
    BY <1>1, FS_Interval
  <2> QED BY <1>2, <2>1, FS_Subset
<1>4. Cardinality(S) \in Nat
  BY <1>3, FS_CardinalityType
<1>5. CASE b = 0
  <2>1. T = S \cup {n}
    BY <1>1, <1>5
  <2>2. Cardinality(S \cup {n}) = Cardinality(S) + 1
    BY <1>2, <1>3, FS_AddElement
  <2> QED BY <1>4, <1>5, <2>1, <2>2 DEF Count
<1>6. CASE b # 0
  <2>1. T = S
    BY <1>1, <1>6
  <2> QED BY <1>4, <1>6, <2>1 DEF Count
<1> QED BY <1>5, <1>6

\* A step of a goroutine that does not write to the accounts.
LEMMA MintMoves ==
    ASSUME MintInv, NEW t \in Thread, Others(t),
           UNCHANGED <<db, stage, everRun>>, faults'.split = faults.split,
           th'[t].pc \in {"exec", "write"} => th'[t].block # 0,
           th'[t].pc = "write" => th'[t].snap = db.applied
    PROVE  Placed' /\ Minting'
<1>1. Placed'
  BY DEF MintInv, Placed, Others
<1>2. Sound' = Sound /\ Shown' = Shown
  BY DEF Sound, Shown
<1>3. Sound => \A u \in Thread : th'[u].pc = "write" => Count(0, th'[u].snap) = Count(0, db.applied)
  BY DEF MintInv, Minting, Others
<1>4. Minting'
  BY <1>2, <1>3 DEF MintInv, Minting
<1> QED BY <1>1, <1>4

LEMMA CallersMint ==
    ASSUME MintInv,
           \/ Sync
           \/ \E b \in Block : ConsensusCommits(b)
           \/ \E t \in Peers, b \in Block : AddBlockFromPeer(t, b)
    PROVE  Placed' /\ Minting'
<1>0. UNCHANGED <<db, stage, faults, everRun>>
  BY DEF Sync, SyncFetch, SyncAdd, SyncFallback, SyncImport, ConsensusCommits, AddBlockFromPeer
<1>1. ASSUME NEW t \in Thread, NEW b \in Block, Free(t), NEW pc \in {"commit", "fallback"},
             NEW via \in {"consensus", "peer", "import"}, th' = [th EXCEPT ![t] = Call(pc, b, via)]
      PROVE  Placed' /\ Minting'
  <2>1. th \in [Thread -> Goroutine] /\ th[t].pc = "idle"
    BY <1>1 DEF Free, MintInv, IInv, Types
  <2>2. Others(t) /\ th'[t].pc = pc
    <3>1. Call(pc, b, via) \in Goroutine /\ Call(pc, b, via).pc = pc
      BY CallIsGoroutine
    <3> QED BY <1>1, <2>1, <3>1, Replaces
  <2> QED BY <1>0, <2>1, <2>2, MintMoves
<1>2. ASSUME UNCHANGED th PROVE Placed' /\ Minting'
  BY <1>0, <1>2 DEF MintInv, Placed, Minting, Shown, Sound
<1>3. "sync" \in Thread /\ "consensus" \in Thread /\ Peers \subseteq Thread
      /\ th \in [Thread -> Goroutine] /\ page \subseteq Block
  BY DEF Thread, MintInv, IInv, Types
<1>4. CASE \E b \in Block : ConsensusCommits(b)
  BY <1>1, <1>3, <1>4 DEF ConsensusCommits
<1>5. CASE \E t \in Peers, b \in Block : AddBlockFromPeer(t, b)
  BY <1>1, <1>3, <1>5 DEF AddBlockFromPeer, EnterPeer
<1>6. CASE SyncFetch
  BY <1>2, <1>6 DEF SyncFetch
<1>7. CASE SyncAdd
  BY <1>1, <1>2, <1>3, <1>7 DEF SyncAdd, EnterPeer, Fallback
<1>8. CASE SyncFallback
  <2>1. Proceeds("sync", "import") /\ th["sync"].pc = "fallback"
    BY <1>3, <1>8, SetsPc DEF SyncFallback
  <2> QED BY <1>0, <1>3, <2>1, MintMoves DEF Proceeds
<1>9. CASE SyncImport
  <2>1. th["sync"].pc = "import"
    BY <1>9 DEF SyncImport
  <2>2. CASE th' = [th EXCEPT !["sync"].pc = "commit"]
    <3>1. Proceeds("sync", "commit")
      BY <1>3, <2>2, SetsPc
    <3> QED BY <1>0, <1>3, <2>1, <3>1, MintMoves DEF Proceeds
  <2>3. CASE th' = [th EXCEPT !["sync"] = Idle]
    <3>1. Others("sync") /\ th'["sync"].pc = "idle"
      BY <1>3, <2>3, Replaces, IdleIsGoroutine
    <3> QED BY <1>0, <1>3, <2>1, <3>1, MintMoves
  <2> QED BY <1>9, <2>2, <2>3 DEF SyncImport
<1> QED BY <1>4, <1>5, <1>6, <1>7, <1>8, <1>9 DEF Sync

\* CommitBlock up to the execution, and after it.
LEMMA CommitsMint ==
    ASSUME MintInv, NEW t \in Thread,
           CheckDuplicate(t) \/ ExecuteRead(t) \/ StoreFile(t) \/ SaveIndex(t) \/ SaveState(t) \/ AppendChain(t)
    PROVE  Placed' /\ Minting'
<1>0. stage = "up" /\ UNCHANGED <<db, stage, faults, everRun>> /\ th[t].pc # "idle"
  BY DEF CheckDuplicate, ExecuteRead, StoreFile, SaveIndex, SaveState, AppendChain
<1>1. th \in [Thread -> Goroutine] /\ th[t] \in Goroutine /\ th[t].block \in Block
      /\ chain \in Seq(Block) /\ chain # <<>> /\ db.applied \in Seq(Block)
  BY <1>0 DEF MintInv, IInv, Types, Working
<1>2. ASSUME NEW ok \in BOOLEAN, Return(t, ok) PROVE Placed' /\ Minting'
  <2>1. Fallback(th[t].block) \in Goroutine /\ Fallback(th[t].block).pc = "fallback"
    BY <1>1, FallsBack
  <2>2. Others(t) /\ th'[t].pc \in {"idle", "fallback"}
    BY <1>1, <1>2, <2>1, Replaces, IdleIsGoroutine DEF Return
  <2> QED BY <1>0, <2>2, MintMoves
<1>3. CASE CheckDuplicate(t)
  <2>1. CASE AlreadyCommitted(th[t].block)
    BY <1>2, <1>3, <2>1 DEF CheckDuplicate
  <2>2. CASE ~AlreadyCommitted(th[t].block)
    <3>1. chain[Len(chain)] \in Block
      BY <1>1
    <3>2. th[t].block # 0
      BY <1>1, <2>2, <3>1 DEF AlreadyCommitted, Block
    <3>3. Proceeds(t, "exec")
      BY <1>1, <1>3, <2>2, SetsPc DEF CheckDuplicate
    <3> QED BY <1>0, <3>2, <3>3, MintMoves DEF Proceeds
  <2> QED BY <2>1, <2>2
<1>4. CASE ExecuteRead(t)
  <2>1. CASE Return(t, FALSE)
    BY <1>2, <2>1
  <2>2. CASE th' = [th EXCEPT ![t].pc = "write", ![t].snap = db.applied]
    <3>1. th[t].block # 0
      BY <1>4 DEF ExecuteRead, MintInv, Placed
    <3>2. th'[t] = [th[t] EXCEPT !.pc = "write", !.snap = db.applied]
      BY <1>1, <2>2
    <3>3. /\ th'[t] \in Goroutine
          /\ th'[t].pc = "write" /\ th'[t].block = th[t].block /\ th'[t].snap = db.applied
      BY <1>1, <3>2 DEF Goroutine
    <3>4. th' = [u \in Thread |-> IF u = t THEN th'[t] ELSE th[u]]
      BY <1>1, <2>2
    <3>5. Others(t)
      BY <1>1, <3>3, <3>4 DEF Others
    <3> QED BY <1>0, <3>1, <3>3, <3>5, MintMoves
  <2> QED BY <1>4, <2>1, <2>2 DEF ExecuteRead
<1>5. CASE StoreFile(t) \/ SaveIndex(t) \/ SaveState(t)
  <2>1. PICK pc \in {"append", "saveIndex", "saveState"} : th' = [th EXCEPT ![t].pc = pc]
    BY <1>5 DEF StoreFile, SaveIndex, SaveState
  <2>2. Proceeds(t, pc)
    BY <1>1, <2>1, SetsPc
  <2> QED BY <1>0, <2>2, MintMoves DEF Proceeds
<1>6. CASE AppendChain(t)
  BY <1>2, <1>6 DEF AppendChain
<1> QED BY <1>3, <1>4, <1>5, <1>6

\* The execution is written back: the block is not the genesis block, and the
\* first allocation keeps its balance unless the block spends it.
LEMMA ExecuteWriteMint == ASSUME MintInv, NEW t \in Thread, ExecuteWrite(t) PROVE Placed' /\ Minting'
<1> DEFINE b == th[t].block
           s == th[t].snap
<1>1. th[t].pc = "write" /\ th[t] \in Goroutine /\ b \in Block /\ s \in Seq(Block) /\ b # 0
  <2>1. th[t].pc = "write"
    BY DEF ExecuteWrite
  <2>2. th[t] \in Goroutine
    BY DEF MintInv, IInv, Types
  <2> QED BY <2>1, <2>2 DEF MintInv, IInv, Working, Placed, Goroutine
<1>2. UNCHANGED <<stage, faults>> /\ stage = "up" /\ everRun' = everRun \cup {b}
  BY DEF ExecuteWrite
<1>3. db'.applied = Append(s, b) /\ (db.alloc /\ b \notin Spends => db'.alloc)
  BY DEF ExecuteWrite, Executed
<1>4. Others(t) /\ th'[t].pc = "store" /\ th'[t].block = b
  <2>1. th' = [th EXCEPT ![t].pc = "store", ![t].snap = <<>>] /\ th \in [Thread -> Goroutine]
    BY DEF ExecuteWrite, MintInv, IInv, Types
  <2> DEFINE none == <<>>
  <2>2. th'[t] = [th[t] EXCEPT !.pc = "store", !.snap = none] /\ none \in Seq(Block)
    BY <2>1
  <2>3. th' = [u \in Thread |-> IF u = t THEN th'[t] ELSE th[u]]
    BY <2>1
  <2> HIDE DEF none
  <2>4. th'[t] \in Goroutine /\ th'[t].pc = "store" /\ th'[t].block = b
    BY <1>1, <2>2 DEF Goroutine
  <2> QED BY <2>1, <2>3, <2>4 DEF Others
<1> HIDE DEF b, s
<1>5. Placed'
  BY <1>1, <1>2, <1>4 DEF MintInv, Placed, Others
<1>6. Minting'
  <2> SUFFICES ASSUME Sound' PROVE Minting'
    BY DEF Minting
  <2>1. Sound /\ b \notin Spends
    BY <1>2 DEF Sound
  <2>2. Count(0, db'.applied) = Count(0, db.applied)
    <3>1. Count(0, Append(s, b)) = Count(0, s)
      BY <1>1, CountAppend
    <3>2. Count(0, s) = Count(0, db.applied)
      BY <1>1, <2>1 DEF MintInv, Minting, s
    <3> QED BY <1>3, <3>1, <3>2
  <2>3. Shown => Shown'
    BY <1>2, <1>3, <2>1 DEF Shown
  <2>4. \A u \in Thread : th'[u].pc = "write" => Count(0, th'[u].snap) = Count(0, db.applied)
    BY <1>4, <2>1 DEF MintInv, Minting, Others
  <2> QED BY <2>1, <2>2, <2>3, <2>4 DEF MintInv, Minting
<1> QED BY <1>5, <1>6

LEMMA StoreFailsMint == ASSUME MintInv, NEW t \in Thread, StoreFails(t) PROVE Placed' /\ Minting'
<1>1. /\ th[t].pc \in {"store", "saveIndex", "saveState"} /\ Return(t, FALSE)
      /\ UNCHANGED <<db, stage, everRun>>
  BY DEF StoreFails
<1>2. th \in [Thread -> Goroutine] /\ th[t].block \in Block
  BY <1>1 DEF MintInv, IInv, Types, Working
<1>3. Others(t) /\ th'[t].pc \in {"idle", "fallback"}
  <2>1. Fallback(th[t].block) \in Goroutine /\ Fallback(th[t].block).pc = "fallback"
    BY <1>2, FallsBack
  <2> QED BY <1>1, <1>2, <2>1, Replaces, IdleIsGoroutine DEF Return
<1>4. faults'.split = faults.split
  BY DEF StoreFails, MintInv, IInv, Types
<1> QED BY <1>1, <1>3, <1>4, MintMoves

LEMMA CrashMint == ASSUME MintInv, Crash PROVE Placed' /\ Minting'
<1>1. PICK tear \in {FALSE, TearsIndex} :
        faults' = [faults EXCEPT !.crashes = @ + 1, !.torn = @ \/ tear, !.split = @ \/ stage = "distribute"]
  BY DEF Crash
<1>2. th' = [t \in Thread |-> Idle] /\ UNCHANGED <<db, everRun>>
  BY DEF Crash
<1>3. \A t \in Thread : th'[t].pc = "idle"
  BY <1>2, IdleIsGoroutine
<1>4. faults'.split = (faults.split \/ stage = "distribute")
  <2> DEFINE f == faults.torn \/ tear
             g == faults.split \/ stage = "distribute"
             c == faults.crashes + 1
  <2>1. faults \in [crashes : 0..MaxCrashes, errors : 0..MaxErrors, torn : BOOLEAN, split : BOOLEAN]
    BY DEF MintInv, IInv, Types
  <2>2. faults' = [faults EXCEPT !.crashes = c, !.torn = f, !.split = g]
    BY <1>1, <2>1
  <2> HIDE DEF c, f, g
  <2>3. faults'.split = g
    BY <2>1, <2>2
  <2> QED BY <2>3 DEF g
<1>5. Placed'
  BY <1>3 DEF Placed
<1>6. Minting'
  <2> SUFFICES ASSUME Sound' PROVE Minting'
    BY DEF Minting
  <2>1. Sound /\ stage # "distribute"
    BY <1>2, <1>4 DEF Sound
  <2>2. Shown => Shown'
    BY <1>2, <2>1 DEF Shown
  <2> QED BY <1>2, <1>3, <2>1, <2>2 DEF MintInv, Minting
<1> QED BY <1>5, <1>6

LEMMA LoadMint == ASSUME MintInv, Load PROVE Placed' /\ Minting'
<1>1. stage = "load" /\ stage' = "genesis" /\ UNCHANGED <<db, th, faults, everRun>>
  BY DEF Load
<1>2. Sound' = Sound /\ (Shown => Shown')
  BY <1>1 DEF Sound, Shown
<1> QED BY <1>1, <1>2 DEF MintInv, Placed, Minting

\* ExecuteGenesisBlock executes chain[0] only if the first allocation has no
\* balance, that is, if nothing was minted.
LEMMA GenesisMint ==
    ASSUME MintInv, ExecuteGenesisMint \/ ExecuteGenesisDistribute
    PROVE  Placed' /\ Minting'
<1>1. /\ stage \in {"genesis", "distribute"} /\ everRun \subseteq everRun'
      /\ UNCHANGED <<th, faults>>
  BY DEF ExecuteGenesisMint, ExecuteGenesisDistribute
<1>2. \A t \in Thread : th[t].pc = "idle"
  BY <1>1 DEF MintInv, IInv, Working
<1>3. Placed'
  BY <1>1, <1>2 DEF Placed
<1>4. db \in [applied : Seq(Block), vault : Nat, alloc : BOOLEAN]
  BY DEF MintInv, IInv, Types
<1>5. ASSUME Sound PROVE Count(0, db'.applied) <= 1 /\ (Count(0, db'.applied) > 0 => Shown')
  <2>1. Count(0, db.applied) <= 1 /\ (Count(0, db.applied) > 0 => Shown)
    BY <1>5 DEF MintInv, Minting
  <2>2. CASE ExecuteGenesisMint /\ stage' = "up"
    <3>1. stage = "genesis" /\ db' = db
      BY <2>2 DEF ExecuteGenesisMint
    <3> QED BY <2>1, <3>1 DEF Shown
  <2>3. CASE ExecuteGenesisMint /\ stage' # "up"
    <3> DEFINE h == Head(chain)
    <3>1. /\ stage = "genesis" /\ ~db.alloc /\ stage' = "distribute"
          /\ db' = Executed(db, db.applied, h)
      BY <2>3 DEF ExecuteGenesisMint
    <3>2. h \in Block
      BY <1>1 DEF MintInv, IInv, Types, Working
    <3>3. db'.applied = Append(db.applied, h) /\ (h = 0 => db'.vault = db.vault + 1)
      BY <3>1 DEF Executed
    <3>4. /\ Count(0, db.applied) \in Nat
          /\ Count(0, db'.applied) = IF h = 0 THEN Count(0, db.applied) + 1 ELSE Count(0, db.applied)
      BY <1>4, <3>2, <3>3, CountAppend
    <3>5. Count(0, db.applied) = 0
      BY <2>1, <3>1, <3>4 DEF Shown
    <3> HIDE DEF h
    <3> QED BY <1>4, <3>1, <3>3, <3>4, <3>5 DEF Shown
  <2>4. CASE ExecuteGenesisDistribute
    <3>1. CASE db.vault > 0
      <4>1. db'.applied = db.applied /\ db'.alloc = TRUE
        BY <1>4, <2>4, <3>1 DEF ExecuteGenesisDistribute
      <4> QED BY <2>1, <4>1 DEF Shown
    <3>2. CASE ~(db.vault > 0)
      <4>1. db' = db
        BY <2>4, <3>2 DEF ExecuteGenesisDistribute
      <4> QED BY <2>1, <3>2, <4>1 DEF Shown
    <3> QED BY <3>1, <3>2
  <2> QED BY <2>2, <2>3, <2>4
<1>6. Minting'
  <2> SUFFICES ASSUME Sound' PROVE Minting'
    BY DEF Minting
  <2>1. Sound
    BY <1>1 DEF Sound
  <2> QED BY <1>1, <1>2, <1>5, <2>1 DEF Minting
<1> QED BY <1>3, <1>6

LEMMA MintInvariance == Spec => []MintInv
<1>1. Init => MintInv
  <2> SUFFICES ASSUME Init PROVE MintInv
    OBVIOUS
  <2>1. \A t \in Thread : th[t].pc = "idle"
    BY IdleIsGoroutine DEF Init
  <2>2. Placed
    BY <2>1 DEF Init, Placed
  <2>3. Count(0, db.applied) = 0
    <3>1. {i \in DOMAIN db.applied : db.applied[i] = 0} = {}
      BY DEF Init
    <3> QED BY <3>1, FS_EmptySet DEF Count
  <2>4. Minting
    <3>1. (\A t \in Thread : th[t].pc # "write") /\ Count(0, db.applied) <= 1
          /\ ~(Count(0, db.applied) > 0)
      BY <2>1, <2>3 DEF Init
    <3> QED BY <3>1 DEF Minting
  <2> QED BY <2>2, <2>4, InitInv DEF MintInv
<1>2. MintInv /\ [Next]_vars => MintInv'
  <2> SUFFICES ASSUME MintInv, [Next]_vars PROVE Placed' /\ Minting'
    BY NextInv DEF MintInv
  <2>1. CASE Boot
    BY <2>1, LoadMint, GenesisMint DEF Boot
  <2>2. CASE \/ Sync
             \/ \E b \in Block : ConsensusCommits(b)
             \/ \E t \in Peers, b \in Block : AddBlockFromPeer(t, b)
    BY <2>2, CallersMint
  <2>3. CASE \E t \in Thread : Step(t)
    BY <2>3, CommitsMint, ExecuteWriteMint DEF Step
  <2>4. CASE \E t \in Thread : StoreFails(t)
    BY <2>4, StoreFailsMint
  <2>5. CASE Crash
    BY <2>5, CrashMint
  <2>6. CASE UNCHANGED vars
    BY <2>6 DEF vars, MintInv, Placed, Minting, Shown, Sound
  <2> QED BY <2>1, <2>2, <2>3, <2>4, <2>5, <2>6 DEF Next
<1> QED BY <1>1, <1>2, PTL DEF Spec

\* ExecuteGenesisBlock mints the genesis supply at most once, over any number
\* of boots, as long as no block has spent the first allocation and no crash
\* came between the two commits of a boot.
THEOREM GenesisIsMintedOnce == Spec => []GenesisMintedOnce
<1>1. MintInv => GenesisMintedOnce
  BY DEF MintInv, Minting, Sound, GenesisMintedOnce
<1> QED BY <1>1, MintInvariance, PTL

=============================================================================
