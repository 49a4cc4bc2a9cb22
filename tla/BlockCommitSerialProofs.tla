--------------------- MODULE BlockCommitSerialProofs ------------------------
(***************************************************************************)
(* The goroutines that hold addFromPeerMu execute a height at most once in *)
(* one run of the node, whatever the consensus engine and the sync loop's  *)
(* ImportBlock do without it: SerialInv, of which Once is the last         *)
(* conjunct, is inductive.                                                 *)
(***************************************************************************)
EXTENDS BlockCommitProofs

-----------------------------------------------------------------------------
(* The inductive invariant. *)

\* The block count is above every block stored.
Stocked == \A b \in index : b < total

\* The goroutine that adds a peer block holds addFromPeerMu.
Held == \A t \in Thread : th[t].via = "peer" <=> peerMu = t

Tally == executed \in [Block -> Nat]

Quiet == faults.errors = 0 /\ ~faults.torn

\* A peer block that was executed is in the index, or its goroutine is about to
\* put it there.
Kept ==
    \A b \in Block : executed[b] > 0 =>
        \/ b \in index
        \/ \E t \in Thread : th[t].via = "peer" /\ th[t].pc = "store" /\ th[t].block = b

\* The peer block under way is new.
Fresh ==
    \A t \in Thread :
        th[t].via = "peer" /\ th[t].pc \in {"commit", "exec", "write"} => executed[th[t].block] = 0

Once == \A b \in Block : executed[b] <= 1

SerialInv == IInv /\ Stocked /\ Held /\ Tally /\ (Quiet => Kept /\ Fresh /\ Once)

Preserved == Stocked' /\ Held' /\ Tally' /\ (Quiet' => Kept' /\ Fresh' /\ Once')

-----------------------------------------------------------------------------
(* One goroutine moves. *)

LEMMA NobodyIsNoThread == nobody \notin Thread /\ "sync" \in Thread /\ "consensus" \in Thread
  BY CommitAssumption DEF Thread, nobody

\* A step that executes nothing: a block about to be stored is stored, or stays
\* so, or its save has failed.
LEMMA SerialMoves ==
    ASSUME SerialInv, NEW t \in Thread, Others(t), executed' = executed, index \subseteq index',
           Stocked', Held', Quiet' => Quiet,
           Quiet' /\ th'[t].via = "peer" /\ th'[t].pc \in {"commit", "exec", "write"}
               => executed[th'[t].block] = 0,
           Quiet' /\ th[t].via = "peer" /\ th[t].pc = "store" => th[t].block \in index'
    PROVE  Preserved
<1>1. Tally'
  BY DEF SerialInv, Tally
<1>2. ASSUME Quiet' PROVE Kept' /\ Fresh' /\ Once'
  <2>1. Kept /\ Fresh /\ Once
    BY <1>2 DEF SerialInv
  <2>2. Kept'
    <3> SUFFICES ASSUME NEW b \in Block, executed[b] > 0
                 PROVE  \/ b \in index'
                        \/ \E u \in Thread : th'[u].via = "peer" /\ th'[u].pc = "store" /\ th'[u].block = b
      BY DEF Kept
    <3>1. CASE b \in index
      BY <3>1
    <3>2. CASE b \notin index
      <4>1. PICK u \in Thread : th[u].via = "peer" /\ th[u].pc = "store" /\ th[u].block = b
        BY <2>1, <3>2 DEF Kept
      <4>2. CASE u = t
        BY <1>2, <4>1, <4>2
      <4>3. CASE u # t
        BY <4>1, <4>3 DEF Others
      <4> QED BY <4>2, <4>3
    <3> QED BY <3>1, <3>2
  <2>3. Fresh'
    BY <1>2, <2>1 DEF Fresh, Others
  <2> QED BY <2>1, <2>2, <2>3 DEF Once
<1> QED BY <1>1, <1>2 DEF Preserved

\* CommitBlock goes on for the same caller.
LEMMA SerialProceeds ==
    ASSUME SerialInv, NEW t \in Thread, NEW pc, Proceeds(t, pc), pc # "store",
           UNCHANGED <<peerMu, faults, executed>>, index \subseteq index', Stocked',
           pc \in {"commit", "exec", "write"} /\ th[t].via = "peer" => th[t].pc \in {"commit", "exec", "write"},
           th[t].pc = "store" => th[t].block \in index'
    PROVE  Preserved
<1>1. Others(t) /\ th'[t].pc = pc /\ th'[t].block = th[t].block /\ th'[t].via = th[t].via
  BY DEF Proceeds
<1>2. Held'
  BY <1>1 DEF SerialInv, Held, Others
<1>3. Quiet' = Quiet
  BY DEF Quiet
<1>4. Quiet /\ th'[t].via = "peer" /\ th'[t].pc \in {"commit", "exec", "write"} => executed[th'[t].block] = 0
  BY <1>1 DEF SerialInv, Fresh
<1> QED BY <1>1, <1>2, <1>3, <1>4, SerialMoves

\* Return lets go of the lock exactly if it is held.
LEMMA SerialReturns ==
    ASSUME SerialInv, NEW t \in Thread, NEW ok \in BOOLEAN, Return(t, ok), th[t].pc # "idle",
           UNCHANGED <<index, total, executed>>, Quiet' => Quiet /\ th[t].pc # "store"
    PROVE  Preserved
<1> DEFINE r == IF t = "sync" /\ ~ok /\ th[t].via = "peer" THEN Fallback(th[t].block) ELSE Idle
<1>1. th \in [Thread -> Goroutine] /\ th[t].block \in Block
  BY DEF SerialInv, IInv, Types, Working
<1>2. r \in Goroutine /\ r.via \in {"none", "import"}
  <2>1. Idle \in Goroutine /\ Idle.via = "none"
    BY DEF Idle, Call, Goroutine
  <2> QED BY <1>1, <2>1, FallsBack
<1>3. th' = [th EXCEPT ![t] = r] /\ peerMu' = IF th[t].via = "peer" THEN nobody ELSE peerMu
  BY DEF Return
<1> HIDE DEF r
<1>4. Others(t) /\ th'[t].via \in {"none", "import"}
  BY <1>1, <1>2, <1>3, Replaces
<1>5. Held'
  BY <1>3, <1>4, NobodyIsNoThread DEF SerialInv, Held, Others
<1>6. Stocked'
  BY DEF SerialInv, Stocked
<1> QED BY <1>4, <1>5, <1>6, SerialMoves

\* A free goroutine takes a block, and the lock with it if it is a peer's.
LEMMA SerialEnters ==
    ASSUME SerialInv, NEW t \in Thread, Free(t), NEW b \in Block,
           NEW pc \in {"commit", "fallback"}, NEW via \in {"consensus", "peer", "import"},
           th' = [th EXCEPT ![t] = Call(pc, b, via)],
           IF via = "peer" THEN peerMu = nobody /\ peerMu' = t /\ Acceptable(b) ELSE peerMu' = peerMu,
           UNCHANGED <<index, total, faults, executed>>
    PROVE  Preserved
<1>1. /\ Call(pc, b, via) \in Goroutine
      /\ Call(pc, b, via).pc = pc /\ Call(pc, b, via).block = b /\ Call(pc, b, via).via = via
  BY CallIsGoroutine
<1>2. Others(t) /\ th'[t] = Call(pc, b, via)
  BY <1>1, Replaces DEF SerialInv, IInv, Types
<1>3. th[t].via = "none" /\ th[t].pc = "idle"
  BY DEF SerialInv, IInv, Working, Free, Idle, Call
<1>4. Held'
  BY <1>1, <1>2, <1>3, NobodyIsNoThread DEF SerialInv, Held, Others
<1>5. Stocked' /\ Quiet' = Quiet
  BY DEF SerialInv, Stocked, Quiet
<1>6. ASSUME Quiet, via = "peer" PROVE executed[b] = 0
  <2>1. total - 1 \in index /\ total \in Nat
    BY <1>6 DEF SerialInv, IInv, Types, Linked, Quiet, Free
  <2>2. b = total
    <3>1. total - 1 \in Nat
      BY <2>1 DEF SerialInv, IInv, Types, Block
    <3>2. Latest = total - 1 /\ Latest # nil
      BY <2>1, <3>1 DEF Latest, nil
    <3>3. Acceptable(b)
      BY <1>6
    <3> QED BY <2>1, <3>2, <3>3 DEF Acceptable
  <2>3. b \notin index
    BY <2>1, <2>2 DEF SerialInv, Stocked
  <2>4. \A u \in Thread : th[u].via # "peer"
    BY <1>6, NobodyIsNoThread DEF SerialInv, Held
  <2>5. ~(executed[b] > 0) /\ executed[b] \in Nat
    BY <1>6, <2>3, <2>4 DEF SerialInv, Kept, Tally
  <2> QED BY <2>5
<1> QED BY <1>1, <1>2, <1>3, <1>4, <1>5, <1>6, SerialMoves

\* The goroutines stay where they are.
LEMMA SerialStays ==
    ASSUME SerialInv, UNCHANGED <<th, peerMu, faults, executed>>, index \subseteq index', Stocked'
    PROVE  Preserved
  BY DEF SerialInv, Preserved, Held, Tally, Quiet, Kept, Fresh, Once

-----------------------------------------------------------------------------
(* The actions. *)

LEMMA CallersSerial ==
    ASSUME SerialInv,
           \/ Sync
           \/ \E b \in Block : ConsensusCommits(b)
           \/ \E t \in Peers, b \in Block : AddBlockFromPeer(t, b)
    PROVE  Preserved
<1>0. UNCHANGED <<index, total, faults, executed>>
  BY DEF Sync, SyncFetch, SyncAdd, SyncFallback, SyncImport, ConsensusCommits, AddBlockFromPeer, storage
<1>1. Stocked' /\ index \subseteq index'
  BY <1>0 DEF SerialInv, Stocked
<1>2. th \in [Thread -> Goroutine] /\ page \subseteq Block /\ Peers \subseteq Thread
  BY DEF SerialInv, IInv, Types, Thread
<1>3. CASE \E b \in Block : ConsensusCommits(b)
  BY <1>0, <1>3, SerialEnters, NobodyIsNoThread DEF ConsensusCommits
<1>4. CASE \E t \in Peers, b \in Block : AddBlockFromPeer(t, b)
  BY <1>0, <1>2, <1>4, SerialEnters DEF AddBlockFromPeer, EnterPeer
<1>5. CASE SyncFetch
  BY <1>0, <1>1, <1>5, SerialStays DEF SyncFetch
<1>6. CASE SyncAdd
  <2>1. PICK b \in page :
          \/ UNCHANGED <<th, peerMu>>
          \/ Acceptable(b) /\ EnterPeer("sync", b)
          \/ th' = [th EXCEPT !["sync"] = Fallback(b)] /\ peerMu' = peerMu
    BY <1>6 DEF SyncAdd
  <2>2. b \in Block /\ Free("sync")
    BY <1>2, <1>6 DEF SyncAdd
  <2>3. CASE UNCHANGED <<th, peerMu>>
    BY <1>0, <1>1, <2>3, SerialStays
  <2>4. CASE Acceptable(b) /\ EnterPeer("sync", b)
    BY <1>0, <2>2, <2>4, SerialEnters, NobodyIsNoThread DEF EnterPeer
  <2>5. CASE th' = [th EXCEPT !["sync"] = Fallback(b)] /\ peerMu' = peerMu
    BY <1>0, <2>2, <2>5, SerialEnters, NobodyIsNoThread DEF Fallback
  <2> QED BY <2>1, <2>3, <2>4, <2>5
<1>7. CASE SyncFallback
  <2>1. th["sync"].pc = "fallback" /\ peerMu' = peerMu /\ th' = [th EXCEPT !["sync"].pc = "import"]
    BY <1>7 DEF SyncFallback
  <2>2. Proceeds("sync", "import")
    BY <1>2, <2>1, SetsPc, NobodyIsNoThread
  <2> QED BY <1>0, <1>1, <2>1, <2>2, SerialProceeds, NobodyIsNoThread
<1>8. CASE SyncImport
  <2>1. th["sync"].pc = "import" /\ th["sync"].via = "import" /\ peerMu' = peerMu
    BY <1>8, NobodyIsNoThread DEF SyncImport, SerialInv, IInv, Working
  <2>2. CASE th' = [th EXCEPT !["sync"].pc = "commit"]
    <3>1. Proceeds("sync", "commit")
      BY <1>2, <2>2, SetsPc, NobodyIsNoThread
    <3> QED BY <1>0, <1>1, <2>1, <3>1, SerialProceeds, NobodyIsNoThread
  <2>3. CASE th' = [th EXCEPT !["sync"] = Idle]
    <3>1. Others("sync") /\ th'["sync"] = Idle /\ Idle.via = "none"
      BY <1>2, <2>3, Replaces, IdleIsGoroutine, NobodyIsNoThread DEF Idle, Call
    <3>2. Held'
      BY <2>1, <3>1, NobodyIsNoThread DEF SerialInv, Held, Others
    <3>3. Quiet' = Quiet
      BY <1>0 DEF Quiet
    <3> QED BY <1>0, <1>1, <2>1, <3>1, <3>2, <3>3, SerialMoves, NobodyIsNoThread
  <2> QED BY <1>8, <2>2, <2>3 DEF SyncImport
<1> QED BY <1>3, <1>4, <1>5, <1>6, <1>7, <1>8 DEF Sync

\* CommitBlock's guard, the reading of the accounts and the append.
LEMMA CommitsSerial ==
    ASSUME SerialInv, NEW t \in Thread, CheckDuplicate(t) \/ ExecuteRead(t) \/ AppendChain(t)
    PROVE  Preserved
<1>0. /\ UNCHANGED <<index, total, faults, executed>>
      /\ th[t].pc \in {"commit", "exec", "append"}
  BY DEF CheckDuplicate, ExecuteRead, AppendChain, storage
<1>1. Stocked' /\ index \subseteq index' /\ Quiet' = Quiet
  BY <1>0 DEF SerialInv, Stocked, Quiet
<1>2. th \in [Thread -> Goroutine] /\ th[t] \in Goroutine /\ db.applied \in Seq(Block)
  BY DEF SerialInv, IInv, Types
<1>3. ASSUME NEW ok \in BOOLEAN, Return(t, ok) PROVE Preserved
  BY <1>0, <1>1, <1>3, SerialReturns
<1>4. CASE CheckDuplicate(t)
  <2>1. CASE th' = [th EXCEPT ![t].pc = "exec"] /\ peerMu' = peerMu
    <3>1. Proceeds(t, "exec")
      BY <1>2, <2>1, SetsPc
    <3>2. th[t].pc = "commit"
      BY <1>4 DEF CheckDuplicate
    <3> QED BY <1>0, <1>1, <2>1, <3>1, <3>2, SerialProceeds
  <2> QED BY <1>3, <1>4, <2>1 DEF CheckDuplicate
<1>5. CASE ExecuteRead(t)
  <2>1. CASE th' = [th EXCEPT ![t].pc = "write", ![t].snap = db.applied] /\ peerMu' = peerMu
    <3>1. th'[t] = [th[t] EXCEPT !.pc = "write", !.snap = db.applied]
      BY <1>2, <2>1
    <3>2. /\ th'[t] \in Goroutine
          /\ th'[t].pc = "write" /\ th'[t].block = th[t].block /\ th'[t].via = th[t].via
      BY <1>2, <3>1 DEF Goroutine
    <3>3. th' = [u \in Thread |-> IF u = t THEN th'[t] ELSE th[u]]
      BY <1>2, <2>1
    <3>4. Proceeds(t, "write")
      BY <1>2, <3>2, <3>3 DEF Proceeds, Others
    <3>5. th[t].pc = "exec"
      BY <1>5 DEF ExecuteRead
    <3> QED BY <1>0, <1>1, <2>1, <3>4, <3>5, SerialProceeds
  <2> QED BY <1>3, <1>5, <2>1 DEF ExecuteRead
<1>6. CASE AppendChain(t)
  BY <1>3, <1>6 DEF AppendChain
<1> QED BY <1>4, <1>5, <1>6

\* The execution is written back: the only step that counts, if the lock is held.
LEMMA ExecuteWriteSerial == ASSUME SerialInv, NEW t \in Thread, ExecuteWrite(t) PROVE Preserved
<1> DEFINE b == th[t].block
<1>1. th[t].pc = "write" /\ th[t] \in Goroutine /\ b \in Block /\ th \in [Thread -> Goroutine]
  BY DEF ExecuteWrite, SerialInv, IInv, Types, Working
<1>2. UNCHANGED <<index, total, peerMu, faults>>
  BY DEF ExecuteWrite, storage
<1>3. executed' = IF th[t].via = "peer" THEN [executed EXCEPT ![b] = @ + 1] ELSE executed
  BY DEF ExecuteWrite
<1>4. Others(t) /\ th'[t].pc = "store" /\ th'[t].block = b /\ th'[t].via = th[t].via
  <2>1. th' = [th EXCEPT ![t].pc = "store", ![t].snap = <<>>]
    BY DEF ExecuteWrite
  <2> DEFINE none == <<>>
  <2>2. th'[t] = [th[t] EXCEPT !.pc = "store", !.snap = none] /\ none \in Seq(Block)
    BY <1>1, <2>1
  <2>3. th' = [u \in Thread |-> IF u = t THEN th'[t] ELSE th[u]]
    BY <1>1, <2>1
  <2> HIDE DEF none
  <2>4. th'[t] \in Goroutine /\ th'[t].pc = "store" /\ th'[t].block = b /\ th'[t].via = th[t].via
    BY <1>1, <2>2 DEF Goroutine
  <2> QED BY <1>1, <2>3, <2>4 DEF Others
<1> HIDE DEF b
<1>5. Stocked' /\ Held' /\ Quiet' = Quiet
  BY <1>2, <1>4 DEF SerialInv, Stocked, Held, Others, Quiet
<1>6. executed \in [Block -> Nat]
  BY DEF SerialInv, Tally
<1>7. CASE th[t].via # "peer"
  BY <1>2, <1>3, <1>4, <1>5, <1>7, SerialMoves
<1>8. CASE th[t].via = "peer"
  <2>1. /\ executed' \in [Block -> Nat] /\ executed'[b] = executed[b] + 1
        /\ \A c \in Block : c # b => executed'[c] = executed[c]
    BY <1>1, <1>3, <1>6, <1>8
  <2>2. ASSUME Quiet PROVE Kept' /\ Fresh' /\ Once'
    <3>1. Kept /\ Fresh /\ Once /\ executed[b] = 0
      BY <1>1, <1>8, <2>2 DEF SerialInv, Fresh, b
    <3>2. \A u \in Thread : th[u].via = "peer" => u = t
      BY <1>8 DEF SerialInv, Held
    <3>3. Kept'
      <4> SUFFICES ASSUME NEW c \in Block, executed'[c] > 0
                   PROVE  \/ c \in index'
                          \/ \E u \in Thread : th'[u].via = "peer" /\ th'[u].pc = "store" /\ th'[u].block = c
        BY DEF Kept
      <4>1. CASE c = b
        BY <1>4, <1>8, <4>1
      <4>2. CASE c # b
        <5>1. executed[c] > 0
          BY <2>1, <4>2
        <5>2. \A u \in Thread : ~(th[u].via = "peer" /\ th[u].pc = "store")
          BY <1>1, <3>2
        <5> QED BY <1>2, <3>1, <5>1, <5>2 DEF Kept
      <4> QED BY <4>1, <4>2
    <3>4. Fresh'
      <4>1. \A u \in Thread : th'[u].via = "peer" => u = t
        BY <1>4, <3>2 DEF Others
      <4> QED BY <1>4, <4>1 DEF Fresh
    <3>5. Once'
      BY <2>1, <3>1 DEF Once
    <3> QED BY <3>3, <3>4, <3>5
  <2> QED BY <1>5, <2>1, <2>2 DEF Preserved, Tally
<1> QED BY <1>7, <1>8

LEMMA StoresSerial ==
    ASSUME SerialInv, NEW t \in Thread, StoreFile(t) \/ SaveIndex(t) \/ SaveState(t)
    PROVE  Preserved
<1>0. UNCHANGED <<peerMu, faults, executed>> /\ th[t].pc # "idle"
  BY DEF StoreFile, SaveIndex, SaveState
<1>1. PICK pc \in {"append", "saveIndex", "saveState"} : th' = [th EXCEPT ![t].pc = pc]
  BY DEF StoreFile, SaveIndex, SaveState
<1>2. Proceeds(t, pc) /\ th[t].block \in Block
  BY <1>0, <1>1, SetsPc DEF SerialInv, IInv, Types, Working
<1>3. \/ UNCHANGED <<index, total>>
      \/ /\ index' = index \cup {th[t].block}
         /\ total' = IF th[t].block >= total THEN th[t].block + 1 ELSE total
  BY DEF StoreFile, SaveIndex, SaveState, storage
<1>4. Stocked' /\ index \subseteq index'
  <2>1. total \in Nat /\ index \subseteq Nat /\ th[t].block \in Nat
    BY <1>2 DEF SerialInv, IInv, Types, Block
  <2>2. \A c \in index : c < total
    BY DEF SerialInv, Stocked
  <2>3. CASE UNCHANGED <<index, total>>
    BY <2>2, <2>3 DEF Stocked
  <2>4. CASE /\ index' = index \cup {th[t].block}
             /\ total' = IF th[t].block >= total THEN th[t].block + 1 ELSE total
    <3>1. total' \in Nat /\ total <= total' /\ th[t].block < total'
      BY <2>1, <2>4
    <3>2. \A c \in index' : c < total'
      BY <2>1, <2>2, <2>4, <3>1
    <3> QED BY <2>4, <3>2 DEF Stocked
  <2> QED BY <1>3, <2>3, <2>4
<1>5. th[t].pc = "store" => th[t].block \in index'
  BY DEF StoreFile, SaveIndex, SaveState, storage
<1> QED BY <1>0, <1>2, <1>4, <1>5, SerialProceeds

LEMMA StoreFailsSerial == ASSUME SerialInv, NEW t \in Thread, StoreFails(t) PROVE Preserved
<1>1. /\ th[t].pc # "idle" /\ Return(t, FALSE)
      /\ UNCHANGED <<index, total, executed>>
  BY DEF StoreFails, storage
<1>2. ~Quiet'
  <2> DEFINE e == faults.errors + 1
  <2>1. faults \in [crashes : 0..MaxCrashes, errors : 0..MaxErrors, torn : BOOLEAN, split : BOOLEAN]
    BY DEF SerialInv, IInv, Types
  <2>2. faults' = [faults EXCEPT !.errors = e]
    BY DEF StoreFails
  <2>3. e # 0
    BY <2>1
  <2> HIDE DEF e
  <2> QED BY <2>1, <2>2, <2>3 DEF Quiet
<1> QED BY <1>1, <1>2, SerialReturns

LEMMA NeverExecutedIs == NeverExecuted \in [Block -> Nat] /\ \A b \in Block : NeverExecuted[b] = 0
  BY DEF NeverExecuted

LEMMA CrashSerial == ASSUME Crash PROVE Preserved
<1>1. index' = {} /\ peerMu' = nobody /\ th' = [t \in Thread |-> Idle] /\ executed' = NeverExecuted
  BY DEF Crash
<1>2. \A t \in Thread : th'[t].via = "none"
  BY <1>1 DEF Idle, Call
<1>3. Stocked' /\ Held' /\ Tally'
  BY <1>1, <1>2, NobodyIsNoThread, NeverExecutedIs DEF Stocked, Held, Tally
<1>4. Kept' /\ Fresh' /\ Once'
  BY <1>1, <1>2, NeverExecutedIs DEF Kept, Fresh, Once
<1> QED BY <1>3, <1>4 DEF Preserved

LEMMA BootSerial == ASSUME SerialInv, Boot PROVE Preserved
<1>1. CASE Load
  <2>1. UNCHANGED <<th, peerMu, faults, executed>> /\ stage = "load"
    BY <1>1 DEF Load
  <2>2. index = {}
    BY <2>1 DEF SerialInv, IInv, Filed
  <2>3. LoadedIndex = {} /\ LoadedTotal \in Nat
    BY LoadsNothing DEF SerialInv, IInv, Types
  <2>4. index' = {0} /\ total' = IF LoadedTotal = 0 THEN 1 ELSE LoadedTotal
    BY <1>1, <2>3 DEF Load
  <2>5. Stocked'
    BY <2>3, <2>4 DEF Stocked
  <2> QED BY <2>1, <2>2, <2>5, SerialStays
<1>2. CASE ExecuteGenesisMint \/ ExecuteGenesisDistribute
  <2>1. UNCHANGED <<index, total, th, peerMu, faults, executed>>
    BY <1>2 DEF ExecuteGenesisMint, ExecuteGenesisDistribute, storage
  <2>2. Stocked' /\ index \subseteq index'
    BY <2>1 DEF SerialInv, Stocked
  <2> QED BY <2>1, <2>2, SerialStays
<1> QED BY <1>1, <1>2 DEF Boot

LEMMA SerialInvariance == Spec => []SerialInv
<1>1. Init => SerialInv
  <2> SUFFICES ASSUME Init PROVE SerialInv
    OBVIOUS
  <2>1. \A t \in Thread : th[t].via = "none"
    BY DEF Init, Idle, Call
  <2>2. Stocked /\ Held /\ Tally
    BY <2>1, NobodyIsNoThread, NeverExecutedIs DEF Init, Stocked, Held, Tally
  <2>3. Kept /\ Fresh /\ Once
    BY <2>1, NeverExecutedIs DEF Init, Kept, Fresh, Once
  <2> QED BY <2>2, <2>3, InitInv DEF SerialInv
<1>2. SerialInv /\ [Next]_vars => SerialInv'
  <2> SUFFICES ASSUME SerialInv, [Next]_vars PROVE Preserved
    BY NextInv DEF SerialInv, Preserved
  <2>1. CASE Boot
    BY <2>1, BootSerial
  <2>2. CASE \/ Sync
             \/ \E b \in Block : ConsensusCommits(b)
             \/ \E t \in Peers, b \in Block : AddBlockFromPeer(t, b)
    BY <2>2, CallersSerial
  <2>3. CASE \E t \in Thread : Step(t)
    BY <2>3, CommitsSerial, ExecuteWriteSerial, StoresSerial DEF Step
  <2>4. CASE \E t \in Thread : StoreFails(t)
    BY <2>4, StoreFailsSerial
  <2>5. CASE Crash
    BY <2>5, CrashSerial
  <2>6. CASE UNCHANGED vars
    <3>1. UNCHANGED <<index, total, th, peerMu, faults, executed>>
      BY <2>6 DEF vars
    <3>2. Stocked' /\ index \subseteq index'
      BY <3>1 DEF SerialInv, Stocked
    <3> QED BY <3>1, <3>2, SerialStays
  <2> QED BY <2>1, <2>2, <2>3, <2>4, <2>5, <2>6 DEF Next
<1> QED BY <1>1, <1>2, PTL DEF Spec

\* addFromPeerMu serialises the goroutines that hold it: in one run of the
\* node they execute no height twice, for any number of them, any seed and
\* whatever runs beside them, unless a save failed or the index was torn.
THEOREM PeersAreSerialized == Spec => []PeersSerialized
<1>1. SerialInv => PeersSerialized
  BY DEF SerialInv, Once, Quiet, PeersSerialized
<1> QED BY <1>1, SerialInvariance, PTL

=============================================================================
