------------------------------- MODULE Mempool -------------------------------
(***************************************************************************)
(* The transaction pool of src/pool/mempool.go.                            *)
(*                                                                         *)
(* A submitted transaction is wrapped in a PooledTransaction and moves     *)
(* between four maps keyed by transaction id, while the two workers        *)
(* (broadcastProcessor, validationProcessor) are fed through two bounded   *)
(* channels.  The channels outlive the maps: broadcastChan holds ids and   *)
(* validationChan holds POINTERS to pooled transactions, so a transaction  *)
(* can be removed, and even be submitted again as a new object, while its  *)
(* old object still waits to be validated.  Objects therefore have an      *)
(* identity here: objs is the heap, a pool maps an id to an object.        *)
(*                                                                         *)
(* Everything a worker does to an item happens under mp.lock, so receiving *)
(* the item and handling it are one action: until the lock is taken, the   *)
(* item in the worker's hands counts as the head of its channel (which     *)
(* makes the modelled channel one slot larger than the Go channel).        *)
(***************************************************************************)
EXTENDS Integers, Sequences, FiniteSets

CONSTANTS
    Tx,            \* transaction ids
    Sender,        \* accounts
    SenderOf,      \* tx.Sender
    NonceOf,       \* tx.Nonce
    Bytes,         \* the summed CalculateTransactionSize of a set of transactions
    Verdict,       \* what performValidation may answer for a transaction: a set of
                   \* Booleans, both when the answer depends on the sender's balance
    MaxBytes,      \* config.MaxBytes
    MaxBroadcast,  \* config.MaxBroadcastSize
    BroadcastCap,  \* capacity of broadcastChan (1000)
    ValidationCap, \* capacity of validationChan (1000)
    MaxRetries,    \* the argument of RetryFailedTransactions
    MaxObjects     \* bound: how many submissions succeed

ASSUME TxAssumption ==
    /\ IsFiniteSet(Tx)
    /\ SenderOf \in [Tx -> Sender]
    /\ NonceOf \in [Tx -> Nat]
    /\ Verdict \in [Tx -> SUBSET BOOLEAN]

ASSUME BytesAssumption ==
    /\ Bytes \in [SUBSET Tx -> Nat]
    /\ Bytes[{}] = 0
    /\ \A S, T \in SUBSET Tx : S \cap T = {} => Bytes[S \cup T] = Bytes[S] + Bytes[T]

ASSUME LimitAssumption ==
    /\ MaxBytes \in Nat
    /\ MaxBroadcast \in Nat
    /\ BroadcastCap \in Nat
    /\ ValidationCap \in Nat
    /\ MaxRetries \in Nat
    /\ MaxObjects \in Nat

VARIABLES
    objs,            \* every PooledTransaction ever made, in the order of FirstSeen
    broadcastPool, pendingPool, validationPool, invalidPool, allTransactions,
    currentBytes,
    broadcastChan, validationChan,
    senderNonce,     \* 0 for a sender that is not in the map
    running,
    workers,         \* the worker goroutines that have not returned
    passed           \* history: the objects validateTransaction accepted

pools == <<broadcastPool, pendingPool, validationPool, invalidPool>>
chans == <<broadcastChan, validationChan>>
vars == <<objs, pools, allTransactions, currentBytes, chans, senderNonce, running, workers, passed>>

Status == {"Broadcast", "Pending", "Validating", "Invalid"}
Pooled == [tx : Tx, status : Status, retry : Nat]
Object == 1..MaxObjects
Worker == {"broadcast", "validation", "cleanup"}

nil == 0
Pool == [Tx -> Object \cup {nil}]
EmptyPool == [t \in Tx |-> nil]
Members(pool) == {t \in Tx : pool[t] # nil}

Size(t) == Bytes[{t}]
StatusOf(t) == objs[allTransactions[t]].status
Indexed == Members(allTransactions)

Init ==
    /\ objs = <<>>
    /\ broadcastPool = EmptyPool
    /\ pendingPool = EmptyPool
    /\ validationPool = EmptyPool
    /\ invalidPool = EmptyPool
    /\ allTransactions = EmptyPool
    /\ currentBytes = 0
    /\ broadcastChan = <<>>
    /\ validationChan = <<>>
    /\ senderNonce = [s \in Sender |-> 0]
    /\ running = TRUE
    /\ workers = Worker
    /\ passed = {}

(***************************************************************************)
(* Submission.  A refused submission (known id, full pool, byte limit)     *)
(* changes nothing.  When the channel is full the transaction stays in     *)
(* broadcastPool and its id is sent to nobody.                             *)
(***************************************************************************)
\* The limit is compared before the transaction's own size is added.
MutantAcceptsBelowLimit(t) ==
    /\ allTransactions[t] = nil
    /\ Cardinality(Members(broadcastPool)) < MaxBroadcast
    /\ currentBytes < MaxBytes

Accepts(t) ==
    /\ allTransactions[t] = nil
    /\ Cardinality(Members(broadcastPool)) < MaxBroadcast
    /\ currentBytes + Size(t) <= MaxBytes

TrySend(chan, cap, x) == IF Len(chan) < cap THEN Append(chan, x) ELSE chan

\* The index keeps the object made before this one.
MutantIndexesPrevious(t) ==
    /\ Len(objs) < MaxObjects
    /\ Accepts(t)
    /\ objs' = Append(objs, [tx |-> t, status |-> "Broadcast", retry |-> 0])
    /\ broadcastPool' = [broadcastPool EXCEPT ![t] = Len(objs) + 1]
    /\ allTransactions' = [allTransactions EXCEPT ![t] = Len(objs)]
    /\ currentBytes' = currentBytes + Size(t)
    /\ broadcastChan' = TrySend(broadcastChan, BroadcastCap, t)
    /\ UNCHANGED <<pendingPool, validationPool, invalidPool, validationChan, senderNonce,
                   running, workers, passed>>

BroadcastTransaction(t) ==
    /\ Len(objs) < MaxObjects
    /\ Accepts(t)
    /\ objs' = Append(objs, [tx |-> t, status |-> "Broadcast", retry |-> 0])
    /\ broadcastPool' = [broadcastPool EXCEPT ![t] = Len(objs) + 1]
    /\ allTransactions' = [allTransactions EXCEPT ![t] = Len(objs) + 1]
    /\ currentBytes' = currentBytes + Size(t)
    /\ broadcastChan' = TrySend(broadcastChan, BroadcastCap, t)
    /\ UNCHANGED <<pendingPool, validationPool, invalidPool, validationChan, senderNonce,
                   running, workers, passed>>

(***************************************************************************)
(* The broadcast worker: an id that left broadcastPool meanwhile is        *)
(* skipped; when the validation channel is full the transaction goes       *)
(* straight to pendingPool.                                                *)
(***************************************************************************)
processBroadcastTransaction ==
    /\ "broadcast" \in workers
    /\ broadcastChan # <<>>
    /\ LET t == Head(broadcastChan)
           o == broadcastPool[t]
       IN  /\ broadcastChan' = Tail(broadcastChan)
           /\ broadcastPool' = [broadcastPool EXCEPT ![t] = nil]
           /\ \/ /\ o = nil
                 /\ UNCHANGED <<objs, pendingPool, validationPool, validationChan>>
              \/ /\ o # nil
                 /\ Len(validationChan) < ValidationCap
                 /\ objs' = [objs EXCEPT ![o].status = "Validating"]
                 /\ validationPool' = [validationPool EXCEPT ![t] = o]
                 /\ validationChan' = Append(validationChan, o)
                 /\ UNCHANGED pendingPool
              \/ /\ o # nil
                 /\ Len(validationChan) >= ValidationCap
                 /\ objs' = [objs EXCEPT ![o].status = "Pending"]
                 /\ validationPool' = [validationPool EXCEPT ![t] = nil]
                 /\ pendingPool' = [pendingPool EXCEPT ![t] = o]
                 /\ UNCHANGED validationChan
    /\ UNCHANGED <<invalidPool, allTransactions, currentBytes, senderNonce, running, workers, passed>>

(***************************************************************************)
(* The validation worker.  The object is filed under its id whether or not *)
(* the index still knows it.  A nonce of zero is never recorded.           *)
(***************************************************************************)
MutantReplayedOffByOne(t) == senderNonce[SenderOf[t]] > 0 /\ NonceOf[t] < senderNonce[SenderOf[t]]

Replayed(t) == senderNonce[SenderOf[t]] > 0 /\ NonceOf[t] <= senderNonce[SenderOf[t]]

ValidationSucceeds(o, t) ==
    /\ objs' = [objs EXCEPT ![o].status = "Pending"]
    /\ pendingPool' = [pendingPool EXCEPT ![t] = o]
    /\ senderNonce' = [senderNonce EXCEPT ![SenderOf[t]] = IF NonceOf[t] > @ THEN NonceOf[t] ELSE @]
    /\ passed' = passed \cup {o}
    /\ UNCHANGED invalidPool

\* A failed verdict clears the id from pendingPool as well.
MutantFailureClearsPending(o, t) ==
    /\ objs' = [objs EXCEPT ![o].status = "Invalid"]
    /\ invalidPool' = [invalidPool EXCEPT ![t] = o]
    /\ pendingPool' = [pendingPool EXCEPT ![t] = nil]
    /\ UNCHANGED <<senderNonce, passed>>

ValidationFails(o, t) ==
    /\ objs' = [objs EXCEPT ![o].status = "Invalid"]
    /\ invalidPool' = [invalidPool EXCEPT ![t] = o]
    /\ UNCHANGED <<pendingPool, senderNonce, passed>>

validateTransaction ==
    /\ "validation" \in workers
    /\ validationChan # <<>>
    /\ LET o == Head(validationChan)
           t == objs[o].tx
       IN  /\ validationChan' = Tail(validationChan)
           /\ validationPool' = [validationPool EXCEPT ![t] = nil]
           /\ \E ok \in Verdict[t] :
                 \/ ok /\ ~Replayed(t) /\ ValidationSucceeds(o, t)
                 \/ (~ok \/ Replayed(t)) /\ ValidationFails(o, t)
    /\ UNCHANGED <<broadcastPool, allTransactions, currentBytes, broadcastChan, running, workers>>

(***************************************************************************)
(* Removal, by CommitBlock for the transactions of a block and by the      *)
(* cleanup worker for expired ones.  Only the pool the object's status     *)
(* names is cleared; an invalid transaction gives no bytes back.           *)
(***************************************************************************)
Counted(T) == {t \in T : StatusOf(t) # "Invalid"}

\* pool after the transactions of T, indexed ones, left the pool of status s.
Without(pool, s, T) == [t \in Tx |-> IF t \in T /\ StatusOf(t) = s THEN nil ELSE pool[t]]

removeTransactionFromAllPools(T) ==
    /\ broadcastPool' = Without(broadcastPool, "Broadcast", T)
    /\ pendingPool' = Without(pendingPool, "Pending", T)
    /\ validationPool' = Without(validationPool, "Validating", T)
    /\ invalidPool' = Without(invalidPool, "Invalid", T)
    /\ allTransactions' = [t \in Tx |-> IF t \in T THEN nil ELSE allTransactions[t]]
    /\ currentBytes' = IF currentBytes >= Bytes[Counted(T)] THEN currentBytes - Bytes[Counted(T)] ELSE 0
    /\ UNCHANGED <<objs, chans, senderNonce, running, workers, passed>>

RemoveTransactions(txIDs) ==
    /\ txIDs \cap Indexed # {}
    /\ removeTransactionFromAllPools(txIDs \cap Indexed)

\* The first k submissions are older than config.ExpiryTime.
cleanupExpiredTransactions(k) ==
    /\ "cleanup" \in workers
    /\ \E t \in Indexed : allTransactions[t] <= k
    /\ removeTransactionFromAllPools({t \in Indexed : allTransactions[t] <= k})

(***************************************************************************)
(* Retry: Go ranges over invalidPool in any order, so which ids find room  *)
(* in the channel is arbitrary.  Bytes are added once more.                *)
(***************************************************************************)
Retryable == {t \in Members(invalidPool) : objs[invalidPool[t]].retry < MaxRetries}

Orders(S) == {q \in [1..Cardinality(S) -> S] : \A i, j \in DOMAIN q : q[i] = q[j] => i = j}

Room(cap, chan) == IF Len(chan) < cap THEN cap - Len(chan) ELSE 0

RetryFailedTransactions ==
    /\ Retryable # {}
    /\ objs' = [o \in DOMAIN objs |->
                   IF \E t \in Retryable : invalidPool[t] = o
                   THEN [objs[o] EXCEPT !.status = "Broadcast", !.retry = @ + 1]
                   ELSE objs[o]]
    /\ broadcastPool' = [t \in Tx |-> IF t \in Retryable THEN invalidPool[t] ELSE broadcastPool[t]]
    /\ invalidPool' = [t \in Tx |-> IF t \in Retryable THEN nil ELSE invalidPool[t]]
    /\ currentBytes' = currentBytes + Bytes[Retryable]
    /\ \E q \in Orders(Retryable) :
          broadcastChan' = broadcastChan \o
              SubSeq(q, 1, IF Len(q) <= Room(BroadcastCap, broadcastChan)
                           THEN Len(q) ELSE Room(BroadcastCap, broadcastChan))
    /\ UNCHANGED <<pendingPool, validationPool, allTransactions, validationChan, senderNonce,
                   running, workers, passed>>

\* The index is not reset.
MutantClearKeepsIndex ==
    /\ broadcastPool' = EmptyPool
    /\ pendingPool' = EmptyPool
    /\ validationPool' = EmptyPool
    /\ invalidPool' = EmptyPool
    /\ currentBytes' = 0
    /\ UNCHANGED <<objs, allTransactions, chans, senderNonce, running, workers, passed>>

\* The channels and the nonces survive.
Clear ==
    /\ broadcastPool' = EmptyPool
    /\ pendingPool' = EmptyPool
    /\ validationPool' = EmptyPool
    /\ invalidPool' = EmptyPool
    /\ allTransactions' = EmptyPool
    /\ currentBytes' = 0
    /\ UNCHANGED <<objs, chans, senderNonce, running, workers, passed>>

\* Stopping throws away what waits for validation.
MutantStopDrains ==
    /\ running
    /\ running' = FALSE
    /\ validationChan' = <<>>
    /\ UNCHANGED <<objs, pools, allTransactions, currentBytes, broadcastChan, senderNonce, workers, passed>>

Stop ==
    /\ running
    /\ running' = FALSE
    /\ UNCHANGED <<objs, pools, allTransactions, currentBytes, chans, senderNonce, workers, passed>>

\* A worker returns although nobody closed stopChan.
MutantWorkerReturns(w) ==
    /\ w \in workers
    /\ workers' = workers \ {w}
    /\ UNCHANGED <<objs, pools, allTransactions, currentBytes, chans, senderNonce, running, passed>>

\* A worker that finds both its channel and stopChan ready takes either.
WorkerReturns(w) ==
    /\ ~running
    /\ w \in workers
    /\ workers' = workers \ {w}
    /\ UNCHANGED <<objs, pools, allTransactions, currentBytes, chans, senderNonce, running, passed>>

Next ==
    \/ \E t \in Tx : BroadcastTransaction(t)
    \/ processBroadcastTransaction
    \/ validateTransaction
    \/ \E T \in SUBSET Tx : RemoveTransactions(T)
    \/ \E k \in Object : cleanupExpiredTransactions(k)
    \/ RetryFailedTransactions
    \/ Clear
    \/ Stop
    \/ \E w \in Worker : WorkerReturns(w)

\* A goroutine whose channel is ready eventually runs.
Fairness ==
    /\ WF_vars(processBroadcastTransaction)
    /\ WF_vars(validateTransaction)

Spec == Init /\ [][Next]_vars
FairSpec == Spec /\ Fairness

(***************************************************************************)
(* Properties                                                              *)
(***************************************************************************)

\* Every variable has its type: pools hold objects of the heap, channels ids and objects.
TypeOK ==
    /\ objs \in Seq(Pooled)
    /\ Len(objs) <= MaxObjects
    /\ \A pool \in {broadcastPool, pendingPool, validationPool, invalidPool, allTransactions} :
          /\ pool \in Pool
          /\ \A t \in Members(pool) : pool[t] \in DOMAIN objs /\ objs[pool[t]].tx = t
    /\ currentBytes \in Nat
    /\ broadcastChan \in Seq(Tx)
    /\ validationChan \in Seq(DOMAIN objs)
    /\ senderNonce \in [Sender -> Nat]
    /\ running \in BOOLEAN
    /\ workers \subseteq Worker
    /\ passed \subseteq DOMAIN objs

\* currentBytes never falls below the size of what the index holds, whatever
\* races with removal, retry and Clear: the branch of
\* removeTransactionFromAllPools commented "Shouldn't happen, but reset to
\* avoid underflow" is dead.
NeverUndercounts == Bytes[Indexed] <= currentBytes

\* The transactions of the index fit config.MaxBytes, also after retries,
\* which add bytes without checking the limit.
MemoryBounded == Bytes[Indexed] <= MaxBytes

\* An indexed transaction that reached StatusPending is offered to the block
\* proposer (GetPendingTransactions) until it is removed: no late verdict on
\* an older object of the same id takes it out of pendingPool.
PendingIsOffered ==
    \A t \in Indexed :
        StatusOf(t) = "Pending" => pendingPool[t] # nil /\ objs[pendingPool[t]].status = "Pending"

\* Replay protection: two submissions of one sender that both pass validation
\* have different nonces, across removal, resubmission, retry and Clear,
\* except that nonce zero is never recorded and may pass again.
NoReplay ==
    \A o, p \in passed :
        o # p /\ SenderOf[objs[o].tx] = SenderOf[objs[p].tx] /\ NonceOf[objs[o].tx] > 0
            => NonceOf[objs[o].tx] # NonceOf[objs[p].tx]

\* What is being validated is in the hands of the worker: a transaction of the
\* index with StatusValidating has its object in validationChan, so it cannot
\* stay in that status for want of a wake-up.
ValidatingIsQueued ==
    \A t \in Indexed :
        StatusOf(t) = "Validating" => \E i \in DOMAIN validationChan : validationChan[i] = allTransactions[t]

\* A transaction in broadcastPool whose id is in broadcastChan is eventually
\* decided (pending or invalid), unless it is removed first or the pool stops.
QueuedIsDecided ==
    \A t \in Tx :
        (broadcastPool[t] # nil /\ \E i \in DOMAIN broadcastChan : broadcastChan[i] = t)
            ~> (pendingPool[t] # nil \/ invalidPool[t] # nil \/ allTransactions[t] = nil \/ ~running)
=============================================================================
