------------------------------ MODULE NodeProofs ------------------------------
(***************************************************************************)
(* Two parts of a node beside its consensus.  The transaction pool is safe *)
(* for any transactions, sizes, limits and channel capacities: its type,   *)
(* its byte limit, its replay protection and the agreement of statuses,    *)
(* maps and channels.  And for any number of nodes, epochs and rounds, the *)
(* randomness beacons that the driver feeds stay in agreement, mix in one  *)
(* output per epoch, and never find themselves corrupt.                    *)
(***************************************************************************)
EXTENDS Mempool, Randao, FiniteSetTheorems, SequenceTheorems, TLAPS

-----------------------------------------------------------------------------
(* The transaction pool: pools and the heap. *)

\* The part of TypeOK that speaks of one pool.
PoolOK(pool, heap) ==
    /\ pool \in Pool
    /\ \A t \in Tx : pool[t] # nil => pool[t] \in 1..Len(heap) /\ heap[pool[t]].tx = t

\* Objects are never moved: new follows old on the heap.
Grows(old, new) ==
    /\ old \in Seq(Pooled) /\ new \in Seq(Pooled)
    /\ Len(old) <= Len(new)
    /\ \A o \in 1..Len(old) : new[o].tx = old[o].tx

\* The types, pool by pool.
Types ==
    /\ objs \in Seq(Pooled)
    /\ Len(objs) <= MaxObjects
    /\ PoolOK(broadcastPool, objs)
    /\ PoolOK(pendingPool, objs)
    /\ PoolOK(validationPool, objs)
    /\ PoolOK(invalidPool, objs)
    /\ PoolOK(allTransactions, objs)
    /\ currentBytes \in Nat
    /\ broadcastChan \in Seq(Tx)
    /\ validationChan \in Seq(1..Len(objs))
    /\ senderNonce \in [Sender -> Nat]
    /\ running \in BOOLEAN
    /\ workers \subseteq Worker
    /\ passed \subseteq 1..Len(objs)

\* Types is TypeOK written pool by pool.
LEMMA TypesIsTypeOK == Types <=> TypeOK
<1> DEFINE WellTyped(pool) ==
       pool \in Pool /\ \A t \in Members(pool) : pool[t] \in DOMAIN objs /\ objs[pool[t]].tx = t
<1>1. ASSUME objs \in Seq(Pooled) PROVE DOMAIN objs = 1..Len(objs)
  BY <1>1
<1>2. ASSUME objs \in Seq(Pooled), NEW pool PROVE PoolOK(pool, objs) <=> WellTyped(pool)
  BY <1>1, <1>2 DEF PoolOK, Members
<1>3. TypeOK <=>
        /\ objs \in Seq(Pooled)
        /\ Len(objs) <= MaxObjects
        /\ \A pool \in {broadcastPool, pendingPool, validationPool, invalidPool, allTransactions} :
              WellTyped(pool)
        /\ currentBytes \in Nat
        /\ broadcastChan \in Seq(Tx)
        /\ validationChan \in Seq(DOMAIN objs)
        /\ senderNonce \in [Sender -> Nat]
        /\ running \in BOOLEAN
        /\ workers \subseteq Worker
        /\ passed \subseteq DOMAIN objs
  BY DEF TypeOK
<1> HIDE DEF WellTyped
<1> QED
  BY <1>1, <1>2, <1>3, Zenon DEF Types

\* A pool stays well typed while the heap grows.
LEMMA PoolGrows ==
    ASSUME NEW pool, NEW old, NEW new, PoolOK(pool, old), Grows(old, new)
    PROVE  PoolOK(pool, new)
<1>1. Len(old) \in Nat /\ Len(new) \in Nat
  BY DEF Grows
<1> QED
  BY <1>1 DEF PoolOK, Grows

\* p is pool with some entries emptied.
Shrunk(p, pool) == p \in [Tx -> Nat] /\ \A t \in Tx : p[t] = nil \/ p[t] = pool[t]

\* Emptying some entries of a pool keeps it well typed.
LEMMA PoolShrinks ==
    ASSUME NEW pool, NEW heap, PoolOK(pool, heap), NEW p, Shrunk(p, pool)
    PROVE  PoolOK(p, heap)
BY DEF PoolOK, Pool, Object, nil, Shrunk

\* Filing an object under its own id keeps a pool well typed.
LEMMA PoolFiles ==
    ASSUME NEW pool, NEW heap \in Seq(Pooled), Len(heap) <= MaxObjects, PoolOK(pool, heap),
           NEW t \in Tx, NEW o \in 1..Len(heap), heap[o].tx = t
    PROVE  PoolOK([pool EXCEPT ![t] = o], heap)
<1>1. Len(heap) \in Nat /\ MaxObjects \in Nat
  BY LimitAssumption
<1>2. o \in Object
  BY <1>1 DEF Object
<1> QED
  BY <1>1, <1>2 DEF PoolOK, Pool, nil

\* The heap after one object got another status.
Marked(heap, o, s) == [heap EXCEPT ![o].status = s]

\* Changing a status is growth, and changes one object.
LEMMA StatusGrows ==
    ASSUME NEW heap \in Seq(Pooled), NEW o \in 1..Len(heap), NEW s \in Status
    PROVE  /\ Grows(heap, Marked(heap, o, s))
           /\ Len(Marked(heap, o, s)) = Len(heap)
           /\ Marked(heap, o, s)[o].status = s
           /\ \A p \in 1..Len(heap) : p # o => Marked(heap, o, s)[p] = heap[p]
<1> DEFINE new == Marked(heap, o, s)
           object == [heap[o] EXCEPT !.status = s]
<1>1. heap[o] \in Pooled /\ Len(heap) \in Nat
  OBVIOUS
<1>2. object \in Pooled /\ object.tx = heap[o].tx /\ object.status = s
  BY <1>1 DEF Pooled
<1>3. new[o] = object /\ \A p \in 1..Len(heap) : p # o => new[p] = heap[p]
  BY DEF Marked
<1>4. new \in Seq(Pooled) /\ Len(new) = Len(heap)
  BY <1>2, ExceptSeq DEF Marked
<1> HIDE DEF new, object
<1>5. Grows(heap, new)
  BY <1>1, <1>2, <1>3, <1>4 DEF Grows
<1> QED
  BY <1>2, <1>3, <1>4, <1>5 DEF new

-----------------------------------------------------------------------------
(* The inductive invariant. *)

\* An object is where its status says, and waits for validation at most once.
Located ==
    /\ \A t \in Tx : broadcastPool[t] # nil => objs[broadcastPool[t]].status = "Broadcast"
    /\ \A t \in Tx : pendingPool[t] # nil => objs[pendingPool[t]].status = "Pending"
    /\ \A t \in Tx : invalidPool[t] # nil => objs[invalidPool[t]].status = "Invalid"
    /\ \A i \in 1..Len(validationChan) : objs[validationChan[i]].status = "Validating"
    /\ \A i, j \in 1..Len(validationChan) : validationChan[i] = validationChan[j] => i = j

\* A transaction of the index that is pending or validating is in the pool or
\* the channel that its status names.
Reachable ==
    \A t \in Tx : allTransactions[t] # nil =>
        /\ StatusOf(t) = "Pending" => pendingPool[t] # nil
        /\ StatusOf(t) = "Validating" =>
              \E i \in 1..Len(validationChan) : validationChan[i] = allTransactions[t]

\* The recorded nonce of a sender covers all that passed.
Recorded == \A o \in passed : NonceOf[objs[o].tx] <= senderNonce[SenderOf[objs[o].tx]]

\* The index is counted, and fits.
Accounted == Bytes[Indexed] <= currentBytes /\ Bytes[Indexed] <= MaxBytes

IInv == Types /\ Located /\ Reachable /\ Recorded /\ NoReplay /\ Accounted

\* Sets of transactions weigh at least as much as their subsets.
LEMMA BytesMonotone ==
    ASSUME NEW S \in SUBSET Tx, NEW T \in SUBSET Tx, S \subseteq T
    PROVE  Bytes[S] \in Nat /\ Bytes[T] \in Nat /\ Bytes[S] <= Bytes[T]
<1>1. T \ S \in SUBSET Tx /\ S \cap (T \ S) = {} /\ S \cup (T \ S) = T
  OBVIOUS
<1>2. Bytes[T] = Bytes[S] + Bytes[T \ S]
  BY <1>1, BytesAssumption
<1> QED
  BY <1>1, <1>2, BytesAssumption

\* A new pool holds nothing and satisfies the invariant.
LEMMA InitInv == Init => IInv
<1> SUFFICES ASSUME Init PROVE IInv
  OBVIOUS
<1>1. Types
  <2>1. PoolOK(EmptyPool, objs)
    BY DEF PoolOK, Pool, EmptyPool, nil, Init
  <2> QED
    BY <2>1, LimitAssumption DEF Types, Init
<1>2. Indexed = {} /\ 0 <= MaxBytes
  BY LimitAssumption DEF Init, Indexed, Members, EmptyPool
<1>3. Accounted
  BY <1>2, BytesAssumption DEF Accounted, Init
<1>4. Located /\ Reachable
  BY DEF Located, Reachable, Init, EmptyPool
<1>5. Recorded /\ NoReplay
  BY DEF Recorded, NoReplay, Init
<1> QED
  BY <1>1, <1>3, <1>4, <1>5 DEF IInv

\* A submission is one more object, filed and counted.
LEMMA SubmissionInv ==
    ASSUME IInv, NEW t \in Tx, BroadcastTransaction(t)
    PROVE  IInv'
<1> DEFINE o == Len(objs) + 1
           new == [tx |-> t, status |-> "Broadcast", retry |-> 0]
<1>0. Types
  BY DEF IInv
<1>1. new \in Pooled /\ Len(objs) \in Nat /\ MaxObjects \in Nat
  BY <1>0, LimitAssumption DEF Pooled, Status, Types
<1>2. /\ objs' \in Seq(Pooled) /\ Len(objs') = o /\ objs'[o] = new
      /\ \A p \in 1..Len(objs) : objs'[p] = objs[p]
  BY <1>0, <1>1, AppendProperties DEF BroadcastTransaction, Types
<1>3. Grows(objs, objs') /\ Len(objs') <= MaxObjects /\ o \in 1..Len(objs')
  BY <1>0, <1>1, <1>2 DEF Grows, BroadcastTransaction, Types
<1>4. Types'
  <2>1. PoolOK(broadcastPool, objs') /\ PoolOK(allTransactions, objs')
    BY <1>0, <1>3, PoolGrows DEF Types
  <2>2. PoolOK(broadcastPool', objs') /\ PoolOK(allTransactions', objs')
    <3>1. objs'[o].tx = t /\ broadcastPool' = [broadcastPool EXCEPT ![t] = o]
          /\ allTransactions' = [allTransactions EXCEPT ![t] = o]
      BY <1>2 DEF BroadcastTransaction
    <3> HIDE DEF o
    <3> QED
      BY <3>1, <2>1, <1>2, <1>3, PoolFiles
  <2>3. PoolOK(pendingPool', objs') /\ PoolOK(validationPool', objs') /\ PoolOK(invalidPool', objs')
    BY <1>0, <1>3, PoolGrows DEF Types, BroadcastTransaction
  <2>4. currentBytes' \in Nat
    <3>1. Bytes[{t}] \in Nat
      BY BytesAssumption
    <3>2. currentBytes' = currentBytes + Bytes[{t}] /\ currentBytes \in Nat
      BY <1>0 DEF BroadcastTransaction, Size, Types
    <3> QED
      BY <3>1, <3>2
  <2>5. broadcastChan' \in Seq(Tx)
    BY <1>0, AppendProperties DEF BroadcastTransaction, TrySend, Types
  <2>6. validationChan' \in Seq(1..Len(objs')) /\ passed' \subseteq 1..Len(objs')
    BY <1>0, <1>1, <1>2, SeqMonotonic DEF BroadcastTransaction, Types
  <2> QED
    BY <1>0, <1>2, <1>3, <2>2, <2>3, <2>4, <2>5, <2>6 DEF Types, BroadcastTransaction
<1>5. Accounted'
  <2>1. Indexed' = Indexed \cup {t} /\ t \notin Indexed /\ Indexed \in SUBSET Tx
    BY <1>0, <1>1 DEF Indexed, Members, BroadcastTransaction, Accepts, Types, PoolOK, Pool, nil
  <2>2. Bytes[Indexed'] = Bytes[Indexed] + Bytes[{t}] /\ Bytes[Indexed] \in Nat /\ Bytes[{t}] \in Nat
    BY <2>1, BytesAssumption
  <2>3. Bytes[Indexed] <= currentBytes /\ currentBytes \in Nat /\ MaxBytes \in Nat
    BY <1>0, LimitAssumption DEF IInv, Accounted, Types
  <2>4. currentBytes' = currentBytes + Bytes[{t}] /\ currentBytes + Bytes[{t}] <= MaxBytes
    BY DEF BroadcastTransaction, Accepts, Size
  <2> QED
    BY <2>2, <2>3, <2>4 DEF Accounted
<1>6. Located'
  <2>1. /\ broadcastPool' = [broadcastPool EXCEPT ![t] = o]
        /\ UNCHANGED <<pendingPool, invalidPool, validationChan>>
    BY DEF BroadcastTransaction
  <2>2. \A u \in Tx : /\ broadcastPool[u] # nil => broadcastPool[u] \in 1..Len(objs)
                      /\ pendingPool[u] # nil => pendingPool[u] \in 1..Len(objs)
                      /\ invalidPool[u] # nil => invalidPool[u] \in 1..Len(objs)
    BY <1>0 DEF Types, PoolOK, Pool, nil
  <2>3. DOMAIN broadcastPool = Tx
    BY <1>0 DEF Types, PoolOK, Pool
  <2>4. \A i \in 1..Len(validationChan) : validationChan[i] \in 1..Len(objs)
    BY <1>0 DEF Types
  <2>5. Located
    BY DEF IInv
  <2>6. \A u \in Tx : broadcastPool'[u] # nil => objs'[broadcastPool'[u]].status = "Broadcast"
    BY <1>2, <2>1, <2>2, <2>3, <2>5 DEF Located
  <2>7. /\ \A u \in Tx : pendingPool'[u] # nil => objs'[pendingPool'[u]].status = "Pending"
        /\ \A u \in Tx : invalidPool'[u] # nil => objs'[invalidPool'[u]].status = "Invalid"
    BY <1>2, <2>1, <2>2, <2>5 DEF Located
  <2>8. /\ \A i \in 1..Len(validationChan') : objs'[validationChan'[i]].status = "Validating"
        /\ \A i, j \in 1..Len(validationChan') : validationChan'[i] = validationChan'[j] => i = j
    BY <1>2, <2>1, <2>4, <2>5 DEF Located
  <2> QED
    BY <2>6, <2>7, <2>8 DEF Located
<1>7. Reachable'
  <2>1. allTransactions' = [allTransactions EXCEPT ![t] = o] /\ allTransactions \in [Tx -> Object \cup {nil}]
    BY <1>0 DEF BroadcastTransaction, Types, PoolOK, Pool
  <2>2. (StatusOf(t) = "Broadcast")'
    BY <2>1, <1>2 DEF StatusOf
  <2>3. \A u \in Tx \ {t} : allTransactions[u] # nil => StatusOf(u)' = StatusOf(u)
    BY <2>1, <1>0, <1>2 DEF StatusOf, Types, PoolOK
  <2>4. \A u \in Tx \ {t} : allTransactions'[u] = allTransactions[u]
    BY <2>1
  <2>5. pendingPool' = pendingPool /\ validationChan' = validationChan
    BY DEF BroadcastTransaction
  <2> QED
    BY <2>2, <2>3, <2>4, <2>5 DEF IInv, Reachable
<1>8. Recorded' /\ NoReplay'
  <2>1. UNCHANGED <<passed, senderNonce>>
    BY DEF BroadcastTransaction
  <2>2. \A p \in passed : objs'[p] = objs[p]
    BY <1>0, <1>2 DEF Types
  <2>3. Recorded'
    BY <2>1, <2>2 DEF IInv, Recorded
  <2>4. NoReplay'
    BY <2>1, <2>2 DEF IInv, NoReplay
  <2> QED
    BY <2>3, <2>4
<1> QED
  BY <1>4, <1>5, <1>6, <1>7, <1>8 DEF IInv

\* The broadcast worker moves an object to the channel or to pendingPool.
LEMMA BroadcastWorkerInv ==
    ASSUME IInv, processBroadcastTransaction
    PROVE  IInv'
<1> DEFINE t == Head(broadcastChan)
           o == broadcastPool[t]
<1>0. Types
  BY DEF IInv
<1>1. t \in Tx /\ broadcastChan' \in Seq(Tx) /\ broadcastPool' = [broadcastPool EXCEPT ![t] = nil]
  BY <1>0, HeadTailProperties DEF processBroadcastTransaction, Types
<1>2. UNCHANGED <<invalidPool, allTransactions, currentBytes, senderNonce, running, workers, passed>>
  BY DEF processBroadcastTransaction
<1>3. PoolOK(broadcastPool', objs) /\ Len(objs) \in Nat
  BY <1>0, <1>1 DEF Types, PoolOK, Pool, nil
<1>4. Accounted'
  BY <1>2 DEF IInv, Accounted, Indexed, Members
<1>5. CASE o = nil
  <2>1. UNCHANGED <<objs, pendingPool, validationPool, validationChan>>
    BY <1>5 DEF processBroadcastTransaction
  <2>2. Types'
    BY <1>0, <1>1, <1>2, <1>3, <2>1 DEF Types
  <2>3. Located'
    BY <1>0, <1>1, <1>2, <2>1 DEF IInv, Located, Types, PoolOK, Pool
  <2>4. Reachable' /\ Recorded' /\ NoReplay'
    BY <1>2, <2>1 DEF IInv, Reachable, StatusOf, Recorded, NoReplay
  <2> QED
    BY <1>4, <2>2, <2>3, <2>4 DEF IInv
<1>6. CASE o # nil
  <2>1. o \in 1..Len(objs) /\ objs[o].tx = t /\ objs[o].status = "Broadcast"
    BY <1>0, <1>1, <1>6 DEF IInv, Located, Types, PoolOK
  <2>2. PICK s \in {"Validating", "Pending"} :
          /\ objs' = [objs EXCEPT ![o].status = s]
          /\ s = "Validating" =>
                /\ validationPool' = [validationPool EXCEPT ![t] = o]
                /\ validationChan' = Append(validationChan, o)
                /\ UNCHANGED pendingPool
          /\ s = "Pending" =>
                /\ validationPool' = [validationPool EXCEPT ![t] = nil]
                /\ pendingPool' = [pendingPool EXCEPT ![t] = o]
                /\ UNCHANGED validationChan
    BY <1>6 DEF processBroadcastTransaction
  <2> HIDE DEF o, t
  <2>3. /\ Grows(objs, objs') /\ Len(objs') = Len(objs) /\ objs'[o].status = s
        /\ \A p \in 1..Len(objs) : p # o => objs'[p] = objs[p]
    <3>1. s \in Status /\ objs \in Seq(Pooled)
      BY <1>0 DEF Status, Types
    <3>2. objs' = Marked(objs, o, s)
      BY <2>2 DEF Marked
    <3> QED
      BY <3>1, <3>2, <2>1, StatusGrows
  <2>4. /\ objs' \in Seq(Pooled) /\ Len(objs') <= MaxObjects /\ objs'[o].tx = t
        /\ \A p \in 1..Len(objs) : objs'[p].tx = objs[p].tx
    BY <1>0, <2>1, <2>3 DEF Grows, Types
  <2>5. /\ PoolOK(broadcastPool', objs') /\ PoolOK(pendingPool, objs') /\ PoolOK(validationPool, objs')
        /\ PoolOK(invalidPool, objs') /\ PoolOK(allTransactions, objs')
    BY <1>0, <1>3, <2>3, PoolGrows DEF Types
  <2>6. PoolOK(pendingPool', objs') /\ PoolOK(validationPool', objs')
    <3>1. PoolOK([pendingPool EXCEPT ![t] = o], objs') /\ PoolOK([validationPool EXCEPT ![t] = o], objs')
      BY <1>1, <2>1, <2>3, <2>4, <2>5, PoolFiles
    <3>2. PoolOK([validationPool EXCEPT ![t] = nil], objs')
      BY <1>1, <2>5 DEF PoolOK, Pool
    <3> QED
      BY <2>2, <2>5, <3>1, <3>2
  <2>7. validationChan \in Seq(1..Len(objs)) /\ Len(validationChan) \in Nat
    BY <1>0 DEF Types
  <2>71. ASSUME s = "Validating"
         PROVE  /\ validationChan' \in Seq(1..Len(objs))
                /\ Len(validationChan') = Len(validationChan) + 1
                /\ validationChan'[Len(validationChan) + 1] = o
                /\ \A i \in 1..Len(validationChan) : validationChan'[i] = validationChan[i]
    <3>1. validationChan' = Append(validationChan, o)
      BY <2>2, <2>71
    <3> QED
      BY <2>1, <2>7, <3>1, AppendProperties
  <2>72. validationChan' \in Seq(1..Len(objs'))
    BY <2>2, <2>3, <2>7, <2>71
  <2>8. Types'
    BY <1>0, <1>1, <1>2, <2>3, <2>4, <2>5, <2>6, <2>72 DEF Types
  <2>9. \A i \in 1..Len(validationChan) : validationChan[i] \in 1..Len(objs) /\ validationChan[i] # o
    BY <2>1, <2>7 DEF IInv, Located
  <2>10. Located'
    <3>1. \A u \in Tx : broadcastPool'[u] # nil =>
             broadcastPool'[u] = broadcastPool[u] /\ broadcastPool[u] \in 1..Len(objs) /\ broadcastPool[u] # o
      BY <1>0, <1>1, <2>1 DEF Types, PoolOK, Pool
    <3>2. \A u \in Tx : pendingPool[u] # nil => pendingPool[u] \in 1..Len(objs) /\ pendingPool[u] # o
      BY <1>0, <2>1 DEF IInv, Located, Types, PoolOK
    <3>3. \A u \in Tx : invalidPool[u] # nil => invalidPool[u] \in 1..Len(objs) /\ invalidPool[u] # o
      BY <1>0, <2>1 DEF IInv, Located, Types, PoolOK
    <3>4. \A u \in Tx : pendingPool'[u] = pendingPool[u] \/ (pendingPool'[u] = o /\ s = "Pending")
      BY <1>0, <1>1, <2>2 DEF Types, PoolOK, Pool
    <3>5. /\ \A i \in 1..Len(validationChan') : objs'[validationChan'[i]].status = "Validating"
          /\ \A i, j \in 1..Len(validationChan') : validationChan'[i] = validationChan'[j] => i = j
      <4>1. /\ \A i \in 1..Len(validationChan) : objs'[validationChan[i]].status = "Validating"
            /\ \A i, j \in 1..Len(validationChan) : validationChan[i] = validationChan[j] => i = j
        BY <2>3, <2>9 DEF IInv, Located
      <4>2. CASE s = "Validating"
        <5>1. \A i \in 1..Len(validationChan') :
                 i \in 1..Len(validationChan) \/ (i = Len(validationChan) + 1 /\ validationChan'[i] = o)
          BY <4>2, <2>7, <2>71
        <5>2. \A i \in 1..Len(validationChan) : validationChan'[i] = validationChan[i] /\ validationChan[i] # o
          BY <4>2, <2>71, <2>9
        <5>3. objs'[o].status = "Validating"
          BY <4>2, <2>3
        <5>4. \A i \in 1..Len(validationChan') : objs'[validationChan'[i]].status = "Validating"
          BY <4>1, <5>1, <5>2, <5>3
        <5>5. \A i, j \in 1..Len(validationChan') : validationChan'[i] = validationChan'[j] => i = j
          BY <4>1, <5>1, <5>2
        <5> QED
          BY <5>4, <5>5
      <4>3. CASE s = "Pending"
        BY <4>1, <4>3, <2>2
      <4> QED
        BY <4>2, <4>3
    <3> QED
      BY <1>2, <2>3, <3>1, <3>2, <3>3, <3>4, <3>5 DEF IInv, Located
  <2>11. Reachable'
    <3>1. \A u \in Tx : allTransactions[u] # nil =>
             /\ allTransactions[u] \in 1..Len(objs)
             /\ allTransactions[u] = o => u = t
      BY <1>0, <2>1 DEF Types, PoolOK
    <3>2. \A u \in Tx : pendingPool[u] # nil \/ (u = t /\ s = "Pending") => pendingPool'[u] # nil
      BY <1>0, <1>1, <2>1, <2>2 DEF Types, PoolOK, Pool, nil
    <3>3. \A p \in 1..Len(objs) :
             \/ p = o /\ s = "Validating"
             \/ \E i \in 1..Len(validationChan) : validationChan[i] = p
             => \E i \in 1..Len(validationChan') : validationChan'[i] = p
      <4>2. CASE s = "Validating"
        BY <4>2, <2>7, <2>71
      <4>3. CASE s = "Pending"
        BY <4>3, <2>2
      <4> QED
        BY <4>2, <4>3
    <3> QED
      BY <1>2, <2>3, <3>1, <3>2, <3>3 DEF IInv, Reachable, StatusOf
  <2>12. Recorded' /\ NoReplay'
    <3>1. \A p \in passed : objs'[p].tx = objs[p].tx
      BY <1>0, <2>4 DEF Types
    <3> QED
      BY <1>2, <3>1 DEF IInv, Recorded, NoReplay
  <2> QED
    BY <1>4, <2>8, <2>10, <2>11, <2>12 DEF IInv
<1> QED
  BY <1>5, <1>6

\* The validation worker files the head of its channel as pending or invalid.
LEMMA ValidationWorkerInv ==
    ASSUME IInv, validateTransaction
    PROVE  IInv'
<1> DEFINE o == Head(validationChan)
           t == objs[o].tx
<1>0. Types /\ validationChan # <<>>
  BY DEF IInv, validateTransaction
<1>1. /\ o \in 1..Len(objs) /\ validationChan' \in Seq(1..Len(objs)) /\ o = validationChan[1]
      /\ Len(validationChan) \in Nat /\ Len(validationChan') = Len(validationChan) - 1
      /\ \A i \in 1..Len(validationChan') : validationChan'[i] = validationChan[i + 1]
  BY <1>0, HeadTailProperties DEF validateTransaction, Types
<1>2. t \in Tx /\ SenderOf[t] \in Sender /\ NonceOf[t] \in Nat /\ Len(objs) \in Nat
  <2>1. objs[o] \in Pooled
    BY <1>0, <1>1 DEF Types
  <2> QED
    <3>1. t \in Tx
      BY <2>1 DEF Pooled
    <3> HIDE DEF t
    <3> QED
      BY <3>1, <1>0, TxAssumption DEF Types
<1>3. UNCHANGED <<broadcastPool, allTransactions, currentBytes, broadcastChan, running, workers>>
  BY DEF validateTransaction
<1>4. PICK s \in {"Pending", "Invalid"} :
        /\ s = "Pending" => ~Replayed(t) /\ ValidationSucceeds(o, t)
        /\ s = "Invalid" => ValidationFails(o, t)
  BY DEF validateTransaction
<1>5. validationPool' = [validationPool EXCEPT ![t] = nil] /\ objs' = Marked(objs, o, s)
  BY <1>4 DEF validateTransaction, ValidationSucceeds, ValidationFails, Marked
<1> HIDE DEF o, t
<1>6. /\ Grows(objs, objs') /\ Len(objs') = Len(objs) /\ objs'[o].status = s
      /\ \A p \in 1..Len(objs) : p # o => objs'[p] = objs[p]
  <2>1. s \in Status /\ objs \in Seq(Pooled)
    BY <1>0 DEF Status, Types
  <2>4. o \in 1..Len(objs)
    BY <1>1
  <2> DEFINE marked == Marked(objs, o, s)
  <2>2. /\ Grows(objs, marked) /\ Len(marked) = Len(objs) /\ marked[o].status = s
        /\ \A p \in 1..Len(objs) : p # o => marked[p] = objs[p]
    BY <2>1, <2>4, StatusGrows
  <2>3. objs' = marked
    BY <1>5
  <2> HIDE DEF marked
  <2> QED
    BY <2>2, <2>3
<1>7. objs[o].tx = t /\ objs[o].status = "Validating"
  BY <1>0, <1>1 DEF t, IInv, Located
<1>8. /\ objs' \in Seq(Pooled) /\ Len(objs') <= MaxObjects /\ objs'[o].tx = t
      /\ \A p \in 1..Len(objs) : objs'[p].tx = objs[p].tx
  BY <1>0, <1>1, <1>6, <1>7 DEF Grows, Types
<1>9. Accounted'
  BY <1>3 DEF IInv, Accounted, Indexed, Members
<1>10. /\ \A u \in Tx : pendingPool'[u] = pendingPool[u] \/ (s = "Pending" /\ u = t /\ pendingPool'[u] = o)
       /\ \A u \in Tx : invalidPool'[u] = invalidPool[u] \/ (s = "Invalid" /\ u = t /\ invalidPool'[u] = o)
       /\ s = "Pending" => pendingPool'[t] = o
  BY <1>0, <1>2, <1>4 DEF ValidationSucceeds, ValidationFails, Types, PoolOK, Pool
<1>11. Types'
  <2>1. /\ PoolOK(broadcastPool, objs') /\ PoolOK(pendingPool, objs') /\ PoolOK(validationPool, objs')
        /\ PoolOK(invalidPool, objs') /\ PoolOK(allTransactions, objs')
    BY <1>0, <1>6, PoolGrows DEF Types
  <2>2. PoolOK([pendingPool EXCEPT ![t] = o], objs') /\ PoolOK([invalidPool EXCEPT ![t] = o], objs')
    BY <2>1, <1>1, <1>2, <1>6, <1>8, PoolFiles
  <2>3. PoolOK(validationPool', objs')
    BY <2>1, <1>2, <1>5 DEF PoolOK, Pool
  <2>4. PoolOK(pendingPool', objs') /\ PoolOK(invalidPool', objs')
    BY <2>1, <2>2, <1>4 DEF ValidationSucceeds, ValidationFails
  <2>5. senderNonce' \in [Sender -> Nat] /\ passed' \subseteq 1..Len(objs')
    BY <1>0, <1>1, <1>2, <1>4, <1>6 DEF ValidationSucceeds, ValidationFails, Types
  <2> QED
    BY <1>0, <1>1, <1>3, <1>6, <1>8, <2>1, <2>3, <2>4, <2>5 DEF Types
<1>12. \A i \in 1..Len(validationChan') :
         /\ validationChan'[i] \in 1..Len(objs) /\ validationChan'[i] # o
         /\ objs[validationChan'[i]].status = "Validating"
  <2>1. \A i \in 1..Len(validationChan') : i + 1 \in 1..Len(validationChan) /\ i + 1 # 1
    BY <1>1
  <2>2. 1 \in 1..Len(validationChan)
    BY <1>0, <1>1 DEF Types
  <2>3. /\ \A i \in 1..Len(validationChan) :
              validationChan[i] \in 1..Len(objs) /\ objs[validationChan[i]].status = "Validating"
        /\ \A i, j \in 1..Len(validationChan) : validationChan[i] = validationChan[j] => i = j
    BY <1>0 DEF IInv, Located, Types
  <2>4. ASSUME NEW i \in 1..Len(validationChan')
        PROVE  validationChan'[i] = validationChan[i + 1] /\ validationChan[i + 1] # o
    <3>1. validationChan'[i] = validationChan[i + 1] /\ o = validationChan[1]
      BY <1>1
    <3>2. i + 1 \in 1..Len(validationChan) /\ i + 1 # 1
      BY <2>1
    <3> QED
      BY <2>2, <2>3, <3>1, <3>2
  <2> QED
    BY <2>1, <2>3, <2>4
<1>13. Located'
  <2>1. \A u \in Tx : broadcastPool[u] # nil => broadcastPool[u] \in 1..Len(objs) /\ broadcastPool[u] # o
    BY <1>0, <1>7 DEF IInv, Located, Types, PoolOK
  <2>2. \A u \in Tx : pendingPool[u] # nil => pendingPool[u] \in 1..Len(objs) /\ pendingPool[u] # o
    BY <1>0, <1>7 DEF IInv, Located, Types, PoolOK
  <2>3. \A u \in Tx : invalidPool[u] # nil => invalidPool[u] \in 1..Len(objs) /\ invalidPool[u] # o
    BY <1>0, <1>7 DEF IInv, Located, Types, PoolOK
  <2>4. \A i \in 1..Len(validationChan') : objs'[validationChan'[i]].status = "Validating"
    BY <1>6, <1>12
  <2>5. \A i, j \in 1..Len(validationChan') : validationChan'[i] = validationChan'[j] => i = j
    <3>1. \A i \in 1..Len(validationChan') : i \in Int /\ i + 1 \in 1..Len(validationChan)
      BY <1>1
    <3>2. \A i, j \in 1..Len(validationChan) : validationChan[i] = validationChan[j] => i = j
      BY DEF IInv, Located
    <3> TAKE i, j \in 1..Len(validationChan')
    <3> HAVE validationChan'[i] = validationChan'[j]
    <3>3. i + 1 = j + 1
      BY <3>1, <3>2, <1>1
    <3> QED
      BY <3>1, <3>3
  <2> QED
    BY <1>3, <1>6, <1>10, <2>1, <2>2, <2>3, <2>4, <2>5 DEF IInv, Located
<1>14. Reachable'
  <2>1. \A u \in Tx : allTransactions[u] # nil =>
           allTransactions[u] \in 1..Len(objs) /\ (allTransactions[u] = o => u = t)
    BY <1>0, <1>7 DEF Types, PoolOK
  <2>2. \A u \in Tx : pendingPool[u] # nil \/ (u = t /\ s = "Pending") => pendingPool'[u] # nil
    BY <1>1, <1>10 DEF nil
  <2>3. \A p \in 1..Len(objs) : p # o /\ (\E i \in 1..Len(validationChan) : validationChan[i] = p)
           => \E i \in 1..Len(validationChan') : validationChan'[i] = p
    <3>1. \A i \in 1..Len(validationChan) : i # 1 =>
             i - 1 \in 1..Len(validationChan') /\ validationChan'[i - 1] = validationChan[i]
      BY <1>1
    <3> QED
      BY <3>1, <1>1
  <2> QED
    BY <1>3, <1>6, <2>1, <2>2, <2>3 DEF IInv, Reachable, StatusOf
<1>15. Recorded' /\ NoReplay'
  <2>1. \A p \in passed : p \in 1..Len(objs) /\ objs'[p].tx = objs[p].tx
    BY <1>0, <1>8 DEF Types
  <2>2. \A p \in passed : SenderOf[objs[p].tx] \in Sender /\ NonceOf[objs[p].tx] \in Nat
    <3>1. \A p \in passed : objs[p].tx \in Tx
      <4>1. \A p \in passed : objs[p] \in Pooled
        BY <2>1, <1>0 DEF Types
      <4> QED
        BY <4>1 DEF Pooled
    <3> QED
      BY <3>1, TxAssumption
  <2>3. senderNonce \in [Sender -> Nat]
    BY <1>0 DEF Types
  <2>4. CASE s = "Invalid"
    BY <2>1, <2>4, <1>4 DEF IInv, Recorded, NoReplay, ValidationFails
  <2>5. CASE s = "Pending"
    <3>1. /\ senderNonce' = [senderNonce EXCEPT ![SenderOf[t]] = IF NonceOf[t] > @ THEN NonceOf[t] ELSE @]
          /\ passed' = passed \cup {o}
          /\ ~(senderNonce[SenderOf[t]] > 0 /\ NonceOf[t] <= senderNonce[SenderOf[t]])
      BY <2>5, <1>4 DEF ValidationSucceeds, Replayed
    <3>2. Recorded'
      <4>1. /\ senderNonce'[SenderOf[t]] >= NonceOf[t]
            /\ \A a \in Sender : senderNonce'[a] >= senderNonce[a] /\ senderNonce'[a] \in Nat
        BY <3>1, <2>3, <1>2
      <4>2. \A p \in passed : NonceOf[objs[p].tx] <= senderNonce'[SenderOf[objs[p].tx]]
        BY <4>1, <2>2, <2>3 DEF IInv, Recorded
      <4> QED
        BY <3>1, <4>1, <4>2, <2>1, <1>2, <1>8 DEF Recorded
    <3>3. \A p \in passed : SenderOf[objs[p].tx] = SenderOf[t] /\ (NonceOf[objs[p].tx] > 0 \/ NonceOf[t] > 0)
             => NonceOf[objs[p].tx] # NonceOf[t]
      BY <3>1, <2>2, <2>3, <1>2 DEF IInv, Recorded
    <3>4. NoReplay'
      <4>1. NoReplay
        BY DEF IInv
      <4>2. \A p \in passed' : objs'[p].tx = objs[p].tx
        BY <3>1, <2>1, <1>7, <1>8
      <4>3. ASSUME NEW p \in passed', NEW q \in passed', p # q,
                   SenderOf[objs[p].tx] = SenderOf[objs[q].tx], NonceOf[objs[p].tx] > 0
            PROVE  NonceOf[objs[p].tx] # NonceOf[objs[q].tx]
        <5>1. CASE p \in passed /\ q \in passed
          BY <4>1, <4>3, <5>1 DEF NoReplay
        <5>2. CASE p = o /\ q \in passed
          BY <3>3, <4>3, <5>2, <1>7
        <5>3. CASE p \in passed /\ q = o
          BY <3>3, <4>3, <5>3, <1>7
        <5> QED
          BY <3>1, <4>3, <5>1, <5>2, <5>3
      <4> QED
        BY <4>2, <4>3 DEF NoReplay
    <3> QED
      BY <3>2, <3>4
  <2> QED
    BY <2>4, <2>5
<1> QED
  BY <1>9, <1>11, <1>13, <1>14, <1>15 DEF IInv

\* Removing transactions of the index gives back at most what they weigh.
LEMMA RemovalInv ==
    ASSUME IInv, NEW T \in SUBSET Indexed, removeTransactionFromAllPools(T)
    PROVE  IInv'
<1>0. Types
  BY DEF IInv
<1>1. UNCHANGED <<objs, broadcastChan, validationChan, senderNonce, running, workers, passed>>
  BY DEF removeTransactionFromAllPools, chans
<1>2. /\ \A t \in Tx : broadcastPool'[t] = nil \/ broadcastPool'[t] = broadcastPool[t]
      /\ \A t \in Tx : pendingPool'[t] = nil \/ pendingPool'[t] = pendingPool[t]
      /\ \A t \in Tx : validationPool'[t] = nil \/ validationPool'[t] = validationPool[t]
      /\ \A t \in Tx : invalidPool'[t] = nil \/ invalidPool'[t] = invalidPool[t]
      /\ \A t \in Tx : t \notin T => pendingPool'[t] = pendingPool[t]
  BY DEF removeTransactionFromAllPools, Without
<1>3. \A t \in Tx : allTransactions'[t] = IF t \in T THEN nil ELSE allTransactions[t]
  BY DEF removeTransactionFromAllPools
<1>4. /\ broadcastPool' \in [Tx -> Nat] /\ pendingPool' \in [Tx -> Nat] /\ validationPool' \in [Tx -> Nat]
      /\ invalidPool' \in [Tx -> Nat] /\ allTransactions' \in [Tx -> Nat]
  BY <1>0 DEF removeTransactionFromAllPools, Without, Types, PoolOK, Pool, Object, nil
<1>5. /\ PoolOK(broadcastPool', objs) /\ PoolOK(pendingPool', objs) /\ PoolOK(validationPool', objs)
      /\ PoolOK(invalidPool', objs) /\ PoolOK(allTransactions', objs)
  <2>1. /\ Shrunk(broadcastPool', broadcastPool) /\ Shrunk(pendingPool', pendingPool)
        /\ Shrunk(validationPool', validationPool) /\ Shrunk(invalidPool', invalidPool)
        /\ Shrunk(allTransactions', allTransactions)
    BY <1>2, <1>3, <1>4 DEF Shrunk
  <2> QED
    BY <1>0, <2>1, PoolShrinks DEF Types
<1>6. T \in SUBSET Tx /\ Counted(T) \in SUBSET T /\ Indexed \in SUBSET Tx /\ Indexed' = Indexed \ T
  BY <1>3 DEF Indexed, Members, Counted
<1>7. /\ Bytes[Indexed] = Bytes[Indexed'] + Bytes[T]
      /\ Bytes[Indexed'] \in Nat /\ Bytes[T] \in Nat /\ Bytes[Counted(T)] \in Nat
      /\ Bytes[Counted(T)] <= Bytes[T]
  <2>1. Indexed' \cap T = {} /\ Indexed' \cup T = Indexed /\ Indexed' \in SUBSET Tx
    BY <1>6
  <2> QED
    BY <2>1, <1>6, BytesAssumption, BytesMonotone
<1>8. currentBytes' = IF currentBytes >= Bytes[Counted(T)] THEN currentBytes - Bytes[Counted(T)] ELSE 0
  BY DEF removeTransactionFromAllPools
<1>9. /\ currentBytes \in Nat /\ Bytes[Indexed] <= currentBytes /\ Bytes[Indexed] <= MaxBytes
      /\ MaxBytes \in Nat
  BY LimitAssumption DEF IInv, Types, Accounted
<1>10. Accounted' /\ currentBytes' \in Nat
  BY <1>7, <1>8, <1>9 DEF Accounted
<1>11. Types'
  BY <1>0, <1>1, <1>5, <1>10 DEF Types
<1>12. Located'
  BY <1>1, <1>2 DEF IInv, Located
<1>13. Reachable'
  <2>1. ASSUME NEW t \in Tx, allTransactions'[t] # nil
        PROVE  /\ StatusOf(t)' = "Pending" => pendingPool'[t] # nil
               /\ StatusOf(t)' = "Validating" =>
                     \E i \in 1..Len(validationChan') : validationChan'[i] = allTransactions'[t]
    <3>1. t \notin T /\ allTransactions'[t] = allTransactions[t] /\ allTransactions[t] # nil
      BY <1>3, <2>1
    <3>2. StatusOf(t)' = StatusOf(t) /\ pendingPool'[t] = pendingPool[t]
      BY <1>1, <1>2, <3>1 DEF StatusOf
    <3>3. validationChan' = validationChan
      BY <1>1
    <3>4. /\ StatusOf(t) = "Pending" => pendingPool[t] # nil
          /\ StatusOf(t) = "Validating" =>
                \E i \in 1..Len(validationChan) : validationChan[i] = allTransactions[t]
      BY <3>1 DEF IInv, Reachable
    <3> QED
      BY <3>1, <3>2, <3>3, <3>4
  <2> QED
    BY <2>1 DEF Reachable
<1>14. Recorded' /\ NoReplay'
  BY <1>1 DEF IInv, Recorded, NoReplay
<1> QED
  BY <1>10, <1>11, <1>12, <1>13, <1>14 DEF IInv

\* Clear empties every pool and keeps the channels.
LEMMA ClearInv ==
    ASSUME IInv, Clear
    PROVE  IInv'
<1>0. Types
  BY DEF IInv
<1>1. UNCHANGED <<objs, broadcastChan, validationChan, senderNonce, running, workers, passed>>
  BY DEF Clear, chans
<1>2. PoolOK(EmptyPool, objs) /\ \A t \in Tx : EmptyPool[t] = nil
  BY DEF PoolOK, Pool, EmptyPool, nil
<1>3. /\ broadcastPool' = EmptyPool /\ pendingPool' = EmptyPool /\ validationPool' = EmptyPool
      /\ invalidPool' = EmptyPool /\ allTransactions' = EmptyPool /\ currentBytes' = 0
  BY DEF Clear
<1>4. Types'
  BY <1>0, <1>1, <1>2, <1>3 DEF Types
<1>5. Located' /\ Reachable'
  BY <1>1, <1>2, <1>3 DEF IInv, Located, Reachable
<1>6. Recorded' /\ NoReplay'
  BY <1>1 DEF IInv, Recorded, NoReplay
<1>7. Accounted'
  <2>1. Indexed' = {}
    BY <1>2, <1>3 DEF Indexed, Members
  <2> QED
    BY <2>1, <1>3, BytesAssumption, LimitAssumption DEF Accounted
<1> QED
  BY <1>4, <1>5, <1>6, <1>7 DEF IInv

\* Whatever leaves pools, channels and index alone keeps the invariant.
LEMMA IdleInv ==
    ASSUME IInv, running' \in BOOLEAN, workers' \subseteq Worker,
           UNCHANGED <<objs, pools, allTransactions, currentBytes, chans, senderNonce, passed>>
    PROVE  IInv'
<1>1. /\ UNCHANGED <<objs, broadcastPool, pendingPool, validationPool, invalidPool, allTransactions>>
      /\ UNCHANGED <<currentBytes, broadcastChan, validationChan, senderNonce, passed>>
  BY DEF pools, chans
<1>2. Types'
  BY <1>1 DEF IInv, Types
<1>3. Located' /\ Recorded' /\ NoReplay'
  BY <1>1 DEF IInv, Located, Recorded, NoReplay
<1>4. Reachable'
  BY <1>1 DEF IInv, Reachable, StatusOf
<1>5. Accounted'
  <2>1. Indexed' = Indexed
    BY <1>1 DEF Indexed, Members
  <2> QED
    BY <1>1, <2>1 DEF IInv, Accounted
<1> QED
  BY <1>2, <1>3, <1>4, <1>5 DEF IInv

\* Every order in which the ids are ranged over, cut to the room there is, is a
\* sequence of ids.
LEMMA RetryChannel ==
    ASSUME NEW R \in SUBSET Tx, NEW q \in Orders(R), NEW chan \in Seq(Tx), NEW room \in Nat
    PROVE  chan \o SubSeq(q, 1, IF Len(q) <= room THEN Len(q) ELSE room) \in Seq(Tx)
<1> DEFINE k == IF Len(q) <= room THEN Len(q) ELSE room
<1>1. Cardinality(R) \in Nat
  BY TxAssumption, FS_Subset, FS_CardinalityType
<1>2. q \in [1..Cardinality(R) -> R]
  BY DEF Orders
<1>3. q \in Seq(R) /\ Len(q) = Cardinality(R)
  BY <1>1, <1>2
<1>4. k \in Int /\ \A i \in 1..k : q[i] \in Tx
  BY <1>1, <1>2, <1>3
<1> HIDE DEF k
<1>5. SubSeq(q, 1, k) \in Seq(Tx)
  BY <1>4, SubSeqProperties
<1>6. chan \o SubSeq(q, 1, k) \in Seq(Tx)
  BY <1>5, ConcatProperties
<1> QED
  BY <1>6 DEF k

\* A failed object that is tried again.
Retried(object) == [object EXCEPT !.status = "Broadcast", !.retry = @ + 1]

\* It is the same transaction, waiting for broadcast.
LEMMA RetriedType ==
    ASSUME NEW object \in Pooled
    PROVE  Retried(object) \in Pooled /\ Retried(object).tx = object.tx
           /\ Retried(object).status = "Broadcast"
<1>1. object.retry + 1 \in Nat /\ "Broadcast" \in Status
  BY DEF Pooled, Status
<1> QED
  BY <1>1 DEF Pooled, Retried

\* A retry moves failed objects back and counts their bytes again.
LEMMA RetryInv ==
    ASSUME IInv, RetryFailedTransactions
    PROVE  IInv'
<1> DEFINE R == Retryable
           hit(o) == \E t \in R : invalidPool[t] = o
<1>0. Types
  BY DEF IInv
<1>1. UNCHANGED <<pendingPool, validationPool, allTransactions, validationChan, senderNonce,
                  running, workers, passed>>
  BY DEF RetryFailedTransactions
<1>2. R \in SUBSET Tx /\ \A t \in R : invalidPool[t] # nil
  BY DEF Retryable, Members
<1>3. \A t \in R : invalidPool[t] \in 1..Len(objs) /\ objs[invalidPool[t]].tx = t
                     /\ objs[invalidPool[t]].status = "Invalid"
  BY <1>0, <1>2 DEF IInv, Types, PoolOK, Located
<1>4. Len(objs) \in Nat /\ DOMAIN objs = 1..Len(objs) /\ \A o \in 1..Len(objs) : objs[o] \in Pooled
  BY <1>0 DEF Types
<1>5. /\ objs' = [o \in 1..Len(objs) |->
                     IF hit(o) THEN Retried(objs[o]) ELSE objs[o]]
      /\ broadcastPool' = [t \in Tx |-> IF t \in R THEN invalidPool[t] ELSE broadcastPool[t]]
      /\ invalidPool' = [t \in Tx |-> IF t \in R THEN nil ELSE invalidPool[t]]
      /\ currentBytes' = currentBytes + Bytes[R]
  BY <1>4 DEF RetryFailedTransactions, Retried
<1>6. \A o \in 1..Len(objs) : /\ Retried(objs[o]) \in Pooled /\ Retried(objs[o]).tx = objs[o].tx
                              /\ Retried(objs[o]).status = "Broadcast"
  BY <1>4, RetriedType
<1> HIDE DEF R, hit
<1>7. /\ \A o \in 1..Len(objs) : hit(o) => objs'[o].status = "Broadcast"
      /\ \A o \in 1..Len(objs) : ~hit(o) => objs'[o] = objs[o]
      /\ \A o \in 1..Len(objs) : objs'[o].tx = objs[o].tx /\ objs'[o] \in Pooled
  BY <1>4, <1>5, <1>6
<1>8. objs' \in Seq(Pooled) /\ Len(objs') = Len(objs)
  <2>1. objs' = [o \in 1..Len(objs) |-> objs'[o]]
    BY <1>5
  <2>2. objs' \in [1..Len(objs) -> Pooled]
    BY <2>1, <1>7
  <2> QED
    BY <2>2, <1>4
<1>9. Grows(objs, objs') /\ Len(objs') <= MaxObjects
  BY <1>0, <1>4, <1>7, <1>8 DEF Grows, Types
<1>10. Types'
  <2>1. /\ PoolOK(broadcastPool, objs') /\ PoolOK(pendingPool, objs') /\ PoolOK(validationPool, objs')
        /\ PoolOK(invalidPool, objs') /\ PoolOK(allTransactions, objs')
    BY <1>0, <1>9, PoolGrows DEF Types
  <2>2. PoolOK(broadcastPool', objs') /\ PoolOK(invalidPool', objs')
    <3>1. \A t \in Tx : /\ broadcastPool'[t] \in {broadcastPool[t], invalidPool[t]}
                        /\ invalidPool'[t] \in {invalidPool[t], nil}
      BY <1>5
    <3>2. /\ broadcastPool' = [t \in Tx |-> broadcastPool'[t]]
          /\ invalidPool' = [t \in Tx |-> invalidPool'[t]]
      BY <1>5
    <3>3. /\ broadcastPool \in [Tx -> Object \cup {nil}] /\ invalidPool \in [Tx -> Object \cup {nil}]
          /\ \A t \in Tx : broadcastPool[t] # nil =>
                broadcastPool[t] \in 1..Len(objs') /\ objs'[broadcastPool[t]].tx = t
          /\ \A t \in Tx : invalidPool[t] # nil =>
                invalidPool[t] \in 1..Len(objs') /\ objs'[invalidPool[t]].tx = t
      BY <2>1 DEF PoolOK, Pool
    <3>4. broadcastPool' \in Pool /\ invalidPool' \in Pool
      BY <3>1, <3>2, <3>3 DEF Pool
    <3>5. \A t \in Tx : broadcastPool'[t] # nil =>
            broadcastPool'[t] \in 1..Len(objs') /\ objs'[broadcastPool'[t]].tx = t
      BY <3>1, <3>3
    <3>6. \A t \in Tx : invalidPool'[t] # nil =>
            invalidPool'[t] \in 1..Len(objs') /\ objs'[invalidPool'[t]].tx = t
      BY <3>1, <3>3
    <3> QED
      BY <3>4, <3>5, <3>6 DEF PoolOK
  <2>3. currentBytes' \in Nat
    <3>1. Bytes[R] \in Nat /\ currentBytes' = currentBytes + Bytes[R]
      BY <1>2, <1>5, BytesAssumption
    <3> QED
      BY <3>1, <1>0 DEF Types
  <2>4. broadcastChan' \in Seq(Tx)
    <3>1. PICK q \in Orders(R) : broadcastChan' = broadcastChan \o
             SubSeq(q, 1, IF Len(q) <= Room(BroadcastCap, broadcastChan)
                          THEN Len(q) ELSE Room(BroadcastCap, broadcastChan))
      BY DEF RetryFailedTransactions, R
    <3>2. Room(BroadcastCap, broadcastChan) \in Nat /\ broadcastChan \in Seq(Tx)
      BY <1>0, LimitAssumption DEF Room, Types
    <3> QED
      BY <1>2, <3>1, <3>2, RetryChannel
  <2> QED
    BY <1>0, <1>1, <1>8, <1>9, <2>1, <2>2, <2>3, <2>4 DEF Types
<1>11. \A p \in 1..Len(objs) : objs[p].status # "Invalid" => ~hit(p)
  BY <1>3 DEF hit
<1>12. Located'
  <2>1. \A t \in Tx : broadcastPool'[t] # nil => objs'[broadcastPool'[t]].status = "Broadcast"
    <3>1. \A t \in R : hit(invalidPool[t])
      BY DEF hit
    <3>2. \A t \in Tx : broadcastPool[t] # nil =>
             broadcastPool[t] \in 1..Len(objs) /\ objs[broadcastPool[t]].status = "Broadcast"
      BY <1>0 DEF IInv, Located, Types, PoolOK
    <3> QED
      BY <3>1, <3>2, <1>3, <1>5, <1>7
  <2>2. \A t \in Tx : pendingPool[t] # nil => objs'[pendingPool[t]].status = "Pending"
    <3>1. \A t \in Tx : pendingPool[t] # nil =>
             pendingPool[t] \in 1..Len(objs) /\ objs[pendingPool[t]].status = "Pending"
      BY <1>0 DEF IInv, Located, Types, PoolOK
    <3> QED
      BY <3>1, <1>7, <1>11
  <2>3. \A t \in Tx : invalidPool'[t] # nil => objs'[invalidPool'[t]].status = "Invalid"
    <3>1. \A t \in Tx : invalidPool[t] # nil => invalidPool[t] \in 1..Len(objs)
             /\ objs[invalidPool[t]].tx = t /\ objs[invalidPool[t]].status = "Invalid"
      BY <1>0 DEF IInv, Located, Types, PoolOK
    <3>2. \A t \in Tx : t \notin R /\ invalidPool[t] # nil => ~hit(invalidPool[t])
      <4>1. ASSUME NEW t \in Tx, t \notin R, invalidPool[t] # nil, hit(invalidPool[t]) PROVE FALSE
        <5>1. PICK u \in R : invalidPool[u] = invalidPool[t]
          BY <4>1 DEF hit
        <5>2. u \in Tx /\ invalidPool[u] # nil
          BY <1>2, <4>1, <5>1
        <5>3. objs[invalidPool[u]].tx = u /\ objs[invalidPool[t]].tx = t
          BY <3>1, <4>1, <5>2
        <5>4. u = t
          BY <5>1, <5>3
        <5> QED
          BY <4>1, <5>1, <5>4
      <4> QED
        BY <4>1
    <3> QED
      BY <3>1, <3>2, <1>5, <1>7
  <2>4. \A i \in 1..Len(validationChan) : objs'[validationChan[i]].status = "Validating"
    BY <1>0, <1>7, <1>11 DEF IInv, Located, Types
  <2> QED
    BY <1>1, <2>1, <2>2, <2>3, <2>4 DEF IInv, Located
<1>13. Reachable'
  <2>1. \A t \in Tx : allTransactions[t] # nil => allTransactions[t] \in 1..Len(objs)
    BY <1>0 DEF Types, PoolOK
  <2>2. \A t \in Tx : allTransactions[t] # nil =>
           StatusOf(t)' = StatusOf(t) \/ StatusOf(t)' = "Broadcast"
    BY <2>1, <1>1, <1>7 DEF StatusOf
  <2> QED
    BY <1>1, <2>2 DEF IInv, Reachable
<1>14. Recorded' /\ NoReplay'
  <2>1. \A p \in passed : objs'[p].tx = objs[p].tx
    BY <1>0, <1>7 DEF Types
  <2> QED
    BY <1>1, <2>1 DEF IInv, Recorded, NoReplay
<1>15. Accounted'
  <2>1. Indexed' = Indexed /\ Indexed \in SUBSET Tx
    BY <1>1 DEF Indexed, Members
  <2>2. Bytes[R] \in Nat /\ Bytes[Indexed] \in Nat /\ currentBytes \in Nat
    BY <1>0, <1>2, <2>1, BytesAssumption DEF Types
  <2>3. currentBytes' = currentBytes + Bytes[R]
    BY <1>5
  <2> QED
    BY <2>1, <2>2, <2>3 DEF IInv, Accounted
<1> QED
  BY <1>10, <1>12, <1>13, <1>14, <1>15 DEF IInv

-----------------------------------------------------------------------------
(* The theorems. *)

\* Every step of the pool, of its workers and of its callers keeps the invariant.
LEMMA NextInv == IInv /\ [Next]_vars => IInv'
<1> SUFFICES ASSUME IInv, [Next]_vars PROVE IInv'
  OBVIOUS
<1>0. running \in BOOLEAN /\ workers \subseteq Worker
  BY DEF IInv, Types
<1>1. ASSUME NEW t \in Tx, BroadcastTransaction(t) PROVE IInv'
  BY <1>1, SubmissionInv
<1>2. CASE processBroadcastTransaction
  BY <1>2, BroadcastWorkerInv
<1>3. CASE validateTransaction
  BY <1>3, ValidationWorkerInv
<1>4. ASSUME NEW T \in SUBSET Tx, RemoveTransactions(T) PROVE IInv'
  <2>1. T \cap Indexed \in SUBSET Indexed /\ removeTransactionFromAllPools(T \cap Indexed)
    BY <1>4 DEF RemoveTransactions
  <2> QED
    BY <2>1, RemovalInv
<1>5. ASSUME NEW k \in Object, cleanupExpiredTransactions(k) PROVE IInv'
  <2> DEFINE T == {t \in Indexed : allTransactions[t] <= k}
  <2>1. T \in SUBSET Indexed /\ removeTransactionFromAllPools(T)
    BY <1>5 DEF cleanupExpiredTransactions
  <2> HIDE DEF T
  <2> QED
    BY <2>1, RemovalInv
<1>6. CASE RetryFailedTransactions
  BY <1>6, RetryInv
<1>7. CASE Clear
  BY <1>7, ClearInv
<1>8. CASE Stop
  BY <1>0, <1>8, IdleInv DEF Stop
<1>9. ASSUME NEW w \in Worker, WorkerReturns(w) PROVE IInv'
  BY <1>0, <1>9, IdleInv DEF WorkerReturns
<1>10. CASE UNCHANGED vars
  BY <1>0, <1>10, IdleInv DEF vars
<1> QED
  BY <1>1, <1>2, <1>3, <1>4, <1>5, <1>6, <1>7, <1>8, <1>9, <1>10 DEF Next

\* The invariant holds in every reachable state of the pool.
LEMMA Invariance == Spec => []IInv
<1> QED
  BY InitInv, NextInv, PTL DEF Spec

\* Every variable of the pool keeps its type: ids lead to objects of the heap
\* that carry that id, in all five maps and both channels.
THEOREM PoolIsTyped == Spec => []TypeOK
<1>1. IInv => TypeOK
  BY TypesIsTypeOK DEF IInv
<1> QED
  BY <1>1, Invariance, PTL

\* The byte counter never falls below what the index holds, so the reset
\* "to avoid underflow" in removeTransactionFromAllPools is never taken.
THEOREM PoolIsCounted == Spec => []NeverUndercounts
<1>1. IInv => NeverUndercounts
  BY DEF IInv, Accounted, NeverUndercounts
<1> QED
  BY <1>1, Invariance, PTL

\* The index never outgrows config.MaxBytes, although a retry adds bytes
\* without looking at the limit.
THEOREM PoolIsBounded == Spec => []MemoryBounded
<1>1. IInv => MemoryBounded
  BY DEF IInv, Accounted, MemoryBounded
<1> QED
  BY <1>1, Invariance, PTL

\* A pending transaction of the index stays offered to the proposer.
THEOREM PendingStaysOffered == Spec => []PendingIsOffered
<1>1. IInv => PendingIsOffered
  BY DEF IInv, Reachable, Located, PendingIsOffered, Indexed, Members
<1> QED
  BY <1>1, Invariance, PTL

\* No two submissions of one sender with the same non-zero nonce both pass
\* validateTransaction.
THEOREM ReplayIsRefused == Spec => []NoReplay
<1>1. IInv => NoReplay
  BY DEF IInv
<1> QED
  BY <1>1, Invariance, PTL

\* An indexed transaction in status Validating has its object in the channel.
THEOREM ValidatingStaysQueued == Spec => []ValidatingIsQueued
<1>1. IInv => ValidatingIsQueued
  <2> SUFFICES ASSUME IInv PROVE ValidatingIsQueued
    OBVIOUS
  <2>1. DOMAIN validationChan = 1..Len(validationChan)
    BY DEF IInv, Types
  <2> QED
    BY <2>1 DEF IInv, Reachable, ValidatingIsQueued, Indexed, Members
<1> QED
  BY <1>1, Invariance, PTL

-----------------------------------------------------------------------------
(* The randomness beacon: the inductive invariant. *)

submitting == {"check", "mark", "insert"}

\* The driver's registers, and one state of the beacon per node.
Shape ==
  /\ driver = [pc |-> driver.pc, round |-> driver.round, epoch |-> driver.epoch,
               i |-> driver.i, j |-> driver.j, on |-> driver.on]
  /\ driver.pc \in {"round", "eval"} \cup submitting
  /\ driver.pc # "round" => driver.i \in Nodes
  /\ driver.pc \in submitting => driver.j \in Nodes
  /\ DOMAIN mix = Nodes /\ mix = [n \in Nodes |-> mix[n]]
  /\ submissions = [n \in Nodes |-> submissions[n]]
  /\ cache = [n \in Nodes |-> cache[n]]

Keys(S) == {<<s.epoch, s.validator>> : s \in S}
Epochs(S) == {s.epoch : s \in S}

\* The cache holds the recorded submissions, and the one about to be recorded.
Cached ==
  /\ recoveries = 0
  /\ \A n \in Nodes :
       cache[n] = IF driver.pc = "insert" /\ n = driver.j
                  THEN Keys(submissions[n]) \cup {key} ELSE Keys(submissions[n])

\* What the submission under way makes of a beacon with submissions S and the
\* mix that the output was evaluated on.
Repeated(S) == key \in Keys(S)
SubmissionsAfter(S) ==
  IF Repeated(S) THEN S
  ELSE S \cup {[epoch |-> driver.epoch, validator |-> driver.i, on |-> driver.on]}
MixAfter(S) ==
  IF Repeated(S) \/ driver.epoch \in Epochs(S) THEN driver.on
  ELSE Xor(driver.on, {[epoch |-> driver.epoch, on |-> driver.on]})

\* The nodes below the one that the driver is at have taken the submission, the
\* others are still as they were, and nobody was told anything else.
Halfway(S) ==
  \A n \in Nodes :
    IF n < driver.j THEN submissions[n] = SubmissionsAfter(S) /\ mix[n] = MixAfter(S)
                    ELSE submissions[n] = S /\ mix[n] = driver.on

Agreeing ==
  /\ MixesAgree
  /\ driver.pc \in submitting => Halfway(submissions[driver.j])

\* One output for each epoch, from a submission of that epoch.
Drawn(M, S) ==
  /\ IsFiniteSet(M) /\ IsFiniteSet(Epochs(S))
  /\ Cardinality(M) = Cardinality(Epochs(S))
  /\ \A o \in M : \E s \in S : s.epoch = o.epoch /\ s.on = o.on

BeaconInv == Shape /\ Cached /\ Agreeing /\ \A n \in Nodes : Drawn(mix[n], submissions[n])

-----------------------------------------------------------------------------
(* The driver's registers. *)

\* The driver goes on to the next validator, or ends the round.
LEMMA NextValidatorIs ==
  ASSUME NumNodes \in Nat \ {0}, Shape, driver.i \in Nodes, driver' = NextValidator
  PROVE  /\ driver' = [pc |-> driver'.pc, round |-> driver'.round, epoch |-> driver'.epoch,
                       i |-> driver'.i, j |-> driver'.j, on |-> driver'.on]
         /\ driver'.pc \in {"round", "eval"}
         /\ driver'.pc # "round" => driver'.i \in Nodes
<1>1. CASE driver.i < NumNodes
  <2>1. driver' = [driver EXCEPT !.pc = "eval", !.i = driver.i + 1]
    BY <1>1 DEF NextValidator
  <2>2. driver' = [pc |-> "eval", round |-> driver.round, epoch |-> driver.epoch,
                   i |-> driver.i + 1, j |-> driver.j, on |-> driver.on]
    BY <2>1 DEF Shape
  <2> QED BY <1>1, <2>2 DEF Nodes
<1>2. CASE ~(driver.i < NumNodes)
  <2>1. driver' = [driver EXCEPT !.pc = "round"]
    BY <1>2 DEF NextValidator
  <2>2. driver' = [pc |-> "round", round |-> driver.round, epoch |-> driver.epoch,
                   i |-> driver.i, j |-> driver.j, on |-> driver.on]
    BY <2>1 DEF Shape
  <2> QED BY <2>2
<1> QED BY <1>1, <1>2

\* The driver goes on within a submission.
LEMMA SetsPc ==
  ASSUME Shape, NEW pc \in submitting, driver.pc \in submitting, driver' = [driver EXCEPT !.pc = pc]
  PROVE  /\ driver' = [pc |-> pc, round |-> driver.round, epoch |-> driver.epoch,
                       i |-> driver.i, j |-> driver.j, on |-> driver.on]
         /\ driver'.pc = pc /\ driver'.epoch = driver.epoch /\ driver'.i = driver.i
         /\ driver'.j = driver.j /\ driver'.on = driver.on
<1>1. driver' = [pc |-> pc, round |-> driver.round, epoch |-> driver.epoch,
                 i |-> driver.i, j |-> driver.j, on |-> driver.on]
  BY DEF Shape
<1> QED BY <1>1

\* The driver goes on to the next node, or to the next validator.
LEMMA NextTargetIs ==
  ASSUME NumNodes \in Nat \ {0}, Shape, driver.i \in Nodes, driver.j \in Nodes, driver' = NextTarget
  PROVE  /\ driver' = [pc |-> driver'.pc, round |-> driver'.round, epoch |-> driver'.epoch,
                       i |-> driver'.i, j |-> driver'.j, on |-> driver'.on]
         /\ IF driver.j < NumNodes
            THEN /\ driver'.pc = "check" /\ driver'.i = driver.i /\ driver'.j = driver.j + 1
                 /\ driver'.epoch = driver.epoch /\ driver'.on = driver.on
            ELSE /\ driver'.pc \in {"round", "eval"}
                 /\ driver'.pc # "round" => driver'.i \in Nodes
<1>1. CASE driver.j < NumNodes
  <2>1. driver' = [driver EXCEPT !.pc = "check", !.j = driver.j + 1]
    BY <1>1 DEF NextTarget
  <2>2. driver' = [pc |-> "check", round |-> driver.round, epoch |-> driver.epoch,
                   i |-> driver.i, j |-> driver.j + 1, on |-> driver.on]
    BY <2>1 DEF Shape
  <2> QED BY <1>1, <2>2
<1>2. CASE ~(driver.j < NumNodes)
  <2>1. driver' = NextValidator
    BY <1>2 DEF NextTarget
  <2> QED BY <1>2, <2>1, NextValidatorIs
<1> QED BY <1>1, <1>2

-----------------------------------------------------------------------------
(* One output per epoch. *)

LEMMA DrawnAfter ==
  ASSUME NEW M, NEW S, NEW e, NEW v, NEW on, Drawn(M, S)
  PROVE  Drawn(IF e \in Epochs(S) THEN M ELSE Xor(M, {[epoch |-> e, on |-> on]}),
               S \cup {[epoch |-> e, validator |-> v, on |-> on]})
<1> DEFINE sub == [epoch |-> e, validator |-> v, on |-> on]
           output == [epoch |-> e, on |-> on]
<1>1. sub.epoch = e /\ sub.on = on /\ output.epoch = e /\ output.on = on
  OBVIOUS
<1> HIDE DEF sub, output
<1>2. Epochs(S \cup {sub}) = Epochs(S) \cup {e}
  BY <1>1 DEF Epochs
<1>3. CASE e \in Epochs(S)
  <2>1. Epochs(S \cup {sub}) = Epochs(S)
    BY <1>2, <1>3
  <2> QED BY <1>3, <2>1 DEF Drawn, sub
<1>4. CASE e \notin Epochs(S)
  <2>1. output \notin M
    <3> SUFFICES ASSUME output \in M PROVE FALSE
      OBVIOUS
    <3>1. PICK s \in S : s.epoch = output.epoch
      BY DEF Drawn
    <3> QED BY <1>1, <1>4, <3>1 DEF Epochs
  <2>2. Xor(M, {output}) = M \cup {output}
    BY <2>1 DEF Xor
  <2>3. /\ IsFiniteSet(M \cup {output}) /\ Cardinality(M \cup {output}) = Cardinality(M) + 1
        /\ IsFiniteSet(Epochs(S) \cup {e})
        /\ Cardinality(Epochs(S) \cup {e}) = Cardinality(Epochs(S)) + 1
    BY <1>4, <2>1, FS_AddElement DEF Drawn
  <2>4. \A o \in M \cup {output} : \E s \in S \cup {sub} : s.epoch = o.epoch /\ s.on = o.on
    BY <1>1 DEF Drawn
  <2>5. Drawn(M \cup {output}, S \cup {sub})
    BY <1>2, <2>3, <2>4 DEF Drawn
  <2> QED BY <1>4, <2>2, <2>5 DEF sub, output
<1> QED BY <1>3, <1>4

-----------------------------------------------------------------------------
(* The steps of the driver and of the tickers. *)

LEMMA BeaconInitInv == BeaconInit => BeaconInv
<1> SUFFICES ASSUME BeaconInit PROVE BeaconInv
  OBVIOUS
<1>1. driver = [pc |-> "round", round |-> 0, epoch |-> 0, i |-> 1, j |-> 1, on |-> {}]
  BY DEF BeaconInit
<1>2. Shape
  BY <1>1 DEF BeaconInit, Shape, submitting
<1>3. \A n \in Nodes : mix[n] = {} /\ submissions[n] = {} /\ cache[n] = {}
  BY DEF BeaconInit
<1>4. Cached
  BY <1>1, <1>3 DEF BeaconInit, Cached, Keys
<1>5. Agreeing
  BY <1>1, <1>3 DEF Agreeing, MixesAgree, submitting
<1>6. Epochs({}) = {}
  BY DEF Epochs
<1>7. Drawn({}, {})
  BY <1>6, FS_EmptySet DEF Drawn
<1> QED BY <1>2, <1>3, <1>4, <1>5, <1>7 DEF BeaconInv

LEMMA BeginRoundInv == ASSUME NumNodes \in Nat \ {0}, BeaconInv, BeginRound PROVE BeaconInv'
<1>1. driver.pc = "round" /\ UNCHANGED <<mix, submissions, cache, recoveries>>
  BY DEF BeginRound, beacons
<1>2. driver' = [pc |-> "eval", round |-> driver.round + 1, epoch |-> clock,
                 i |-> 1, j |-> driver.j, on |-> driver.on]
  BY DEF BeginRound, BeaconInv, Shape
<1>3. Shape' /\ driver'.pc = "eval"
  BY <1>1, <1>2 DEF BeaconInv, Shape, Nodes, submitting
<1>4. Cached'
  BY <1>1, <1>3 DEF BeaconInv, Cached
<1>5. Agreeing'
  BY <1>1, <1>3 DEF BeaconInv, Agreeing, MixesAgree, submitting
<1> QED BY <1>1, <1>3, <1>4, <1>5 DEF BeaconInv

LEMMA EvalVDFInv == ASSUME NumNodes \in Nat \ {0}, BeaconInv, EvalVDF PROVE BeaconInv'
<1>1. driver.pc = "eval" /\ driver.i \in Nodes /\ UNCHANGED <<mix, submissions, cache, recoveries>>
  BY DEF EvalVDF, beacons, BeaconInv, Shape
<1>2. \A m, n \in Nodes : mix[m] = mix[n] /\ submissions[m] = submissions[n]
  BY <1>1 DEF BeaconInv, Agreeing, MixesAgree
<1>3. CASE driver' = [driver EXCEPT !.pc = "check", !.j = 1, !.on = mix[driver.i]]
  <2>1. driver' = [pc |-> "check", round |-> driver.round, epoch |-> driver.epoch,
                   i |-> driver.i, j |-> 1, on |-> mix[driver.i]]
    BY <1>3 DEF BeaconInv, Shape
  <2>2. Shape' /\ driver'.pc = "check" /\ driver'.j = 1 /\ driver'.on = mix[driver.i]
    BY <1>1, <2>1 DEF BeaconInv, Shape, Nodes, submitting
  <2>3. Cached'
    BY <1>1, <2>2 DEF BeaconInv, Cached
  <2>4. 1 \in Nodes /\ \A n \in Nodes : ~(n < 1)
    BY DEF Nodes
  <2>5. \A n \in Nodes : submissions'[n] = submissions'[1] /\ mix'[n] = mix[driver.i]
    BY <1>1, <1>2, <2>4
  <2>6. Halfway(submissions[driver.j])'
    BY <2>2, <2>4, <2>5 DEF Halfway
  <2>7. Agreeing'
    BY <2>2, <2>6 DEF Agreeing, MixesAgree
  <2> QED BY <1>1, <2>2, <2>3, <2>7 DEF BeaconInv
<1>4. CASE driver' = NextValidator
  <2>1. Shape' /\ driver'.pc \in {"round", "eval"}
    BY <1>1, <1>4, NextValidatorIs DEF BeaconInv, Shape, submitting
  <2>2. Cached'
    BY <1>1, <2>1 DEF BeaconInv, Cached
  <2>3. Agreeing'
    BY <1>1, <1>2, <2>1 DEF Agreeing, MixesAgree, submitting
  <2> QED BY <1>1, <2>1, <2>2, <2>3 DEF BeaconInv
<1> QED BY <1>3, <1>4 DEF EvalVDF

\* A step of Submit that leaves the beacon's mix and submissions alone.
LEMMA SubmitInv ==
  ASSUME BeaconInv, NEW pc \in submitting, driver.pc \in submitting, driver' = [driver EXCEPT !.pc = pc],
         UNCHANGED <<mix, submissions>>, cache' = [n \in Nodes |-> cache'[n]]
  PROVE  /\ Shape' /\ Agreeing' /\ \A n \in Nodes : Drawn(mix[n], submissions[n])'
         /\ driver'.pc = pc /\ driver'.j = driver.j /\ driver.j \in Nodes /\ key' = key
<1>1. /\ driver' = [pc |-> pc, round |-> driver.round, epoch |-> driver.epoch,
                    i |-> driver.i, j |-> driver.j, on |-> driver.on]
      /\ driver'.pc = pc /\ driver'.epoch = driver.epoch /\ driver'.i = driver.i
      /\ driver'.j = driver.j /\ driver'.on = driver.on
  BY SetsPc DEF BeaconInv
<1> SUFFICES Shape' /\ Agreeing' /\ driver.j \in Nodes
  BY <1>1 DEF BeaconInv, key
<1>2. Shape' /\ driver.j \in Nodes
  <2>1. driver' = [pc |-> driver'.pc, round |-> driver'.round, epoch |-> driver'.epoch,
                   i |-> driver'.i, j |-> driver'.j, on |-> driver'.on]
    BY <1>1
  <2>2. driver.i \in Nodes /\ driver.j \in Nodes
    BY DEF BeaconInv, Shape, submitting
  <2> QED BY <1>1, <2>1, <2>2 DEF BeaconInv, Shape
<1>3. Halfway(submissions[driver.j])
  BY DEF BeaconInv, Agreeing
<1>4. \A S : Halfway(S) => Halfway(S)'
  BY <1>1 DEF Halfway, SubmissionsAfter, MixAfter, Repeated, key
<1>5. Halfway(submissions[driver.j])'
  BY <1>1, <1>3, <1>4
<1>6. Agreeing'
  BY <1>1, <1>5 DEF Agreeing, MixesAgree, submitting
<1> QED BY <1>2, <1>6

LEMMA SubmitCheckInv == ASSUME NumNodes \in Nat \ {0}, BeaconInv, SubmitCheck PROVE BeaconInv'
<1>1. driver.pc = "check" /\ driver.j \in Nodes /\ UNCHANGED <<mix, submissions, cache, recoveries>>
  BY DEF SubmitCheck, beacons, BeaconInv, Shape, submitting
<1>0. cache' = [n \in Nodes |-> cache'[n]]
  BY <1>1 DEF BeaconInv, Shape
<1>2. cache[driver.j] = Keys(submissions[driver.j]) /\ mix[driver.j] = driver.on
  BY <1>1 DEF BeaconInv, Cached, Agreeing, Halfway, submitting, Nodes
<1>3. CASE key \in cache[driver.j]
  <2>1. driver' = [driver EXCEPT !.pc = "insert"]
    BY <1>3 DEF SubmitCheck
  <2>2. /\ Shape' /\ Agreeing' /\ \A n \in Nodes : Drawn(mix[n], submissions[n])'
        /\ driver'.pc = "insert" /\ driver'.j = driver.j /\ key' = key
    BY <1>0, <1>1, <2>1, SubmitInv DEF submitting
  <2>3. Keys(submissions[driver.j]) = Keys(submissions[driver.j]) \cup {key}
    BY <1>2, <1>3
  <2>4. Cached'
    BY <1>1, <2>2, <2>3 DEF BeaconInv, Cached
  <2> QED BY <2>2, <2>4 DEF BeaconInv
<1>4. CASE key \notin cache[driver.j]
  <2>1. driver' = [driver EXCEPT !.pc = "mark"]
    BY <1>2, <1>4 DEF SubmitCheck
  <2>2. /\ Shape' /\ Agreeing' /\ \A n \in Nodes : Drawn(mix[n], submissions[n])'
        /\ driver'.pc = "mark"
    BY <1>0, <1>1, <2>1, SubmitInv DEF submitting
  <2>3. Cached'
    BY <1>1, <2>2 DEF BeaconInv, Cached
  <2> QED BY <2>2, <2>3 DEF BeaconInv
<1> QED BY <1>3, <1>4

LEMMA MarkVerifiedInv == ASSUME BeaconInv, MarkVerified PROVE BeaconInv'
<1>1. /\ driver.pc = "mark" /\ driver' = [driver EXCEPT !.pc = "insert"]
      /\ cache' = [cache EXCEPT ![driver.j] = @ \union {key}]
      /\ UNCHANGED <<mix, submissions, recoveries>>
  BY DEF MarkVerified
<1>0. cache' = [n \in Nodes |-> cache'[n]]
  BY <1>1 DEF BeaconInv, Shape
<1>2. /\ Shape' /\ Agreeing' /\ \A n \in Nodes : Drawn(mix[n], submissions[n])'
      /\ driver'.pc = "insert" /\ driver'.j = driver.j /\ driver.j \in Nodes /\ key' = key
  BY <1>0, <1>1, SubmitInv DEF submitting
<1>3. \A n \in Nodes : cache'[n] = IF n = driver.j THEN cache[n] \cup {key} ELSE cache[n]
  BY <1>1 DEF BeaconInv, Shape
<1>4. Cached'
  BY <1>1, <1>2, <1>3 DEF BeaconInv, Cached
<1> QED BY <1>2, <1>4 DEF BeaconInv

\* What Insert makes of the receiver's beacon.
LEMMA InsertIs ==
  ASSUME NumNodes \in Nat \ {0}, BeaconInv, Insert, NEW S, S = submissions[driver.j]
  PROVE  /\ driver.j \in Nodes /\ Halfway(S) /\ Drawn(driver.on, S)
         /\ mix' = [mix EXCEPT ![driver.j] = MixAfter(S)]
         /\ submissions' = [submissions EXCEPT ![driver.j] = SubmissionsAfter(S)]
<1> DEFINE output == [epoch |-> driver.epoch, on |-> driver.on]
           sub == [epoch |-> driver.epoch, validator |-> driver.i, on |-> driver.on]
<1>1. driver.j \in Nodes /\ Halfway(S) /\ ~(driver.j < driver.j)
  BY DEF Insert, BeaconInv, Shape, Agreeing, submitting, Nodes
<1>2. mix[driver.j] = driver.on
  BY <1>1 DEF Halfway
<1>3. Drawn(driver.on, S)
  BY <1>1, <1>2 DEF BeaconInv
<1>4. IsDuplicate(driver.j) <=> Repeated(S)
  BY DEF IsDuplicate, OfEpoch, Repeated, Keys, key
<1>5. CASE Repeated(S)
  <2>1. UNCHANGED <<mix, submissions>>
    BY <1>4, <1>5 DEF Insert
  <2>2. MixAfter(S) = mix[driver.j] /\ SubmissionsAfter(S) = submissions[driver.j]
    BY <1>2, <1>5 DEF MixAfter, SubmissionsAfter
  <2> QED BY <1>1, <1>3, <2>1, <2>2 DEF BeaconInv, Shape
<1>6. CASE ~Repeated(S)
  <2>1. /\ mix' = [mix EXCEPT ![driver.j] = Mixed(driver.j, output)]
        /\ submissions' = [submissions EXCEPT ![driver.j] = submissions[driver.j] \cup {sub}]
    BY <1>4, <1>6 DEF Insert
  <2>2. SubmissionsAfter(S) = submissions[driver.j] \cup {sub}
    BY <1>6 DEF SubmissionsAfter
  <2>3. OfEpoch(driver.j, output.epoch) = {} <=> driver.epoch \notin Epochs(S)
    BY DEF OfEpoch, Epochs
  <2>4. Mixed(driver.j, output) = MixAfter(S)
    BY <1>2, <1>6, <2>3 DEF Mixed, MixAfter
  <2> QED BY <1>1, <1>3, <2>1, <2>2, <2>4
<1> QED BY <1>5, <1>6

LEMMA InsertInv == ASSUME NumNodes \in Nat \ {0}, BeaconInv, Insert PROVE BeaconInv'
<1> DEFINE S == submissions[driver.j]
           A == SubmissionsAfter(S)
           M == MixAfter(S)
           sub == [epoch |-> driver.epoch, validator |-> driver.i, on |-> driver.on]
<1>1. /\ driver.j \in Nodes /\ Halfway(S) /\ Drawn(driver.on, S)
      /\ mix' = [mix EXCEPT ![driver.j] = M]
      /\ submissions' = [submissions EXCEPT ![driver.j] = A]
  BY InsertIs
<1>2. /\ driver.pc = "insert" /\ driver.i \in Nodes /\ driver' = NextTarget
      /\ UNCHANGED <<cache, recoveries>>
  BY DEF Insert, BeaconInv, Shape, submitting
<1>3. /\ \A n \in Nodes : mix'[n] = IF n = driver.j THEN M ELSE mix[n]
      /\ \A n \in Nodes : submissions'[n] = IF n = driver.j THEN A ELSE submissions[n]
      /\ DOMAIN mix' = Nodes /\ mix' = [n \in Nodes |-> mix'[n]]
      /\ submissions' = [n \in Nodes |-> submissions'[n]]
  <2> HIDE DEF M, A, S
  <2> QED BY <1>1 DEF BeaconInv, Shape
<1>4. /\ driver' = [pc |-> driver'.pc, round |-> driver'.round, epoch |-> driver'.epoch,
                    i |-> driver'.i, j |-> driver'.j, on |-> driver'.on]
      /\ IF driver.j < NumNodes
         THEN /\ driver'.pc = "check" /\ driver'.i = driver.i /\ driver'.j = driver.j + 1
              /\ driver'.epoch = driver.epoch /\ driver'.on = driver.on
         ELSE /\ driver'.pc \in {"round", "eval"}
              /\ driver'.pc # "round" => driver'.i \in Nodes
  BY <1>1, <1>2, NextTargetIs DEF BeaconInv
<1>5. Shape'
  <2>1. driver.j < NumNodes => driver.j + 1 \in Nodes
    BY <1>1 DEF Nodes
  <2>2. /\ driver'.pc \in {"round", "eval"} \cup submitting
        /\ driver'.pc # "round" => driver'.i \in Nodes
        /\ driver'.pc \in submitting => driver'.j \in Nodes
    BY <1>2, <1>4, <2>1 DEF submitting
  <2>3. cache' = [n \in Nodes |-> cache'[n]]
    BY <1>2 DEF BeaconInv, Shape
  <2> QED BY <1>3, <1>4, <2>2, <2>3 DEF Shape
<1>6. Keys(A) = Keys(S) \cup {key}
  <2>1. CASE Repeated(S)
    BY <2>1 DEF SubmissionsAfter, Repeated
  <2>2. CASE ~Repeated(S)
    <3>1. A = S \cup {sub} /\ <<sub.epoch, sub.validator>> = key
      BY <2>2 DEF SubmissionsAfter, key
    <3> HIDE DEF A, S, sub
    <3> QED BY <3>1 DEF Keys
  <2> QED BY <2>1, <2>2
<1>7. Cached'
  <2>1. recoveries' = 0 /\ driver'.pc # "insert"
    BY <1>2, <1>4 DEF BeaconInv, Cached
  <2>2. ASSUME NEW n \in Nodes PROVE cache'[n] = Keys(submissions'[n])
    <3>1. CASE n = driver.j
      <4>1. cache'[n] = Keys(S) \cup {key}
        BY <1>2, <3>1 DEF BeaconInv, Cached
      <4> QED BY <1>3, <1>6, <3>1, <4>1
    <3>2. CASE n # driver.j
      BY <1>2, <1>3, <3>2 DEF BeaconInv, Cached
    <3> QED BY <3>1, <3>2
  <2> QED BY <2>1, <2>2 DEF Cached
<1>8. \A n \in Nodes : IF n <= driver.j THEN submissions'[n] = A /\ mix'[n] = M
                                        ELSE submissions'[n] = S /\ mix'[n] = driver.on
  <2>1. \A n \in Nodes : IF n < driver.j THEN submissions[n] = A /\ mix[n] = M
                                         ELSE submissions[n] = S /\ mix[n] = driver.on
    BY <1>1 DEF Halfway
  <2> HIDE DEF A, M, S
  <2> QED BY <1>1, <1>3, <2>1 DEF Nodes
<1>9. Agreeing'
  <2>1. CASE driver.j < NumNodes
    <3>1. \A T : SubmissionsAfter(T)' = SubmissionsAfter(T) /\ MixAfter(T)' = MixAfter(T)
      BY <1>4, <2>1 DEF SubmissionsAfter, MixAfter, Repeated, key
    <3>2. driver.j + 1 \in Nodes /\ \A n \in Nodes : n <= driver.j <=> n < driver.j + 1
      BY <1>1, <2>1 DEF Nodes
    <3>3. submissions'[driver'.j] = S
      <4> HIDE DEF A, M, S
      <4> QED BY <1>1, <1>4, <1>8, <2>1, <3>2 DEF Nodes
    <3>4. \A T : T = S => Halfway(T)'
      BY <1>4, <1>8, <2>1, <3>1, <3>2 DEF Halfway
    <3>5. Halfway(submissions[driver.j])'
      <4> HIDE DEF S
      <4> QED BY <3>3, <3>4
    <3>6. driver'.pc = "check"
      BY <1>4, <2>1
    <3> QED BY <3>5, <3>6 DEF Agreeing, MixesAgree
  <2>2. CASE ~(driver.j < NumNodes)
    <3>1. \A n \in Nodes : submissions'[n] = A /\ mix'[n] = M
      <4> HIDE DEF A, M, S
      <4> QED BY <1>1, <1>8, <2>2 DEF Nodes
    <3>2. driver'.pc \in {"round", "eval"}
      BY <1>4, <2>2
    <3> HIDE DEF A, M, S
    <3> QED BY <3>1, <3>2 DEF Agreeing, MixesAgree, submitting
  <2> QED BY <2>1, <2>2
<1>10. Drawn(M, A)
  <2>1. CASE Repeated(S)
    BY <1>1, <2>1 DEF MixAfter, SubmissionsAfter
  <2>2. CASE ~Repeated(S)
    BY <1>1, <2>2, DrawnAfter DEF MixAfter, SubmissionsAfter
  <2> QED BY <2>1, <2>2
<1>11. \A n \in Nodes : Drawn(mix'[n], submissions'[n])
  <2> HIDE DEF A, M, S
  <2> QED BY <1>3, <1>10 DEF BeaconInv
<1> QED BY <1>5, <1>7, <1>9, <1>11 DEF BeaconInv

LEMMA ValidateStateInv == ASSUME BeaconInv, NEW n \in Nodes, ValidateState(n) PROVE UNCHANGED
                            <<mix, submissions, cache, driver, recoveries>>
<1>1. Keys(submissions[n]) \subseteq cache[n]
  BY DEF BeaconInv, Cached
<1>2. Consistent(n)
  BY <1>1 DEF Consistent, Keys
<1> QED BY <1>2 DEF ValidateState

LEMMA BeaconStutterInv ==
  ASSUME BeaconInv, UNCHANGED <<mix, submissions, cache, driver, recoveries>> PROVE BeaconInv'
<1>1. Shape' /\ Cached'
  BY DEF BeaconInv, Shape, Cached, key
<1>2. Agreeing'
  BY DEF BeaconInv, Agreeing, MixesAgree, Halfway, SubmissionsAfter, MixAfter, Repeated, key
<1> QED BY <1>1, <1>2 DEF BeaconInv

LEMMA BeaconNextInv == ASSUME NumNodes \in Nat \ {0}, BeaconInv, [BeaconNext]_beaconVars PROVE BeaconInv'
<1>1. CASE Tick
  BY <1>1, BeaconStutterInv DEF Tick
<1>2. CASE BeginRound
  BY <1>2, BeginRoundInv
<1>3. CASE EvalVDF
  BY <1>3, EvalVDFInv
<1>4. CASE SubmitCheck
  BY <1>4, SubmitCheckInv
<1>5. CASE MarkVerified
  BY <1>5, MarkVerifiedInv
<1>6. CASE Insert
  BY <1>6, InsertInv
<1>7. CASE \E n \in Nodes : ValidateState(n)
  BY <1>7, ValidateStateInv, BeaconStutterInv
<1>8. CASE UNCHANGED beaconVars
  BY <1>8, BeaconStutterInv DEF beaconVars
<1> QED BY <1>1, <1>2, <1>3, <1>4, <1>5, <1>6, <1>7, <1>8 DEF BeaconNext

LEMMA BeaconInvariance == ASSUME NumNodes \in Nat \ {0} PROVE BeaconSpec => []BeaconInv
<1>1. BeaconInit => BeaconInv
  BY BeaconInitInv
<1>2. BeaconInv /\ [BeaconNext]_beaconVars => BeaconInv'
  BY BeaconNextInv
<1> QED BY <1>1, <1>2, PTL DEF BeaconSpec

-----------------------------------------------------------------------------
\* However the tickers interleave with the driver's submissions, ValidateState
\* finds every recorded submission in the cache and never runs Recovery.
THEOREM BeaconsNeverRecover == ASSUME NumNodes \in Nat \ {0} PROVE BeaconSpec => []NeverRecovers
<1>1. BeaconInv => NeverRecovers
  <2> SUFFICES ASSUME BeaconInv PROVE recoveries = 0 /\ \A n \in Nodes : Consistent(n)
    BY DEF NeverRecovers
  <2>1. \A n \in Nodes : Keys(submissions[n]) \subseteq cache[n]
    BY DEF BeaconInv, Cached
  <2>2. \A n \in Nodes : Consistent(n)
    BY <2>1 DEF Consistent, Keys
  <2> QED BY <2>2 DEF BeaconInv, Cached
<1> QED BY <1>1, BeaconInvariance, PTL

\* Between two submissions of the driver all nodes hold the same mix and the
\* same submissions, and a mix holds exactly one output, a submitted one, for
\* every epoch that has a submission.
THEOREM MixesAreRight == ASSUME NumNodes \in Nat \ {0} PROVE BeaconSpec => []MixRight
<1>1. BeaconInv => MixRight
  BY DEF BeaconInv, Agreeing, Drawn, Epochs, MixRight, MixedOnce
<1> QED BY <1>1, BeaconInvariance, PTL
=============================================================================
