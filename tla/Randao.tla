------------------------------- MODULE Randao -------------------------------
(***************************************************************************)
(* The randomness beacon of every node (consensus/random.go) as the        *)
(* program drives it: one goroutine (cli/utils/helper.go) lets each        *)
(* validator in turn evaluate the delay function and hands the submission  *)
(* to every node, while a ticker of each node validates that node's state  *)
(* and wipes it when a recorded submission is not in the cache of          *)
(* verified ones.                                                          *)
(*                                                                         *)
(* The mix is the set of the outputs that were XORed into it; an output is *)
(* determined by the seed it was evaluated on, the mix with the epoch.     *)
(* Proofs of evaluated submissions verify, so the count of failed self     *)
(* submissions stays 0.  FinaliseEpoch, SyncState, ResetVDFState and       *)
(* AddOutput have no caller and are left out.                              *)
(***************************************************************************)
EXTENDS Integers, FiniteSets

CONSTANTS
  NumNodes,   \* nodes, each a validator
  MaxEpoch,   \* bound: the last epoch the clock reaches
  MaxRounds   \* maxRounds of the driver

VARIABLES
  clock,        \* the epoch of the wall clock
  mix,          \* per node: the outputs XORed into the genesis seed
  submissions,  \* per node: [epoch, validator, on], the mix it was evaluated on
  cache,        \* per node: pairs <<epoch, validator>> verified
  driver,       \* the driver: pc, round, epoch, evaluating i, submitting to j
  recoveries    \* how often Recovery ran

beaconVars == <<clock, mix, submissions, cache, driver, recoveries>>

Nodes == 1 .. NumNodes

Xor(a, b) == (a \ b) \union (b \ a)

\* The driver before its first round, every beacon new.
BeaconInit ==
  /\ clock = 0
  /\ mix = [n \in Nodes |-> {}]
  /\ submissions = [n \in Nodes |-> {}]
  /\ cache = [n \in Nodes |-> {}]
  /\ driver = [pc |-> "round", round |-> 0, epoch |-> 0, i |-> 1, j |-> 1, on |-> {}]
  /\ recoveries = 0

Tick ==
  /\ clock < MaxEpoch
  /\ clock' = clock + 1
  /\ UNCHANGED <<mix, submissions, cache, driver, recoveries>>

-----------------------------------------------------------------------------
(* The driver.                                                             *)

beacons == <<clock, mix, submissions, cache, recoveries>>

\* The epoch is read once for the round.
BeginRound ==
  /\ driver.pc = "round" /\ driver.round < MaxRounds
  /\ driver' = [driver EXCEPT !.pc = "eval", !.round = @ + 1, !.epoch = clock, !.i = 1]
  /\ UNCHANGED beacons

NextValidator ==
  IF driver.i < NumNodes THEN [driver EXCEPT !.pc = "eval", !.i = @ + 1]
                         ELSE [driver EXCEPT !.pc = "round"]

\* The evaluation reads its own node's seed, then works without a lock.
EvalVDF ==
  /\ driver.pc = "eval"
  /\ \/ driver' = [driver EXCEPT !.pc = "check", !.j = 1, !.on = mix[driver.i]]
     \/ driver' = NextValidator
  /\ UNCHANGED beacons

NextTarget ==
  IF driver.j < NumNodes THEN [driver EXCEPT !.pc = "check", !.j = @ + 1]
                         ELSE NextValidator

key == <<driver.epoch, driver.i>>

\* Submit up to the proof: a cached submission skips every test; another must
\* have been evaluated on the receiver's own seed.
SubmitCheck ==
  /\ driver.pc = "check"
  /\ driver' =
       IF key \in cache[driver.j] THEN [driver EXCEPT !.pc = "insert"]
       ELSE IF driver.on # mix[driver.j] THEN NextTarget
       ELSE [driver EXCEPT !.pc = "mark"]
  /\ UNCHANGED beacons

\* Mutant: the cache is not told.
MutantMarkVerified ==
  /\ driver.pc = "mark"
  /\ driver' = [driver EXCEPT !.pc = "insert"]
  /\ UNCHANGED beacons

\* The proof verifies and the cache is told, before the beacon's lock is taken.
MarkVerified ==
  /\ driver.pc = "mark"
  /\ cache' = [cache EXCEPT ![driver.j] = @ \union {key}]
  /\ driver' = [driver EXCEPT !.pc = "insert"]
  /\ UNCHANGED <<clock, mix, submissions, recoveries>>

OfEpoch(n, e) == {s \in submissions[n] : s.epoch = e}

\* Mutant: every submission of an epoch is mixed in.
MutantMixed(n, output) == Xor(mix[n], {output})

\* Only the first submission of an epoch is mixed in.
Mixed(n, output) ==
  IF OfEpoch(n, output.epoch) = {} THEN Xor(mix[n], {output}) ELSE mix[n]

IsDuplicate(n) ==
  \E s \in OfEpoch(n, driver.epoch) : s.validator = driver.i

Insert ==
  LET n == driver.j
      output == [epoch |-> driver.epoch, on |-> driver.on]
      sub == [epoch |-> driver.epoch, validator |-> driver.i, on |-> driver.on]
  IN /\ driver.pc = "insert"
     /\ IF IsDuplicate(n)
        THEN UNCHANGED <<mix, submissions>>
        ELSE /\ mix' = [mix EXCEPT ![n] = Mixed(n, output)]
             /\ submissions' = [submissions EXCEPT ![n] = @ \union {sub}]
     /\ driver' = NextTarget
     /\ UNCHANGED <<clock, cache, recoveries>>

-----------------------------------------------------------------------------
(* The ticker of each node.                                                *)

Consistent(n) == \A s \in submissions[n] : <<s.epoch, s.validator>> \in cache[n]

\* A failed validation runs Recovery, which clears everything but the mix.
ValidateState(n) ==
  /\ IF Consistent(n)
     THEN UNCHANGED <<submissions, cache, recoveries>>
     ELSE /\ submissions' = [submissions EXCEPT ![n] = {}]
          /\ cache' = [cache EXCEPT ![n] = {}]
          /\ recoveries' = recoveries + 1
  /\ UNCHANGED <<clock, mix, driver>>

BeaconNext ==
  \/ Tick \/ BeginRound \/ EvalVDF \/ SubmitCheck \/ MarkVerified \/ Insert
  \/ \E n \in Nodes : ValidateState(n)

BeaconSpec == BeaconInit /\ [][BeaconNext]_beaconVars

-----------------------------------------------------------------------------
\* Whenever the ticker comes, ValidateState finds every recorded submission in
\* the cache: Recovery never wipes a running beacon (random.go:608-629, 884-888).
NeverRecovers == recoveries = 0 /\ \A n \in Nodes : Consistent(n)

\* Between two submissions of the driver all nodes have the same mix and the
\* same submissions: cached, repeated and rejected submissions are treated
\* alike by every node (random.go:487-592).
MixesAgree ==
  driver.pc \in {"round", "eval"} =>
    \A m, n \in Nodes : mix[m] = mix[n] /\ submissions[m] = submissions[n]

\* The mix holds one output for every epoch that has a submission, and that
\* output was submitted (random.go:575-584).
MixedOnce ==
  \A n \in Nodes :
    /\ Cardinality(mix[n]) = Cardinality({s.epoch : s \in submissions[n]})
    /\ \A o \in mix[n] : \E s \in submissions[n] : s.epoch = o.epoch /\ s.on = o.on

\* The nodes agree on the mix, and the mix is what was submitted.
MixRight == MixesAgree /\ MixedOnce
=============================================================================
