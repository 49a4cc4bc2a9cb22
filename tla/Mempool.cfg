SPECIFICATION FairSpec
CONSTANTS
  ta = ta
  tb = tb
  tc = tc
  alice = alice
  bob = bob
  Tx = {ta, tb, tc}
  Sender = {alice, bob}
  SenderOf <- MCSenderOf
  NonceOf <- MCNonceOf
  Bytes <- MCBytes
  Verdict <- MCVerdict
  MaxBytes = 5
  MaxBroadcast = 2
  BroadcastCap = 2
  ValidationCap = 1
  MaxRetries = 1
  MaxObjects = 3
INVARIANTS TypeOK NeverUndercounts MemoryBounded PendingIsOffered NoReplay ValidatingIsQueued
PROPERTY QueuedIsDecided
CHECK_DEADLOCK FALSE
