SPECIFICATION FairSpec
CONSTANTS
    MaxHeight = 2
    Peers = {p1}
    HasTxs <- MCHasTxs
    Spends <- MCSpends
    Drains <- MCDrains
    SeedServes <- MCSeedServes
    MaxCrashes = 2
    MaxErrors = 1
    TearsIndex = TRUE
    Callers <- MCCallers
INVARIANTS TypeOK  StoredWasExecuted PeersSerialized FlagNotLeaked GenesisMintedOnce
PROPERTY SyncCatchesUp
CHECK_DEADLOCK FALSE
