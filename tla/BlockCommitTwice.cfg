SPECIFICATION Spec
CONSTANTS
    MaxHeight = 2
    Peers = {p1}
    HasTxs <- MCTx
    Spends = {}
    Drains = {}
    SeedServes <- MCSeedServes
    MaxCrashes = 0
    MaxErrors = 0
    TearsIndex = FALSE
    Callers <- MCCommitters
INVARIANT ExecutedOnce
CHECK_DEADLOCK FALSE
