SPECIFICATION Spec
CONSTANTS
    MaxHeight = 2
    Peers = {p1}
    HasTxs <- MCTx
    Spends = {}
    Drains = {}
    SeedServes <- MCSeedServes
    MaxCrashes = 1
    MaxErrors = 0
    TearsIndex = FALSE
    Callers <- MCCommitters
INVARIANT StoredIsKept
CHECK_DEADLOCK FALSE
