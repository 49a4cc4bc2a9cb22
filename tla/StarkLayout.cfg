SPECIFICATION ProtocolSpec
CONSTANTS
    Repetitions = 2
    NumWitnesses = 3
    LogDegrees = {3, 4}
    PathSets <- MCPathSets
INVARIANT HonestAccepted
CHECK_DEADLOCK FALSE
