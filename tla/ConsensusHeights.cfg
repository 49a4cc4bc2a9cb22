SPECIFICATION Spec
CONSTANTS
  va = va
  vb = vb
  vc = vc
  g = g
  x1 = x1
  y1 = y1
  x2 = x2
  None = None
  Node = {va, vb, vc}
  Order <- MCOrder
  Stake <- MCStake
  ParentOf <- MCParentOf
  HeightOf <- MCHeightOf
  Block = {g, x1, x2}
  Genesis = g
  CommitResult = {TRUE, FALSE}
  SuspectAfter = 2
  Jitter = FALSE
  Lost <- MCHeightsLost
  MaxView = 1
  Ticking = {vb, vc}
  Interruptible <- MCHeightsInterrupt
  MaxInterrupts = 1
INVARIANTS ChainLinked SafetyInv
PROPERTIES ImplementsLedger
CHECK_DEADLOCK FALSE
