SPECIFICATION FairSpec
CONSTANTS
  va = va
  vb = vb
  vc = vc
  g = g
  x1 = x1
  y1 = y1
  x2 = x2
  None = None
  Node = {va, vb, vc}
  Order <- MCOrder
  Stake <- MCStake
  ParentOf <- MCParentOf
  HeightOf <- MCHeightOf
  Block = {g, x1}
  Genesis = g
  CommitResult = {TRUE}
  SuspectAfter = 2
  Jitter = TRUE
  Lost = {}
  MaxView = 1
  Ticking = {vb}
  Interruptible = {}
  MaxInterrupts = 0
PROPERTIES RoundCompletes
CHECK_DEADLOCK FALSE
