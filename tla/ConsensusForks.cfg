SPECIFICATION Spec
CONSTANTS
  va = va
  vb = vb
  vc = vc
  g = g
  x1 = x1
  y1 = y1
  x2 = x2
  None = None
  Node = {va, vb, vc}
  Order <- MCOrder
  Stake <- MCStake
  ParentOf <- MCParentOf
  HeightOf <- MCHeightOf
  Block = {g, x1, y1}
  Genesis = g
  CommitResult = {TRUE}
  SuspectAfter = 1
  Jitter = FALSE
  Lost <- MCForkLost
  MaxView = 1
  Ticking = {vb, vc}
  Interruptible <- MCAnyInterrupt
  MaxInterrupts = 1
INVARIANTS TypeOK CommitsCertified ForkAccountable LockedIsVoted
CHECK_DEADLOCK FALSE
