SPECIFICATION Spec
CONSTANTS
  va = va
  vb = vb
  vc = vc
  vd = vd
  g = g
  None = None
  Node = {va, vb, vc, vd}
  Order <- MCOrder
  Stake <- MCStake
  ParentOf <- MCParentOf
  HeightOf <- MCHeightOf
  Block = {g}
  Genesis = g
  CommitResult = {TRUE}
  SuspectAfter = 1
  Jitter = FALSE
  Lost = {}
  MaxView = 4
  Ticking = {va, vb}
  Interruptible <- MCInterruptible
  MaxInterrupts = 4
INVARIANTS ViewJustified LeaderNotSuspected
CHECK_DEADLOCK FALSE
