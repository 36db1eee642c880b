SPECIFICATION MCSpec
CONSTANTS
  Proposal = {p1, p2}
  Project = {j1}
  Worker = {w1}
  Subtotal = {100}
  Percent = {0, 50}
  OtherStage = {}
  None = None
INVARIANT TotalsMatch
CHECK_DEADLOCK FALSE
