SPECIFICATION MCSpec
CONSTANTS
  Proposal = {p1, p2}
  Project = {j1}
  Worker = {w1, w2}
  Subtotal = {100}
  Percent = {0}
  OtherStage = {}
  None = None
SYMMETRY Symmetry
INVARIANT RevisionTree
INVARIANT SupersededUnlessRaced
INVARIANT CompletedUnlessRaced
PROPERTY WorkflowUnlessRaced
CHECK_DEADLOCK FALSE
