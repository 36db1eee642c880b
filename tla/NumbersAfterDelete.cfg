SPECIFICATION MCSpec
CONSTANTS
  o1 = o1
  o2 = o2
  p1 = p1
  p2 = p2
  Invoice = {i1, i2, i3}
  Org = {o1}
  Proposal = {p1, p2}
  OwnerOf <- OneOwner
  Worker = {w1}
  None = None
SYMMETRY Symmetry
INVARIANT NumberIsFree
CHECK_DEADLOCK FALSE
