SPECIFICATION MCSpec
CONSTANTS
  o1 = o1
  o2 = o2
  p1 = p1
  p2 = p2
  Invoice = {i1, i2, i3}
  Org = {o1, o2}
  Proposal = {p1, p2}
  OwnerOf <- TwoOwners
  Worker = {w1, w2}
  None = None
SYMMETRY Symmetry
INVARIANT TypeOK
INVARIANT NoGaps
INVARIANT OneInvoiceUnlessRaced
CHECK_DEADLOCK FALSE
