SPECIFICATION FairSpec
CONSTANTS
  Invoice = {i1}
  Session = {s1, s2}
  Worker = {w1}
  Amount = {1, 2}
  MaxPaid = 2
  None = None
INVARIANT StatusMatchesBalance
INVARIANT LedgerMatches
INVARIANT AckedIsClosed
PROPERTY ImplementsLifecycle
PROPERTY CurrentPaymentSettles
CHECK_DEADLOCK FALSE
