SPECIFICATION Spec
CONSTANTS
  Invoice = {i1, i2}
  Session = {s1}
  Worker = {w1, w2}
  Amount = {1, 2}
  MaxPaid = 2
  None = None
SYMMETRY Symmetry
INVARIANT TypeOK
INVARIANT MoneyMatchesStatus
INVARIANT IntentIsReal
CHECK_DEADLOCK FALSE
