SPECIFICATION MCSpec
CONSTANTS
  Sub = {s1, s2}
  Plan = {"pro"}
  Worker = {w1, w2}
  None = None
  AdminPlan = {"free", "pro"}
  AdminStatus = {"canceled"}
  MaxEvents = 3
  Calm = FALSE
  Provisioned = FALSE
SYMMETRY Symmetry
INVARIANT TypeOK
INVARIANT PaidUnlessOverridden
CHECK_DEADLOCK FALSE
