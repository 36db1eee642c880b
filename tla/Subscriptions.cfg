SPECIFICATION MCSpec
CONSTANTS
  Sub = {s1, s2}
  Plan = {"pro"}
  Worker = {w1, w2}
  None = None
  AdminPlan = {}
  AdminStatus = {"active", "canceled"}
  MaxEvents = 3
  Calm = TRUE
  Provisioned = TRUE
INVARIANT LinkedIsLive
INVARIANT MirrorsUnlessRaced
PROPERTY EndedIsDowngraded
CHECK_DEADLOCK FALSE
