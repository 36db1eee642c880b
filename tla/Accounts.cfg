SPECIFICATION MCSpec
CONSTANTS
  Email = {e1, e2}
  Subject = {g1}
  Worker = {w1, w2}
  MaxId = 3
  None = None
  Session = {s1}
  State = {x1}
  Path = {"login", "forgot-password"}
  Fraction = 3
  Life = 7
  Offset = 1
  StateLife = 4
  Window = 2
  MaxTime = 12
  MaxCount = 3
SYMMETRY Symmetry
INVARIANT TypeOK
INVARIANT HasLoginMethod
INVARIANT LoggedOutStaysOut
INVARIANT StateUsedOnceUnlessRaced
PROPERTY NewestLinkUnlessRaced
PROPERTY OwnLimitUnlessMixed
CHECK_DEADLOCK FALSE
