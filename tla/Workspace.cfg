SPECIFICATION MCSpec
CONSTANTS
  Request = {r1, r2}
  Worker = {w1, w2, w3}
  Pair = {v1, v2}
  Alone = {w}
  None = None
  Priority = {low, urgent}
  Person = {p1, p2}
  User = {u}
  Admin = {a1}
  Client = {c1}
  Content = {x1, x2}
SYMMETRY Symmetry
 
 
INVARIANT RowsTyped
INVARIANT StampsMatch
INVARIANT OneAtATime
INVARIANT FiguresMatch
INVARIANT ActiveUntilThirdUnlessRaced
INVARIANT CopiesMatch
INVARIANT ReadsAgree
PROPERTY TicketWorkflowUnlessRaced
PROPERTY PromotersRaise
PROPERTY HistoryKept
CHECK_DEADLOCK FALSE
