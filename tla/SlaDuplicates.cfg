SPECIFICATION Spec
CONSTANTS
  t1 = t1
  t2 = t2
  admin = admin
  client = client
  urgent = urgent
  low = low
  Ticket = {t1}
  User = {admin, client}
  Priority = {urgent}
  Server = {v1}
  None = None
  Creator <- MCCreator
  Assignee <- MCAssignee
  ActiveAdmin = {admin}
  Active = {admin, client}
  Due <- MCDue
  MaxTime = 3
  MaxNotices = 2
  MaxFailures = 1
INVARIANT NoDuplicateNotice
CHECK_DEADLOCK FALSE
