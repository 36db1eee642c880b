SPECIFICATION FairSpec
CONSTANTS
  t1 = t1
  t2 = t2
  admin = admin
  client = client
  urgent = urgent
  low = low
  Ticket = {t1, t2}
  User = {admin, client}
  Priority = {urgent, low}
  Server = {v1}
  None = None
  Creator <- MCCreator
  Assignee <- MCAssignee
  ActiveAdmin = {admin}
  Active = {admin, client}
  Due <- MCDue
  MaxTime = 6
  MaxNotices = 1
  MaxFailures = 1
PROPERTY LateResponseIsTold
PROPERTY LateResolutionIsTold
CHECK_DEADLOCK FALSE
