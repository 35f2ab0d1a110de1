SPECIFICATION FairSpec
CONSTANTS
  None = None
  Events = {e1, e2}
  PullRequests = {e1}
  Unhandled = {e2}
  Tasks = {t1, t2}
  Workers = {w1}
  Slots = 1
  MaxRetries = 2
  MaxFaults = 1
CHECK_DEADLOCK FALSE
PROPERTY EventsSettle
