SPECIFICATION Spec
CONSTANTS
  None = None
  Events = {e1}
  PullRequests = {e1}
  Unhandled = {}
  Tasks = {t1, t2, t3}
  Workers = {w1, w2}
  Slots = 1
  MaxRetries = 2
  MaxFaults = 2
SYMMETRY Symmetry
CHECK_DEADLOCK FALSE
INVARIANTS CalmOnce SettledTruly RetriesCounted QInv
PROPERTIES CalmTerminal KeepsQueueContract
