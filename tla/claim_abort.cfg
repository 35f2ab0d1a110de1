SPECIFICATION Spec
CONSTANTS
  None = None
  Sessions = {s1}
  Workers = {w1}
  Stops = {r1}
  Viewers = {v1}
  Deletes = {}
  MaxFaults = 0
  SlowOpeners = FALSE
CHECK_DEADLOCK FALSE
INVARIANT AbortIsNoSuccess
