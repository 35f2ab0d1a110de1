SPECIFICATION FairSpec
CONSTANTS
  None = None
  Sessions = {s1}
  Workers = {w1}
  Stops = {r1}
  Viewers = {v1}
  Deletes = {d1}
  MaxFaults = 2
  SlowOpeners = TRUE
CHECK_DEADLOCK FALSE
PROPERTY SessionsEnd
