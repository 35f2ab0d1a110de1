SPECIFICATION Spec
CONSTANTS
  None = None
  Sessions = {s1}
  Workers = {w1, w2}
  Stops = {r1}
  Viewers = {v1}
  Deletes = {d1}
  MaxFaults = 1
  SlowOpeners = TRUE
SYMMETRY Symmetry
CHECK_DEADLOCK FALSE
INVARIANTS RowShape SuccessIsEarned PostedScoreIsStored IInv
PROPERTIES ShutdownSparesPeers DeletedStaysDeleted EndIsRemembered KeepsContract
