SPECIFICATION Spec
CONSTANTS
  None = None
  Tokens = {u1}
  ByokKeys = {i1, i2}
  Deleted = {i2}
  Requests = {r1, r2, r3}
CHECK_DEADLOCK FALSE
INVARIANT FallbacksUnused
PROPERTY NoneLost
