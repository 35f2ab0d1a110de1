SPECIFICATION Spec
CONSTANTS
  None = None
  Tokens = {}
  ByokKeys = {i1}
  Deleted = {}
  Requests = {r1}
CHECK_DEADLOCK FALSE
PROPERTY OnlyRequestsStore
