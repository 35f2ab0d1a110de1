SPECIFICATION FairSpec
CONSTANTS
  p1 = p1
  p2 = p2
  c1 = c1
  c2 = c2
  Pages <- MCPages
  Calls <- MCCalls
  PageOf <- MCPageOf
  Logouts = {l1, l2}
  MaxFaults = 1
CHECK_DEADLOCK FALSE
INVARIANT SentToLoginForCause
PROPERTIES RevokedForGood CallsSettle
