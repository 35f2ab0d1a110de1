SPECIFICATION FairSpec
CONSTANTS
  Conns = {c1, c2}
  BatchSize = 2
  MaxLines = 2
  MaxFaults = 1
  MaxReconnects = 1
CHECK_DEADLOCK FALSE
INVARIANTS IdNamesOneLine FinalizerReadsAll NothingSkipped
PROPERTIES KeepsFeed StreamsFinalize PageSettles
