SPECIFICATION FairSpec
CONSTANTS
  m1 = m1
  m2 = m2
  m3 = m3
  Messages <- MCMessages
  Text <- MCText
CHECK_DEADLOCK FALSE
INVARIANTS SilentOnlyIfEarly ZeroMeansTold LinesKept
PROPERTY MessagesAnswered
