SPECIFICATION FairSpec
CONSTANTS
  None = None
  Tasks = {t1, t2}
  Requests = {r1}
  MaxEvents = 4
  MaxRetries = 2
  MaxFaults = 2
CHECK_DEADLOCK FALSE
INVARIANT OrderlyMirrors
PROPERTIES GoneStaysGone SettingsKept MirrorsInTheEnd
