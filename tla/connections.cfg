SPECIFICATION FairSpec
CONSTANTS
  Replays = {r1, r2}
  Hooks = {h1}
  Finalizers = {f1}
  PoolSize = 2
  Slots = 1
  Attempts = 3
CHECK_DEADLOCK FALSE
INVARIANTS TypeOK OnlyHooksBlock CommentsAccounted
PROPERTIES EveryStepCounts TasksEnd
