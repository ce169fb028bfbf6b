\* Two workflows, each of at most five steps.  Deadlock is not checked: both end.
SPECIFICATION Spec
CONSTANTS
  Chains = {1, 2}
  Worlds <- MCWorlds
  Source <- MCSource
  MaxResults = 2
  MaxNow = 2
INVARIANTS
  PatchesKept
  RecordsTell
  SignedOrGone
  InstalledAsIntended
PROPERTY LimitedTasksEnd
CHECK_DEADLOCK FALSE
