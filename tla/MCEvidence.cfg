\* Two tasks and their indexers, three calls on the graph or on a finding, with
\* failed writes and restarts; two workspaces.
CONSTANTS
  t1 = t1
  t2 = t2
  c1 = c1
  c2 = c2
  c3 = c3
  pkg = pkg
  cls = cls
  far = far
  f1 = f1
  here = here
  there = there
  None = None
  Tasks = {t1, t2}
  Calls = {c1, c2, c3}
  Entities = {pkg, cls, far}
  Findings = {f1}
  Workspaces = {here, there}
  Home <- MCHome
  Output <- OneOutput
  OnDisk <- MCOnDisk
  MaxFallen = 1
  Locations <- MCLocations
  Observes <- MCObserves
  Contains <- MCContains
  Requests <- MCRequests
SPECIFICATION Spec
INVARIANTS
  ReferencesHold
  ReportsTell
PROPERTY
  LostToStaleReads
CHECK_DEADLOCK FALSE
