\* Two places for ticks, a client, one failed call or restart; fairness for the
\* liveness property.
SPECIFICATION Spec
CONSTANTS
  n1 = n1
  n2 = n2
  w1 = w1
  Ticks = {t1, t2}
  Clients = {c1}
  Drops = {1, 2, 3}
  Names = {n1, n2}
  NameOf <- TheName
  Workspaces = {w1}
  WorkspaceOf <- TheWorkspace
  Full <- TheSize
  MaxFaults = 1
INVARIANT
  NothingLost
PROPERTIES
  DropsLand
