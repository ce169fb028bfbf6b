\* Six plugins, one not enabled; a job of two attempts, a task without
\* a job, two sockets; at most one listener of a plugin throws.  Deadlock is
\* not checked: all that can be asked for has been.
SPECIFICATION Spec
CONSTANTS
  j1 = j1
  c1 = c1
  s1 = s1
  s2 = s2
  here = here
  there = there
  Jobs = {j1}
  Requests = {c1}
  Workspaces = {here, there}
  Home <- MCHome
  AgentOf <- MCAgents
  Budget <- MCBudget
  Sockets = {s1, s2}
  Scope <- MCScope
  All = All
  Installed <- MCInstalled
  Script <- MCScript
  Enabled = {"notifier", "broken", "refused", "typo", "strings"}
  Builtin <- MCBuiltin
  Malformed = {"Bad Id"}
  MaxThrows = 1
INVARIANT NobodyOwed
PROPERTIES PluginsApart ToldInOrder SettledUnlessThrown
CHECK_DEADLOCK FALSE
