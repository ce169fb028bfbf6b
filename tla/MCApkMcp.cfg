\* A close, forced or not, beside a task of any other operation whose event
\* streams never fall silent; one workspace at MT, which gives one of its own requests
\* the number of the first request that is not "initialize".  The activations
\* end, so the system may stop.
SPECIFICATION FairSpec
CONSTANTS
  t1 = t1
  t2 = t2
  Activations = {t1, t2}
  Talking = {t2}
  Workspaces = {w1}
  OwnIds = {2}
  Asked <- AskedOfTwo
INVARIANT ResultsAreAnswers
PROPERTIES SavedWorkspacesKept TasksSettle
CHECK_DEADLOCK FALSE
