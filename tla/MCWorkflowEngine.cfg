\* A group after a plain step, or one whose errors pass before it; one resume;
\* crashes and failed boots at any point; fairness for the liveness property.
CONSTANTS
  w1 = w1
  Workflows = {w1}
  Shapes <- MCShapes
  MaxSteps = 2
  MaxBranches = 2
  MaxRuns = 2
  Ordered = TRUE
SPECIFICATION FairSpec
INVARIANTS
  RunsAccountFor
  WorkInOrder
PROPERTIES
  ResultsKept
  ReportedOnce
  RunsEnd
  ImplementsWorkflowSpec
