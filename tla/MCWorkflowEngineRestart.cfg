\* A restart after the last step completed and before the workflow did.
CONSTANTS
  w1 = w1
  Workflows = {w1}
  Shapes <- TwoPlainSteps
  MaxSteps = 2
  MaxBranches = 2
  MaxRuns = 2
  Ordered = TRUE
SPECIFICATION Spec
INVARIANT
  FailedIsResumable
