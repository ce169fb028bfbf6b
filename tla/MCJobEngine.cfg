\* Two jobs of up to two attempts, local storage, crashes and failed boots;
\* fairness for the liveness property and the refinement.
CONSTANTS
  j1 = j1
  j2 = j2
  Jobs = {j1, j2}
  MaxAttempts = 2
  Ordered = TRUE
SPECIFICATION FairSpec
INVARIANTS
  TypeOK
  AttemptsInStep
  OutcomeEarned
  LatestSnapshotSurvives
PROPERTIES
  SettledForGood
  JobsSettle
  ImplementsJobSpec
