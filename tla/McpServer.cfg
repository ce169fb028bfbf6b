\* Two messages over either transport, three job ids (one more than the calls
\* need), two polls before the deadline.  The Gateway may stop and come back.
SPECIFICATION FairSpec
CONSTANTS
  Calls = {c1, c2}
  Ids = {j1, j2, j3}
  Patience = 2
  None = None
INVARIANT OneJobPerCall
PROPERTIES OutcomesAreTrue EveryRequestAnswered
