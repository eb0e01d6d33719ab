\* The approver finds the approval before the run waits for it.
SPECIFICATION FairSpec
CONSTANTS
  Workers = {w1}
  Deciders = {d1}
  Approvals = {a1, a2}
  NoApproval = none
  EarlyDecisions = TRUE
  MaxCrashes = 0
  MaxDeletions = 0
PROPERTIES
  ApprovedRunEnds
\* Nobody need decide an approval, and a run may be over.
CHECK_DEADLOCK FALSE
