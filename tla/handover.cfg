\* One control plane that dies, one approver who goes by what the run waits for.
SPECIFICATION FairSpec
CONSTANTS
  Workers = {w1}
  Deciders = {d1}
  Approvals = {a1, a2}
  NoApproval = none
  EarlyDecisions = FALSE
  MaxCrashes = 2
  MaxDeletions = 2
INVARIANTS
  AskedOnce
  PerformedIsApproved
PROPERTIES
  ApprovedRunEnds
\* Nobody need decide an approval, and a run may be over.
CHECK_DEADLOCK FALSE
