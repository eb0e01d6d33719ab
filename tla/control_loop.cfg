\* Two Workspaces, two deletions and one restart, any number of creations.
SPECIFICATION FairSpec
CONSTANTS
  Workspaces = {w1, w2}
  MaxDeletions = 2
  MaxRestarts = 1
INVARIANTS
  OrphansAreCut
  LoopDiesOnlyByDeletion
PROPERTIES
  RunsEnd
\* A loop that has died is not started again unless the process is.
CHECK_DEADLOCK FALSE
