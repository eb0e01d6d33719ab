\* One deletion, in a Workspace of its own.
SPECIFICATION FairSpec
CONSTANTS
  Workspaces = {w1, w2}
  MaxDeletions = 1
  MaxRestarts = 0
PROPERTIES
  WorkspacesAreIsolated
\* A loop that has died is not started again.
CHECK_DEADLOCK FALSE
