\* A tool call outlives the step that issued it.
SPECIFICATION Spec
CONSTANTS
  Reconcilers = {r1, r2}
  Policies <- AllowAll
  DeclaredTools = 1
  MaxIterations = 2
  MaxModelInvocations = 3
  MaxToolInvocations = 2
  MaxDecisionFailures = 1
  MaxToolFailures = 1
  MaxModelRetries = 1
  MaxToolRetries = 1
  MaxCrashes = 0
  LoadsMayFail = FALSE
PROPERTIES
  StaleCompletionFenced
SYMMETRY ReconcilerSymmetry
\* A run that is over, or waits for a user, may stop.
CHECK_DEADLOCK FALSE
