\* Two reconcilers drive one run and may crash.
SPECIFICATION Spec
CONSTANTS
  Reconcilers = {r1, r2}
  Policies <- AllowAll
  DeclaredTools = 1
  MaxIterations = 2
  MaxModelInvocations = 2
  MaxToolInvocations = 2
  MaxDecisionFailures = 0
  MaxToolFailures = 1
  MaxModelRetries = 1
  MaxToolRetries = 0
  MaxCrashes = 1
  LoadsMayFail = FALSE
INVARIANTS
  PersistedStateConsistent
  BudgetsRespected
  OneExecution
PROPERTIES
  EndIsFinal
  NothingBeginsAfterEnd
SYMMETRY ReconcilerSymmetry
\* A run that is over, or waits for a user, may stop.
CHECK_DEADLOCK FALSE
