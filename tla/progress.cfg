\* One reconciler, fairly scheduled, that crashes once.
SPECIFICATION FairSpec
CONSTANTS
  Reconcilers = {r1}
  Policies <- EveryKind
  DeclaredTools = 1
  MaxIterations = 2
  MaxModelInvocations = 3
  MaxToolInvocations = 1
  MaxDecisionFailures = 1
  MaxToolFailures = 1
  MaxModelRetries = 1
  MaxToolRetries = 1
  MaxCrashes = 1
  LoadsMayFail = FALSE
PROPERTIES
  NeverStuck
  ToolsSettle
  CancellationEnds
\* A run that is over, or waits for a user, may stop.
CHECK_DEADLOCK FALSE
