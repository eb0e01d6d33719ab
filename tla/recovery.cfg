\* One reconciler that crashes and starts over, under every kind of policy.
SPECIFICATION Spec
CONSTANTS
  Reconcilers = {r1}
  Policies <- EveryKind
  DeclaredTools = 1
  MaxIterations = 2
  MaxModelInvocations = 3
  MaxToolInvocations = 2
  MaxDecisionFailures = 1
  MaxToolFailures = 2
  MaxModelRetries = 1
  MaxToolRetries = 1
  MaxCrashes = 1
  LoadsMayFail = TRUE
INVARIANTS
  TypeOK
  EffectsApproved
  ModelCallsCounted
  ExecutionsBounded
  InvocationsCounted
  DeliveredOnce
PROPERTIES
  SettledIsFinal
  ImplementsLifecycle
\* A run that is over, or waits for a user, may stop.
CHECK_DEADLOCK FALSE
