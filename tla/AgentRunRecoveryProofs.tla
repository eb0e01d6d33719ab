----------------------- MODULE AgentRunRecoveryProofs -----------------------
(***************************************************************************)
(* What AgentRunEngine guarantees when one reconciler drives the run and   *)
(* crashes, for any policies, budgets and number of crashes: nothing that  *)
(* was counted, settled or delivered is repeated, and the AgentController  *)
(* sees the run move as AgentRunLifecycle lets it.                         *)
(***************************************************************************)
EXTENDS AgentRunEngineProofs, AgentRunRefinement, FiniteSetTheorems

\* There is one control plane, and one coroutine of it reconciles.
OneReconciler == \A r, q \in Reconcilers : r = q

-----------------------------------------------------------------------------
(* What is remembered across a call and what is persisted stay in step: the  *)
(* part of the invariant that a second reconciler would break.               *)

\* Nobody settles the ToolInvocation behind its executor's back.
ExecutorsRun == \A r \in Reconcilers : Executing(r) => tool[snap[r].n].phase = "Running"

\* Nor does anybody write the run's frame and usage.
CallsInSync ==
  \A r \in Reconcilers : pc[r] = "tool" =>
    /\ data.frame = snap[r].data.frame
    /\ data.usage = snap[r].data.usage
    /\ data.state = "WaitingForTool"
    /\ snap[r].data.active = NoModel

Live == data.state \in ResumablePhases \cup {"none"}

\* A run that is not over has an active model invocation only while it awaits it,
\* and its frame says what has been done of the iteration.
FrameKnown ==
  /\ Live /\ data.active # NoModel =>
       data.state = "AwaitingDecision" /\ data.frame.state = "decision-requested"
  /\ data.state = "DecisionReady" => data.frame.state = "decision-produced" /\ ~data.frame.tool
  /\ data.state = "ProcessingDecision" =>
       data.frame.state = "decision-validated" /\ ~data.frame.tool
  /\ data.state = "WaitingForTool" => data.frame.state = "waiting-for-tool" /\ data.frame.tool
  /\ data.state = "WaitingForObservation" => data.frame.tool
  /\ data.state = "AwaitingDecision" /\ data.frame.state = "decision-rejected" =>
       ~data.frame.tool
  /\ data.state = "Finalizing" => data.frame.state = "finalizing" /\ ~data.frame.tool
  /\ ~data.frame.tool => data.frame.toolRetries = 0

\* A ToolInvocation belongs to an iteration that was, and is settled when the run
\* has taken its outcome; one that the run does not know of was created for the
\* Decision that is about to be acted on.
ToolsOfFrames ==
  \A i \in Iterations :
    /\ i > data.frame.n => tool[i].phase = "Absent"
    /\ Taken(i) => tool[i].phase \in ToolTerminalPhases \cup {"Absent"}
    /\ i = data.frame.n /\ ~data.frame.tool /\ tool[i].phase # "Absent" =>
         /\ data.frame.state = "decision-validated"
         /\ data.frame.decision = "invoke_tool"
         /\ data.activeTool # i

\* What a controller has listed in phase p is the ToolInvocation of the frame. It
\* is still in phase p unless it waited for an approval and was denied meanwhile.
Listed(i, p) ==
  /\ i = data.frame.n
  /\ ~Taken(i)
  /\ p \notin ToolTerminalPhases
  /\ \/ tool[i].phase = p
     \/ p = "WaitingForApproval" /\ tool[i].phase = "Denied" /\ Verdict(Tool(i)) = "Deny"

ListsKnown ==
  \A r \in Reconcilers :
    /\ pc[r] = "tools" => \A i \in Iterations :
         snap[r].listed[i] # "Absent" => Listed(i, snap[r].listed[i])
    /\ pc[r] = "tic" => snap[r].listed = Nothing

\* An approval is asked for where the policy requires one.
AskedForReason ==
  \A g \in Guarded : approvals[g].phase # "None" => policy[g] = "RequireApproval"

SyncInvariant ==
  ExecutorsRun /\ CallsInSync /\ FrameKnown /\ ToolsOfFrames /\ ListsKnown /\ AskedForReason

-----------------------------------------------------------------------------
(* The histories are behind what is persisted *)

\* An id was issued for an iteration and attempt that the frames have counted.
IssuedBehind ==
  /\ IsFiniteSet(issued)
  /\ Cardinality(issued) = data.usage.model
  /\ \A id \in issued :
       /\ id.iteration <= data.frame.n
       /\ id.iteration = data.frame.n => id.attempt <= data.frame.attempts

\* The retries that the frame has counted of iteration i.
Retries(i) == IF i = data.frame.n THEN data.frame.toolRetries ELSE 0

\* As long as a tool can be started, its starts have been counted as retries.
ExecutionsCounted ==
  \A i \in Iterations :
    /\ executions[i] <= 1 + MaxToolRetries
    /\ tool[i].phase = "Absent" => executions[i] = 0
    /\ tool[i].phase \in {"Pending", "Authorized", "WaitingForApproval"} =>
         executions[i] <= Retries(i) /\ Retries(i) <= MaxToolRetries
    /\ tool[i].phase = "Running" => executions[i] <= 1 + Retries(i)

\* What was delivered is behind the run.
DeliveredBehind ==
  \A i \in Iterations :
    /\ deliveries[i] <= 1
    /\ deliveries[i] > 0 =>
         \/ i < data.frame.n
         \/ i = data.frame.n /\ data.frame.state = "observation-delivered"

RecoveryInvariant ==
  SyncInvariant /\ IssuedBehind /\ ExecutionsCounted /\ InvocationsCounted /\ DeliveredBehind

-----------------------------------------------------------------------------
(* An approval that names the run and is not decided holds the run up *)

Open(g) == approvals[g] = [phase |-> "Pending", bound |-> TRUE]

\* It is the one the run waits for, until the run is over.
OpenKnown ==
  \A g \in Guarded : Open(g) =>
    /\ data.pending = g
    /\ data.state \notin {"none", "Succeeded"}
    /\ \/ Terminal
       \/ phase = "WaitingForApproval"
       \/ /\ phase = "WaitingForTool" /\ g = Tool(data.frame.n)
          /\ tool[data.frame.n].phase = "WaitingForApproval"

\* A run that was not started waits for nobody, nor does one whose tool is executed.
NothingOpen ==
  /\ data.state = "none" => data.pending = NoAction
  /\ \A r \in Reconcilers : pc[r] = "tool" => ~OpenApproval

ApprovalsInvariant == OpenKnown /\ NothingOpen

-----------------------------------------------------------------------------
(* What the operators on status.data leave of the counters *)

LEMMA EnterCounts ==
  ASSUME NEW d \in Data, NEW p, Enter(p, d) \/ Fail(d)
  PROVE  /\ data'.frame = d.frame /\ data'.usage = d.usage /\ data'.pending = d.pending
         /\ data'.activeTool = d.activeTool
  BY DEF Enter, Fail, Data

LEMMA PauseCounts ==
  ASSUME NEW d \in Data, NEW r, NEW g, Pause(r, g, d)
  PROVE  /\ data'.frame = d.frame /\ data'.usage = d.usage /\ data'.pending = g
         /\ data'.activeTool = d.activeTool
  BY DEF Pause, Data

LEMMA StartedCounts ==
  ASSUME data \in Data
  PROVE  /\ Started.frame = data.frame /\ Started.usage = data.usage
         /\ Started.pending = data.pending /\ Started.activeTool = data.activeTool
  BY DEF Started, Data

LEMMA OpenedCounts ==
  ASSUME data \in Data
  PROVE  /\ Opened.usage.model = data.usage.model
         /\ Opened.usage.tool = data.usage.tool
         /\ Opened.pending = data.pending
         /\ NeedsFrame(data.frame) =>
              /\ Opened.frame.n = data.usage.iterations + 1
              /\ Opened.frame.state = "prepared"
              /\ Opened.frame.attempts = 0
              /\ Opened.frame.toolRetries = 0
              /\ ~Opened.frame.tool
         /\ ~NeedsFrame(data.frame) => Opened = data
<1>1. CASE NeedsFrame(data.frame)
  <2> DEFINE u == [data.usage EXCEPT !.iterations = @ + 1]
             f == [NoFrame EXCEPT !.n = data.usage.iterations + 1, !.state = "prepared"]
  <2>1. Opened = [data EXCEPT !.usage = u, !.frame = f]
    BY <1>1 DEF Opened, WithNewFrame, Data
  <2>2. u.model = data.usage.model /\ u.tool = data.usage.tool
    BY DataFieldsTyped DEF Usages
  <2>3. /\ f.n = data.usage.iterations + 1 /\ f.state = "prepared"
        /\ f.attempts = 0 /\ f.toolRetries = 0 /\ ~f.tool
    BY DEF NoFrame
  <2> HIDE DEF u, f
  <2>4. Opened.usage = u /\ Opened.frame = f /\ Opened.pending = data.pending
    BY <2>1 DEF Data
  <2> QED
    BY <1>1, <2>2, <2>3, <2>4
<1>2. CASE ~NeedsFrame(data.frame)
  BY <1>2 DEF Opened
<1> QED
  BY <1>1, <1>2

LEMMA CountToolFailureCounts ==
  ASSUME NEW d \in Data
  PROVE  LET e == CountToolFailure(d)
         IN  /\ e.frame.attempts = d.frame.attempts
             /\ e.frame.toolRetries = d.frame.toolRetries + 1
             /\ e.usage.model = d.usage.model
             /\ e.usage.tool = d.usage.tool
             /\ e.pending = d.pending
<1> DEFINE u == [d.usage EXCEPT !.toolFailures = @ + 1]
           f == [d.frame EXCEPT !.toolRetries = @ + 1]
<1>1. CountToolFailure(d) = [d EXCEPT !.usage = u, !.frame = f]
  BY DEF CountToolFailure, Data
<1>2. /\ f.attempts = d.frame.attempts /\ f.toolRetries = d.frame.toolRetries + 1
      /\ u.model = d.usage.model /\ u.tool = d.usage.tool
  BY DataFieldsTyped DEF Frames, Usages
<1> HIDE DEF u, f
<1> QED
  BY <1>1, <1>2 DEF Data

LEMMA ToolRecordedCounts ==
  ASSUME data \in Data, NEW counted \in BOOLEAN
  PROVE  LET e == ToolRecorded(counted)
         IN  /\ e.frame.state = "waiting-for-tool"
             /\ e.frame.attempts = data.frame.attempts
             /\ e.frame.toolRetries = data.frame.toolRetries
             /\ e.usage.model = data.usage.model
             /\ e.usage.tool = IF counted THEN data.usage.tool + 1 ELSE data.usage.tool
             /\ e.pending = data.pending
<1> DEFINE u == [data.usage EXCEPT !.tool = IF counted THEN @ + 1 ELSE @]
           f == [data.frame EXCEPT !.tool = TRUE, !.state = "waiting-for-tool"]
<1>1. ToolRecorded(counted) = [data EXCEPT !.usage = u, !.frame = f, !.activeTool = data.frame.n]
  BY DEF ToolRecorded, Data
<1>2. /\ f.state = "waiting-for-tool" /\ f.attempts = data.frame.attempts
      /\ f.toolRetries = data.frame.toolRetries
      /\ u.model = data.usage.model
      /\ u.tool = IF counted THEN data.usage.tool + 1 ELSE data.usage.tool
  BY DataFieldsTyped DEF Frames, Usages
<1> HIDE DEF u, f
<1> QED
  BY <1>1, <1>2 DEF Data

LEMMA FrameStateCounts ==
  ASSUME NEW d \in Data, NEW s \in FrameStates
  PROVE  LET e == [d EXCEPT !.frame.state = s]
         IN  /\ e \in Data
             /\ e.state = d.state
             /\ e.active = d.active
             /\ e.frame.n = d.frame.n
             /\ e.frame.state = s
             /\ e.frame.attempts = d.frame.attempts
             /\ e.frame.toolRetries = d.frame.toolRetries
             /\ e.frame.tool = d.frame.tool
             /\ e.frame.decision = d.frame.decision
             /\ e.usage = d.usage
             /\ e.pending = d.pending
<1> DEFINE f == [d.frame EXCEPT !.state = s]
           e == [d EXCEPT !.frame.state = s]
<1>1. e = [d EXCEPT !.frame = f]
  BY DEF Data
<1>2. /\ f.n = d.frame.n /\ f.state = s /\ f.attempts = d.frame.attempts
      /\ f.toolRetries = d.frame.toolRetries /\ f.tool = d.frame.tool
      /\ f.decision = d.frame.decision
  BY DataFieldsTyped DEF Frames
<1>3. e \in Data
  BY FrameStateTyped
<1> HIDE DEF f
<1>4. /\ e.state = d.state /\ e.active = d.active /\ e.frame = f /\ e.usage = d.usage
      /\ e.pending = d.pending
  BY <1>1 DEF Data
<1> QED
  BY <1>2, <1>3, <1>4

LEMMA ObservedCounts ==
  ASSUME NEW d \in Data
  PROVE  LET e == Observed(d)
         IN  /\ e.frame.attempts = d.frame.attempts
             /\ e.frame.toolRetries = d.frame.toolRetries
             /\ e.usage = d.usage
             /\ e.pending = d.pending
<1> DEFINE e == [d EXCEPT !.frame.state = "tool-observed"]
<1>1. Observed(d) = [e EXCEPT !.activeTool = Awaited(d)]
  BY DEF Observed, Data
<1>2. e \in Data
  BY FrameStateTyped DEF FrameStates
<1>3. /\ e.frame.attempts = d.frame.attempts /\ e.frame.toolRetries = d.frame.toolRetries
      /\ e.usage = d.usage /\ e.pending = d.pending
  BY FrameStateCounts DEF FrameStates
<1> HIDE DEF e
<1> QED
  BY <1>1, <1>2, <1>3 DEF Data

LEMMA MergedCounts ==
  ASSUME data \in Data, NEW d \in Data
  PROVE  LET e == Merged(d)
         IN  /\ e.usage = d.usage
             /\ e.active = IF d.active = NoModel THEN data.active ELSE d.active
             /\ e.pending = IF d.pending = NoAction THEN data.pending ELSE d.pending
<1> DEFINE a == IF d.active = NoModel THEN data.active ELSE d.active
           g == IF d.pending = NoAction THEN data.pending ELSE d.pending
<1>1. Merged(d) = [d EXCEPT !.active = a, !.pending = g]
  BY DEF Merged, Data
<1> HIDE DEF a, g
<1>2. Merged(d).usage = d.usage /\ Merged(d).active = a /\ Merged(d).pending = g
  BY <1>1 DEF Data
<1> QED
  BY <1>2 DEF a, g

-----------------------------------------------------------------------------
(* The moves: what a step may do to the counters, the ToolInvocations and the *)
(* histories.  Every step makes one of them, and the invariants are shown of   *)
(* the moves.                                                                  *)

StartablePhases == {"Pending", "Authorized", "WaitingForApproval"}

TakenStates == {"tool-observed", "observation-delivered"}

\* The run takes the outcome of the ToolInvocation of its frame once it is settled.
TakesSettled ==
  data'.frame.state \in TakenStates =>
    \/ data.frame.state \in TakenStates
    \/ tool'[data.frame.n].phase \in ToolTerminalPhases

\* The counters of the run, and the marks in its frame that say that the
\* Observation was delivered or a ToolInvocation is about to be created.
Rests ==
  /\ TakesSettled
  /\ data'.frame.n = data.frame.n
  /\ data'.frame.attempts = data.frame.attempts
  /\ data'.frame.toolRetries = data.frame.toolRetries
  /\ data'.frame.tool = data.frame.tool
  /\ data'.usage.model = data.usage.model
  /\ data'.usage.tool = data.usage.tool
  /\ data.frame.state = "observation-delivered" => data'.frame.state = "observation-delivered"
  /\ data.frame.state = "decision-validated" /\ data.frame.decision = "invoke_tool"
       /\ ~data.frame.tool =>
       /\ data'.frame.state = "decision-validated"
       /\ data'.frame.decision = "invoke_tool"
       /\ data'.activeTool = data.activeTool

Quiet == Rests /\ UNCHANGED <<tool, issued, executions, deliveries>>

NewFrame(attempts) ==
  /\ data.state = "AwaitingDecision"
  /\ NeedsFrame(data.frame)
  /\ data'.frame.n = data.frame.n + 1
  /\ data'.frame.attempts = attempts
  /\ data'.frame.toolRetries = 0
  /\ ~data'.frame.tool

Opens ==
  /\ NewFrame(0)
  /\ data'.usage.model = data.usage.model
  /\ data'.usage.tool = data.usage.tool
  /\ UNCHANGED <<tool, issued, executions, deliveries>>

NewAttempt ==
  /\ data.frame.state \in {"prepared", "decision-requested"}
  /\ data'.frame.state = "decision-requested"
  /\ data'.frame.n = data.frame.n
  /\ data'.frame.attempts = data.frame.attempts + 1
  /\ data'.frame.toolRetries = data.frame.toolRetries
  /\ data'.frame.tool = data.frame.tool

Requests ==
  /\ NewFrame(1) \/ NewAttempt
  /\ data'.usage.model = data.usage.model + 1
  /\ data'.usage.tool = data.usage.tool
  /\ \E id \in ModelInvocations :
       /\ id.iteration = data'.frame.n
       /\ id.attempt = data'.frame.attempts
       /\ issued' = issued \cup {id}
  /\ UNCHANGED <<tool, executions, deliveries>>

\* Only ToolInvocation i changes.
OnlyTool(i) == i \in Iterations /\ \A j \in Iterations \ {i} : tool'[j] = tool[j]

Created(i) == tool[i].phase = "Absent" /\ tool'[i].phase = "Pending" /\ OnlyTool(i)

Creates ==
  /\ Rests
  /\ data.frame.state = "decision-validated"
  /\ data.frame.decision = "invoke_tool"
  /\ ~data.frame.tool
  /\ Created(data.frame.n)
  /\ crashes' = crashes + 1
  /\ UNCHANGED <<issued, executions, deliveries>>

Records ==
  /\ data.frame.state = "decision-validated"
  /\ ~data.frame.tool
  /\ data'.frame.n = data.frame.n
  /\ data'.frame.attempts = data.frame.attempts
  /\ data'.frame.toolRetries = data.frame.toolRetries
  /\ data'.frame.tool
  /\ data'.frame.state = "waiting-for-tool"
  /\ data'.usage.model = data.usage.model
  /\ \/ Created(data.frame.n) /\ data'.usage.tool = data.usage.tool + 1
     \/ tool' = tool /\ data'.usage.tool = data.usage.tool
  /\ UNCHANGED <<issued, executions, deliveries>>

\* ToolInvocation i is settled, or waits or starts although it did not run.
Turns(i) ==
  /\ Rests
  /\ OnlyTool(i)
  /\ tool[i].phase \notin ToolTerminalPhases \cup {"Absent"}
  /\ \/ tool'[i].phase \in ToolTerminalPhases /\ executions' = executions
     \/ /\ tool[i].phase \in StartablePhases
        /\ tool'[i].phase \in StartablePhases
        /\ executions' = executions
     \/ tool[i].phase \in StartablePhases /\ tool'[i].phase = "Running" /\ Executes(i)
  /\ UNCHANGED <<issued, deliveries>>

\* The ToolInvocation that was denied while it was on the controller's list is
\* settled once more, before the run has taken its outcome.
SettlesAgain ==
  LET n == data.frame.n IN
  /\ Rests
  /\ OnlyTool(n)
  /\ tool[n].phase = "Denied"
  /\ ~Taken(n)
  /\ tool'[n].phase \in ToolTerminalPhases
  /\ UNCHANGED <<issued, executions, deliveries>>

FailureCounted ==
  /\ data.frame.state = "waiting-for-tool"
  /\ data.frame.tool
  /\ data'.frame.n = data.frame.n
  /\ data'.frame.attempts = data.frame.attempts
  /\ data'.frame.toolRetries = data.frame.toolRetries + 1
  /\ data'.frame.tool = data.frame.tool
  /\ data'.usage.model = data.usage.model
  /\ data'.usage.tool = data.usage.tool

\* The tool call failed, or its approval was refused: the ToolInvocation is
\* settled, or it ran and may run again.
Fails ==
  LET n == data.frame.n IN
  /\ FailureCounted
  /\ TakesSettled
  /\ OnlyTool(n)
  /\ tool[n].phase \notin ToolTerminalPhases \cup {"Absent"}
  /\ \/ tool'[n].phase \in ToolTerminalPhases /\ executions' = executions
     \/ tool[n].phase = "Running" /\ tool'[n].phase = "Running" /\ executions' = executions
     \/ /\ tool[n].phase = "Running"
        /\ data'.frame.toolRetries <= MaxToolRetries
        /\ \/ tool'[n].phase \in StartablePhases /\ executions' = executions
           \/ tool'[n].phase = "Running" /\ Executes(n)
  /\ UNCHANGED <<issued, deliveries>>

Delivers ==
  /\ data.frame.state = "tool-observed"
  /\ data.frame.n \in Iterations
  /\ data'.frame.n = data.frame.n
  /\ data'.frame.attempts = data.frame.attempts
  /\ data'.frame.toolRetries = data.frame.toolRetries
  /\ data'.frame.tool = data.frame.tool
  /\ data'.usage.model = data.usage.model
  /\ data'.usage.tool = data.usage.tool
  /\ data'.frame.state = "observation-delivered"
  /\ deliveries' = [deliveries EXCEPT ![data.frame.n] = @ + 1]
  /\ UNCHANGED <<tool, issued, executions>>

Move ==
  \/ Quiet \/ Opens \/ Requests \/ Creates \/ Records
  \/ \E i \in Iterations : Turns(i)
  \/ SettlesAgain \/ Fails \/ Delivers

\* What is known of the reachable states, however many reconcilers there are.
Base ==
  /\ TypeOK /\ StateInvariant /\ BudgetsInvariant /\ EffectsInvariant
  /\ OneExecution /\ ExecutionsKnown

LEMMA BaseAlways == Spec => []Base
<1>1. Init => BudgetsInvariant
  BY BudgetsAssumption DEF Init, BudgetsInvariant, WithinBudgets, NoData, NoUsage, NoFrame
<1>2. Init => OneExecution /\ ExecutionsKnown
  BY DEF Init, OneExecution, ExecutionsKnown, Executing
<1>3. TypeOK /\ StateInvariant /\ BudgetsInvariant /\ [Next]_vars => BudgetsInvariant'
  BY BudgetsKept
<1>4. TypeOK /\ StateInvariant /\ EffectsInvariant /\ OneExecution /\ ExecutionsKnown /\ [Next]_vars
        => (OneExecution /\ ExecutionsKnown)'
  BY ExecutionsStep
<1> QED
  BY <1>1, <1>2, <1>3, <1>4, ConsistentTyped, EffectsAlwaysAllowed, PTL DEF Base, Spec

-----------------------------------------------------------------------------
(* Steps of the engine up to the Decision *)

LEMMA CountersTyped ==
  ASSUME TypeOK
  PROVE  /\ data.frame.n \in Nat /\ data.frame.attempts \in Nat
         /\ data.frame.toolRetries \in Nat
         /\ data.usage.model \in Nat /\ data.usage.tool \in Nat
<1>1. data \in Data
  BY DEF TypeOK
<1>2. data.frame \in Frames /\ data.usage \in Usages
  BY <1>1, DataFieldsTyped
<1> QED
  BY <1>2, BudgetsAssumption DEF Frames, Usages

LEMMA KnownWhenOver ==
  ASSUME data'.state \in TerminalPhases, ~data'.frame.tool => data'.frame.toolRetries = 0
  PROVE  FrameKnown'
  BY DEF FrameKnown, Live, TerminalPhases, ResumablePhases

LEMMA SameFrameQuiet ==
  ASSUME data'.frame = data.frame, data'.usage = data.usage, UNCHANGED <<tool, history>>,
         data'.activeTool = data.activeTool \/ data.frame.state # "decision-validated"
  PROVE  Quiet
  BY DEF Quiet, Rests, TakesSettled, history

\* The frame in which the model is asked, the one at hand or a new one.
LEMMA OpenedMoves ==
  ASSUME Base, FrameKnown, phase = "AwaitingDecision", IterationLeft
  PROVE  /\ data.state = "AwaitingDecision"
         /\ Opened \in Data
         /\ Opened.state = "AwaitingDecision"
         /\ Opened.active # NoModel => Opened.frame.state = "decision-requested"
         /\ ~Opened.frame.tool => Opened.frame.toolRetries = 0
         /\ Opened.frame.state # "decision-rejected"
         /\ data'.frame = Opened.frame /\ data'.usage = Opened.usage
              /\ UNCHANGED <<tool, history>> => Quiet \/ Opens
<1>1. data \in Data /\ RunConsistent /\ WithinBudgets(data)
  BY DEF Base, TypeOK, StateInvariant, BudgetsInvariant
<1>2. data.state = "AwaitingDecision"
  BY <1>1, RunSound DEF Base, ResumablePhases
<1>3. Opened \in Data /\ Opened.state = "AwaitingDecision" /\ Opened.active = data.active
  BY <1>1, <1>2, OpenedTyped, OpenedFields
<1>4. data.active # NoModel => ~NeedsFrame(data.frame) /\ data.frame.state = "decision-requested"
  BY <1>1, <1>2
     DEF FrameKnown, Live, ResumablePhases, NeedsFrame, NoFrame, RunConsistent,
         PersistedStateConsistent, FrameFits
<1>5. data.usage.iterations = data.frame.n /\ data.frame.state # "decision-validated"
  BY <1>1, <1>2
     DEF WithinBudgets, RunConsistent, PersistedStateConsistent, FrameFits, NoFrame
<1>6. CASE NeedsFrame(data.frame)
  BY <1>1, <1>2, <1>3, <1>4, <1>5, <1>6, OpenedCounts DEF Opens, NewFrame, history
<1>7. CASE ~NeedsFrame(data.frame)
  <2>1. Opened = data
    BY <1>1, <1>7, OpenedCounts
  <2> QED
    BY <1>2, <1>3, <1>4, <1>5, <1>7, <2>1, SameFrameQuiet DEF FrameKnown, NeedsFrame
<1> QED
  BY <1>6, <1>7

LEMMA EndingMoves ==
  ASSUME Base, FrameKnown, NEW r \in Reconcilers,
         \/ CancelRun(r) \/ TimeOutRun(r) \/ ExhaustIterations(r) \/ ExhaustModelCalls(r)
         \/ DenyModel(r) \/ ExpireInFlight(r) \/ FailByDecision(r)
         \/ \E outputsComplete \in BOOLEAN : FailFinalization(r, outputsComplete)
         \/ CompleteExecution(r) \/ EndPass(r) \/ FailPass(r)
  PROVE  Move /\ FrameKnown'
<1>1. data \in Data /\ [data EXCEPT !.active = NoModel] \in Data /\ RunConsistent
  BY FieldsTyped, NoDataTyped DEF Base, TypeOK, StateInvariant
<1>2. CASE \/ CancelRun(r) \/ TimeOutRun(r) \/ ExhaustIterations(r) \/ ExpireInFlight(r)
           \/ FailByDecision(r)
           \/ \E outputsComplete \in BOOLEAN : FailFinalization(r, outputsComplete)
  <2> DEFINE e == [data EXCEPT !.active = NoModel]
  <2>1. /\ e.frame = data.frame /\ e.usage = data.usage /\ e \in Data
        /\ e.activeTool = data.activeTool
    BY <1>1 DEF Data
  <2>2. /\ UNCHANGED <<tool, history>>
        /\ \E p \in TerminalPhases : Enter(p, data) \/ Enter(p, e)
    BY <1>2 DEF CancelRun, TimeOutRun, ExhaustIterations, ExpireInFlight, FailByDecision,
                FailFinalization, Fail, TerminalPhases
  <2> HIDE DEF e
  <2>3. /\ data'.frame = data.frame /\ data'.usage = data.usage
        /\ data'.activeTool = data.activeTool /\ data'.state \in TerminalPhases
    BY <1>1, <2>1, <2>2, EnterCounts, EnterFields
  <2> QED
    BY <2>2, <2>3, SameFrameQuiet, KnownWhenOver DEF Move, FrameKnown
<1>3. CASE ExhaustModelCalls(r) \/ DenyModel(r)
  <2>1. /\ phase = "AwaitingDecision" /\ IterationLeft /\ UNCHANGED <<tool, history>>
        /\ Enter("BudgetExceeded", Opened) \/ Fail(Opened)
    BY <1>3 DEF ExhaustModelCalls, DenyModel, ModelTurn, DecisionTurn
  <2>2. Opened \in Data /\ (~Opened.frame.tool => Opened.frame.toolRetries = 0)
    BY <2>1, OpenedMoves
  <2>3. /\ data'.frame = Opened.frame /\ data'.usage = Opened.usage
        /\ data'.state \in TerminalPhases
    BY <2>1, <2>2, EnterCounts, EnterFields, FailFields DEF TerminalPhases
  <2>4. Quiet \/ Opens
    BY <2>1, <2>3, OpenedMoves
  <2> QED
    BY <2>2, <2>3, <2>4, KnownWhenOver DEF Move
<1>4. CASE CompleteExecution(r)
  <2> DEFINE e == [data EXCEPT !.frame.state = "finalized"]
  <2> "finalized" \in FrameStates
    BY DEF FrameStates
  <2>1. Enter("Succeeded", e) /\ UNCHANGED <<tool, history>> /\ phase = "Finalizing"
    BY <1>4 DEF CompleteExecution, FinalTurn
  <2>2. /\ e \in Data /\ e.frame.n = data.frame.n /\ e.frame.attempts = data.frame.attempts
        /\ e.frame.toolRetries = data.frame.toolRetries /\ e.frame.tool = data.frame.tool
        /\ e.frame.state = "finalized" /\ e.usage = data.usage
    BY <1>1, FrameStateCounts
  <2> HIDE DEF e
  <2>3. data'.frame = e.frame /\ data'.usage = e.usage /\ data'.state = "Succeeded"
    BY <2>1, <2>2, EnterCounts, EnterFields
  <2>4. data.frame.state = "finalizing"
    BY <1>1, <2>1, RunSound DEF FrameKnown, Base, ResumablePhases
  <2> QED
    BY <2>1, <2>2, <2>3, <2>4, KnownWhenOver
    DEF Move, Quiet, Rests, TakesSettled, TakenStates, history, FrameKnown, TerminalPhases
<1>5. CASE EndPass(r) \/ FailPass(r)
  <2>1. data' = data /\ UNCHANGED <<tool, history>>
    BY <1>5 DEF EndPass, FailPass
  <2> QED
    BY <2>1, SameFrameQuiet DEF Move, FrameKnown, Live
<1> QED
  BY <1>2, <1>3, <1>4, <1>5

\* The run starts, and waits for the approvals of the start and of the write.
LEMMA StartMoves ==
  ASSUME Base, FrameKnown, NEW r \in Reconcilers,
         StartEngine(r) \/ DieAfterStart(r) \/ PrepareExecution(r) \/ AwaitWriteApproval(r)
  PROVE  Quiet /\ FrameKnown'
<1>1. data \in Data /\ RunConsistent
  BY DEF Base, TypeOK, StateInvariant
<1>2. UNCHANGED <<tool, history>>
  BY DEF StartEngine, DieAfterStart, PrepareExecution, AwaitWriteApproval
<1>3. CASE StartEngine(r) \/ DieAfterStart(r)
  <2>1. /\ Started \in Data /\ Started.state = "Starting" /\ Started.frame = data.frame
        /\ Started.active = data.active /\ Started.usage = data.usage
    BY <1>1, StartedTyped, StartedFields, StartedCounts
  <2>2. data.state = "none"
    BY <1>1, <1>3, RunSound DEF StartEngine, DieAfterStart, Base
  <2>3. data.active = NoModel
    BY <2>2 DEF FrameKnown, Live
  <2>4. \/ Enter("Starting", Started) \/ Fail(Started)
        \/ \E k \in 1..DeclaredTools : Pause(r, Use(k), Started)
    BY <1>3 DEF StartEngine, DieAfterStart
  <2>5. /\ data'.frame = data.frame /\ data'.usage = data.usage
        /\ data'.activeTool = data.activeTool
        /\ data'.state \in {"Starting", "Failed"} /\ data'.active = NoModel
    BY <1>1, <2>1, <2>3, <2>4, StartedCounts, EnterCounts, EnterFields, FailFields, PauseFields,
       PauseCounts
  <2> QED
    BY <1>2, <2>5, SameFrameQuiet DEF FrameKnown
<1>4. CASE PrepareExecution(r)
  <2>1. data.state = "Starting"
    BY <1>1, <1>4, RunSound DEF PrepareExecution, Base, ResumablePhases
  <2>2. data.active = NoModel /\ data.frame.state # "decision-rejected"
    BY <1>1, <2>1 DEF FrameKnown, Live, ResumablePhases, RunConsistent,
                      PersistedStateConsistent, FrameFits, NoFrame
  <2>3. Enter("AwaitingDecision", data) \/ Fail(data)
    BY <1>4 DEF PrepareExecution
  <2>4. /\ data'.frame = data.frame /\ data'.usage = data.usage
        /\ data'.activeTool = data.activeTool
        /\ data'.state \in {"AwaitingDecision", "Failed"} /\ data'.active = NoModel
    BY <1>1, <2>2, <2>3, EnterCounts, EnterFields, FailFields
  <2> QED
    BY <1>2, <2>2, <2>4, SameFrameQuiet DEF FrameKnown
<1>5. CASE AwaitWriteApproval(r)
  <2>1. /\ data'.frame = data.frame /\ data'.usage = data.usage
        /\ data'.activeTool = data.activeTool
        /\ data'.state = data.state /\ data'.active = data.active
    BY <1>1, <1>5, PauseFields, PauseCounts DEF AwaitWriteApproval
  <2> QED
    BY <1>2, <2>1, SameFrameQuiet DEF FrameKnown, Live
<1> QED
  BY <1>3, <1>4, <1>5

LEMMA AwaitModelMoves ==
  ASSUME Base, FrameKnown, NEW r \in Reconcilers, AwaitModelApproval(r) \/ DieAfterFrame(r)
  PROVE  (Quiet \/ Opens) /\ FrameKnown'
<1>1. data \in Data /\ UNCHANGED <<tool, history>> /\ phase = "AwaitingDecision" /\ IterationLeft
  BY DEF AwaitModelApproval, DieAfterFrame, ModelTurn, DecisionTurn, Base, TypeOK
<1>2. /\ Opened \in Data /\ Opened.state = "AwaitingDecision"
      /\ Opened.active # NoModel => Opened.frame.state = "decision-requested"
      /\ ~Opened.frame.tool => Opened.frame.toolRetries = 0
      /\ Opened.frame.state # "decision-rejected"
  BY <1>1, OpenedMoves
<1>3. Pause(r, Model, Opened) \/ data' = Opened
  BY DEF AwaitModelApproval, DieAfterFrame
<1>4. /\ data'.frame = Opened.frame /\ data'.usage = Opened.usage
      /\ data'.state = "AwaitingDecision" /\ data'.active = Opened.active
  BY <1>2, <1>3, PauseFields, PauseCounts
<1>5. Quiet \/ Opens
  BY <1>1, <1>4, OpenedMoves
<1> QED
  BY <1>2, <1>4, <1>5 DEF FrameKnown

LEMMA RequestMoves ==
  ASSUME Base, FrameKnown, NEW r \in Reconcilers, RequestDecision(r)
  PROVE  Requests /\ FrameKnown'
<1>1. /\ data \in Data /\ phase = "AwaitingDecision" /\ IterationLeft /\ RunConsistent
      /\ UNCHANGED <<tool, executions, deliveries>> /\ WithinBudgets(data)
  BY DEF RequestDecision, ModelTurn, DecisionTurn, Base, TypeOK, StateInvariant, BudgetsInvariant
<1>2. /\ data.state = "AwaitingDecision" /\ Opened \in Data /\ Opened.state = "AwaitingDecision"
      /\ ~Opened.frame.tool => Opened.frame.toolRetries = 0
  BY <1>1, OpenedMoves
<1> DEFINE id == InvocationId(Opened)
           f == [Opened.frame EXCEPT !.attempts = @ + 1, !.state = "decision-requested"]
           u == [Opened.usage EXCEPT !.model = @ + 1]
<1>3. /\ data' = [Opened EXCEPT !.frame = f, !.usage = u, !.active = id]
      /\ issued' = issued \cup {id}
  BY <1>2 DEF RequestDecision, Data
<1>4. Opened.frame \in Frames /\ Opened.usage \in Usages /\ Opened.epoch \in Nat
  BY <1>2, DataFieldsTyped
<1>5. /\ f.n = Opened.frame.n /\ f.attempts = Opened.frame.attempts + 1
      /\ f.toolRetries = Opened.frame.toolRetries /\ f.tool = Opened.frame.tool
      /\ f.state = "decision-requested"
      /\ u.model = Opened.usage.model + 1 /\ u.tool = Opened.usage.tool
  BY <1>4 DEF Frames, Usages
<1>6. id \in ModelInvocations /\ id.iteration = f.n /\ id.attempt = f.attempts
  BY <1>4, <1>5, BudgetsAssumption DEF InvocationId, ModelInvocations, Frames
<1> HIDE DEF id, f, u
<1>7. data'.frame = f /\ data'.usage = u /\ data'.state = "AwaitingDecision"
  BY <1>2, <1>3 DEF Data
<1>8. FrameKnown'
  BY <1>2, <1>5, <1>7 DEF FrameKnown
<1>9. CASE NeedsFrame(data.frame)
  <2>1. NewFrame(1)
    BY <1>1, <1>2, <1>5, <1>7, <1>9, OpenedCounts DEF NewFrame, WithinBudgets
  <2> QED
    BY <1>1, <1>3, <1>5, <1>6, <1>7, <1>8, <2>1, OpenedCounts DEF Requests
<1>10. CASE ~NeedsFrame(data.frame)
  <2>1. data.frame.state \in {"prepared", "decision-requested"} /\ Opened = data
    BY <1>1, <1>2, <1>10, OpenedCounts
    DEF RunConsistent, PersistedStateConsistent, FrameFits, NeedsFrame, NoFrame
  <2>2. NewAttempt
    BY <1>5, <1>7, <2>1 DEF NewAttempt
  <2> QED
    BY <1>1, <1>3, <1>5, <1>6, <1>7, <1>8, <2>1, <2>2 DEF Requests
<1> QED
  BY <1>9, <1>10

-----------------------------------------------------------------------------
(* Steps of the engine that act on the Decision *)

LEMMA DecisionMoves ==
  ASSUME Base, FrameKnown, NEW r \in Reconcilers,
         AcceptDecision(r) \/ RejectDecision(r) \/ BeginFinalizing(r)
  PROVE  Quiet /\ FrameKnown'
<1>1. data \in Data /\ RunConsistent /\ data.frame \in Frames /\ data.usage \in Usages
  BY DataFieldsTyped DEF Base, TypeOK, StateInvariant
<1>2. UNCHANGED <<tool, history>>
  BY DEF AcceptDecision, RejectDecision, BeginFinalizing
<1>3. data.state \in {"DecisionReady", "ProcessingDecision"} /\ data.state = phase
  BY <1>1, RunSound
  DEF AcceptDecision, RejectDecision, BeginFinalizing, DecisionIs, Base, ResumablePhases
<1>4. data.active = NoModel /\ ~data.frame.tool /\ data.frame.toolRetries = 0
  BY <1>3 DEF FrameKnown, Live, ResumablePhases
<1>5. CASE AcceptDecision(r)
  <2> DEFINE f == [data.frame EXCEPT !.decision = data.frame.raw, !.state = "decision-validated"]
  <2>1. /\ data' = [data EXCEPT !.frame = f, !.state = "ProcessingDecision"]
        /\ phase = "DecisionReady"
    BY <1>1, <1>5 DEF AcceptDecision, Enter, Data
  <2>2. /\ f.n = data.frame.n /\ f.attempts = data.frame.attempts
        /\ f.toolRetries = data.frame.toolRetries /\ f.tool = data.frame.tool
        /\ f.state = "decision-validated"
    BY <1>1 DEF Frames
  <2> HIDE DEF f
  <2>3. /\ data'.frame = f /\ data'.usage = data.usage /\ data'.state = "ProcessingDecision"
        /\ data'.active = NoModel
    BY <1>1, <1>4, <2>1 DEF Data
  <2>4. data.frame.state = "decision-produced"
    BY <1>3, <2>1 DEF FrameKnown
  <2> QED
    BY <1>2, <1>4, <2>2, <2>3, <2>4
    DEF Quiet, Rests, TakesSettled, TakenStates, FrameKnown, history
<1>6. CASE RejectDecision(r)
  <2> DEFINE f == [data.frame EXCEPT !.state = "decision-rejected"]
             u == [data.usage EXCEPT !.decisionFailures = @ + 1]
  <2>1. /\ \E p \in {"AwaitingDecision", "Failed"} :
             data' = [data EXCEPT !.usage = u, !.frame = f, !.state = p]
        /\ phase = "DecisionReady"
    BY <1>1, <1>6 DEF RejectDecision, Enter, Data
  <2>2. /\ f.n = data.frame.n /\ f.attempts = data.frame.attempts
        /\ f.toolRetries = data.frame.toolRetries /\ f.tool = data.frame.tool
        /\ f.state = "decision-rejected"
        /\ u.model = data.usage.model /\ u.tool = data.usage.tool
    BY <1>1 DEF Frames, Usages
  <2> HIDE DEF f, u
  <2>3. /\ data'.frame = f /\ data'.usage = u /\ data'.state \in {"AwaitingDecision", "Failed"}
        /\ data'.active = NoModel
    BY <1>1, <1>4, <2>1 DEF Data
  <2>4. data.frame.state = "decision-produced"
    BY <1>3, <2>1 DEF FrameKnown
  <2> QED
    BY <1>2, <1>4, <2>2, <2>3, <2>4
    DEF Quiet, Rests, TakesSettled, TakenStates, FrameKnown, history
<1>7. CASE BeginFinalizing(r)
  <2> DEFINE e == [data EXCEPT !.frame.state = "finalizing"]
  <2> "finalizing" \in FrameStates
    BY DEF FrameStates
  <2>1. /\ Enter("Finalizing", e) /\ phase = "ProcessingDecision"
        /\ data.frame.decision = "complete"
    BY <1>7 DEF BeginFinalizing, DecisionIs
  <2>2. /\ e \in Data /\ e.frame.n = data.frame.n /\ e.frame.attempts = data.frame.attempts
        /\ e.frame.toolRetries = data.frame.toolRetries /\ e.frame.tool = data.frame.tool
        /\ e.frame.state = "finalizing" /\ e.usage = data.usage /\ e.active = data.active
    BY <1>1, FrameStateCounts
  <2> HIDE DEF e
  <2>3. /\ data'.frame = e.frame /\ data'.usage = e.usage /\ data'.state = "Finalizing"
        /\ data'.active = NoModel
    BY <1>4, <2>1, <2>2, EnterCounts, EnterFields
  <2>4. data.frame.state = "decision-validated"
    BY <1>3, <2>1 DEF FrameKnown
  <2> QED
    BY <1>2, <1>4, <2>1, <2>2, <2>3, <2>4
    DEF Quiet, Rests, TakesSettled, TakenStates, FrameKnown, history
<1> QED
  BY <1>5, <1>6, <1>7

LEMMA CreateMoves ==
  ASSUME Base, FrameKnown, NEW r \in Reconcilers,
         CreateToolInvocation(r) \/ DieAfterToolApply(r)
  PROVE  (Quiet \/ Creates \/ Records) /\ FrameKnown'
<1> DEFINE n == data.frame.n
           e == ToolRecorded(tool[n].phase = "Absent")
<1>1. /\ data \in Data /\ RunConsistent /\ phase = "ProcessingDecision"
      /\ data.frame.decision = "invoke_tool"
      /\ tool \in [Iterations -> [phase : ToolPhases, observed : BOOLEAN]]
  BY DEF CreateToolInvocation, DieAfterToolApply, DecisionIs, Base, TypeOK, StateInvariant
<1>2. data.state = "ProcessingDecision"
  BY <1>1, RunSound DEF Base, ResumablePhases
<1>3. /\ data.frame.state = "decision-validated" /\ ~data.frame.tool
      /\ data.frame.toolRetries = 0 /\ data.active = NoModel
  BY <1>2 DEF FrameKnown, Live, ResumablePhases
<1>4. n \in Iterations
  BY <1>1, <1>3, RunSound DEF Base, NoFrame
<1>5. ASSUME tool[n].phase = "Absent", tool' = [tool EXCEPT ![n].phase = "Pending"]
      PROVE  Created(n)
  BY <1>1, <1>4, <1>5 DEF Created, OnlyTool
<1>6. CASE DieAfterToolApply(r)
  <2>1. /\ data' = data /\ UNCHANGED history /\ crashes' = crashes + 1 /\ Created(n)
    BY <1>5, <1>6 DEF DieAfterToolApply, CrashLeft
  <2> QED
    BY <1>1, <1>3, <2>1 DEF Creates, Rests, TakesSettled, FrameKnown, Live, history
<1>7. CASE CreateToolInvocation(r)
  <2>1. \/ Enter("BudgetExceeded", data) /\ tool' = tool
        \/ /\ Enter("WaitingForTool", e)
           /\ tool' = IF tool[n].phase = "Absent" THEN [tool EXCEPT ![n].phase = "Pending"] ELSE tool
    BY <1>3, <1>7 DEF CreateToolInvocation
  <2>2. UNCHANGED history
    BY <1>7 DEF CreateToolInvocation
  <2>3. CASE Enter("BudgetExceeded", data) /\ tool' = tool
    <3>1. /\ data'.frame = data.frame /\ data'.usage = data.usage
          /\ data'.activeTool = data.activeTool /\ data'.state \in TerminalPhases
      BY <1>1, <2>3, EnterCounts, EnterFields DEF TerminalPhases
    <3> QED
      BY <1>3, <2>2, <2>3, <3>1, SameFrameQuiet, KnownWhenOver
  <2>4. CASE /\ Enter("WaitingForTool", e)
             /\ tool' = IF tool[n].phase = "Absent" THEN [tool EXCEPT ![n].phase = "Pending"] ELSE tool
    <3>1. /\ e \in Data /\ e.frame.n = data.frame.n /\ e.frame.tool
          /\ e.frame.state = "waiting-for-tool" /\ e.frame.attempts = data.frame.attempts
          /\ e.frame.toolRetries = data.frame.toolRetries /\ e.active = NoModel
          /\ e.usage.model = data.usage.model
          /\ e.usage.tool = IF tool[n].phase = "Absent" THEN data.usage.tool + 1 ELSE data.usage.tool
      BY <1>1, <1>3, ToolRecordedTyped, ToolRecordedFields, ToolRecordedCounts
    <3> HIDE DEF e
    <3>2. /\ data'.frame = e.frame /\ data'.usage = e.usage /\ data'.active = NoModel
          /\ data'.state = "WaitingForTool"
      BY <2>4, <3>1, EnterCounts, EnterFields
    <3>3. FrameKnown'
      BY <3>1, <3>2 DEF FrameKnown
    <3>4. \/ Created(n) /\ data'.usage.tool = data.usage.tool + 1
          \/ tool' = tool /\ data'.usage.tool = data.usage.tool
      BY <1>5, <2>4, <3>1, <3>2
    <3> QED
      BY <1>3, <2>2, <3>1, <3>2, <3>3, <3>4 DEF Records, history
  <2> QED
    BY <2>1, <2>3, <2>4
<1> QED
  BY <1>6, <1>7

-----------------------------------------------------------------------------
(* Steps of the engine that wait for the ToolInvocation *)

\* A ToolInvocation that is neither settled nor running gets phase p.
LEMMA ToolTurns ==
  ASSUME Base, Rests, UNCHANGED <<issued, deliveries>>,
         NEW i \in Iterations, NEW p \in ToolPhases, ToolBecomes(i, p),
         tool[i].phase \notin ToolTerminalPhases \cup {"Absent"},
         \/ p \in ToolTerminalPhases /\ executions' = executions
         \/ p \in StartablePhases /\ tool[i].phase # "Running" /\ executions' = executions
         \/ p = "Running" /\ tool[i].phase # "Running" /\ Executes(i)
  PROVE  \E j \in Iterations : Turns(j)
<1>1. tool'[i].phase = p /\ \A j \in Iterations \ {i} : tool'[j] = tool[j]
  BY ToolBecomesFields DEF Base
<1>2. tool[i].phase \in StartablePhases \cup {"Running"}
  BY DEF Base, TypeOK, ToolPhases, ToolTerminalPhases, StartablePhases
<1>3. Turns(i)
  BY <1>1, <1>2 DEF Turns, OnlyTool
<1> QED
  BY <1>3

\* The run sees the ToolInvocation settled.
LEMMA ObserveRests ==
  ASSUME Base, FrameKnown, data.state = "WaitingForTool", NEW d \in Data,
         d.frame = data.frame, d.usage = data.usage, d.active = NoModel,
         tool'[data.frame.n].phase \in ToolTerminalPhases,
         \/ Enter("WaitingForObservation", Observed(d))
         \/ Enter("WaitingForObservation", Merged(Observed(d)))
  PROVE  Rests /\ FrameKnown' /\ data'.pending \in {d.pending, data.pending}
<1> DEFINE e == Observed(d)
<1>1. /\ data \in Data /\ data.frame.state = "waiting-for-tool" /\ data.active = NoModel
      /\ data.frame.tool
  BY DEF Base, TypeOK, FrameKnown, Live, ResumablePhases
<1>2. /\ e \in Data /\ e.frame.n = data.frame.n /\ e.frame.attempts = data.frame.attempts
      /\ e.frame.toolRetries = data.frame.toolRetries /\ e.frame.tool = data.frame.tool
      /\ e.usage = data.usage /\ e.active = NoModel /\ e.pending = d.pending
  BY ObservedTyped, ObservedFields, ObservedCounts
<1> HIDE DEF e
<1>3. /\ Merged(e) \in Data /\ Merged(e).frame = e.frame /\ Merged(e).usage = e.usage
      /\ Merged(e).active = NoModel /\ Merged(e).pending \in {e.pending, data.pending}
  BY <1>1, <1>2, MergedTyped, MergedFields, MergedCounts
<1>4. Enter("WaitingForObservation", e) \/ Enter("WaitingForObservation", Merged(e))
  BY DEF e
<1>5. /\ data'.frame = e.frame /\ data'.usage = e.usage /\ data'.active = NoModel
      /\ data'.state = "WaitingForObservation" /\ data'.pending \in {e.pending, data.pending}
  BY <1>2, <1>3, <1>4, EnterCounts, EnterFields
<1> QED
  BY <1>1, <1>2, <1>5 DEF Rests, TakesSettled, FrameKnown

LEMMA ToolStepMoves ==
  ASSUME Base, FrameKnown, NEW r \in Reconcilers,
         \/ ObserveTool(r) \/ RefuseReplay(r) \/ DenyTool(r) \/ RefuseTool(r)
         \/ ParkTool(r) \/ StartTool(r)
  PROVE  Move /\ FrameKnown'
<1> DEFINE n == data.frame.n
<1>1. /\ data \in Data /\ RunConsistent /\ phase = "WaitingForTool"
      /\ UNCHANGED <<issued, deliveries>>
  BY DEF ObserveTool, RefuseReplay, DenyTool, RefuseTool, ParkTool, StartTool, StartTurn,
         ToolTurn, Base, TypeOK, StateInvariant, history
<1>2. data.state = "WaitingForTool" /\ Awaited(data) = n /\ n \in Iterations
  BY <1>1, WaitingForToolKnows DEF Base, FrameKnown, Awaited
<1>3. data.active = NoModel
  BY <1>2 DEF FrameKnown, Live, ResumablePhases
<1>4. Startable(n, tool[n].phase) => tool[n].phase \in StartablePhases
  BY DEF Startable, StartablePhases
<1>5. CASE ObserveTool(r) \/ RefuseReplay(r) \/ DenyTool(r) \/ RefuseTool(r)
  <2>1. Enter("WaitingForObservation", Observed(data)) /\ executions' = executions
    BY <1>5 DEF ObserveTool, RefuseReplay, DenyTool, RefuseTool, Observe, history
  <2>2. ASSUME tool'[n].phase \in ToolTerminalPhases
        PROVE  Rests /\ FrameKnown'
    BY <1>1, <1>2, <1>3, <2>1, <2>2, ObserveRests
  <2>3. CASE ObserveTool(r)
    <3>1. tool' = tool /\ tool[n].phase \in ToolTerminalPhases
      BY <1>2, <2>3 DEF ObserveTool
    <3> QED
      BY <1>1, <2>1, <2>2, <3>1 DEF Move, Quiet
  <2>4. CASE RefuseReplay(r) \/ DenyTool(r) \/ RefuseTool(r)
    <3>1. /\ \E p \in ToolTerminalPhases : ToolBecomes(n, p)
          /\ tool[n].phase \notin ToolTerminalPhases \cup {"Absent"}
      BY <1>2, <1>4, <2>4
      DEF RefuseReplay, DenyTool, RefuseTool, StartTurn, StartablePhases, ToolTerminalPhases
    <3>2. tool'[n].phase \in ToolTerminalPhases
      BY <1>2, <3>1, OpenPhases, ToolBecomesFields DEF Base
    <3>3. \E j \in Iterations : Turns(j)
      BY <1>1, <1>2, <2>1, <2>2, <3>1, <3>2, OpenPhases, ToolTurns
    <3> QED
      BY <2>2, <3>2, <3>3 DEF Move
  <2> QED
    BY <1>5, <2>3, <2>4
<1>6. CASE ParkTool(r) \/ StartTool(r)
  <2>1. /\ tool[n].phase \in StartablePhases
        /\ data' = data \/ data' = [data EXCEPT !.pending = Tool(n)]
        /\ \/ ToolBecomes(n, "WaitingForApproval") /\ executions' = executions
           \/ ToolBecomes(n, "Running") /\ Executes(n)
    BY <1>2, <1>4, <1>6 DEF ParkTool, StartTool, StartTurn, history
  <2>2. /\ data'.frame = data.frame /\ data'.usage = data.usage /\ data'.state = data.state
        /\ data'.active = data.active /\ data'.activeTool = data.activeTool
    BY <1>1, <2>1 DEF Data
  <2>3. Rests /\ FrameKnown'
    BY <2>2 DEF Rests, TakesSettled, FrameKnown, Live
  <2>4. tool[n].phase \notin ToolTerminalPhases \cup {"Absent"} /\ tool[n].phase # "Running"
    BY <2>1 DEF StartablePhases, ToolTerminalPhases
  <2>5. {"WaitingForApproval", "Running"} \subseteq ToolPhases /\ "WaitingForApproval" \in StartablePhases
    BY DEF ToolPhases, StartablePhases
  <2>6. \E j \in Iterations : Turns(j)
    BY <1>1, <1>2, <2>1, <2>3, <2>4, <2>5, ToolTurns
  <2> QED
    BY <2>3, <2>6 DEF Move
<1> QED
  BY <1>5, <1>6

LEMMA DeliverMoves ==
  ASSUME Base, FrameKnown, NEW r \in Reconcilers, DeliverObservation(r)
  PROVE  (Quiet \/ Delivers) /\ FrameKnown'
<1> DEFINE e == [data EXCEPT !.frame.state = "observation-delivered"]
<1> "observation-delivered" \in FrameStates
  BY DEF FrameStates
<1>1. /\ data \in Data /\ RunConsistent /\ phase = "WaitingForObservation"
      /\ UNCHANGED <<tool, issued, executions, outdated>>
  BY DEF DeliverObservation, EngineTurn, Base, TypeOK, StateInvariant
<1>2. data.state = "WaitingForObservation"
  BY <1>1, RunSound DEF Base, ResumablePhases
<1>3. /\ data.frame.tool /\ data.frame.state = "tool-observed" /\ data.active = NoModel
      /\ Awaited(data) = data.frame.n
  BY <1>1, <1>2
  DEF FrameKnown, Live, ResumablePhases, RunConsistent, PersistedStateConsistent, FrameFits,
      Awaited
<1>4. data.frame.n \in Iterations
  BY <1>1, <1>3, RunSound DEF Base
<1>5. /\ e \in Data /\ e.frame.n = data.frame.n /\ e.frame.attempts = data.frame.attempts
      /\ e.frame.toolRetries = data.frame.toolRetries /\ e.frame.tool = data.frame.tool
      /\ e.frame.state = "observation-delivered" /\ e.usage = data.usage /\ e.active = data.active
  BY <1>1, FrameStateCounts
<1>6. \/ /\ Enter("AwaitingDecision", e)
         /\ deliveries' = [deliveries EXCEPT ![data.frame.n] = @ + 1]
      \/ Fail(data) /\ deliveries' = deliveries
  BY <1>3 DEF DeliverObservation
<1> HIDE DEF e
<1>7. CASE /\ Enter("AwaitingDecision", e)
           /\ deliveries' = [deliveries EXCEPT ![data.frame.n] = @ + 1]
  <2>1. /\ data'.frame = e.frame /\ data'.usage = e.usage /\ data'.state = "AwaitingDecision"
        /\ data'.active = NoModel
    BY <1>3, <1>5, <1>7, EnterCounts, EnterFields
  <2> QED
    BY <1>1, <1>3, <1>4, <1>5, <1>7, <2>1 DEF Delivers, FrameKnown
<1>8. CASE Fail(data) /\ deliveries' = deliveries
  <2>1. /\ data'.frame = data.frame /\ data'.usage = data.usage
        /\ data'.activeTool = data.activeTool /\ data'.state \in TerminalPhases
    BY <1>1, <1>8, EnterCounts, FailFields DEF TerminalPhases
  <2> QED
    BY <1>1, <1>3, <1>8, <2>1, SameFrameQuiet, KnownWhenOver DEF history
<1> QED
  BY <1>6, <1>7, <1>8

LEMMA EngineStepMoves ==
  ASSUME Base, FrameKnown, NEW r \in Reconcilers, EngineStep(r)
  PROVE  Move /\ FrameKnown'
<1>1. CASE AwaitModelApproval(r)
  BY <1>1, AwaitModelMoves DEF Move
<1>2. CASE RequestDecision(r) \/ DeliverObservation(r) \/ CreateToolInvocation(r)
  BY <1>2, RequestMoves, DeliverMoves, CreateMoves DEF Move
<1>3. CASE StartEngine(r) \/ PrepareExecution(r) \/ AwaitWriteApproval(r)
  BY <1>3, StartMoves DEF Move
<1>4. CASE AcceptDecision(r) \/ RejectDecision(r) \/ BeginFinalizing(r)
  BY <1>4, DecisionMoves DEF Move
<1> QED
  BY <1>1, <1>2, <1>3, <1>4, EndingMoves, ToolStepMoves DEF EngineStep

-----------------------------------------------------------------------------
(* The calls return *)

LEMMA ModelReturnsMoves ==
  ASSUME Base, FrameKnown, NEW r \in Reconcilers,
         \/ DiscardModel(r) \/ ModelTimesOut(r) \/ ModelFails(r)
         \/ \E answer \in Responses : ModelAnswers(r, answer)
  PROVE  Quiet /\ FrameKnown'
<1>1. /\ data \in Data /\ RunConsistent /\ CallsConsistent
      /\ data.frame \in Frames /\ data.usage \in Usages /\ UNCHANGED <<tool, history>>
  BY DataFieldsTyped
  DEF DiscardModel, ModelTimesOut, ModelFails, ModelAnswers, Base, TypeOK, StateInvariant
<1>2. CASE DiscardModel(r)
  <2>1. data' = data
    BY <1>2 DEF DiscardModel
  <2> QED
    BY <1>1, <2>1, SameFrameQuiet DEF FrameKnown, Live
<1>3. CASE ~DiscardModel(r)
  <2>1. pc[r] = "model" /\ ModelFence(r)
    BY <1>3 DEF ModelTimesOut, ModelFails, ModelAnswers
  <2>2. data.state = "AwaitingDecision" /\ data.active # NoModel
    BY <1>1, <2>1 DEF ModelFence, CallsConsistent
  <2>3. /\ data.frame.state = "decision-requested" /\ ~data.frame.tool
        /\ data.frame.toolRetries = 0
    BY <1>1, <2>2
    DEF FrameKnown, Live, ResumablePhases, RunConsistent, PersistedStateConsistent, FrameFits, NoFrame
  <2>4. PICK f \in Frames, p \in {"DecisionReady", "TimedOut", "AwaitingDecision", "Failed"} :
          /\ data' = [data EXCEPT !.frame = f, !.active = NoModel, !.state = p]
          /\ f.n = data.frame.n /\ f.attempts = data.frame.attempts
          /\ f.toolRetries = data.frame.toolRetries /\ f.tool = data.frame.tool
          /\ p = "DecisionReady" => f.state = "decision-produced"
          /\ f.state \in {"decision-produced", data.frame.state}
    <3>1. ASSUME NEW answer \in Responses, ModelAnswers(r, answer)
          PROVE  \E f \in Frames, p \in {"DecisionReady", "TimedOut", "AwaitingDecision", "Failed"} :
                   /\ data' = [data EXCEPT !.frame = f, !.active = NoModel, !.state = p]
                   /\ f.n = data.frame.n /\ f.attempts = data.frame.attempts
                   /\ f.toolRetries = data.frame.toolRetries /\ f.tool = data.frame.tool
                   /\ p = "DecisionReady" => f.state = "decision-produced"
                   /\ f.state \in {"decision-produced", data.frame.state}
      <4> DEFINE f == [data.frame EXCEPT !.raw = answer, !.state = "decision-produced"]
      <4>1. data' = [data EXCEPT !.frame = f, !.active = NoModel, !.state = "DecisionReady"]
        BY <1>1, <3>1 DEF ModelAnswers, Enter, Data
      <4>2. /\ f \in Frames /\ f.n = data.frame.n /\ f.attempts = data.frame.attempts
            /\ f.toolRetries = data.frame.toolRetries /\ f.tool = data.frame.tool
            /\ f.state = "decision-produced"
        BY <1>1 DEF Frames, FrameStates
      <4> HIDE DEF f
      <4> QED
        BY <4>1, <4>2
    <3>2. CASE ModelFails(r)
      <4> DEFINE f == [data.frame EXCEPT !.modelRetries = @ + 1]
      <4>1. \E p \in {"AwaitingDecision", "Failed"} :
              data' = [data EXCEPT !.frame = f, !.active = NoModel, !.state = p]
        BY <1>1, <3>2 DEF ModelFails, Enter, Fail, Data
      <4>2. /\ f \in Frames /\ f.n = data.frame.n /\ f.attempts = data.frame.attempts
            /\ f.toolRetries = data.frame.toolRetries /\ f.tool = data.frame.tool
            /\ f.state = data.frame.state
        BY <1>1 DEF Frames
      <4> HIDE DEF f
      <4> QED
        BY <4>1, <4>2
    <3>3. CASE ModelTimesOut(r)
      <4>1. data' = [data EXCEPT !.frame = data.frame, !.active = NoModel, !.state = "TimedOut"]
        BY <1>1, <3>3 DEF ModelTimesOut, Enter, Data
      <4> QED
        BY <1>1, <4>1
    <3> QED
      BY <1>3, <3>1, <3>2, <3>3
  <2>5. data'.frame = f /\ data'.usage = data.usage /\ data'.active = NoModel /\ data'.state = p
    BY <1>1, <2>4 DEF Data
  <2> QED
    BY <1>1, <2>3, <2>4, <2>5
    DEF Quiet, Rests, TakesSettled, TakenStates, FrameKnown, Live, history
<1> QED
  BY <1>2, <1>3

\* The run as a reconciler finds it when its tool call is over.
LEMMA CallKnown ==
  ASSUME Base, SyncInvariant, NEW r \in Reconcilers, pc[r] = "tool"
  PROVE  /\ data \in Data
         /\ data.state = "WaitingForTool"
         /\ data.active = NoModel
         /\ data.frame.state = "waiting-for-tool"
         /\ data.frame.tool
         /\ data.frame.n = snap[r].n
         /\ snap[r].n \in Iterations
         /\ tool[snap[r].n].phase = "Running"
         /\ snap[r].data \in Data
         /\ snap[r].data.frame = data.frame
         /\ snap[r].data.usage = data.usage
         /\ snap[r].data.active = NoModel
         /\ snap[r].data.state = "WaitingForTool"
<1>1. /\ snap[r].data.frame = data.frame /\ snap[r].data.usage = data.usage
      /\ snap[r].data.active = NoModel /\ data.state = "WaitingForTool"
      /\ tool[snap[r].n].phase = "Running"
  BY DEF SyncInvariant, CallsInSync, ExecutorsRun, Executing
<1>2. data.active = NoModel /\ data.frame.state = "waiting-for-tool" /\ data.frame.tool
  BY <1>1 DEF SyncInvariant, FrameKnown, Live, ResumablePhases
<1>3. /\ snap[r].data \in Data /\ snap[r].n \in Iterations
      /\ Awaited(snap[r].data) = snap[r].n /\ snap[r].data.state = "WaitingForTool"
  BY SnapKnown DEF Base, Calls
<1> QED
  BY <1>1, <1>2, <1>3 DEF Base, TypeOK, Awaited

\* The failure of the call is counted in the frame.
LEMMA FailureCounts ==
  ASSUME Base, SyncInvariant, NEW r \in Reconcilers, pc[r] = "tool",
         \/ data' = Merged(CountToolFailure(snap[r].data))
         \/ Enter("BudgetExceeded", Merged(CountToolFailure(snap[r].data)))
         \/ Enter("WaitingForObservation", Merged(Observed(CountToolFailure(snap[r].data))))
  PROVE  /\ FailureCounted
         /\ FrameKnown'
         /\ data' = Merged(CountToolFailure(snap[r].data)) =>
              /\ data'.frame = CountToolFailure(snap[r].data).frame
              /\ data'.frame.state = "waiting-for-tool"
              /\ data'.usage = CountToolFailure(snap[r].data).usage
              /\ data'.state = "WaitingForTool"
              /\ CountToolFailure(snap[r].data).active = NoModel
         /\ data'.pending \in {snap[r].data.pending, data.pending}
<1> DEFINE d == CountToolFailure(snap[r].data)
           e == Observed(d)
<1>1. /\ data \in Data /\ data.frame.state = "waiting-for-tool" /\ data.frame.tool
      /\ data.active = NoModel /\ snap[r].data \in Data /\ snap[r].data.frame = data.frame
      /\ snap[r].data.usage = data.usage /\ snap[r].data.active = NoModel
      /\ snap[r].data.state = "WaitingForTool"
  BY CallKnown
<1>2. /\ d \in Data /\ d.state = "WaitingForTool" /\ d.active = NoModel
      /\ d.frame.n = data.frame.n /\ d.frame.state = "waiting-for-tool" /\ d.frame.tool
      /\ d.frame.attempts = data.frame.attempts
      /\ d.frame.toolRetries = data.frame.toolRetries + 1
      /\ d.usage.model = data.usage.model /\ d.usage.tool = data.usage.tool
      /\ d.pending = snap[r].data.pending
  BY <1>1, CountToolFailureTyped, CountToolFailureFields, CountToolFailureCounts
<1> HIDE DEF d
<1>3. /\ e \in Data /\ e.frame.n = d.frame.n /\ e.frame.attempts = d.frame.attempts
      /\ e.frame.toolRetries = d.frame.toolRetries /\ e.frame.tool = d.frame.tool
      /\ e.usage = d.usage /\ e.active = d.active /\ e.pending = d.pending
  BY <1>2, ObservedTyped, ObservedFields, ObservedCounts
<1> HIDE DEF e
<1>4. ASSUME NEW x \in {d, e}
      PROVE  /\ Merged(x) \in Data /\ Merged(x).frame = x.frame /\ Merged(x).usage = x.usage
             /\ Merged(x).active = NoModel /\ Merged(x).state = x.state
             /\ Merged(x).pending \in {x.pending, data.pending}
  BY <1>1, <1>2, <1>3, MergedTyped, MergedFields, MergedCounts
<1>5. \/ data' = Merged(d)
      \/ Enter("BudgetExceeded", Merged(d))
      \/ Enter("WaitingForObservation", Merged(e))
  BY DEF d, e
<1>6. CASE data' = Merged(d)
  <2>1. /\ data'.frame = d.frame /\ data'.usage = d.usage /\ data'.state = "WaitingForTool"
        /\ data'.active = NoModel /\ data'.pending \in {d.pending, data.pending}
    BY <1>2, <1>4, <1>6
  <2> QED
    BY <1>1, <1>2, <2>1 DEF FailureCounted, FrameKnown, d
<1>7. CASE Enter("BudgetExceeded", Merged(d)) \/ Enter("WaitingForObservation", Merged(e))
  <2>1. /\ data'.frame \in {d.frame, e.frame} /\ data'.usage = d.usage /\ data'.active = NoModel
        /\ data'.state \in {"BudgetExceeded", "WaitingForObservation"}
        /\ data'.pending \in {d.pending, data.pending}
    BY <1>2, <1>3, <1>4, <1>7, EnterCounts, EnterFields
  <2>2. data' # Merged(d)
    BY <1>2, <1>4, <2>1
  <2>3. FailureCounted /\ FrameKnown' /\ data'.pending \in {snap[r].data.pending, data.pending}
    BY <1>1, <1>2, <1>3, <2>1 DEF FailureCounted, FrameKnown
  <2> QED
    BY <2>2, <2>3 DEF d
<1> QED
  BY <1>5, <1>6, <1>7

LEMMA ToolReturnsMoves ==
  ASSUME Base, SyncInvariant, NEW r \in Reconcilers,
         \/ ToolSucceeds(r) \/ ToolFailureFenced(r) \/ ToolTimesOut(r)
         \/ ExhaustToolFailures(r) \/ RetryTool(r)
         \/ \E admitted \in BOOLEAN : ToolFails(r, admitted)
  PROVE  Move /\ FrameKnown'
<1> DEFINE n == data.frame.n
           d == snap[r].data
           failed == CountToolFailure(d)
<1>1. pc[r] = "tool" /\ FrameKnown /\ UNCHANGED <<issued, deliveries>>
  BY DEF ToolSucceeds, ToolFailureFenced, ToolTimesOut, ExhaustToolFailures, RetryTool,
         ToolFails, ToolErrorTurn, SyncInvariant, history
<1>2. /\ data \in Data /\ data.state = "WaitingForTool" /\ snap[r].n = n /\ n \in Iterations
      /\ tool[n].phase = "Running" /\ d \in Data /\ d.frame = data.frame
      /\ d.usage = data.usage /\ d.active = NoModel
  BY <1>1, CallKnown
<1>3. tool[n].phase \notin ToolTerminalPhases \cup {"Absent"}
  BY <1>2 DEF ToolTerminalPhases
<1>4. ASSUME NEW p \in ToolPhases, ToolBecomes(n, p)
      PROVE  OnlyTool(n) /\ tool'[n].phase = p
  BY <1>2, <1>4, ToolBecomesFields DEF OnlyTool, Base
<1>5. CASE ToolSucceeds(r)
  <2>1. /\ ToolBecomes(n, "Succeeded") /\ executions' = executions
        /\ \/ data' = data
           \/ Enter("WaitingForObservation", Merged(Observed(d)))
    BY <1>2, <1>5 DEF ToolSucceeds, Resume, history
  <2>2. "Succeeded" \in ToolPhases /\ "Succeeded" \in ToolTerminalPhases
    BY OpenPhases
  <2>3. Rests /\ FrameKnown'
    <3>1. CASE data' = data
      BY <1>1, <3>1 DEF Rests, TakesSettled, FrameKnown, Live
    <3>2. CASE Enter("WaitingForObservation", Merged(Observed(d)))
      BY <1>1, <1>2, <1>4, <2>1, <2>2, <3>2, ObserveRests
    <3> QED
      BY <2>1, <3>1, <3>2
  <2>4. \E j \in Iterations : Turns(j)
    BY <1>1, <1>2, <1>3, <2>1, <2>2, <2>3, ToolTurns
  <2> QED
    BY <2>3, <2>4 DEF Move
<1>6. CASE ToolFailureFenced(r)
  <2>1. data' = data /\ UNCHANGED <<tool, history>>
    BY <1>2, <1>3, <1>6 DEF ToolFailureFenced, Resume
  <2> QED
    BY <1>1, <2>1, SameFrameQuiet DEF Move, FrameKnown, Live
<1>7. CASE \/ ToolTimesOut(r) \/ ExhaustToolFailures(r)
           \/ \E admitted \in BOOLEAN : ToolFails(r, admitted)
  <2>1. /\ \E p \in {"TimedOut", "Failed"} : ToolBecomes(n, p)
        /\ \/ Enter("BudgetExceeded", Merged(failed))
           \/ Enter("WaitingForObservation", Merged(Observed(failed)))
    <3>1. {"Failed", "TimedOut"} \subseteq ToolTerminalPhases /\ (SaveFence(d) => ~Terminal)
      BY DEF ToolTerminalPhases, SaveFence, Terminal, TerminalPhases
    <3> QED
      BY <1>2, <1>7, <3>1 DEF ToolTimesOut, ExhaustToolFailures, ToolFails, ToolErrorTurn, Resume
  <2>2. executions' = executions
    BY <1>7 DEF ToolTimesOut, ExhaustToolFailures, ToolFails, history
  <2>3. OnlyTool(n) /\ tool'[n].phase \in ToolTerminalPhases
    BY <1>4, <2>1, OpenPhases
  <2>4. FailureCounted /\ FrameKnown'
    BY <1>1, <2>1, FailureCounts
  <2> QED
    BY <1>1, <1>3, <2>2, <2>3, <2>4 DEF Move, Fails, TakesSettled
<1>8. CASE RetryTool(r)
  <2>1. /\ data' = Merged(failed) /\ ToolBecomes(n, "Running") /\ Executes(n)
        /\ failed.frame.toolRetries <= MaxToolRetries
    BY <1>2, <1>8 DEF RetryTool
  <2>2. FailureCounted /\ FrameKnown' /\ data'.frame = failed.frame
    BY <1>1, <2>1, FailureCounts
  <2>3. OnlyTool(n) /\ tool'[n].phase = "Running"
    BY <1>4, <2>1, OpenPhases
  <2>4. TakesSettled
    BY <1>1, <2>1, FailureCounts DEF TakesSettled, TakenStates
  <2> QED
    BY <1>1, <1>2, <1>3, <2>1, <2>2, <2>3, <2>4 DEF Move, Fails
<1> QED
  BY <1>5, <1>6, <1>7, <1>8

LEMMA CallReturnsMoves ==
  ASSUME Base, SyncInvariant, NEW r \in Reconcilers, CallReturns(r)
  PROVE  Move /\ FrameKnown'
<1>1. ASSUME NEW outcome \in {"Succeeded", "Failed", "TimedOut"}, ControllerSettles(r, outcome)
      PROVE  Move /\ FrameKnown'
  <2>1. /\ pc[r] = "tic" /\ ToolBecomes(snap[r].n, outcome) /\ data' = data
        /\ UNCHANGED <<issued, deliveries>> /\ executions' = executions
    BY <1>1 DEF ControllerSettles, history
  <2>2. snap[r].n \in Iterations /\ tool[snap[r].n].phase = "Running"
    BY <2>1 DEF Base, ExecutionsKnown, SyncInvariant, ExecutorsRun, Executing
  <2>3. tool[snap[r].n].phase \notin ToolTerminalPhases \cup {"Absent"}
    BY <2>2 DEF ToolTerminalPhases
  <2>4. Rests /\ FrameKnown'
    BY <2>1 DEF Rests, TakesSettled, SyncInvariant, FrameKnown, Live
  <2>5. \E j \in Iterations : Turns(j)
    BY <2>1, <2>2, <2>3, <2>4, OpenPhases, ToolTurns
  <2> QED
    BY <2>4, <2>5 DEF Move
<1>2. FrameKnown
  BY DEF SyncInvariant
<1>3. CASE \/ DiscardModel(r) \/ ModelTimesOut(r) \/ ModelFails(r)
           \/ \E answer \in Responses : ModelAnswers(r, answer)
  BY <1>2, <1>3, ModelReturnsMoves DEF Move
<1> QED
  BY <1>1, <1>3, ToolReturnsMoves DEF CallReturns

-----------------------------------------------------------------------------
(* Controllers, crashes, approvers *)

LEMMA ControllerStepMoves ==
  ASSUME Base, SyncInvariant, NEW r \in Reconcilers, NEW i \in Iterations, ControllerStep(r, i)
  PROVE  Move /\ FrameKnown'
<1>1. data' = data /\ UNCHANGED <<issued, deliveries>>
  BY DEF ControllerStep, FailRunningReplay, FenceInvocation, SkipWaiting, ControllerParks,
         ControllerRefuses, ControllerStarts, history
<1>2. Rests /\ FrameKnown'
  BY <1>1 DEF Rests, TakesSettled, SyncInvariant, FrameKnown, Live
<1>3. PICK p : /\ Visits(r, i, p)
               /\ \/ tool' = tool /\ executions' = executions
                  \/ \E t \in ToolTerminalPhases : ToolBecomes(i, t) /\ executions' = executions
                  \/ /\ Startable(i, p) /\ Verdict(Tool(i)) # "Deny"
                     /\ \/ ToolBecomes(i, "WaitingForApproval") /\ executions' = executions
                        \/ ToolBecomes(i, "Running") /\ Executes(i)
  BY DEF ControllerStep, FailRunningReplay, FenceInvocation, SkipWaiting, ControllerParks,
         ControllerRefuses, ControllerStarts, ControllerTurn, ToolTerminalPhases, history
<1>4. Listed(i, p)
  BY <1>3 DEF Visits, SyncInvariant, ListsKnown
<1>5. p # "Absent"
  BY <1>3 DEF Visits
<1>6. CASE tool' = tool /\ executions' = executions
  BY <1>1, <1>2, <1>6 DEF Move, Quiet
<1>7. CASE tool[i].phase = p /\ ~(tool' = tool /\ executions' = executions)
  <2>1. Startable(i, p) => p \in StartablePhases
    BY DEF Startable, StartablePhases
  <2>2. {"WaitingForApproval", "Running"} \subseteq ToolPhases /\ ToolTerminalPhases \subseteq ToolPhases
        /\ "WaitingForApproval" \in StartablePhases /\ "Running" \notin StartablePhases
    BY OpenPhases DEF StartablePhases
  <2>3. tool[i].phase \notin ToolTerminalPhases \cup {"Absent"}
    BY <1>4, <1>5, <1>7 DEF Listed
  <2>4. \E j \in Iterations : Turns(j)
    BY <1>1, <1>2, <1>3, <1>7, <2>1, <2>2, <2>3, ToolTurns
  <2> QED
    BY <1>2, <2>4 DEF Move
<1>8. CASE /\ tool[i].phase = "Denied" /\ Verdict(Tool(i)) = "Deny"
           /\ ~(tool' = tool /\ executions' = executions)
  <2>1. PICK t \in ToolTerminalPhases : ToolBecomes(i, t) /\ executions' = executions
    BY <1>3, <1>8
  <2>2. OnlyTool(i) /\ tool'[i].phase = t
    BY <2>1, OpenPhases, ToolBecomesFields DEF OnlyTool, Base
  <2> QED
    BY <1>1, <1>2, <1>4, <1>8, <2>1, <2>2 DEF Listed, SettlesAgain, Move
<1> QED
  BY <1>4, <1>6, <1>7, <1>8 DEF Listed

LEMMA CrashStepMoves ==
  ASSUME Base, SyncInvariant, NEW r \in Reconcilers, CrashStep(r)
  PROVE  Move /\ FrameKnown'
<1>1. data \in Data /\ FrameKnown
  BY DEF Base, TypeOK, SyncInvariant
<1>2. CASE Crash(r)
  <2>1. data' = data /\ UNCHANGED <<tool, history>>
    BY <1>2 DEF Crash
  <2> QED
    BY <1>1, <2>1, SameFrameQuiet DEF Move, FrameKnown, Live
<1>3. CASE DieAfterStart(r) \/ DieAfterFrame(r) \/ DieAfterToolApply(r)
  BY <1>1, <1>3, StartMoves, AwaitModelMoves, CreateMoves DEF Move
<1>4. ASSUME NEW i \in Iterations, DieAfterAuthorize(r, i)
      PROVE  Move /\ FrameKnown'
  <2>1. /\ data' = data /\ UNCHANGED <<issued, executions, deliveries>>
        /\ ToolBecomes(i, "Authorized") /\ Verdict(Tool(i)) # "Deny"
        /\ ControllerTurn(r, i) \/ (StartTurn(r) /\ i = Awaited(data))
    BY <1>4 DEF DieAfterAuthorize
  <2>2. Rests /\ FrameKnown'
    BY <1>1, <2>1 DEF Rests, TakesSettled, FrameKnown, Live
  <2>3. /\ tool[i].phase \notin ToolTerminalPhases \cup {"Absent"} /\ tool[i].phase # "Running"
        /\ "Authorized" \in ToolPhases /\ "Authorized" \in StartablePhases
    <3>1. Startable(i, tool[i].phase)
      <4>1. ASSUME ControllerTurn(r, i)
            PROVE  Startable(i, tool[i].phase)
        <5>1. PICK p : Visits(r, i, p) /\ Startable(i, p)
          BY <4>1 DEF ControllerTurn
        <5>2. Listed(i, p)
          BY <5>1 DEF Visits, SyncInvariant, ListsKnown
        <5> QED
          BY <2>1, <5>1, <5>2 DEF Listed
      <4> QED
        BY <2>1, <4>1 DEF StartTurn
    <3> QED
      BY <3>1 DEF Startable, StartablePhases, ToolTerminalPhases, ToolPhases
  <2>4. \E j \in Iterations : Turns(j)
    BY <2>1, <2>2, <2>3, ToolTurns
  <2> QED
    BY <2>2, <2>4 DEF Move
<1>5. ASSUME NEW p \in {"Succeeded", "Failed", "TimedOut", "Running", "Pending", "Authorized"},
             DieAfterToolCall(r, p)
      PROVE  Move /\ FrameKnown'
  <2> DEFINE n == data.frame.n
             failed == CountToolFailure(snap[r].data)
  <2>1. pc[r] = "tool" /\ UNCHANGED history
    BY <1>5 DEF DieAfterToolCall
  <2>2. snap[r].n = n /\ n \in Iterations /\ tool[n].phase = "Running"
    BY <2>1, CallKnown
  <2>3. tool[n].phase \notin ToolTerminalPhases \cup {"Absent"}
    BY <2>2 DEF ToolTerminalPhases
  <2>4. CASE p = "Succeeded"
    <3>1. data' = data /\ ToolBecomes(n, "Succeeded")
      BY <1>5, <2>2, <2>4 DEF DieAfterToolCall
    <3>2. Rests /\ FrameKnown'
      BY <1>1, <3>1 DEF Rests, TakesSettled, FrameKnown, Live
    <3>3. "Succeeded" \in ToolPhases /\ "Succeeded" \in ToolTerminalPhases
      BY OpenPhases
    <3>4. \E j \in Iterations : Turns(j)
      BY <2>1, <2>2, <2>3, <3>1, <3>2, <3>3, ToolTurns DEF history
    <3> QED
      BY <3>2, <3>4 DEF Move
  <2>5. CASE p # "Succeeded"
    <3>1. /\ data' = Merged(failed)
          /\ p \in {"Pending", "Authorized"} => failed.frame.toolRetries <= MaxToolRetries
          /\ \/ p = "Running" /\ tool' = tool
             \/ p # "Running" /\ ToolBecomes(n, p)
      BY <1>5, <2>2, <2>5 DEF DieAfterToolCall
    <3>2. FailureCounted /\ FrameKnown' /\ data'.frame = failed.frame /\ TakesSettled
      BY <2>1, <3>1, FailureCounts DEF TakesSettled, TakenStates
    <3>3. p \in ToolPhases
      BY <1>5 DEF ToolPhases, ToolTerminalPhases
    <3>4. OnlyTool(n) /\ tool'[n].phase = p
      BY <2>2, <3>1, <3>3, ToolBecomesFields DEF OnlyTool, Base
    <3>5. \/ p \in ToolTerminalPhases \/ p = "Running"
          \/ p \in StartablePhases /\ data'.frame.toolRetries <= MaxToolRetries
      BY <1>5, <3>1, <3>2, <2>5 DEF ToolTerminalPhases, StartablePhases
    <3> QED
      BY <2>1, <2>2, <2>3, <3>2, <3>4, <3>5 DEF Move, Fails, history
  <2> QED
    BY <2>4, <2>5
<1> QED
  BY <1>2, <1>3, <1>4, <1>5 DEF CrashStep

\* A continued rejection finds the run waiting for this very ToolInvocation.
LEMMA RejectContinueKnown ==
  ASSUME Base, FrameKnown, ToolsOfFrames, NEW i \in Iterations, RejectContinue(i)
  PROVE  /\ data.state = "WaitingForTool" /\ data.frame.n = i /\ data.frame.tool
         /\ tool[i].phase = "WaitingForApproval" /\ ToolBecomes(i, "Denied")
         /\ data.frame.state = "waiting-for-tool" /\ data.active = NoModel
         /\ UNCHANGED <<pc, snap, history, crashes>>
         /\ phase' \in {"WaitingForTool", "BudgetExceeded"}
         /\ data' = [CountToolFailure(data) EXCEPT !.state = "WaitingForTool"]
<1>1. RunConsistent /\ data \in Data
  BY DEF Base, StateInvariant, TypeOK
<1>2. /\ phase \notin TerminalPhases /\ data.activeTool = i
      /\ tool[i].phase = "WaitingForApproval" /\ ToolBecomes(i, "Denied")
      /\ UNCHANGED <<pc, snap, history, crashes>>
      /\ \/ Enter("WaitingForTool", CountToolFailure(data))
         \/ phase' = "BudgetExceeded" /\ data' = CountToolFailure(data)
  BY DEF RejectContinue, Terminal
<1>3. Live
  BY <1>1, <1>2
  DEF Live, RunConsistent, PersistedStateConsistent, PhaseFits, Phases, TerminalPhases,
      ResumablePhases, Base, TypeOK
<1>4. i = data.frame.n /\ data.frame.state \notin TakenStates
  <2>1. data.frame.n \in Nat
    BY CountersTyped DEF Base
  <2>2. tool[i].phase \notin ToolTerminalPhases \cup {"Absent"}
    BY <1>2 DEF ToolTerminalPhases
  <2> QED
    BY <2>1, <2>2 DEF ToolsOfFrames, Taken, TakenStates, Iterations
<1>5. data.frame.tool
  BY <1>2, <1>4 DEF ToolsOfFrames
<1>6. data.state = "WaitingForTool"
  <2>1. data.frame # NoFrame
    BY <1>1, <1>5, RunSound DEF Base
  <2> QED
    BY <1>1, <1>3, <1>4, <1>5, <2>1
    DEF FrameKnown, Live, ResumablePhases, RunConsistent, PersistedStateConsistent, FrameFits,
        TakenStates
<1>7. CountToolFailure(data) \in Data /\ CountToolFailure(data).state = "WaitingForTool"
  BY <1>1, <1>6, CountToolFailureTyped, CountToolFailureFields
<1>8. [CountToolFailure(data) EXCEPT !.state = "WaitingForTool"] = CountToolFailure(data)
  BY <1>7 DEF Data
<1> QED
  BY <1>2, <1>3, <1>4, <1>5, <1>6, <1>8 DEF FrameKnown, Enter

LEMMA ApprovalStepMoves ==
  ASSUME Base, FrameKnown, ToolsOfFrames, ApprovalStep
  PROVE  Move /\ FrameKnown'
<1>1. data \in Data
  BY DEF Base, TypeOK
<1>2. CASE \E g \in Guarded : Approve(g) \/ RejectTerminate(g)
  <2>1. /\ data' = data \/ data' = [data EXCEPT !.pending = NoAction]
        /\ UNCHANGED <<tool, history>>
    BY <1>2 DEF Approve, RejectTerminate
  <2>2. /\ data'.frame = data.frame /\ data'.usage = data.usage /\ data'.state = data.state
        /\ data'.active = data.active /\ data'.activeTool = data.activeTool
    BY <1>1, <2>1 DEF Data
  <2> QED
    BY <2>1, <2>2, SameFrameQuiet DEF Move, FrameKnown, Live
<1>3. ASSUME NEW i \in Iterations, RejectContinue(i)
      PROVE  Move /\ FrameKnown'
  <2> DEFINE d == CountToolFailure(data)
  <2>1. /\ data.frame.n = i /\ data.frame.tool /\ tool[i].phase = "WaitingForApproval"
        /\ ToolBecomes(i, "Denied") /\ data.frame.state = "waiting-for-tool"
        /\ data.active = NoModel /\ UNCHANGED history
        /\ data' = [d EXCEPT !.state = "WaitingForTool"]
    BY <1>3, RejectContinueKnown
  <2>2. /\ d \in Data /\ d.active = NoModel
        /\ d.frame.n = data.frame.n /\ d.frame.state = "waiting-for-tool"
        /\ d.frame.tool = data.frame.tool
        /\ d.frame.attempts = data.frame.attempts
        /\ d.frame.toolRetries = data.frame.toolRetries + 1
        /\ d.usage.model = data.usage.model /\ d.usage.tool = data.usage.tool
    BY <1>1, <2>1, CountToolFailureTyped, CountToolFailureFields, CountToolFailureCounts
  <2> HIDE DEF d
  <2>3. /\ data'.frame = d.frame /\ data'.usage = d.usage /\ data'.active = NoModel
        /\ data'.state = "WaitingForTool"
    BY <2>1, <2>2 DEF Data
  <2>4. FailureCounted /\ FrameKnown'
    BY <2>1, <2>2, <2>3 DEF FailureCounted, FrameKnown
  <2>5. OnlyTool(i) /\ tool'[i].phase \in ToolTerminalPhases
    BY <2>1, OpenPhases, ToolBecomesFields DEF OnlyTool, Base
  <2>6. tool[i].phase \notin ToolTerminalPhases \cup {"Absent"}
    BY <2>1 DEF ToolTerminalPhases
  <2> QED
    BY <2>1, <2>4, <2>5, <2>6 DEF Move, Fails, TakesSettled, history
<1> QED
  BY <1>2, <1>3 DEF ApprovalStep

\* The steps that leave the run's data, the ToolInvocations and the calls alone.
LEMMA OtherSteps ==
  ASSUME \/ \E r \in Reconcilers : Schedule(r)
         \/ RequestCancel \/ ChangeContext \/ PassWallTime \/ PassDeadline
         \/ UNCHANGED vars
  PROVE  /\ UNCHANGED <<data, tool, approvals, pc, snap, crashes, history>>
         /\ phase' = phase \/ \E r \in Reconcilers : Schedule(r)
<1>1. CASE \E r \in Reconcilers : Schedule(r)
  BY <1>1 DEF Schedule
<1>2. CASE RequestCancel \/ ChangeContext
  BY <1>2 DEF RequestCancel, ChangeContext, history
<1>3. CASE PassWallTime \/ PassDeadline
  BY <1>3 DEF PassWallTime, PassDeadline
<1>4. CASE UNCHANGED vars
  BY <1>4 DEF vars, history
<1> QED
  BY <1>1, <1>2, <1>3, <1>4

LEMMA EveryStepMoves ==
  ASSUME Base, SyncInvariant, [Next]_vars
  PROVE  Move /\ FrameKnown' /\ crashes' \in {crashes, crashes + 1}
<1>1. CASE \/ \E r \in Reconcilers : Schedule(r)
           \/ RequestCancel \/ ChangeContext \/ PassWallTime \/ PassDeadline
           \/ UNCHANGED vars
  BY <1>1, OtherSteps, SameFrameQuiet DEF Move, SyncInvariant, FrameKnown, Live
<1>6. ASSUME NEW r \in Reconcilers, ListInvocations(r)
      PROVE  Move /\ FrameKnown' /\ crashes' = crashes
  <2>1. data' = data /\ UNCHANGED <<tool, history>> /\ crashes' = crashes
    BY <1>6 DEF ListInvocations
  <2> QED
    BY <2>1, SameFrameQuiet DEF Move, SyncInvariant, FrameKnown, Live
<1>2. ASSUME NEW r \in Reconcilers, EngineStep(r) \/ CallReturns(r)
      PROVE  crashes' = crashes
  <2>1. CASE EngineStep(r)
    BY <2>1 DEF EngineStep, CancelRun, TimeOutRun, StartEngine, PrepareExecution, ExhaustIterations,
           ExhaustModelCalls, AwaitModelApproval, DenyModel, ExpireInFlight, RequestDecision,
           AcceptDecision, RejectDecision, CreateToolInvocation, BeginFinalizing, FailByDecision,
           ObserveTool, RefuseReplay, ParkTool, DenyTool, RefuseTool, StartTool, DeliverObservation,
           CompleteExecution, AwaitWriteApproval, FailFinalization, EndPass, FailPass
  <2>2. CASE CallReturns(r)
    BY <2>2 DEF CallReturns, DiscardModel, ModelAnswers, ModelTimesOut, ModelFails, ToolSucceeds,
           ToolFailureFenced, ToolTimesOut, ExhaustToolFailures, RetryTool, ToolFails,
           ControllerSettles
  <2> QED
    BY <1>2, <2>1, <2>2
<1>3. ASSUME NEW r \in Reconcilers, NEW i \in Iterations, ControllerStep(r, i)
      PROVE  crashes' = crashes
  BY <1>3 DEF ControllerStep, FailRunningReplay, FenceInvocation, SkipWaiting, ControllerParks,
              ControllerRefuses, ControllerStarts
<1>4. ASSUME NEW r \in Reconcilers, CrashStep(r)
      PROVE  crashes' = crashes + 1
  BY <1>4 DEF CrashStep, Crash, DieAfterStart, DieAfterFrame, DieAfterToolApply,
              DieAfterAuthorize, DieAfterToolCall, CrashLeft
<1>5. CASE ApprovalStep
  <2>1. crashes' = crashes
    BY <1>5 DEF ApprovalStep, Approve, RejectTerminate, RejectContinue
  <2> QED
    BY <1>5, <2>1, ApprovalStepMoves DEF SyncInvariant
<1> QED
  BY <1>1, <1>2, <1>3, <1>4, <1>5, <1>6, EngineStepMoves, CallReturnsMoves, ControllerStepMoves,
     CrashStepMoves
  DEF Next, SyncInvariant

-----------------------------------------------------------------------------
(* With one reconciler nothing but its call happens while it is in a call *)

LEMMA OneAtATime ==
  ASSUME OneReconciler, Base, [Next]_vars, NEW r \in Reconcilers, Executing(r)
  PROVE  \/ CallReturns(r) \/ Crash(r) \/ (\E p : DieAfterToolCall(r, p))
         \/ ApprovalStep
         \/ UNCHANGED <<data, tool, pc, snap>> /\ approvals' = approvals
<1>1. \A q \in Reconcilers : q = r
  BY DEF OneReconciler
<1>2. pc[r] \notin {"ready", "engine", "tools"}
  BY DEF Executing
<1>3. ~EngineStep(r)
  BY <1>2 DEF EngineStep, CancelRun, TimeOutRun, StartEngine, PrepareExecution, ExhaustIterations,
       ExhaustModelCalls, AwaitModelApproval, DenyModel, ExpireInFlight, RequestDecision,
       AcceptDecision, RejectDecision, CreateToolInvocation, BeginFinalizing, FailByDecision,
       ObserveTool, RefuseReplay, ParkTool, DenyTool, RefuseTool, StartTool, DeliverObservation,
       CompleteExecution, AwaitWriteApproval, FailFinalization, EndPass, FailPass,
       ModelTurn, DecisionTurn, DecisionIs, StartTurn, ToolTurn, FinalTurn, EngineTurn
<1>4. ~Schedule(r) /\ ~ListInvocations(r) /\ \A i \in Iterations : ~ControllerStep(r, i)
  BY <1>2 DEF Schedule, ListInvocations, ControllerStep, FailRunningReplay, FenceInvocation,
              SkipWaiting, ControllerParks, ControllerRefuses, ControllerStarts, ControllerTurn,
              Visits
<1>5. CrashStep(r) => Crash(r) \/ \E p : DieAfterToolCall(r, p)
  BY <1>2 DEF CrashStep, DieAfterStart, DieAfterFrame, DieAfterToolApply, DieAfterAuthorize,
              ControllerTurn, Visits, DecisionTurn, DecisionIs, StartTurn, ToolTurn, EngineTurn
<1>6. \/ RequestCancel \/ ChangeContext \/ PassWallTime \/ PassDeadline \/ UNCHANGED vars
        => UNCHANGED <<data, tool, pc, snap>> /\ approvals' = approvals
  BY OtherSteps
<1> QED
  BY <1>1, <1>3, <1>4, <1>5, <1>6 DEF Next

\* A call begins when the engine or the controller starts a ToolInvocation.
LEMMA CallBegins ==
  ASSUME OneReconciler, Base, [Next]_vars, NEW r \in Reconcilers, ~Executing(r), Executing(r)'
  PROVE  StartTool(r) \/ \E i \in Iterations : ControllerStarts(r, i)
<1>1. \A q \in Reconcilers : q = r
  BY DEF OneReconciler
<1>2. pc[r] \in {"ready", "engine", "model", "tools"} /\ pc'[r] \in {"tool", "tic"}
  BY DEF Executing, Base, TypeOK
<1>3. pc \in [Reconcilers -> {"ready", "engine", "model", "tool", "tools", "tic"}]
  BY DEF Base, TypeOK
<1>4. /\ ~Continue(r) /\ ~Leave(r) /\ pc' # pc
      /\ \A at \in {"ready", "engine"} : ~Return(r, at)
      /\ \A s : ~Await(r, "model", s) /\ ~Await(r, "tools", s)
      /\ \A left : ~GoOn(r, left)
  BY <1>2, <1>3 DEF Continue, Leave, Return, Await, GoOn
<1>5. EngineStep(r) => StartTool(r)
  BY <1>4 DEF EngineStep, CancelRun, TimeOutRun, StartEngine, PrepareExecution, ExhaustIterations,
       ExhaustModelCalls, AwaitModelApproval, DenyModel, ExpireInFlight, RequestDecision,
       AcceptDecision, RejectDecision, CreateToolInvocation, BeginFinalizing, FailByDecision,
       ObserveTool, RefuseReplay, ParkTool, DenyTool, RefuseTool, DeliverObservation,
       CompleteExecution, AwaitWriteApproval, FailFinalization, EndPass, FailPass, Pause
<1>6. ~CallReturns(r)
  <2>1. CASE pc[r] = "model"
    BY <1>4, <2>1 DEF CallReturns, DiscardModel, ModelAnswers, ModelTimesOut, ModelFails, ToolSucceeds,
         ToolFailureFenced, ToolTimesOut, ExhaustToolFailures, RetryTool, ToolFails, ToolErrorTurn,
         ControllerSettles, AfterModel
  <2>2. CASE pc[r] # "model"
    BY <1>2, <2>2 DEF CallReturns, DiscardModel, ModelAnswers, ModelTimesOut, ModelFails, ToolSucceeds,
         ToolFailureFenced, ToolTimesOut, ExhaustToolFailures, RetryTool, ToolFails, ToolErrorTurn,
         ControllerSettles
  <2> QED
    BY <2>1, <2>2
<1>7. \A i \in Iterations : ControllerStep(r, i) => ControllerStarts(r, i)
  BY <1>4 DEF ControllerStep, FailRunningReplay, FenceInvocation, SkipWaiting, ControllerParks,
              ControllerRefuses
<1>8. ~CrashStep(r)
  BY <1>4 DEF CrashStep, Crash, DieAfterStart, DieAfterFrame, DieAfterToolApply,
              DieAfterAuthorize, DieAfterToolCall
<1>9. ~ApprovalStep
  BY <1>4 DEF ApprovalStep, Approve, RejectTerminate, RejectContinue
<1>10. ~(\/ Schedule(r) \/ RequestCancel \/ ChangeContext \/ PassWallTime \/ PassDeadline
         \/ UNCHANGED vars) /\ ~ListInvocations(r)
  BY <1>4, OtherSteps DEF ListInvocations
<1> QED
  BY <1>1, <1>5, <1>6, <1>7, <1>8, <1>9, <1>10 DEF Next

\* A tool call that is not repeated leaves the reconciler out of calls.
LEMMA CallEnds ==
  ASSUME Base, NEW r \in Reconcilers,
         \/ CallReturns(r) /\ ~RetryTool(r)
         \/ Crash(r)
         \/ \E p : DieAfterToolCall(r, p)
  PROVE  ~Executing(r)'
<1>1. (\E at \in {"ready", "engine"} : Return(r, at)) \/ (\E left : GoOn(r, left))
  BY DEF CallReturns, DiscardModel, ModelAnswers, ModelTimesOut, ModelFails, ToolSucceeds,
         ToolFailureFenced, ToolTimesOut, ExhaustToolFailures, ToolFails, ControllerSettles,
         AfterModel, Resume, Crash, DieAfterToolCall
<1> QED
  BY <1>1 DEF Return, GoOn, Await, Executing, Base, TypeOK

LEMMA CallsStayInSync ==
  ASSUME OneReconciler, Base, SyncInvariant, [Next]_vars
  PROVE  ExecutorsRun' /\ CallsInSync'
<1> SUFFICES ASSUME NEW r \in Reconcilers, Executing(r)'
             PROVE  /\ tool'[snap'[r].n].phase = "Running"
                    /\ pc'[r] = "tool" =>
                         /\ data'.frame = snap'[r].data.frame
                         /\ data'.usage = snap'[r].data.usage
                         /\ data'.state = "WaitingForTool"
                         /\ snap'[r].data.active = NoModel
  BY DEF ExecutorsRun, CallsInSync, Executing
<1>1. /\ data \in Data /\ RunConsistent
      /\ pc \in [Reconcilers -> {"ready", "engine", "model", "tool", "tools", "tic"}]
      /\ snap \in [Reconcilers -> Snaps]
  BY DEF Base, TypeOK, StateInvariant
<1>2. CASE ~Executing(r)
  <2>1. CASE StartTool(r)
    <3> DEFINE s == [NoSnap EXCEPT !.data = data, !.n = Awaited(data)]
    <3>1. /\ ToolBecomes(Awaited(data), "Running") /\ Await(r, "tool", s) /\ data' = data
          /\ phase = "WaitingForTool"
      BY <2>1 DEF StartTool, StartTurn, ToolTurn
    <3>2. Awaited(data) \in Iterations /\ data.state = "WaitingForTool"
      BY <1>1, <3>1, WaitingForToolKnows DEF Base
    <3>3. s.data = data /\ s.n = Awaited(data)
      BY DEF NoSnap
    <3> HIDE DEF s
    <3>4. snap'[r] = s /\ tool'[Awaited(data)].phase = "Running"
      BY <1>1, <3>1, <3>2, ToolBecomesFields, OpenPhases DEF Await, Base
    <3>5. data.active = NoModel
      BY <3>2 DEF SyncInvariant, FrameKnown, Live, ResumablePhases
    <3> QED
      BY <3>1, <3>2, <3>3, <3>4, <3>5
  <2>2. ASSUME NEW i \in Iterations, ControllerStarts(r, i)
        PROVE  pc'[r] = "tic" /\ tool'[snap'[r].n].phase = "Running"
    <3>1. /\ ToolBecomes(i, "Running")
          /\ Await(r, "tic", [NoSnap EXCEPT !.n = i, !.listed = ListAfter(r, i)])
      BY <2>2 DEF ControllerStarts
    <3>2. snap'[r].n = i /\ pc'[r] = "tic"
      BY <1>1, <3>1 DEF Await, NoSnap
    <3>3. tool'[i].phase = "Running"
      BY <3>1, ToolBecomesFields, OpenPhases DEF Base
    <3> QED
      BY <3>2, <3>3
  <2> QED
    BY <1>2, <2>1, <2>2, CallBegins
<1>3. CASE Executing(r)
  <2>1. /\ tool[snap[r].n].phase = "Running" /\ snap[r].n \in Iterations
        /\ pc[r] = "tool" =>
             /\ data.frame = snap[r].data.frame /\ data.usage = snap[r].data.usage
             /\ data.state = "WaitingForTool" /\ snap[r].data.active = NoModel
             /\ data.frame.n = snap[r].n
    BY <1>3, CallKnown DEF SyncInvariant, ExecutorsRun, CallsInSync, Base, ExecutionsKnown
  <2>2. ~(CallReturns(r) /\ ~RetryTool(r)) /\ ~Crash(r) /\ \A p : ~DieAfterToolCall(r, p)
    BY CallEnds
  <2>3. CASE RetryTool(r)
    <3> DEFINE failed == CountToolFailure(snap[r].data)
    <3>1. /\ pc[r] = "tool" /\ data' = Merged(failed) /\ ToolBecomes(snap[r].n, "Running")
          /\ Await(r, "tool", [snap[r] EXCEPT !.data = failed])
      BY <2>3 DEF RetryTool, ToolErrorTurn
    <3>2. /\ data'.frame = failed.frame /\ data'.usage = failed.usage
          /\ data'.state = "WaitingForTool" /\ failed.active = NoModel
      BY <3>1, FailureCounts
    <3> HIDE DEF failed
    <3>3. snap'[r].data = failed /\ snap'[r].n = snap[r].n
      BY <1>1, <3>1 DEF Await, Snaps
    <3>4. tool'[snap[r].n].phase = "Running"
      BY <2>1, <3>1, ToolBecomesFields, OpenPhases DEF Base
    <3> QED
      BY <3>2, <3>3, <3>4
  <2>4. CASE \E g \in Guarded : Approve(g) \/ RejectTerminate(g)
    <3>1. /\ data' = data \/ data' = [data EXCEPT !.pending = NoAction]
          /\ UNCHANGED <<tool, pc, snap>>
      BY <2>4 DEF Approve, RejectTerminate
    <3>2. /\ data'.frame = data.frame /\ data'.usage = data.usage /\ data'.state = data.state
      BY <1>1, <3>1 DEF Data
    <3> QED
      BY <2>1, <3>1, <3>2
  <2>5. ASSUME NEW i \in Iterations, RejectContinue(i)
        PROVE  /\ UNCHANGED <<pc, snap>> /\ pc[r] # "tool"
               /\ tool'[snap[r].n].phase = "Running"
    <3>1. /\ data.frame.n = i /\ tool[i].phase = "WaitingForApproval"
          /\ ToolBecomes(i, "Denied") /\ UNCHANGED <<pc, snap>>
      BY <2>5, RejectContinueKnown DEF SyncInvariant
    <3>2. i # snap[r].n
      BY <2>1, <3>1
    <3> QED
      BY <2>1, <3>1, <3>2, ToolBecomesFields, OpenPhases DEF Base
  <2>6. CASE UNCHANGED <<data, tool, pc, snap>>
    BY <2>1, <2>6
  <2> QED
    BY <1>3, <2>2, <2>3, <2>4, <2>5, <2>6, OneAtATime DEF ApprovalStep
<1> QED
  BY <1>2, <1>3

-----------------------------------------------------------------------------
(* What is denied stays denied, and what a controller has listed stays known *)

\* An approval is asked for where the policy requires one.
AsksForReason ==
  \E g \in Guarded : \E bound \in BOOLEAN : policy[g] = "RequireApproval" /\ Ask(g, bound)

LEMMA EngineStepAsks ==
  ASSUME Base, NEW r \in Reconcilers, EngineStep(r)
  PROVE  policy' = policy /\ (approvals' = approvals \/ AsksForReason)
<1>1. \A g : Verdict(g) = "RequireApproval" => policy[g] = "RequireApproval"
  BY DEF Verdict
<1>2. CASE StartEngine(r)
  BY <1>1, <1>2, GuardedNamed DEF StartEngine, Pause, AsksForReason, env
<1>3. CASE AwaitModelApproval(r) \/ AwaitWriteApproval(r)
  BY <1>1, <1>3, GuardedNamed DEF AwaitModelApproval, AwaitWriteApproval, Pause, AsksForReason, env
<1>4. CASE ParkTool(r)
  <2>1. Awaited(data) \in Iterations
    <3>1. phase = "WaitingForTool"
      BY <1>4 DEF ParkTool, StartTurn, ToolTurn
    <3> QED
      BY <3>1, WaitingKnowsTool DEF Base
  <2> DEFINE g == Tool(Awaited(data))
  <2>2. policy' = policy /\ Verdict(g) = "RequireApproval" /\ Ask(g, TRUE)
    BY <1>4 DEF ParkTool, env
  <2>3. g \in Guarded
    BY <2>1, GuardedNamed
  <2> HIDE DEF g
  <2> QED
    BY <1>1, <2>2, <2>3 DEF AsksForReason
<1>5. CASE ~(StartEngine(r) \/ AwaitModelApproval(r) \/ AwaitWriteApproval(r) \/ ParkTool(r))
  BY <1>5 DEF EngineStep, CancelRun, TimeOutRun, PrepareExecution, ExhaustIterations,
       ExhaustModelCalls, DenyModel, ExpireInFlight, RequestDecision, AcceptDecision,
       RejectDecision, CreateToolInvocation, BeginFinalizing, FailByDecision, ObserveTool,
       RefuseReplay, DenyTool, RefuseTool, StartTool, DeliverObservation, CompleteExecution,
       FailFinalization, EndPass, FailPass, env
<1> QED
  BY <1>2, <1>3, <1>4, <1>5

LEMMA StepAsks ==
  ASSUME Base, [Next]_vars
  PROVE  /\ policy' = policy
         /\ \/ approvals' = approvals
            \/ AsksForReason
            \/ \E g \in Guarded : \E decision \in {"Approved", "Rejected"} : Decide(g, decision)
<1>1. ASSUME NEW r \in Reconcilers, Schedule(r) \/ CallReturns(r) \/ ListInvocations(r)
      PROVE  policy' = policy /\ approvals' = approvals
  BY <1>1 DEF Schedule, ListInvocations, CallReturns, DiscardModel, ModelAnswers, ModelTimesOut,
       ModelFails, ToolSucceeds, ToolFailureFenced, ToolTimesOut, ExhaustToolFailures, RetryTool,
       ToolFails, ControllerSettles, env
<1>2. ASSUME NEW r \in Reconcilers, NEW i \in Iterations, ControllerStep(r, i)
      PROVE  policy' = policy /\ (approvals' = approvals \/ AsksForReason)
  <2>1. CASE ControllerParks(r, i)
    <3>1. policy[Tool(i)] = "RequireApproval" /\ Tool(i) \in Guarded
      BY <2>1, GuardedNamed DEF ControllerParks, Verdict
    <3> QED
      BY <2>1, <3>1 DEF ControllerParks, AsksForReason, env
  <2>2. CASE ~ControllerParks(r, i)
    BY <1>2, <2>2 DEF ControllerStep, FailRunningReplay, FenceInvocation, SkipWaiting,
                      ControllerRefuses, ControllerStarts, env
  <2> QED
    BY <2>1, <2>2
<1>3. ASSUME NEW r \in Reconcilers, CrashStep(r)
      PROVE  policy' = policy /\ (approvals' = approvals \/ AsksForReason)
  BY <1>3 DEF CrashStep, Crash, DieAfterStart, DieAfterFrame, DieAfterToolApply,
              DieAfterAuthorize, DieAfterToolCall, env
<1>4. CASE ApprovalStep
  <2>1. ASSUME NEW g \in Guarded, Approve(g) \/ RejectTerminate(g)
        PROVE  policy' = policy /\ (Decide(g, "Approved") \/ Decide(g, "Rejected"))
    BY <2>1 DEF Approve, RejectTerminate, env
  <2>2. ASSUME NEW i \in Iterations, RejectContinue(i)
        PROVE  policy' = policy /\ Tool(i) \in Guarded /\ Decide(Tool(i), "Rejected")
    BY <2>2, GuardedNamed DEF RejectContinue, env
  <2> QED
    BY <1>4, <2>1, <2>2 DEF ApprovalStep
<1>5. CASE RequestCancel \/ ChangeContext \/ PassWallTime \/ PassDeadline \/ UNCHANGED vars
  BY <1>5 DEF RequestCancel, ChangeContext, PassWallTime, PassDeadline, vars, env
<1> QED
  BY <1>1, <1>2, <1>3, <1>4, <1>5, EngineStepAsks DEF Next

LEMMA ReasonsKept ==
  ASSUME Base, AskedForReason, [Next]_vars
  PROVE  /\ AskedForReason'
         /\ \A g \in Guarded : Verdict(g) = "Deny" => Verdict(g)' = "Deny"
<1>1. approvals \in [Guarded -> [phase : {"None", "Pending", "Approved", "Rejected"},
                                 bound : BOOLEAN]]
  BY DEF Base, TypeOK
<1>2. /\ policy' = policy
      /\ \A g \in Guarded :
           /\ approvals'[g].phase # "None" => policy[g] = "RequireApproval"
           /\ approvals[g].phase = "Rejected" => approvals'[g].phase = "Rejected"
  <2>1. CASE approvals' = approvals
    BY <2>1, StepAsks DEF AskedForReason
  <2>2. ASSUME NEW h \in Guarded, NEW bound \in BOOLEAN, policy[h] = "RequireApproval",
               Ask(h, bound), NEW g \in Guarded
        PROVE  /\ approvals'[g].phase # "None" => policy[g] = "RequireApproval"
               /\ approvals[g].phase = "Rejected" => approvals'[g].phase = "Rejected"
    BY <1>1, <2>2 DEF Ask, AskedForReason
  <2>3. ASSUME NEW h \in Guarded, NEW decision \in {"Approved", "Rejected"}, Decide(h, decision),
               NEW g \in Guarded
        PROVE  /\ approvals'[g].phase # "None" => policy[g] = "RequireApproval"
               /\ approvals[g].phase = "Rejected" => approvals'[g].phase = "Rejected"
    BY <1>1, <2>3 DEF Decide, AskedForReason
  <2> QED
    BY <2>1, <2>2, <2>3, StepAsks DEF AsksForReason
<1> QED
  BY <1>2 DEF AskedForReason, Verdict

\* Who may leave the reconciler with a list, or executing an entry of it.
LEMMA WhoLists ==
  ASSUME OneReconciler, Base, [Next]_vars, NEW r \in Reconcilers, pc'[r] \in {"tools", "tic"}
  PROVE  \/ ListInvocations(r)
         \/ \E i \in Iterations : ControllerStep(r, i)
         \/ \E outcome : ControllerSettles(r, outcome)
         \/ ApprovalStep
         \/ UNCHANGED <<data, tool, pc, snap>>
<1>1. \A q \in Reconcilers : q = r
  BY DEF OneReconciler
<1>2. pc \in [Reconcilers -> {"ready", "engine", "model", "tool", "tools", "tic"}]
  BY DEF Base, TypeOK
<1>3. /\ ~Continue(r) /\ ~Leave(r)
      /\ ~\E at \in {"ready", "engine"} : Return(r, at)
      /\ \A s : ~Await(r, "model", s) /\ ~Await(r, "tool", s)
  BY <1>2 DEF Continue, Leave, Return, Await
<1>4. ~EngineStep(r)
  BY <1>3 DEF EngineStep, CancelRun, TimeOutRun, StartEngine, PrepareExecution, ExhaustIterations,
       ExhaustModelCalls, AwaitModelApproval, DenyModel, ExpireInFlight, RequestDecision,
       AcceptDecision, RejectDecision, CreateToolInvocation, BeginFinalizing, FailByDecision,
       ObserveTool, RefuseReplay, ParkTool, DenyTool, RefuseTool, StartTool, DeliverObservation,
       CompleteExecution, AwaitWriteApproval, FailFinalization, EndPass, FailPass, Pause
<1>5. CallReturns(r) => \E outcome : ControllerSettles(r, outcome)
  <2>1. CallReturns(r) => \/ \E outcome : ControllerSettles(r, outcome)
                          \/ RetryTool(r)
                          \/ \E at \in {"ready", "engine"} : Return(r, at)
    BY DEF CallReturns, DiscardModel, ModelAnswers, ModelTimesOut, ModelFails, ToolSucceeds,
           ToolFailureFenced, ToolTimesOut, ExhaustToolFailures, ToolFails, AfterModel, Resume
  <2>2. ~RetryTool(r)
    BY <1>3 DEF RetryTool
  <2> QED
    BY <1>3, <2>1, <2>2
<1>6. ~CrashStep(r)
  BY <1>3 DEF CrashStep, Crash, DieAfterStart, DieAfterFrame, DieAfterToolApply,
              DieAfterAuthorize, DieAfterToolCall
<1> QED
  BY <1>1, <1>4, <1>5, <1>6, OtherSteps DEF Next

LEMMA ListsStayKnown ==
  ASSUME OneReconciler, Base, SyncInvariant, [Next]_vars
  PROVE  ListsKnown'
<1> SUFFICES ASSUME NEW r \in Reconcilers, pc'[r] \in {"tools", "tic"}
             PROVE  /\ pc'[r] = "tools" => \A i \in Iterations : \A p :
                         p = snap'[r].listed[i] /\ p # "Absent" => Listed(i, p)'
                    /\ pc'[r] = "tic" => snap'[r].listed = Nothing
  BY DEF ListsKnown, Listed
<1>1. /\ data \in Data /\ data.frame.n \in Nat
      /\ pc \in [Reconcilers -> {"ready", "engine", "model", "tool", "tools", "tic"}]
      /\ snap \in [Reconcilers -> Snaps] /\ snap[r].listed \in [Iterations -> ToolPhases]
  BY CountersTyped DEF Base, TypeOK, Snaps
<1>2. \A left : ~(GoOn(r, left) /\ left = Nothing)
  BY <1>1 DEF GoOn, Await
<1>3. CASE ListInvocations(r)
  <2>1. /\ pc'[r] = "tools" /\ UNCHANGED <<data, tool>>
        /\ \A i \in Iterations : snap'[r].listed[i] =
             IF Unsettled(i) THEN tool[i].phase ELSE "Absent"
    BY <1>1, <1>3 DEF ListInvocations, Await, NoSnap
  <2>2. ASSUME NEW i \in Iterations, Unsettled(i)
        PROVE  i = data.frame.n /\ ~Taken(i) /\ tool[i].phase \notin ToolTerminalPhases
    BY <1>1, <2>2 DEF Unsettled, SyncInvariant, ToolsOfFrames, Taken, Iterations
  <2>3. \A i \in Iterations : Taken(i)' <=> Taken(i)
    BY <2>1 DEF Taken
  <2> QED
    BY <2>1, <2>2, <2>3 DEF Listed
<1>4. ASSUME NEW i \in Iterations, ControllerStep(r, i)
      PROVE  pc'[r] = "tic" /\ snap'[r].listed = Nothing
  <2>1. PICK p : Visits(r, i, p)
    BY <1>4 DEF ControllerStep, FailRunningReplay, FenceInvocation, SkipWaiting, ControllerParks,
                ControllerRefuses, ControllerStarts, ControllerTurn
  <2>2. \A j \in Iterations \ {i} : snap[r].listed[j] = "Absent"
    BY <2>1 DEF Visits, SyncInvariant, ListsKnown, Listed
  <2>3. ListAfter(r, i) = Nothing
    BY <1>1, <2>2 DEF ListAfter, Nothing
  <2>4. ControllerStarts(r, i)
    BY <1>2, <1>4, <2>3 DEF ControllerStep, FailRunningReplay, FenceInvocation, SkipWaiting,
                            ControllerParks, ControllerRefuses
  <2>5. Await(r, "tic", [NoSnap EXCEPT !.n = i, !.listed = Nothing])
    BY <2>3, <2>4 DEF ControllerStarts
  <2> QED
    BY <1>1, <2>5 DEF Await, NoSnap
<1>5. ASSUME NEW outcome
      PROVE  ~ControllerSettles(r, outcome)
  BY <1>2 DEF ControllerSettles, SyncInvariant, ListsKnown
<1>6. CASE ApprovalStep
  <2>1. UNCHANGED <<pc, snap>>
    BY <1>6 DEF ApprovalStep, Approve, RejectTerminate, RejectContinue
  <2>2. ASSUME NEW i \in Iterations, NEW p, Listed(i, p)
        PROVE  Listed(i, p)'
    <3>1. /\ i = data.frame.n /\ ~Taken(i) /\ p \notin ToolTerminalPhases
          /\ \/ tool[i].phase = p
             \/ p = "WaitingForApproval" /\ tool[i].phase = "Denied" /\ Verdict(Tool(i)) = "Deny"
      BY <2>2 DEF Listed
    <3>2. Verdict(Tool(i)) = "Deny" => Verdict(Tool(i))' = "Deny"
      BY ReasonsKept, GuardedNamed DEF SyncInvariant
    <3>3. CASE \E g \in Guarded : Approve(g) \/ RejectTerminate(g)
      <4>1. tool' = tool /\ (data' = data \/ data' = [data EXCEPT !.pending = NoAction])
        BY <3>3 DEF Approve, RejectTerminate
      <4>2. data'.frame = data.frame
        BY <1>1, <4>1 DEF Data
      <4> QED
        BY <3>1, <3>2, <4>1, <4>2 DEF Listed, Taken
    <3>4. ASSUME NEW k \in Iterations, RejectContinue(k)
          PROVE  Listed(i, p)'
      <4>1. /\ k = i /\ tool[i].phase = "WaitingForApproval" /\ ToolBecomes(i, "Denied")
            /\ data.frame.state = "waiting-for-tool"
            /\ data' = [CountToolFailure(data) EXCEPT !.state = "WaitingForTool"]
        BY <3>1, <3>4, RejectContinueKnown DEF SyncInvariant
      <4>2. p = "WaitingForApproval"
        BY <3>1, <4>1
      <4>3. tool'[i].phase = "Denied"
        BY <4>1, OpenPhases, ToolBecomesFields DEF Base
      <4>4. data'.frame.n = data.frame.n /\ data'.frame.state = "waiting-for-tool"
        <5>1. /\ CountToolFailure(data) \in Data
              /\ CountToolFailure(data).frame.n = data.frame.n
              /\ CountToolFailure(data).frame.state = data.frame.state
          BY <1>1, CountToolFailureTyped, CountToolFailureFields
        <5> QED
          BY <4>1, <5>1 DEF Data
      <4>5. Verdict(Tool(i))' = "Deny"
        <5>1. approvals[Tool(i)].phase = "Pending"
              /\ approvals' = [approvals EXCEPT ![Tool(i)].phase = "Rejected"]
          BY <3>4, <4>1 DEF RejectContinue, Decide
        <5>2. policy[Tool(i)] = "RequireApproval" /\ policy' = policy
          BY <5>1, GuardedNamed, StepAsks DEF SyncInvariant, AskedForReason
        <5>3. approvals'[Tool(i)].phase = "Rejected"
          BY <5>1, GuardedNamed DEF Base, TypeOK
        <5> QED
          BY <5>2, <5>3 DEF Verdict
      <4> QED
        BY <3>1, <4>2, <4>3, <4>4, <4>5 DEF Listed, Taken, ToolTerminalPhases, Iterations
    <3> QED
      BY <1>6, <3>3, <3>4 DEF ApprovalStep
  <2> QED
    BY <2>1, <2>2 DEF SyncInvariant, ListsKnown
<1>7. CASE UNCHANGED <<data, tool, pc, snap>>
  <2>1. ASSUME NEW i \in Iterations, NEW p, Listed(i, p)
        PROVE  Listed(i, p)'
    BY <1>7, <2>1, ReasonsKept, GuardedNamed DEF Listed, Taken, SyncInvariant
  <2> QED
    BY <1>7, <2>1 DEF SyncInvariant, ListsKnown
<1> QED
  BY <1>3, <1>4, <1>5, <1>6, <1>7, WhoLists

-----------------------------------------------------------------------------
(* What the moves keep *)

\* A move changes at most one ToolInvocation, and a settled one only if it was
\* denied while the controller had it on its list.
LEMMA MoveOfTools ==
  ASSUME Base, Move
  PROVE  \/ tool' = tool
         \/ Created(data.frame.n) /\ (Creates \/ Records)
         \/ \E i \in Iterations :
              /\ OnlyTool(i)
              /\ tool[i].phase \notin ToolTerminalPhases \cup {"Absent"}
              /\ tool'[i].phase # "Absent"
              /\ Turns(i) \/ (Fails /\ i = data.frame.n)
         \/ SettlesAgain
<1>1. CASE Quiet \/ Opens \/ Requests \/ Delivers
  BY <1>1 DEF Quiet, Opens, Requests, Delivers
<1>2. CASE Creates \/ Records
  BY <1>2 DEF Creates, Records
<1>3. ASSUME NEW i \in Iterations, Turns(i)
      PROVE  tool'[i].phase # "Absent"
  BY <1>3 DEF Turns, StartablePhases, ToolTerminalPhases
<1>4. ASSUME Fails
      PROVE  tool'[data.frame.n].phase # "Absent"
  BY <1>4 DEF Fails, StartablePhases, ToolTerminalPhases
<1>5. CASE \E i \in Iterations : Turns(i)
  <2>1. PICK i \in Iterations : Turns(i)
    BY <1>5
  <2>2. tool'[i].phase # "Absent"
    BY <1>3, <2>1
  <2>3. OnlyTool(i) /\ tool[i].phase \notin ToolTerminalPhases \cup {"Absent"}
    BY <2>1 DEF Turns
  <2> QED
    BY <2>1, <2>2, <2>3
<1>6. CASE Fails
  BY <1>4, <1>6 DEF Fails, OnlyTool
<1> QED
  BY <1>1, <1>2, <1>5, <1>6 DEF Move

LEMMA MovesKeepSettled ==
  ASSUME Base, Move, NEW i \in Iterations, tool[i].phase \in ToolTerminalPhases
  PROVE  /\ tool'[i].phase \in ToolTerminalPhases
         /\ tool[i].phase # "Denied" \/ Taken(i) => tool'[i] = tool[i]
<1>1. tool[i].phase # "Absent"
  BY DEF ToolTerminalPhases
<1>2. CASE SettlesAgain
  BY <1>2 DEF SettlesAgain, OnlyTool
<1>3. CASE ~SettlesAgain
  <2>1. tool'[i] = tool[i]
    BY <1>1, <1>3, MoveOfTools DEF Created, OnlyTool
  <2> QED
    BY <2>1
<1> QED
  BY <1>2, <1>3

\* A frame follows another, or the counter and the attempts stay or grow.
LEMMA MoveOfFrames ==
  ASSUME Base, Move
  PROVE  \/ NewFrame(data'.frame.attempts)
         \/ data'.frame.n = data.frame.n
<1>1. CASE Opens \/ Requests
  BY <1>1 DEF Opens, Requests, NewFrame, NewAttempt
<1>2. CASE Quiet \/ Creates \/ Records \/ Delivers \/ Fails \/ SettlesAgain
           \/ \E i \in Iterations : Turns(i)
  BY <1>2 DEF Quiet, Creates, Records, Delivers, Fails, FailureCounted, Turns, SettlesAgain, Rests
<1> QED
  BY <1>1, <1>2 DEF Move

\* The ToolInvocation of a frame that another follows is settled, if there is one.
LEMMA FrameLeftSettled ==
  ASSUME Base, FrameKnown, ToolsOfFrames, data.state = "AwaitingDecision", NeedsFrame(data.frame)
  PROVE  /\ data.frame.n \in Nat
         /\ \A i \in Iterations :
              i <= data.frame.n => tool[i].phase \in ToolTerminalPhases \cup {"Absent"}
<1>1. data.frame.n \in Nat /\ RunConsistent
  BY DataFieldsTyped, BudgetsAssumption DEF Base, TypeOK, StateInvariant
<1>2. ASSUME data.frame.n \in Iterations
      PROVE  tool[data.frame.n].phase \in ToolTerminalPhases \cup {"Absent"}
  <2>1. data.frame.state \in {"decision-rejected", "observation-delivered"}
    BY <1>1, <1>2
    DEF RunConsistent, PersistedStateConsistent, FrameFits, NoFrame, NeedsFrame, Iterations
  <2>2. data.frame.state = "decision-rejected" => ~data.frame.tool
    BY DEF FrameKnown
  <2> QED
    BY <1>2, <2>1, <2>2 DEF ToolsOfFrames, Taken
<1> QED
  BY <1>1, <1>2 DEF ToolsOfFrames, Taken, Iterations

LEMMA ToolsOfFramesKept ==
  ASSUME Base, FrameKnown, ToolsOfFrames, Move
  PROVE  ToolsOfFrames'
<1>1. data.frame.n \in Nat
  BY DataFieldsTyped, BudgetsAssumption DEF Base, TypeOK
<1>2. CASE NewFrame(data'.frame.attempts)
  <2>1. /\ data'.frame.n = data.frame.n + 1 /\ data.state = "AwaitingDecision"
        /\ NeedsFrame(data.frame)
    BY <1>2 DEF NewFrame
  <2>2. \A i \in Iterations :
          i <= data.frame.n => tool[i].phase \in ToolTerminalPhases \cup {"Absent"}
    BY <2>1, FrameLeftSettled
  <2>3. tool' = tool
    <3>1. CASE Opens \/ Requests
      BY <3>1 DEF Opens, Requests
    <3>2. ~(\/ Quiet \/ Creates \/ Records \/ Delivers \/ Fails \/ SettlesAgain
            \/ \E i \in Iterations : Turns(i))
      BY <1>1, <2>1 DEF Quiet, Creates, Records, Delivers, Fails, FailureCounted, Turns,
                        SettlesAgain, Rests
    <3> QED
      BY <3>1, <3>2 DEF Move
  <2>4. \A i \in Iterations : i > data.frame.n => tool'[i].phase = "Absent"
    BY <2>3 DEF ToolsOfFrames
  <2> QED
    BY <1>1, <2>1, <2>2, <2>3, <2>4 DEF ToolsOfFrames, Taken, Iterations
<1>3. CASE data'.frame.n = data.frame.n
  <2> SUFFICES ASSUME NEW i \in Iterations
               PROVE  /\ i > data.frame.n => tool'[i].phase = "Absent"
                      /\ i < data.frame.n => tool'[i].phase \in ToolTerminalPhases \cup {"Absent"}
                      /\ i = data.frame.n /\ data'.frame.state \in TakenStates =>
                           tool'[i].phase \in ToolTerminalPhases \cup {"Absent"}
                      /\ i = data.frame.n /\ ~data'.frame.tool /\ tool'[i].phase # "Absent" =>
                           /\ data'.frame.state = "decision-validated"
                           /\ data'.frame.decision = "invoke_tool"
                           /\ data'.activeTool # i
    BY <1>3 DEF ToolsOfFrames, Taken, TakenStates
  <2>1. i # data.frame.n => tool'[i] = tool[i]
    <3>1. ASSUME NEW j \in Iterations, tool[j].phase \notin ToolTerminalPhases \cup {"Absent"}
          PROVE  j = data.frame.n
      BY <1>1, <3>1 DEF ToolsOfFrames, Taken, Iterations
    <3> QED
      BY <3>1, MoveOfTools DEF Created, SettlesAgain, OnlyTool
  <2>2. ASSUME i = data.frame.n, data'.frame.state \in TakenStates
        PROVE  tool'[i].phase \in ToolTerminalPhases \cup {"Absent"}
    <3>1. data.frame.state \in TakenStates \/ tool'[i].phase \in ToolTerminalPhases
      <4>1. CASE Quiet \/ Creates \/ SettlesAgain \/ Fails \/ \E j \in Iterations : Turns(j)
        BY <2>2, <4>1 DEF Quiet, Creates, SettlesAgain, Turns, Rests, Fails, TakesSettled
      <4>2. CASE Records \/ Delivers \/ Opens \/ Requests
        BY <1>1, <1>3, <2>2, <4>2
        DEF Records, Delivers, Opens, Requests, NewFrame, NewAttempt, TakenStates
      <4> QED
        BY <4>1, <4>2 DEF Move
    <3>2. ASSUME data.frame.state \in TakenStates
          PROVE  tool'[i].phase \in ToolTerminalPhases \cup {"Absent"}
      <4>1. Taken(i) /\ tool[i].phase \in ToolTerminalPhases \cup {"Absent"}
        BY <2>2, <3>2 DEF Taken, TakenStates, ToolsOfFrames
      <4>2. ~Creates /\ ~Records /\ ~SettlesAgain
        BY <2>2, <3>2, <4>1 DEF Creates, Records, SettlesAgain, TakenStates
      <4> QED
        BY <4>1, <4>2, MoveOfTools DEF OnlyTool
    <3> QED
      BY <3>1, <3>2
  <2>3. ASSUME i = data.frame.n, ~data'.frame.tool, tool'[i].phase # "Absent"
        PROVE  /\ data'.frame.state = "decision-validated" /\ data'.frame.decision = "invoke_tool"
               /\ data'.activeTool # i
    <3>1. CASE Creates
      <4>1. data.activeTool # i
        BY <2>3, <3>1, RunSound, BudgetsAssumption
        DEF Creates, Created, Sound, Base, StateInvariant, Iterations
      <4> QED
        BY <2>3, <3>1, <4>1 DEF Creates, Rests
    <3>2. CASE Records \/ Fails
      BY <2>3, <3>2 DEF Records, Fails, FailureCounted
    <3>3. CASE \/ Quiet \/ Delivers \/ Requests \/ Opens \/ SettlesAgain
               \/ \E j \in Iterations : Turns(j)
      <4>1. ~data.frame.tool
        BY <1>1, <1>3, <2>3, <3>3
        DEF Quiet, Delivers, Requests, Opens, Turns, SettlesAgain, Rests, NewFrame, NewAttempt
      <4>2. tool[i].phase # "Absent"
        <5>1. ~(Created(data.frame.n) /\ (Creates \/ Records)) => tool[i].phase # "Absent"
          BY <2>3, MoveOfTools DEF OnlyTool, SettlesAgain
        <5>2. Created(data.frame.n) => tool' # tool
          BY <2>3 DEF Created
        <5>3. SettlesAgain => ~Created(data.frame.n)
          BY DEF SettlesAgain, Created
        <5>4. (\E j \in Iterations : Turns(j)) /\ Created(data.frame.n) => FALSE
          BY <2>3 DEF Turns, Created, OnlyTool, StartablePhases, ToolTerminalPhases
        <5> QED
          BY <3>3, <5>1, <5>2, <5>3, <5>4 DEF Quiet, Delivers, Requests, Opens
      <4>3. /\ data.frame.state = "decision-validated" /\ data.frame.decision = "invoke_tool"
            /\ data.activeTool # i
        BY <2>3, <4>1, <4>2 DEF ToolsOfFrames
      <4> QED
        BY <1>1, <1>3, <3>3, <4>1, <4>3
        DEF Quiet, Delivers, Requests, Opens, Turns, SettlesAgain, Rests, NewFrame, NewAttempt
    <3> QED
      BY <3>1, <3>2, <3>3 DEF Move
  <2> QED
    BY <1>1, <2>1, <2>2, <2>3 DEF ToolsOfFrames, Taken, Iterations
<1> QED
  BY <1>2, <1>3, MoveOfFrames

-----------------------------------------------------------------------------
(* The histories stay behind *)

\* The id of a new invocation is one that no invocation had.
LEMMA IssuedKept ==
  ASSUME Base, IssuedBehind, Move
  PROVE  IssuedBehind'
<1>1. /\ data.frame.n \in Nat /\ data.frame.attempts \in Nat
      /\ \A id \in issued : id.iteration \in Nat /\ id.attempt \in Nat
  BY CountersTyped DEF Base, TypeOK, ModelInvocations
<1>2. CASE Requests
  <2>1. PICK id \in ModelInvocations :
          /\ id.iteration = data'.frame.n
          /\ id.attempt = data'.frame.attempts
          /\ issued' = issued \cup {id}
    BY <1>2 DEF Requests
  <2>2. \/ data'.frame.n = data.frame.n + 1
        \/ data'.frame.n = data.frame.n /\ data'.frame.attempts = data.frame.attempts + 1
    BY <1>2 DEF Requests, NewFrame, NewAttempt
  <2>3. id \notin issued
    BY <1>1, <2>1, <2>2 DEF IssuedBehind
  <2>4. IsFiniteSet(issued') /\ Cardinality(issued') = data'.usage.model
    BY <1>2, <2>1, <2>3, FS_AddElement DEF IssuedBehind, Requests
  <2>5. \A i \in issued : /\ i.iteration <= data'.frame.n
                          /\ i.iteration = data'.frame.n => i.attempt <= data'.frame.attempts
    BY <1>1, <2>2 DEF IssuedBehind
  <2>6. id.iteration <= data'.frame.n /\ id.attempt <= data'.frame.attempts
    BY <1>1, <2>1, <2>2 DEF ModelInvocations
  <2> QED
    BY <2>1, <2>4, <2>5, <2>6 DEF IssuedBehind
<1>3. CASE Opens
  <2>1. data'.frame.n = data.frame.n + 1
    BY <1>3 DEF Opens, NewFrame
  <2> QED
    BY <1>1, <1>3, <2>1 DEF Opens, IssuedBehind
<1>4. CASE Quiet \/ Creates \/ Records \/ Fails \/ Delivers \/ SettlesAgain
           \/ \E i \in Iterations : Turns(i)
  <2>1. /\ issued' = issued /\ data'.frame.n = data.frame.n
        /\ data'.frame.attempts = data.frame.attempts /\ data'.usage.model = data.usage.model
    BY <1>4 DEF Quiet, Creates, Records, Fails, FailureCounted, Delivers, Turns, SettlesAgain, Rests
  <2> QED
    BY <2>1 DEF IssuedBehind
<1> QED
  BY <1>2, <1>3, <1>4 DEF Move

\* A tool is started only as often as its failures were counted.
LEMMA ExecutionsStayCounted ==
  ASSUME Base, FrameKnown, ToolsOfFrames, ExecutionsCounted, Move
  PROVE  ExecutionsCounted'
<1>1. /\ data.frame.n \in Nat /\ data.frame.toolRetries \in Nat /\ MaxToolRetries \in Nat
      /\ executions \in [Iterations -> Nat]
  BY CountersTyped, BudgetsAssumption DEF Base, TypeOK
<1> SUFFICES ASSUME NEW i \in Iterations
             PROVE  /\ executions'[i] <= 1 + MaxToolRetries
                    /\ tool'[i].phase = "Absent" => executions'[i] = 0
                    /\ tool'[i].phase \in {"Pending", "Authorized", "WaitingForApproval"} =>
                         executions'[i] <= Retries(i)' /\ Retries(i)' <= MaxToolRetries
                    /\ tool'[i].phase = "Running" => executions'[i] <= 1 + Retries(i)'
  BY DEF ExecutionsCounted
<1>2. /\ executions[i] \in Nat /\ executions[i] <= 1 + MaxToolRetries
      /\ tool[i].phase = "Absent" => executions[i] = 0
      /\ tool[i].phase \in {"Pending", "Authorized", "WaitingForApproval"} =>
           executions[i] <= Retries(i) /\ Retries(i) <= MaxToolRetries
      /\ tool[i].phase = "Running" => executions[i] <= 1 + Retries(i)
  BY <1>1 DEF ExecutionsCounted
<1>3. CASE tool'[i] = tool[i] /\ executions'[i] = executions[i]
  <2>1. CASE NewFrame(data'.frame.attempts)
    <3>1. tool[i].phase \in ToolTerminalPhases \cup {"Absent"}
      BY <1>1, <2>1, FrameLeftSettled DEF NewFrame, ToolsOfFrames, Iterations
    <3> QED
      BY <1>2, <1>3, <3>1 DEF ToolTerminalPhases
  <2>2. CASE data'.frame.n = data.frame.n /\ data'.frame.toolRetries = data.frame.toolRetries
    BY <1>2, <1>3, <2>2 DEF Retries
  <2>3. CASE Fails
    <3>1. data'.frame.n = data.frame.n /\ data'.frame.toolRetries = data.frame.toolRetries + 1
      BY <2>3 DEF Fails, FailureCounted
    <3>2. i = data.frame.n => tool[i].phase = "Running" \/ tool'[i].phase \in ToolTerminalPhases
      BY <1>3, <2>3 DEF Fails
    <3> QED
      BY <1>1, <1>2, <1>3, <3>1, <3>2 DEF Retries, ToolTerminalPhases
  <2>4. CASE Quiet \/ Opens \/ Requests \/ Creates \/ Records \/ Delivers \/ SettlesAgain
             \/ \E j \in Iterations : Turns(j)
    <3>1. \/ NewFrame(data'.frame.attempts)
          \/ data'.frame.n = data.frame.n /\ data'.frame.toolRetries = data.frame.toolRetries
      BY <2>4 DEF Quiet, Opens, Requests, Creates, Records, Delivers, Turns, SettlesAgain, Rests,
                  NewFrame, NewAttempt
    <3> QED
      BY <2>1, <2>2, <3>1
  <2> QED
    BY <2>3, <2>4 DEF Move
<1>4. CASE Created(data.frame.n) /\ (Creates \/ Records) /\ i = data.frame.n
  <2>1. /\ data'.frame.n = data.frame.n /\ data'.frame.toolRetries = data.frame.toolRetries
        /\ executions' = executions /\ ~data.frame.tool
    BY <1>4 DEF Creates, Records, Rests
  <2>2. data.frame.toolRetries = 0 /\ executions[i] = 0 /\ tool'[i].phase = "Pending"
    BY <1>2, <1>4, <2>1 DEF FrameKnown, Created
  <2> QED
    BY <1>1, <1>4, <2>1, <2>2 DEF Retries
<1>5. CASE Turns(i)
  <2>1. Retries(i)' = Retries(i)
    BY <1>5 DEF Turns, Rests, Retries
  <2>2. Retries(i) \in Nat
    BY <1>1 DEF Retries
  <2>3. CASE tool'[i].phase \in ToolTerminalPhases /\ executions' = executions
    BY <1>2, <2>3 DEF ToolTerminalPhases
  <2>4. CASE /\ tool[i].phase \in StartablePhases /\ tool'[i].phase \in StartablePhases
             /\ executions' = executions
    BY <1>2, <2>1, <2>4 DEF StartablePhases
  <2>5. CASE tool[i].phase \in StartablePhases /\ tool'[i].phase = "Running" /\ Executes(i)
    <3>1. executions'[i] = executions[i] + 1
      BY <1>1, <2>5 DEF Executes
    <3>2. executions[i] <= Retries(i) /\ Retries(i) <= MaxToolRetries
      BY <1>2, <2>5 DEF StartablePhases
    <3> QED
      BY <1>1, <1>2, <2>1, <2>2, <2>5, <3>1, <3>2
  <2> QED
    BY <1>5, <2>3, <2>4, <2>5 DEF Turns
<1>6. CASE Fails /\ i = data.frame.n
  <2>1. /\ Retries(i) = data.frame.toolRetries /\ Retries(i)' = Retries(i) + 1
        /\ data'.frame.toolRetries = Retries(i) + 1 /\ Retries(i) \in Nat
    BY <1>1, <1>6 DEF Fails, FailureCounted, Retries
  <2>2. CASE tool'[i].phase \in ToolTerminalPhases /\ executions' = executions
    BY <1>2, <2>2 DEF ToolTerminalPhases
  <2>3. CASE tool[i].phase = "Running" /\ tool'[i].phase = "Running" /\ executions' = executions
    BY <1>2, <2>1, <2>3
  <2>4. CASE /\ tool[i].phase = "Running" /\ Retries(i) + 1 <= MaxToolRetries
             /\ tool'[i].phase \in StartablePhases /\ executions' = executions
    BY <1>1, <1>2, <2>1, <2>4 DEF StartablePhases
  <2>5. CASE /\ tool[i].phase = "Running" /\ Retries(i) + 1 <= MaxToolRetries
             /\ tool'[i].phase = "Running" /\ Executes(i)
    <3>1. executions'[i] = executions[i] + 1
      BY <1>1, <2>5 DEF Executes
    <3> QED
      BY <1>1, <1>2, <2>1, <2>5, <3>1
  <2> QED
    BY <1>6, <2>1, <2>2, <2>3, <2>4, <2>5 DEF Fails
<1>7. \/ tool'[i] = tool[i] /\ executions'[i] = executions[i]
      \/ Created(data.frame.n) /\ (Creates \/ Records) /\ i = data.frame.n
      \/ Turns(i)
      \/ Fails /\ i = data.frame.n
      \/ SettlesAgain /\ i = data.frame.n
  <2>1. CASE Quiet \/ Opens \/ Requests \/ Delivers
    BY <2>1 DEF Quiet, Opens, Requests, Delivers
  <2>2. CASE Creates \/ Records
    BY <2>2 DEF Creates, Records, Created, OnlyTool
  <2>3. ASSUME NEW j \in Iterations, Turns(j), j # i
        PROVE  tool'[i] = tool[i] /\ executions'[i] = executions[i]
    BY <1>1, <2>3 DEF Turns, OnlyTool, Executes
  <2>4. ASSUME Fails, i # data.frame.n
        PROVE  tool'[i] = tool[i] /\ executions'[i] = executions[i]
    BY <1>1, <2>4 DEF Fails, OnlyTool, Executes
  <2>5. ASSUME SettlesAgain, i # data.frame.n
        PROVE  tool'[i] = tool[i] /\ executions'[i] = executions[i]
    BY <2>5 DEF SettlesAgain, OnlyTool
  <2> QED
    BY <2>1, <2>2, <2>3, <2>4, <2>5 DEF Move
<1>8. CASE SettlesAgain /\ i = data.frame.n
  <2>1. tool'[i].phase \in ToolTerminalPhases /\ executions'[i] = executions[i]
    BY <1>8 DEF SettlesAgain
  <2> QED
    BY <1>2, <2>1 DEF ToolTerminalPhases
<1> QED
  BY <1>3, <1>4, <1>5, <1>6, <1>7, <1>8

\* The run counts the ToolInvocation it creates; the one that a crash leaves
\* uncounted is counted with the crashes.
LEMMA InvocationsStayCounted ==
  ASSUME Base, InvocationsCounted, Move, crashes' \in {crashes, crashes + 1}
  PROVE  InvocationsCounted'
<1> DEFINE known == {i \in Iterations : tool[i].phase # "Absent"}
<1>1. /\ data.usage.tool \in Nat /\ crashes \in Nat
      /\ Cardinality(known) <= data.usage.tool + crashes
  BY CountersTyped, BudgetsAssumption DEF Base, TypeOK, InvocationsCounted
<1>2. IsFiniteSet(Iterations)
  BY FS_Interval, BudgetsAssumption DEF Iterations
<1>3. known \in SUBSET Iterations /\ IsFiniteSet(known) /\ Cardinality(known) \in Nat
  BY <1>2, FS_Subset, FS_CardinalityType
<1>4. ASSUME Created(data.frame.n)
      PROVE  Cardinality(known') <= Cardinality(known) + 1
  <2>1. known' = known \cup {data.frame.n}
    BY <1>4 DEF Created, OnlyTool
  <2> HIDE DEF known
  <2> QED
    BY <1>3, <2>1, FS_AddElement
<1>5. CASE Created(data.frame.n) /\ Creates
  <2>1. crashes' = crashes + 1 /\ data'.usage.tool = data.usage.tool
    BY <1>5 DEF Creates, Rests
  <2>2. Cardinality(known') \in Nat
    BY <1>2, FS_Subset, FS_CardinalityType
  <2> HIDE DEF known
  <2>3. Cardinality(known') <= data'.usage.tool + crashes'
    BY <1>1, <1>3, <1>4, <1>5, <2>1, <2>2
  <2> QED
    BY <2>3 DEF InvocationsCounted, known
<1>6. CASE Created(data.frame.n) /\ Records
  <2>1. data'.usage.tool = data.usage.tool + 1
    <3>1. tool' # tool
      BY <1>6 DEF Created
    <3> QED
      BY <1>6, <3>1 DEF Records
  <2>2. Cardinality(known') \in Nat
    BY <1>2, FS_Subset, FS_CardinalityType
  <2> HIDE DEF known
  <2>3. Cardinality(known') <= data'.usage.tool + crashes'
    BY <1>1, <1>3, <1>4, <1>6, <2>1, <2>2
  <2> QED
    BY <2>3 DEF InvocationsCounted, known
<1>7. CASE ~Created(data.frame.n)
  <2>1. known' = known
    <3>1. CASE tool' = tool
      BY <3>1
    <3>2. ASSUME NEW i \in Iterations, OnlyTool(i), tool[i].phase # "Absent",
                 tool'[i].phase # "Absent"
          PROVE  known' = known
      BY <3>2 DEF OnlyTool
    <3>3. CASE SettlesAgain
      <4>1. /\ OnlyTool(data.frame.n) /\ data.frame.n \in Iterations
            /\ tool[data.frame.n].phase # "Absent" /\ tool'[data.frame.n].phase # "Absent"
        BY <3>3 DEF SettlesAgain, OnlyTool, ToolTerminalPhases
      <4> QED
        BY <3>2, <4>1
    <3> QED
      BY <1>7, <3>1, <3>2, <3>3, MoveOfTools
  <2>2. data'.usage.tool = data.usage.tool
    <3>1. CASE Quiet \/ Opens \/ Requests \/ Creates \/ Fails \/ Delivers \/ SettlesAgain
               \/ \E i \in Iterations : Turns(i)
      BY <3>1 DEF Quiet, Opens, Requests, Creates, Fails, FailureCounted, Delivers, Turns,
                  SettlesAgain, Rests
    <3>2. CASE Records
      BY <1>7, <3>2 DEF Records
    <3> QED
      BY <3>1, <3>2 DEF Move
  <2> HIDE DEF known
  <2>3. Cardinality(known') <= data'.usage.tool + crashes'
    BY <1>1, <1>3, <2>1, <2>2
  <2> QED
    BY <2>3 DEF InvocationsCounted, known
<1>8. Created(data.frame.n) => Creates \/ Records
  <2>1. Created(data.frame.n) => tool' # tool
    BY DEF Created
  <2>2. ASSUME NEW i \in Iterations, OnlyTool(i), tool[i].phase # "Absent"
        PROVE  ~Created(data.frame.n)
    BY <2>2 DEF Created, OnlyTool
  <2>3. SettlesAgain => ~Created(data.frame.n)
    BY DEF SettlesAgain, Created
  <2> QED
    BY <2>1, <2>2, <2>3, MoveOfTools
<1> QED
  BY <1>5, <1>6, <1>7, <1>8

LEMMA DeliveredStaysBehind ==
  ASSUME Base, DeliveredBehind, Move
  PROVE  DeliveredBehind'
<1>1. data.frame.n \in Nat /\ deliveries \in [Iterations -> Nat]
  BY CountersTyped DEF Base, TypeOK
<1> SUFFICES ASSUME NEW i \in Iterations
             PROVE  /\ deliveries'[i] <= 1
                    /\ deliveries'[i] > 0 =>
                         \/ i < data'.frame.n
                         \/ /\ i = data'.frame.n
                            /\ data'.frame.state = "observation-delivered"
  BY DEF DeliveredBehind
<1>2. /\ deliveries[i] \in Nat /\ deliveries[i] <= 1 /\ i \in Nat
      /\ deliveries[i] > 0 =>
           \/ i < data.frame.n
           \/ i = data.frame.n /\ data.frame.state = "observation-delivered"
  BY <1>1 DEF DeliveredBehind, Iterations
<1>3. CASE Delivers
  <2>1. /\ data'.frame.n = data.frame.n /\ data'.frame.state = "observation-delivered"
        /\ data.frame.state = "tool-observed"
        /\ deliveries'[i] = IF i = data.frame.n THEN deliveries[i] + 1 ELSE deliveries[i]
    BY <1>1, <1>3 DEF Delivers
  <2> QED
    BY <1>2, <2>1
<1>4. CASE NewFrame(data'.frame.attempts) /\ deliveries' = deliveries
  <2>1. data'.frame.n = data.frame.n + 1
    BY <1>4 DEF NewFrame
  <2> QED
    BY <1>1, <1>2, <1>4, <2>1
<1>5. CASE /\ data'.frame.n = data.frame.n /\ deliveries' = deliveries
           /\ data.frame.state = "observation-delivered" =>
                data'.frame.state = "observation-delivered"
  BY <1>2, <1>5
<1>6. CASE Quiet \/ Opens \/ Requests \/ Creates \/ Records \/ Fails \/ SettlesAgain
           \/ \E j \in Iterations : Turns(j)
  <2>1. deliveries' = deliveries
    BY <1>6 DEF Quiet, Opens, Requests, Creates, Records, Fails, Turns, SettlesAgain
  <2>2. \/ NewFrame(data'.frame.attempts)
        \/ /\ data'.frame.n = data.frame.n
           /\ data.frame.state = "observation-delivered" =>
                data'.frame.state = "observation-delivered"
    BY <1>6 DEF Quiet, Opens, Requests, Creates, Records, Fails, FailureCounted, Turns,
                SettlesAgain, Rests, NewFrame, NewAttempt
  <2> QED
    BY <1>4, <1>5, <2>1, <2>2
<1> QED
  BY <1>3, <1>6 DEF Move

-----------------------------------------------------------------------------
(* The theorems on recovery *)

LEMMA RecoveryHoldsInitially == Init => RecoveryInvariant
<1> SUFFICES ASSUME Init
             PROVE  RecoveryInvariant
  OBVIOUS
<1>1. /\ data = NoData /\ data.frame = NoFrame /\ data.state = "none" /\ data.active = NoModel
      /\ data.frame.n = 0 /\ data.frame.toolRetries = 0 /\ ~data.frame.tool
      /\ data.usage.model = 0 /\ data.usage.tool = 0
  BY DEF Init, NoData, NoFrame, NoUsage
<1>2. \A i \in Iterations : /\ tool[i].phase = "Absent" /\ i > 0
                            /\ executions[i] = 0 /\ deliveries[i] = 0
  BY DEF Init, Iterations
<1>3. SyncInvariant
  <2>1. \A r \in Reconcilers : ~Executing(r) /\ pc[r] = "ready"
    BY DEF Init, Executing
  <2>2. ListsKnown /\ AskedForReason
    BY <2>1 DEF Init, ListsKnown, AskedForReason
  <2>3. ExecutorsRun /\ CallsInSync /\ FrameKnown
    BY <1>1, <2>1 DEF ExecutorsRun, CallsInSync, FrameKnown
  <2>4. ToolsOfFrames
    BY <1>1, <1>2 DEF ToolsOfFrames, Taken
  <2> QED
    BY <2>2, <2>3, <2>4 DEF SyncInvariant
<1>4. IssuedBehind
  BY <1>1, FS_EmptySet DEF Init, IssuedBehind
<1>5. ExecutionsCounted
  BY <1>2, BudgetsAssumption DEF ExecutionsCounted
<1>6. InvocationsCounted
  <2>1. {i \in Iterations : tool[i].phase # "Absent"} = {}
    BY <1>2
  <2>2. crashes = 0 /\ Cardinality({}) = 0
    BY FS_EmptySet DEF Init
  <2> QED
    BY <1>1, <2>1, <2>2 DEF InvocationsCounted
<1>7. DeliveredBehind
  BY <1>2 DEF DeliveredBehind
<1> QED
  BY <1>3, <1>4, <1>5, <1>6, <1>7 DEF RecoveryInvariant

LEMMA RecoveryKept ==
  ASSUME OneReconciler, Base, RecoveryInvariant, [Next]_vars
  PROVE  RecoveryInvariant'
<1>1. Move /\ FrameKnown' /\ crashes' \in {crashes, crashes + 1}
  BY EveryStepMoves DEF RecoveryInvariant
<1>2. ExecutorsRun' /\ CallsInSync' /\ ListsKnown' /\ AskedForReason'
  BY CallsStayInSync, ListsStayKnown, ReasonsKept DEF RecoveryInvariant, SyncInvariant
<1>3. ToolsOfFrames' /\ IssuedBehind' /\ InvocationsCounted' /\ DeliveredBehind'
  BY <1>1, ToolsOfFramesKept, IssuedKept, InvocationsStayCounted, DeliveredStaysBehind
  DEF RecoveryInvariant, SyncInvariant
<1>4. ExecutionsCounted'
  BY <1>1, ExecutionsStayCounted DEF RecoveryInvariant, SyncInvariant
<1> QED
  BY <1>1, <1>2, <1>3, <1>4 DEF RecoveryInvariant, SyncInvariant

LEMMA RecoveryAlways ==
  ASSUME OneReconciler
  PROVE  Spec => [](Base /\ RecoveryInvariant)
<1>1. Base /\ RecoveryInvariant /\ [Next]_vars => RecoveryInvariant'
  BY RecoveryKept
<1> QED
  BY <1>1, RecoveryHoldsInitially, BaseAlways, PTL DEF Spec

\* With one reconciler every model invocation is issued under an id of its own
\* and paid for once, however often the reconciler dies around the call.
THEOREM ModelCallsCountedAlways ==
  ASSUME OneReconciler
  PROVE  Spec => []ModelCallsCounted
<1>1. RecoveryInvariant => ModelCallsCounted
  BY DEF RecoveryInvariant, IssuedBehind, ModelCallsCounted
<1> QED
  BY <1>1, RecoveryAlways, PTL

\* With one reconciler the runtime of a ToolInvocation is started once and then
\* once for every retry the spec allows, also when a crash leaves it Running,
\* Authorized or waiting.
THEOREM ExecutionsBoundedAlways ==
  ASSUME OneReconciler
  PROVE  Spec => []ExecutionsBounded
<1>1. RecoveryInvariant => ExecutionsBounded
  BY DEF RecoveryInvariant, ExecutionsCounted, ExecutionsBounded
<1> QED
  BY <1>1, RecoveryAlways, PTL

\* With one reconciler maxToolInvocations is overdrawn by at most one
\* ToolInvocation for each crash, the one created just before it.
THEOREM InvocationsCountedAlways ==
  ASSUME OneReconciler
  PROVE  Spec => []InvocationsCounted
<1>1. RecoveryInvariant => InvocationsCounted
  BY DEF RecoveryInvariant
<1> QED
  BY <1>1, RecoveryAlways, PTL

\* With one reconciler an Observation reaches the model in one frame only: no
\* retry, stale write or crash brings the run back to before its delivery.
THEOREM DeliveredOnceAlways ==
  ASSUME OneReconciler
  PROVE  Spec => []DeliveredOnce
<1>1. RecoveryInvariant => DeliveredOnce
  BY DEF RecoveryInvariant, DeliveredBehind, DeliveredOnce
<1> QED
  BY <1>1, RecoveryAlways, PTL

\* With one reconciler a ToolInvocation that is settled, by the engine, by the
\* controller or by a rejection, stays settled and is never written again, but for
\* one that was denied while the controller awaited other tools and held it on its
\* list as waiting: it may be settled once more until the run takes its outcome.
THEOREM SettledIsFinalHolds ==
  ASSUME OneReconciler
  PROVE  Spec => SettledIsFinal
<1>1. Base /\ RecoveryInvariant /\ [Next]_vars =>
        [\A i \in Iterations : tool[i].phase \in ToolTerminalPhases =>
           /\ tool'[i].phase \in ToolTerminalPhases
           /\ tool[i].phase # "Denied" \/ Taken(i) => tool'[i] = tool[i]]_vars
  BY EveryStepMoves, MovesKeepSettled DEF RecoveryInvariant
<1> QED
  BY <1>1, RecoveryAlways, PTL DEF Spec, SettledIsFinal

-----------------------------------------------------------------------------
(* Approvals: what is open holds the run up *)

LEMMA NothingGuardsNothing == NoAction \notin Guarded
  BY DEF NoAction, Guarded, Use, Model, Write, Tool

LEMMA OpenApprovals ==
  /\ OpenApproval <=> \E g \in Guarded : Open(g)
  /\ OpenApproval' <=> \E g \in Guarded : Open(g)'
  BY DEF OpenApproval, Open

\* An approval that names the run is opened only by who asks for it so.
LEMMA AskOpens ==
  ASSUME Base, NEW g \in Guarded, NEW bound \in BOOLEAN, Ask(g, bound)
  PROVE  \A h \in Guarded : Open(h)' <=> \/ Open(h)
                                         \/ h = g /\ bound /\ approvals[g].phase = "None"
<1> SUFFICES ASSUME NEW h \in Guarded
             PROVE  Open(h)' <=> \/ Open(h)
                                 \/ h = g /\ bound /\ approvals[g].phase = "None"
  OBVIOUS
<1>1. approvals \in [Guarded -> [phase : {"None", "Pending", "Approved", "Rejected"},
                                 bound : BOOLEAN]]
  BY DEF Base, TypeOK
<1>2. CASE approvals[g].phase = "None"
  <2>1. approvals' = [approvals EXCEPT ![g] = [phase |-> "Pending", bound |-> bound]]
    BY <1>2 DEF Ask
  <2>2. approvals'[h] = IF h = g THEN [phase |-> "Pending", bound |-> bound] ELSE approvals[h]
    BY <1>1, <2>1
  <2>3. Open(g)' <=> bound
    <3>1. approvals'[g].bound = bound /\ approvals'[g] = [phase |-> "Pending", bound |-> bound]
      BY <1>1, <2>1
    <3>2. CASE bound = TRUE
      BY <3>1, <3>2 DEF Open
    <3>3. CASE bound = FALSE
      BY <3>1, <3>3 DEF Open
    <3> QED
      BY <3>2, <3>3
  <2>4. ~Open(g)
    BY <1>2 DEF Open
  <2>5. CASE h = g
    BY <1>2, <2>3, <2>4, <2>5
  <2>6. CASE h # g
    BY <2>2, <2>6 DEF Open
  <2> QED
    BY <2>5, <2>6
<1>3. CASE approvals[g].phase # "None"
  BY <1>3 DEF Ask, Open
<1> QED
  BY <1>2, <1>3

\* A decision closes the approval it is about, and no other.
LEMMA DecideCloses ==
  ASSUME Base, NEW g \in Guarded, NEW decision \in {"Approved", "Rejected"}, Decide(g, decision)
  PROVE  /\ \A h \in Guarded : Open(h)' <=> Open(h) /\ h # g
         /\ approvals[g].bound <=> Open(g)
<1>1. approvals \in [Guarded -> [phase : {"None", "Pending", "Approved", "Rejected"},
                                 bound : BOOLEAN]]
  BY DEF Base, TypeOK
<1>2. /\ approvals[g].phase = "Pending"
      /\ approvals' = [approvals EXCEPT ![g].phase = decision]
  BY DEF Decide
<1>3. approvals[g].bound <=> Open(g)
  BY <1>1, <1>2 DEF Open
<1>4. ASSUME NEW h \in Guarded
      PROVE  Open(h)' <=> Open(h) /\ h # g
  <2>1. approvals'[h].phase = IF h = g THEN decision ELSE approvals[h].phase
    BY <1>1, <1>2
  <2>2. h # g => approvals'[h] = approvals[h]
    BY <1>1, <1>2
  <2> QED
    BY <2>1, <2>2 DEF Open
<1> QED
  BY <1>3, <1>4

\* The run awaits the ToolInvocation of its frame.
LEMMA FrameAwaited ==
  ASSUME Base, FrameKnown, phase = "WaitingForTool"
  PROVE  Awaited(data) = data.frame.n
<1>1. data.state = "WaitingForTool"
  BY WaitingForToolKnows DEF Base, StateInvariant
<1> QED
  BY <1>1 DEF FrameKnown, Awaited

\* Where the run is while an approval is open.
LEMMA HeldUp ==
  ASSUME Base, FrameKnown, OpenKnown, NEW g \in Guarded, Open(g)
  PROVE  /\ data.pending = g
         /\ phase \in TerminalPhases \cup {"WaitingForApproval", "WaitingForTool"}
         /\ phase # "Succeeded"
         /\ phase = "WaitingForTool" => /\ Awaited(data) = data.frame.n
                                        /\ g = Tool(data.frame.n)
                                        /\ tool[data.frame.n].phase = "WaitingForApproval"
                                        /\ ~Startable(data.frame.n, "WaitingForApproval")
<1>1. data.state \notin {"none", "Succeeded"} /\ RunConsistent
  BY DEF OpenKnown, Base, StateInvariant
<1>2. phase # "Succeeded"
  BY <1>1 DEF RunConsistent, PersistedStateConsistent, PhaseFits
<1>3. phase = "WaitingForTool" => /\ g = Tool(data.frame.n)
                                  /\ tool[data.frame.n].phase = "WaitingForApproval"
  BY DEF OpenKnown, Terminal, TerminalPhases
<1>4. phase = "WaitingForTool" => approvals[Tool(data.frame.n)].phase = "Pending"
  BY <1>3 DEF Open
<1>5. phase = "WaitingForTool" => Awaited(data) = data.frame.n
  BY FrameAwaited
<1> QED
  BY <1>2, <1>3, <1>4, <1>5 DEF OpenKnown, Terminal, Startable, ApprovalPending

\* As long as nobody decides it, the run only ends.
HeldStill(g) ==
  /\ \A h \in Guarded : Open(h)' <=> Open(h)
  /\ data'.pending = data.pending
  /\ data'.state \in {data.state} \cup (TerminalPhases \ {"Succeeded"})
  /\ data'.frame.n = data.frame.n
  /\ phase' \in {phase} \cup (TerminalPhases \ {"Succeeded"})
  /\ Terminal => phase' = phase
  /\ phase = "WaitingForTool" => tool'[data.frame.n] = tool[data.frame.n]

LEMMA HeldStillBySame ==
  ASSUME NEW g, UNCHANGED <<phase, data>>, \A h \in Guarded : Open(h)' <=> Open(h),
         phase = "WaitingForTool" => tool'[data.frame.n] = tool[data.frame.n]
  PROVE  HeldStill(g)
  BY DEF HeldStill

LEMMA EngineHeldStill ==
  ASSUME Base, FrameKnown, OpenKnown, NEW g \in Guarded, Open(g),
         NEW r \in Reconcilers, EngineStep(r)
  PROVE  HeldStill(g)
<1>1. data \in Data /\ RunConsistent
  BY DEF Base, TypeOK, StateInvariant
<1>2. /\ phase \in TerminalPhases \cup {"WaitingForApproval", "WaitingForTool"}
      /\ phase = "WaitingForTool" => /\ tool[Awaited(data)].phase = "WaitingForApproval"
                                     /\ ~Startable(Awaited(data), "WaitingForApproval")
  BY HeldUp
<1>3. CancelRun(r) \/ TimeOutRun(r) \/ EndPass(r) \/ FailPass(r)
  <2>1. EngineTurn(r) => phase = "WaitingForTool"
    BY <1>2 DEF EngineTurn, TerminalPhases, ResumablePhases
  <2>2. ~StartTurn(r)
    BY <1>2 DEF StartTurn, ToolTurn
  <2>3. ~ObserveTool(r) /\ ~RefuseReplay(r)
    BY <1>2 DEF ObserveTool, RefuseReplay, ToolTurn, ToolTerminalPhases
  <2>4. /\ ~StartEngine(r) /\ ~PrepareExecution(r) /\ ~DecisionTurn(r) /\ ~ModelTurn(r)
        /\ ~AcceptDecision(r) /\ ~RejectDecision(r) /\ ~DeliverObservation(r) /\ ~FinalTurn(r)
        /\ \A d : ~DecisionIs(r, d)
    BY <2>1 DEF StartEngine, PrepareExecution, DecisionTurn, ModelTurn, AcceptDecision,
                RejectDecision, DeliverObservation, FinalTurn, DecisionIs
  <2> QED
    BY <2>2, <2>3, <2>4 DEF EngineStep, ExhaustIterations, ExhaustModelCalls, AwaitModelApproval,
         DenyModel, ExpireInFlight, RequestDecision, CreateToolInvocation, BeginFinalizing,
         FailByDecision, ParkTool, DenyTool, RefuseTool, StartTool, CompleteExecution,
         AwaitWriteApproval, FailFinalization
<1>4. UNCHANGED <<tool, approvals>>
  BY <1>3 DEF CancelRun, TimeOutRun, EndPass, FailPass
<1>5. CASE CancelRun(r) \/ TimeOutRun(r)
  <2> DEFINE e == [data EXCEPT !.active = NoModel]
  <2>1. e \in Data /\ e.frame = data.frame /\ e.pending = data.pending
    <3>1. e \in Data
      BY <1>1, FieldsTyped, NoDataTyped
    <3> QED
      BY <1>1, <3>1 DEF Data
  <2>2. \E p \in TerminalPhases \ {"Succeeded"} : Enter(p, data) \/ Enter(p, e)
    BY <1>5 DEF CancelRun, TimeOutRun, TerminalPhases
  <2> HIDE DEF e
  <2>3. /\ data'.frame = data.frame /\ data'.pending = data.pending
        /\ data'.state \in TerminalPhases \ {"Succeeded"} /\ phase' = data'.state
    BY <1>1, <2>1, <2>2, EnterCounts, EnterFields
  <2>4. ~Terminal
    BY <1>5 DEF CancelRun, TimeOutRun, Cancellable, Terminal, TerminalPhases, ResumablePhases
  <2> QED
    BY <1>4, <2>3, <2>4 DEF HeldStill, Open
<1>6. CASE EndPass(r) \/ FailPass(r)
  <2>1. data' = data /\ (phase' = phase \/ (~Terminal /\ phase' = "Failed"))
    BY <1>6 DEF EndPass, FailPass, Terminal, TerminalPhases, ResumablePhases
  <2> QED
    BY <1>4, <2>1 DEF HeldStill, Open, TerminalPhases
<1> QED
  BY <1>3, <1>5, <1>6

LEMMA OthersHeldStill ==
  ASSUME Base, SyncInvariant, ApprovalsInvariant, NEW g \in Guarded, Open(g),
         NEW r \in Reconcilers,
         \/ CallReturns(r)
         \/ \E i \in Iterations : ControllerStep(r, i)
         \/ CrashStep(r)
         \/ Schedule(r)
         \/ ListInvocations(r)
  PROVE  HeldStill(g)
<1>1. /\ phase \in TerminalPhases \cup {"WaitingForApproval", "WaitingForTool"}
      /\ phase = "WaitingForTool" => /\ Awaited(data) = data.frame.n
                                     /\ tool[data.frame.n].phase = "WaitingForApproval"
                                     /\ ~Startable(data.frame.n, "WaitingForApproval")
  BY HeldUp DEF ApprovalsInvariant, SyncInvariant
<1>2. pc[r] # "tool"
  BY OpenApprovals DEF ApprovalsInvariant, NothingOpen
<1>3. ~ModelFence(r)
  BY <1>1 DEF ModelFence, TerminalPhases
<1>4. EngineTurn(r) => phase = "WaitingForTool"
  BY <1>1 DEF EngineTurn, TerminalPhases, ResumablePhases
<1>5. CASE CallReturns(r)
  <2>1. DiscardModel(r) \/ \E outcome \in {"Succeeded", "Failed", "TimedOut"} :
                              ControllerSettles(r, outcome)
    BY <1>2, <1>3, <1>5
    DEF CallReturns, ModelAnswers, ModelTimesOut, ModelFails, ToolSucceeds, ToolFailureFenced,
        ToolTimesOut, ExhaustToolFailures, RetryTool, ToolFails, ToolErrorTurn
  <2>2. UNCHANGED <<phase, data, approvals>>
    BY <2>1 DEF DiscardModel, ControllerSettles
  <2>3. phase = "WaitingForTool" => tool'[data.frame.n] = tool[data.frame.n]
    <3>1. CASE DiscardModel(r)
      BY <3>1 DEF DiscardModel
    <3>2. ASSUME NEW outcome, ControllerSettles(r, outcome)
          PROVE  phase = "WaitingForTool" => tool'[data.frame.n] = tool[data.frame.n]
      <4>1. tool[snap[r].n].phase = "Running" /\ ToolBecomes(snap[r].n, outcome)
        BY <3>2 DEF ControllerSettles, SyncInvariant, ExecutorsRun, Executing
      <4>2. phase = "WaitingForTool" => data.frame.n # snap[r].n
        BY <1>1, <4>1
      <4> QED
        BY <4>1, <4>2 DEF ToolBecomes, Base, TypeOK
    <3> QED
      BY <2>1, <3>1, <3>2
  <2> QED
    BY <2>2, <2>3, HeldStillBySame DEF Open
<1>6. ASSUME NEW i \in Iterations,
             ControllerStep(r, i) \/ DieAfterAuthorize(r, i)
      PROVE  HeldStill(g)
  <2>1. /\ UNCHANGED <<phase, data>>
        /\ approvals' = approvals \/ Ask(Tool(i), FALSE)
        /\ tool' = tool \/ \E p : ToolBecomes(i, p)
    BY <1>6 DEF ControllerStep, FailRunningReplay, FenceInvocation, SkipWaiting,
                ControllerParks, ControllerRefuses, ControllerStarts, DieAfterAuthorize
  <2>2. \A h \in Guarded : Open(h)' <=> Open(h)
    <3>1. Tool(i) \in Guarded
      BY GuardedNamed
    <3> QED
      BY <2>1, <3>1, AskOpens DEF Open
  <2>3. \/ tool' = tool
        \/ Terminal
        \/ \E p : Visits(r, i, p) /\ (p = "Running" \/ Startable(i, p))
        \/ StartTurn(r) /\ i = Awaited(data)
    BY <1>6 DEF ControllerStep, FailRunningReplay, FenceInvocation, SkipWaiting,
                ControllerParks, ControllerRefuses, ControllerStarts, ControllerTurn,
                ParentFenced, DieAfterAuthorize
  <2>4. phase = "WaitingForTool" => tool' = tool \/ i # data.frame.n
    <3> SUFFICES ASSUME phase = "WaitingForTool", i = data.frame.n
                 PROVE  tool' = tool
      OBVIOUS
    <3>1. ~Terminal
      BY DEF Terminal, TerminalPhases
    <3>2. ~(StartTurn(r) /\ i = Awaited(data))
      BY <1>1 DEF StartTurn
    <3>3. ASSUME NEW p, Visits(r, i, p)
          PROVE  p # "Running" /\ ~Startable(i, p)
      <4>1. p = "WaitingForApproval"
        BY <1>1, <3>3 DEF Visits, SyncInvariant, ListsKnown, Listed
      <4> QED
        BY <1>1, <4>1
    <3> QED
      BY <2>3, <3>1, <3>2, <3>3
  <2>5. phase = "WaitingForTool" => tool'[data.frame.n] = tool[data.frame.n]
    <3>1. CASE tool' = tool
      BY <3>1
    <3>2. ASSUME NEW p, ToolBecomes(i, p), i # data.frame.n
          PROVE  tool'[data.frame.n] = tool[data.frame.n]
      BY <3>2 DEF ToolBecomes, Base, TypeOK
    <3> QED
      BY <2>1, <2>4, <3>1, <3>2
  <2> QED
    BY <2>1, <2>2, <2>5, HeldStillBySame
<1>7. CASE CrashStep(r)
  <2>1. Crash(r) \/ \E i \in Iterations : DieAfterAuthorize(r, i)
    BY <1>2, <1>4, <1>7 DEF CrashStep, DieAfterStart, DieAfterFrame, DecisionTurn,
         DieAfterToolApply, DecisionIs, DieAfterToolCall
  <2>2. CASE Crash(r)
    BY <2>2, HeldStillBySame DEF Crash, Open
  <2> QED
    BY <1>6, <2>1, <2>2
<1>8. CASE Schedule(r)
  BY <1>1, <1>8 DEF Schedule, TerminalPhases
<1>9. CASE ListInvocations(r)
  BY <1>9, HeldStillBySame DEF ListInvocations, Open
<1> QED
  BY <1>5, <1>6, <1>7, <1>8, <1>9

LEMMA UndecidedHeldStill ==
  ASSUME Base, SyncInvariant, ApprovalsInvariant, [Next]_vars, ~ApprovalStep,
         NEW g \in Guarded, Open(g)
  PROVE  HeldStill(g)
<1>1. CASE RequestCancel \/ ChangeContext \/ PassWallTime \/ PassDeadline \/ UNCHANGED vars
  <2>1. UNCHANGED <<phase, data, tool, approvals>>
    BY <1>1 DEF RequestCancel, ChangeContext, PassWallTime, PassDeadline, vars
  <2> QED
    BY <2>1, HeldStillBySame DEF Open
<1> QED
  BY <1>1, EngineHeldStill, OthersHeldStill DEF Next, ApprovalsInvariant, SyncInvariant

\* A run that nothing holds up asks for an approval, and then waits for it.
Asks(g) ==
  /\ ~Terminal
  /\ \A h \in Guarded : Open(h)' => h = g
  /\ data'.pending = g
  /\ data'.state \notin {"none", "Succeeded"}
  /\ \/ phase' = "WaitingForApproval"
     \/ /\ phase' = "WaitingForTool" /\ g = Tool(data'.frame.n)
        /\ tool'[data'.frame.n].phase = "WaitingForApproval"
  /\ \E r \in Reconcilers : pc'[r] = "ready"

LEMMA PauseAsks ==
  ASSUME Base, ~OpenApproval, ~Terminal, NEW r \in Reconcilers, NEW g \in Guarded,
         NEW d \in Data, d.state \notin {"none", "Succeeded"}, Pause(r, g, d)
  PROVE  Asks(g)
<1>1. data'.pending = g /\ data'.state = d.state /\ phase' = "WaitingForApproval"
  BY PauseFields, PauseCounts
<1>2. \A h \in Guarded : Open(h)' => h = g
  <2>1. Ask(g, TRUE)
    BY DEF Pause
  <2> QED
    BY <2>1, AskOpens, OpenApprovals
<1>3. pc'[r] = "ready"
  BY DEF Pause, Leave, Base, TypeOK
<1> QED
  BY <1>1, <1>2, <1>3 DEF Asks

LEMMA ParkAsks ==
  ASSUME Base, FrameKnown, ~OpenApproval, NEW r \in Reconcilers, ParkTool(r)
  PROVE  \E g \in Guarded : Asks(g)
<1> DEFINE n == data.frame.n
           g == Tool(n)
<1>1. /\ phase = "WaitingForTool" /\ phase' = phase
      /\ ToolBecomes(n, "WaitingForApproval") /\ Ask(g, TRUE) /\ Leave(r)
      /\ data' = [data EXCEPT !.pending = g]
  BY FrameAwaited DEF ParkTool, StartTurn, ToolTurn
<1>2. data \in Data /\ RunConsistent
  BY DEF Base, TypeOK, StateInvariant
<1>3. n \in Iterations /\ data.state = "WaitingForTool"
  BY <1>1, <1>2, FrameAwaited, WaitingForToolKnows DEF Base
<1>4. g \in Guarded
  BY <1>3, GuardedNamed
<1>5. data'.pending = g /\ data'.state = "WaitingForTool" /\ data'.frame = data.frame
  BY <1>1, <1>2, <1>3 DEF Data
<1>6. tool'[n].phase = "WaitingForApproval"
  BY <1>1, <1>3, ToolBecomesFields, OpenPhases DEF Base
<1>7. \A h \in Guarded : Open(h)' => h = g
  BY <1>1, <1>4, AskOpens, OpenApprovals
<1>8. pc'[r] = "ready"
  BY <1>1 DEF Leave, Base, TypeOK
<1>9. ~Terminal
  BY <1>1 DEF Terminal, TerminalPhases
<1> HIDE DEF g
<1> QED
  BY <1>1, <1>4, <1>5, <1>6, <1>7, <1>8, <1>9 DEF Asks, g

LEMMA EngineAsks ==
  ASSUME Base, FrameKnown, ~OpenApproval, NEW r \in Reconcilers, EngineStep(r)
  PROVE  approvals' = approvals \/ \E g \in Guarded : Asks(g)
<1>1. data \in Data /\ RunConsistent
  BY DEF Base, TypeOK, StateInvariant
<1>2. CASE StartEngine(r)
  <2>1. approvals' = approvals \/ \E k \in 1..DeclaredTools : Pause(r, Use(k), Started)
    BY <1>2 DEF StartEngine
  <2>2. Started \in Data /\ Started.state = "Starting"
    BY <1>1, StartedTyped, StartedFields
  <2>3. ~Terminal
    BY <1>2 DEF StartEngine, Terminal, TerminalPhases
  <2> QED
    BY <2>1, <2>2, <2>3, PauseAsks, GuardedNamed
<1>3. CASE AwaitModelApproval(r)
  <2>1. phase = "AwaitingDecision" /\ IterationLeft /\ Pause(r, Model, Opened)
    BY <1>3 DEF AwaitModelApproval, ModelTurn, DecisionTurn
  <2>2. data.state = "AwaitingDecision"
    BY <1>1, <2>1, RunSound DEF Base, ResumablePhases
  <2>3. Opened \in Data /\ Opened.state = "AwaitingDecision"
    BY <1>1, <2>1, <2>2, OpenedTyped, OpenedFields
  <2>4. ~Terminal
    BY <2>1 DEF Terminal, TerminalPhases
  <2> QED
    BY <2>1, <2>3, <2>4, PauseAsks, GuardedNamed
<1>4. CASE AwaitWriteApproval(r)
  <2>1. phase = "Finalizing" /\ Pause(r, Write, data)
    BY <1>4 DEF AwaitWriteApproval, FinalTurn
  <2>2. data.state = "Finalizing"
    BY <1>1, <2>1, RunSound DEF Base, ResumablePhases
  <2>3. ~Terminal
    BY <2>1 DEF Terminal, TerminalPhases
  <2> QED
    BY <1>1, <2>1, <2>2, <2>3, PauseAsks, GuardedNamed
<1>5. CASE ParkTool(r)
  BY <1>5, ParkAsks
<1>6. CASE ~(\/ StartEngine(r) \/ AwaitModelApproval(r) \/ AwaitWriteApproval(r) \/ ParkTool(r))
  BY <1>6 DEF EngineStep, CancelRun, TimeOutRun, PrepareExecution, ExhaustIterations,
       ExhaustModelCalls, DenyModel, ExpireInFlight, RequestDecision,
       AcceptDecision, RejectDecision, CreateToolInvocation, BeginFinalizing, FailByDecision,
       ObserveTool, RefuseReplay, DenyTool, RefuseTool, StartTool, DeliverObservation,
       CompleteExecution, FailFinalization, EndPass, FailPass
<1> QED
  BY <1>2, <1>3, <1>4, <1>5, <1>6

\* A decision that is not about the run leaves the run alone.
LEMMA ClosedDecision ==
  ASSUME Base, ~OpenApproval, ApprovalStep
  PROVE  UNCHANGED <<phase, data, tool, pc, snap>> /\ ~OpenApproval'
<1>1. ASSUME NEW g \in Guarded, NEW decision \in {"Approved", "Rejected"}, Decide(g, decision)
      PROVE  ~approvals[g].bound /\ ~OpenApproval'
  BY <1>1, DecideCloses, OpenApprovals
<1>2. ASSUME NEW g \in Guarded, Approve(g) \/ RejectTerminate(g)
      PROVE  UNCHANGED <<phase, data, tool, pc, snap>> /\ ~OpenApproval'
  BY <1>1, <1>2 DEF Approve, RejectTerminate
<1>3. ASSUME NEW i \in Iterations, RejectContinue(i)
      PROVE  FALSE
  BY <1>1, <1>3, GuardedNamed DEF RejectContinue
<1> QED
  BY <1>2, <1>3 DEF ApprovalStep

LEMMA ClosedStep ==
  ASSUME Base, SyncInvariant, ~OpenApproval, [Next]_vars
  PROVE  ~OpenApproval' \/ \E g \in Guarded : Asks(g)
<1>1. ASSUME NEW r \in Reconcilers,
             Schedule(r) \/ ListInvocations(r) \/ CallReturns(r) \/ CrashStep(r)
      PROVE  approvals' = approvals
  BY <1>1 DEF Schedule, ListInvocations, CallReturns, DiscardModel, ModelAnswers, ModelTimesOut, ModelFails,
              ToolSucceeds, ToolFailureFenced, ToolTimesOut, ExhaustToolFailures, RetryTool,
              ToolFails, ControllerSettles, CrashStep, Crash, DieAfterStart, DieAfterFrame,
              DieAfterToolApply, DieAfterAuthorize, DieAfterToolCall
<1>2. ASSUME NEW r \in Reconcilers, NEW i \in Iterations, ControllerStep(r, i)
      PROVE  ~OpenApproval'
  <2>1. approvals' = approvals \/ Ask(Tool(i), FALSE)
    BY <1>2 DEF ControllerStep, FailRunningReplay, FenceInvocation, SkipWaiting,
                ControllerParks, ControllerRefuses, ControllerStarts
  <2>2. CASE approvals' = approvals
    BY <2>2 DEF OpenApproval
  <2>3. CASE Ask(Tool(i), FALSE)
    BY <2>3, AskOpens, GuardedNamed, OpenApprovals
  <2> QED
    BY <2>1, <2>2, <2>3
<1>3. CASE RequestCancel \/ ChangeContext \/ PassWallTime \/ PassDeadline \/ UNCHANGED vars
  BY <1>3 DEF RequestCancel, ChangeContext, PassWallTime, PassDeadline, vars, OpenApproval
<1>4. approvals' = approvals => ~OpenApproval'
  BY DEF OpenApproval
<1> QED
  BY <1>1, <1>2, <1>3, <1>4, EngineAsks, ClosedDecision DEF Next, SyncInvariant

\* A decision on the approval that holds the run up lets it go.
LEMMA OpenDecision ==
  ASSUME Base, OpenKnown, NEW g \in Guarded, Open(g), ApprovalStep
  PROVE  \/ /\ UNCHANGED <<phase, data, tool, pc>>
            /\ \A h \in Guarded : Open(h)' <=> Open(h)
         \/ /\ ~OpenApproval'
            /\ pc' = pc
            /\ data'.state # "none"
            /\ \/ /\ phase' = data.state /\ data'.pending = NoAction
                  /\ data'.state = data.state
               \/ phase' = "Failed" /\ data'.pending = NoAction /\ data'.state = data.state
               \/ ~Terminal /\ phase' \in {"WaitingForTool", "BudgetExceeded"}
<1>1. data \in Data /\ data.state # "none"
  BY DEF Base, TypeOK, OpenKnown
<1>2. \A h \in Guarded : Open(h) => h = g
  BY DEF OpenKnown
<1>3. ASSUME NEW h \in Guarded, Approve(h) \/ RejectTerminate(h), ~approvals[h].bound
      PROVE  /\ UNCHANGED <<phase, data, tool, pc>>
             /\ \A k \in Guarded : Open(k)' <=> Open(k)
  <2>1. \E decision \in {"Approved", "Rejected"} : Decide(h, decision)
    BY <1>3 DEF Approve, RejectTerminate
  <2>2. UNCHANGED <<phase, data, tool, pc>>
    BY <1>3 DEF Approve, RejectTerminate
  <2> QED
    BY <1>3, <2>1, <2>2, DecideCloses
<1>4. ASSUME NEW h \in Guarded, NEW decision \in {"Approved", "Rejected"}, Decide(h, decision),
             approvals[h].bound
      PROVE  ~OpenApproval'
  BY <1>2, <1>4, DecideCloses, OpenApprovals
<1>5. ASSUME NEW h \in Guarded, Approve(h) \/ RejectTerminate(h), approvals[h].bound
      PROVE  /\ ~OpenApproval' /\ pc' = pc /\ data'.state = data.state
             /\ data'.pending = NoAction /\ phase' \in {data.state, "Failed"}
  <2>1. \E decision \in {"Approved", "Rejected"} : Decide(h, decision)
    BY <1>5 DEF Approve, RejectTerminate
  <2>2. /\ data' = [data EXCEPT !.pending = NoAction] /\ pc' = pc
        /\ phase' \in {data.state, "Failed"}
    BY <1>1, <1>5 DEF Approve, RejectTerminate
  <2>3. data'.state = data.state /\ data'.pending = NoAction
    BY <1>1, <2>2 DEF Data
  <2> QED
    BY <1>4, <1>5, <2>1, <2>2, <2>3
<1>6. ASSUME NEW i \in Iterations, RejectContinue(i)
      PROVE  /\ ~OpenApproval' /\ pc' = pc /\ data'.state # "none" /\ ~Terminal
             /\ phase' \in {"WaitingForTool", "BudgetExceeded"}
  <2> DEFINE denied == CountToolFailure(data)
  <2>1. /\ Decide(Tool(i), "Rejected") /\ approvals[Tool(i)].bound /\ ~Terminal /\ pc' = pc
        /\ \/ Enter("WaitingForTool", denied)
           \/ phase' = "BudgetExceeded" /\ data' = denied
    BY <1>6 DEF RejectContinue
  <2>2. denied \in Data /\ denied.state = data.state
    BY <1>1, CountToolFailureTyped, CountToolFailureFields
  <2>3. data'.state # "none" /\ phase' \in {"WaitingForTool", "BudgetExceeded"}
    BY <1>1, <2>1, <2>2, EnterFields
  <2> QED
    BY <1>4, <2>1, <2>3, GuardedNamed
<1> QED
  BY <1>1, <1>3, <1>5, <1>6 DEF ApprovalStep

LEMMA OpenStaysKnown ==
  ASSUME Base, SyncInvariant, ApprovalsInvariant, [Next]_vars
  PROVE  OpenKnown'
<1>1. ASSUME NEW g \in Guarded, Open(g), ~ApprovalStep
      PROVE  OpenKnown'
  <2>1. HeldStill(g)
    BY <1>1, UndecidedHeldStill
  <2> SUFFICES ASSUME NEW h \in Guarded, Open(h)'
               PROVE  /\ data'.pending = h
                      /\ data'.state \notin {"none", "Succeeded"}
                      /\ \/ Terminal'
                         \/ phase' = "WaitingForApproval"
                         \/ /\ phase' = "WaitingForTool" /\ h = Tool(data'.frame.n)
                            /\ tool'[data'.frame.n].phase = "WaitingForApproval"
    BY DEF OpenKnown
  <2>2. Open(h)
    BY <2>1 DEF HeldStill
  <2>3. /\ data.pending = h
        /\ data.state \notin {"none", "Succeeded"}
        /\ \/ Terminal
           \/ phase = "WaitingForApproval"
           \/ /\ phase = "WaitingForTool" /\ h = Tool(data.frame.n)
              /\ tool[data.frame.n].phase = "WaitingForApproval"
    BY <2>2 DEF ApprovalsInvariant, OpenKnown
  <2>4. data'.pending = h /\ data'.state \notin {"none", "Succeeded"}
    BY <2>1, <2>3 DEF HeldStill, TerminalPhases
  <2> QED
    BY <2>1, <2>3, <2>4 DEF HeldStill, Terminal
<1>2. ASSUME NEW g \in Guarded, Open(g), ApprovalStep
      PROVE  OpenKnown'
  <2>1. CASE ~OpenApproval'
    BY <2>1, OpenApprovals DEF OpenKnown
  <2>2. CASE /\ UNCHANGED <<phase, data, tool>>
             /\ \A h \in Guarded : Open(h)' <=> Open(h)
    BY <2>2 DEF ApprovalsInvariant, OpenKnown, Terminal
  <2> QED
    BY <1>2, <2>1, <2>2, OpenDecision DEF ApprovalsInvariant
<1>3. CASE ~OpenApproval
  <2>1. ASSUME NEW g \in Guarded, Asks(g)
        PROVE  OpenKnown'
    BY <2>1 DEF Asks, OpenKnown
  <2>2. CASE ~OpenApproval'
    BY <2>2, OpenApprovals DEF OpenKnown
  <2> QED
    BY <1>3, <2>1, <2>2, ClosedStep
<1> QED
  BY <1>1, <1>2, <1>3, OpenApprovals

\* Only a run that was not started has no executionState.
LEMMA NotStartedKept ==
  ASSUME Base, Base', SyncInvariant, ApprovalsInvariant, [Next]_vars, data'.state = "none"
  PROVE  data' = data
<1>1. data \in Data /\ RunConsistent /\ RunConsistent' /\ Sound(data)
  BY RunSound DEF Base, TypeOK, StateInvariant
<1>2. phase' \in {"Pending", "Scheduled", "Failed"} /\ data'.frame.n = 0
  BY <1>1 DEF RunConsistent, PersistedStateConsistent, PhaseFits, FrameFits, NoFrame
<1>3. data.frame = NoFrame
  <2>1. Move /\ data.frame.n \in Nat
    BY EveryStepMoves, CountersTyped DEF Base
  <2>2. data.frame.n = 0
    BY <1>2, <2>1, MoveOfFrames DEF NewFrame
  <2> QED
    BY <1>1, <2>2 DEF Sound
<1>4. data.state \notin {"DecisionReady", "ProcessingDecision", "WaitingForTool",
                         "WaitingForObservation", "Finalizing"}
  BY <1>1, <1>3 DEF RunConsistent, PersistedStateConsistent, FrameFits, NoFrame, ActiveToolFits,
                    Awaited
<1>5. phase \notin {"DecisionReady", "ProcessingDecision", "WaitingForTool",
                    "WaitingForObservation", "Finalizing"}
  BY <1>1, <1>4, RunSound DEF Base, ResumablePhases
<1>6. ASSUME NEW r \in Reconcilers, EngineStep(r)
      PROVE  data' = data
  <2>1. ~Fail(Started) /\ ~Fail(data)
    BY <1>1, StartedTyped, FailFields
  <2>2. ~(phase = "AwaitingDecision" /\ IterationLeft /\ Fail(Opened))
    BY <1>1, OpenedTyped, FailFields
  <2>3. /\ ~StartEngine(r) /\ ~PrepareExecution(r) /\ ~DenyModel(r)
    BY <1>2, <2>1, <2>2 DEF StartEngine, PrepareExecution, DenyModel, ModelTurn, DecisionTurn,
                            Enter, Pause
  <2>4. /\ ~CancelRun(r) /\ ~TimeOutRun(r) /\ ~ExhaustIterations(r) /\ ~ExhaustModelCalls(r)
        /\ ~AwaitModelApproval(r) /\ ~ExpireInFlight(r) /\ ~RequestDecision(r)
    BY <1>2 DEF CancelRun, TimeOutRun, ExhaustIterations, ExhaustModelCalls, AwaitModelApproval,
                ExpireInFlight, RequestDecision, ModelTurn, DecisionTurn, Enter, Pause
  <2>5. EndPass(r) \/ FailPass(r)
    BY <1>5, <1>6, <2>3, <2>4
    DEF EngineStep, AcceptDecision, RejectDecision, CreateToolInvocation, BeginFinalizing,
        FailByDecision, ObserveTool, RefuseReplay, ParkTool, DenyTool, RefuseTool, StartTool,
        DeliverObservation, CompleteExecution, AwaitWriteApproval, FailFinalization,
        DecisionIs, StartTurn, ToolTurn, FinalTurn
  <2> QED
    BY <2>5 DEF EndPass, FailPass
<1>7. ASSUME NEW r \in Reconcilers
      PROVE  pc[r] # "tool" /\ (pc[r] = "model" => ~ModelFence(r))
  <2>1. pc[r] # "tool"
    BY <1>4 DEF SyncInvariant, CallsInSync
  <2>2. pc[r] = "model" => snap[r].inv # NoModel
    BY DEF Base, StateInvariant, CallsConsistent
  <2> QED
    BY <1>1, <1>3, <2>1, <2>2 DEF ModelFence, Sound
<1>8. ASSUME NEW r \in Reconcilers, CallReturns(r)
      PROVE  data' = data
  BY <1>7, <1>8 DEF CallReturns, DiscardModel, ModelAnswers, ModelTimesOut, ModelFails,
       ToolSucceeds, ToolFailureFenced, ToolTimesOut, ExhaustToolFailures, RetryTool, ToolFails,
       ToolErrorTurn, ControllerSettles
<1>9. ASSUME NEW r \in Reconcilers, CrashStep(r)
      PROVE  data' = data
  <2>1. ~DieAfterStart(r) /\ ~DieAfterFrame(r)
    BY <1>2 DEF DieAfterStart, DieAfterFrame, DecisionTurn, Enter
  <2> QED
    BY <1>7, <1>9, <2>1 DEF CrashStep, Crash, DieAfterToolApply, DieAfterAuthorize,
                            DieAfterToolCall
<1>10. ASSUME NEW r \in Reconcilers,
              \/ Schedule(r) \/ ListInvocations(r)
              \/ \E i \in Iterations : ControllerStep(r, i)
       PROVE  data' = data
  BY <1>10 DEF Schedule, ListInvocations, ControllerStep, FailRunningReplay, FenceInvocation,
               SkipWaiting, ControllerParks, ControllerRefuses, ControllerStarts
<1>11. CASE RequestCancel \/ ChangeContext \/ PassWallTime \/ PassDeadline \/ UNCHANGED vars
  BY <1>11 DEF RequestCancel, ChangeContext, PassWallTime, PassDeadline, vars
<1>12. CASE ApprovalStep
  BY <1>12, ClosedDecision, OpenDecision, OpenApprovals DEF ApprovalsInvariant
<1> QED
  BY <1>6, <1>8, <1>9, <1>10, <1>11, <1>12 DEF Next

\* No tool is executed while an approval is open.
LEMMA ExecutedAlone ==
  ASSUME OneReconciler, Base, SyncInvariant, ApprovalsInvariant, [Next]_vars,
         NEW r \in Reconcilers, pc'[r] = "tool"
  PROVE  ~OpenApproval'
<1>1. CASE ~OpenApproval
  <2>1. \A q \in Reconcilers : q = r
    BY DEF OneReconciler
  <2>2. \A g \in Guarded : ~Asks(g)
    BY <2>1 DEF Asks
  <2> QED
    BY <1>1, <2>2, ClosedStep
<1>2. ASSUME NEW g \in Guarded, Open(g)
      PROVE  FALSE
  <2>1. pc[r] # "tool" /\ Executing(r)'
    BY <1>2, OpenApprovals DEF ApprovalsInvariant, NothingOpen, Executing
  <2>2. ~StartTool(r)
    BY <1>2, HeldUp DEF StartTool, StartTurn, ToolTurn, ApprovalsInvariant, SyncInvariant
  <2>3. \A i \in Iterations : ~ControllerStarts(r, i)
    <3>1. ASSUME NEW i \in Iterations, ControllerStarts(r, i)
          PROVE  pc'[r] = "tic"
      BY <3>1 DEF ControllerStarts, Await, Base, TypeOK
    <3> QED
      BY <3>1
  <2>4. Executing(r)
    BY <2>1, <2>2, <2>3, CallBegins
  <2>5. ~RetryTool(r)
    BY <2>1 DEF RetryTool, ToolErrorTurn
  <2>6. ApprovalStep \/ pc' = pc
    BY <2>1, <2>4, <2>5, OneAtATime, CallEnds
  <2>7. ApprovalStep => pc' = pc
    BY DEF ApprovalStep, Approve, RejectTerminate, RejectContinue
  <2> QED
    BY <2>1, <2>6, <2>7
<1> QED
  BY <1>1, <1>2, OpenApprovals

LEMMA ApprovalsKept ==
  ASSUME OneReconciler, Base, Base', SyncInvariant, ApprovalsInvariant, [Next]_vars
  PROVE  ApprovalsInvariant'
<1>1. OpenKnown'
  BY OpenStaysKnown
<1>2. data'.state = "none" => data'.pending = NoAction
  BY NotStartedKept DEF ApprovalsInvariant, NothingOpen
<1>3. \A r \in Reconcilers : pc'[r] = "tool" => ~OpenApproval'
  BY ExecutedAlone
<1> QED
  BY <1>1, <1>2, <1>3 DEF ApprovalsInvariant, NothingOpen

LEMMA ApprovalsAlways ==
  ASSUME OneReconciler
  PROVE  Spec => [](Base /\ SyncInvariant /\ ApprovalsInvariant)
<1>1. Init => ApprovalsInvariant
  <2> SUFFICES ASSUME Init
               PROVE  ApprovalsInvariant
    OBVIOUS
  <2>1. \A g \in Guarded : ~Open(g)
    BY DEF Init, Open
  <2>2. data.pending = NoAction
    BY DEF Init, NoData
  <2> QED
    BY <2>1, <2>2, OpenApprovals DEF ApprovalsInvariant, OpenKnown, NothingOpen
<1>2. Base /\ Base' /\ SyncInvariant /\ ApprovalsInvariant /\ [Next]_vars => ApprovalsInvariant'
  BY ApprovalsKept
<1>3. Base /\ RecoveryInvariant => SyncInvariant
  BY DEF RecoveryInvariant
<1> QED
  BY <1>1, <1>2, <1>3, RecoveryAlways, PTL DEF Spec

-----------------------------------------------------------------------------
(* The refinement: what the AgentController sees of the run *)

\* Seen, case by case.
SeenKnown ==
  /\ phase = "Succeeded" => Seen = "Succeeded"
  /\ Terminal /\ phase # "Succeeded" /\ OpenApproval => Seen = "Undecided"
  /\ Terminal /\ phase # "Succeeded" /\ ~OpenApproval => Seen = "Failed"
  /\ ~Terminal /\ (phase = "WaitingForApproval" \/ data.pending # NoAction) =>
       Seen = "WaitingForApproval"
  /\ phase = "Pending" /\ data.pending = NoAction => Seen = "Pending"
  /\ ~Terminal /\ phase \notin {"WaitingForApproval", "Pending"} /\ data.pending = NoAction =>
       Seen = "Scheduled"

LEMMA SeenIs == SeenKnown /\ SeenKnown'
<1>1. SeenKnown
  BY DEF SeenKnown, Seen, Terminal, TerminalPhases
<1>2. SeenKnown'
  BY DEF SeenKnown, Seen, Terminal, TerminalPhases
<1> QED
  BY <1>1, <1>2

\* Nobody waits for anything of a run that is Pending.
LEMMA PendingUnasked ==
  ASSUME Base, ApprovalsInvariant, phase = "Pending"
  PROVE  data.state = "none" /\ data.pending = NoAction /\ ~OpenApproval
<1>1. data.state = "none"
  BY DEF Base, StateInvariant, RunConsistent, PersistedStateConsistent, PhaseFits
<1>2. ~OpenApproval
  BY <1>1, OpenApprovals DEF ApprovalsInvariant, OpenKnown
<1> QED
  BY <1>1, <1>2 DEF ApprovalsInvariant, NothingOpen

\* The run is Pending until it is scheduled, and never again.
LEMMA PendingStep ==
  ASSUME Base, Base', SyncInvariant, ApprovalsInvariant, [Next]_vars
  PROVE  /\ phase' = "Pending" => phase = "Pending"
         /\ phase = "Pending" => phase' \in {"Pending", "Scheduled"} /\ data' = data
<1>1. /\ data \in Data /\ RunConsistent /\ RunConsistent'
      /\ phase = "Pending" => data.state = "none"
  BY DEF Base, TypeOK, StateInvariant, RunConsistent, PersistedStateConsistent, PhaseFits
<1>2. phase' = "Pending" => data'.state = "none"
  BY <1>1 DEF RunConsistent, PersistedStateConsistent, PhaseFits
<1>3. phase' = "Pending" => data' = data
  BY <1>2, NotStartedKept
<1>4. CASE ApprovalStep
  <2>1. CASE ~OpenApproval
    BY <1>4, <2>1, ClosedDecision
  <2>2. ASSUME NEW g \in Guarded, Open(g)
        PROVE  phase' # "Pending" \/ phase' = phase
    BY <1>2, <1>4, <2>2, OpenDecision DEF ApprovalsInvariant
  <2> QED
    BY <2>1, <2>2, PendingUnasked, OpenApprovals
<1>5. ASSUME NEW r \in Reconcilers, EngineStep(r)
      PROVE  /\ phase' = "Pending" => phase = "Pending"
             /\ phase = "Pending" => phase' = phase /\ data' = data
  <2>1. phase' # "Pending" \/ phase' = phase
    BY <1>5 DEF EngineStep, CancelRun, TimeOutRun, StartEngine, PrepareExecution,
         ExhaustIterations, ExhaustModelCalls, AwaitModelApproval, DenyModel, ExpireInFlight,
         RequestDecision, AcceptDecision, RejectDecision, CreateToolInvocation, BeginFinalizing,
         FailByDecision, ObserveTool, RefuseReplay, ParkTool, DenyTool, RefuseTool, StartTool,
         DeliverObservation, CompleteExecution, AwaitWriteApproval, FailFinalization, EndPass,
         FailPass, Enter, Fail, Pause, Observe
  <2>2. phase = "Pending" => ~EngineTurn(r)
    BY DEF EngineTurn, ResumablePhases
  <2>3. phase = "Pending" => EndPass(r)
    <3> SUFFICES ASSUME phase = "Pending"
                 PROVE  EndPass(r)
      OBVIOUS
    <3>1. ~CancelRun(r) /\ ~TimeOutRun(r) /\ ~FailPass(r)
      BY DEF CancelRun, Cancellable, TimeOutRun, FailPass, ResumablePhases
    <3> QED
      BY <1>5, <2>2, <3>1 DEF EngineStep, StartEngine, PrepareExecution,
         ExhaustIterations, ExhaustModelCalls, AwaitModelApproval, DenyModel, ExpireInFlight,
         RequestDecision, AcceptDecision, RejectDecision, CreateToolInvocation, BeginFinalizing,
         FailByDecision, ObserveTool, RefuseReplay, ParkTool, DenyTool, RefuseTool, StartTool,
         DeliverObservation, CompleteExecution, AwaitWriteApproval, FailFinalization,
         ModelTurn, DecisionTurn, DecisionIs, StartTurn, ToolTurn, FinalTurn
  <2> QED
    BY <2>1, <2>3 DEF EndPass
<1>6. ASSUME NEW r \in Reconcilers, CallReturns(r)
      PROVE  /\ phase' = "Pending" => phase = "Pending"
             /\ phase = "Pending" => phase' = phase /\ data' = data
  <2>1. phase' # "Pending" \/ phase' = phase
    BY <1>6 DEF CallReturns, DiscardModel, ModelAnswers, ModelTimesOut, ModelFails, ToolSucceeds,
         ToolFailureFenced, ToolTimesOut, ExhaustToolFailures, RetryTool, ToolFails,
         ControllerSettles, Enter, Fail, Resume
  <2>2. phase = "Pending" => DiscardModel(r) \/ \E outcome : ControllerSettles(r, outcome)
    <3>1. phase = "Pending" => pc[r] # "tool" /\ ~ModelFence(r)
      BY <1>1 DEF SyncInvariant, CallsInSync, ModelFence
    <3> QED
      BY <1>6, <3>1 DEF CallReturns, ModelAnswers, ModelTimesOut, ModelFails,
         ToolSucceeds, ToolFailureFenced, ToolTimesOut, ExhaustToolFailures, RetryTool, ToolFails,
         ToolErrorTurn
  <2> QED
    BY <2>1, <2>2 DEF DiscardModel, ControllerSettles
<1>7. ASSUME NEW r \in Reconcilers, CrashStep(r)
      PROVE  /\ phase' = "Pending" => phase = "Pending"
             /\ phase = "Pending" => phase' = phase /\ data' = data
  <2>1. phase' # "Pending" \/ phase' = phase
    BY <1>7 DEF CrashStep, Crash, DieAfterStart, DieAfterFrame, DieAfterToolApply,
                DieAfterAuthorize, DieAfterToolCall, Enter
  <2>2. phase = "Pending" => pc[r] # "tool" /\ ~EngineTurn(r)
    BY <1>1 DEF SyncInvariant, CallsInSync, EngineTurn, ResumablePhases
  <2>3. phase = "Pending" => Crash(r) \/ \E i \in Iterations : DieAfterAuthorize(r, i)
    BY <1>7, <2>2 DEF CrashStep, DieAfterStart, DieAfterFrame, DecisionTurn, DieAfterToolApply,
                      DecisionIs, DieAfterToolCall
  <2> QED
    BY <2>1, <2>3 DEF Crash, DieAfterAuthorize
<1>8. ASSUME NEW r \in Reconcilers,
             ListInvocations(r) \/ \E i \in Iterations : ControllerStep(r, i)
      PROVE  UNCHANGED <<phase, data>>
  BY <1>8 DEF ListInvocations, ControllerStep, FailRunningReplay, FenceInvocation, SkipWaiting,
              ControllerParks, ControllerRefuses, ControllerStarts
<1>9. CASE \E r \in Reconcilers : Schedule(r)
  BY <1>9 DEF Schedule
<1>10. CASE RequestCancel \/ ChangeContext \/ PassWallTime \/ PassDeadline \/ UNCHANGED vars
  BY <1>10 DEF RequestCancel, ChangeContext, PassWallTime, PassDeadline, vars
<1> QED
  BY <1>4, <1>5, <1>6, <1>7, <1>8, <1>9, <1>10 DEF Next

\* A run that is over and waits for nobody stays what it is.
LEMMA EndedSeen ==
  ASSUME Base, SyncInvariant, ApprovalsInvariant, [Next]_vars, Terminal, ~OpenApproval
  PROVE  phase' = phase /\ Seen' = Seen
<1>1. phase' = phase
  BY EndedStep, ClosedDecision
<1>2. ~OpenApproval'
  BY ClosedStep DEF Asks
<1> QED
  BY <1>1, <1>2, SeenIs DEF SeenKnown, Terminal

\* A run that is over but not decided ends or comes back with the decision.
LEMMA UndecidedSeen ==
  ASSUME Base, SyncInvariant, ApprovalsInvariant, [Next]_vars, Terminal,
         NEW g \in Guarded, Open(g)
  PROVE  Seen = "Undecided" /\ Seen' \in {"Undecided", "Failed", "Scheduled"}
<1>1. phase # "Succeeded" /\ Seen = "Undecided" /\ RunConsistent
      /\ data.state \notin {"none", "Succeeded"}
  BY HeldUp, OpenApprovals, SeenIs
  DEF SeenKnown, ApprovalsInvariant, SyncInvariant, OpenKnown, Base, StateInvariant
<1>2. CASE ~ApprovalStep
  <2>1. HeldStill(g)
    BY <1>2, UndecidedHeldStill
  <2>2. phase' = phase /\ OpenApproval'
    BY <2>1, OpenApprovals DEF HeldStill
  <2> QED
    BY <1>1, <2>2, SeenIs DEF SeenKnown, Terminal
<1>3. CASE phase' = phase /\ \A h \in Guarded : Open(h)' <=> Open(h)
  BY <1>1, <1>3, OpenApprovals, SeenIs DEF SeenKnown, Terminal
<1>4. CASE ~OpenApproval' /\ phase' = "Failed"
  BY <1>1, <1>4, SeenIs DEF SeenKnown, Terminal, TerminalPhases
<1>5. CASE ~OpenApproval' /\ phase' = data.state /\ data'.pending = NoAction
  <2>1. data.state \notin {"Pending", "WaitingForApproval"}
    BY <1>1 DEF RunConsistent
  <2> QED
    BY <1>1, <1>5, <2>1, SeenIs DEF SeenKnown, Terminal
<1> QED
  BY <1>2, <1>3, <1>4, <1>5, OpenDecision DEF ApprovalsInvariant

\* A run that is not over moves on, ends, or waits.
LEMMA LiveSeen ==
  ASSUME Base, Base', SyncInvariant, ApprovalsInvariant, ApprovalsInvariant', [Next]_vars,
         ~Terminal, phase # "Pending"
  PROVE  /\ Seen \in {"Scheduled", "WaitingForApproval"}
         /\ Seen' \in {"Scheduled", "WaitingForApproval", "Succeeded", "Failed", "Undecided"}
         /\ Seen' = "Undecided" => Seen = "WaitingForApproval"
<1>1. Seen \in {"Scheduled", "WaitingForApproval"}
  BY SeenIs DEF SeenKnown
<1>2. phase' # "Pending"
  BY PendingStep
<1>3. Seen' \in {"Scheduled", "WaitingForApproval", "Succeeded", "Failed", "Undecided"}
  BY <1>2, SeenIs DEF SeenKnown, Terminal, TerminalPhases
<1>4. ASSUME Seen' = "Undecided"
      PROVE  Seen = "WaitingForApproval"
  <2>1. Terminal' /\ OpenApproval'
    BY <1>2, <1>4, SeenIs DEF SeenKnown
  <2>2. OpenApproval
    <3>1. ASSUME NEW g \in Guarded, Asks(g)
          PROVE  ~Terminal'
      BY <3>1 DEF Asks, Terminal, TerminalPhases
    <3> QED
      BY <2>1, <3>1, ClosedStep
  <2>3. PICK g \in Guarded : Open(g)
    BY <2>2, OpenApprovals
  <2>4. data.pending # NoAction
    BY <2>3, HeldUp, NothingGuardsNothing DEF ApprovalsInvariant, SyncInvariant
  <2> QED
    BY <2>4, SeenIs DEF SeenKnown
<1> QED
  BY <1>1, <1>3, <1>4

LEMMA LifecycleStep ==
  ASSUME Base, Base', SyncInvariant, ApprovalsInvariant, ApprovalsInvariant', [Next]_vars
  PROVE  [Lifecycle!Next]_Seen
<1> USE DEF Lifecycle!Next, Lifecycle!Moves, Lifecycle!Schedule, Lifecycle!Ask, Lifecycle!Resume,
           Lifecycle!End, Lifecycle!EndUnasked, Lifecycle!FailWaiting, Lifecycle!FailUndecided,
           Lifecycle!RejectLate, Lifecycle!Revive
<1>1. CASE Terminal /\ ~OpenApproval
  BY <1>1, EndedSeen
<1>2. CASE Terminal /\ OpenApproval
  <2>1. PICK g \in Guarded : Open(g)
    BY <1>2, OpenApprovals
  <2> QED
    BY <1>2, <2>1, UndecidedSeen
<1>3. CASE phase = "Pending"
  <2>1. Seen = "Pending"
    BY <1>3, PendingUnasked, SeenIs DEF SeenKnown
  <2>2. phase' \in {"Pending", "Scheduled"} /\ data'.pending = NoAction
    BY <1>3, PendingStep, PendingUnasked
  <2>3. Seen' \in {"Pending", "Scheduled"}
    BY <2>2, SeenIs DEF SeenKnown, Terminal, TerminalPhases
  <2> QED
    BY <2>1, <2>3
<1>4. CASE ~Terminal /\ phase # "Pending"
  BY <1>4, LiveSeen
<1> QED
  BY <1>1, <1>2, <1>3, <1>4

\* Driven by one reconciler that crashes and comes back, AgentRunEngine implements
\* AgentRunLifecycle: the AgentController sees the run make the moves that
\* MissionHierarchy lets it make, and no others.
THEOREM LifecycleImplemented ==
  ASSUME OneReconciler
  PROVE  Spec => ImplementsLifecycle
<1>1. Init => Lifecycle!Init
  <2> SUFFICES ASSUME Init
               PROVE  Seen = "Pending"
    BY DEF Lifecycle!Init
  <2>1. phase = "Pending" /\ data.pending = NoAction
    BY DEF Init, NoData
  <2> QED
    BY <2>1, SeenIs DEF SeenKnown
<1>2. /\ Base /\ SyncInvariant /\ ApprovalsInvariant
      /\ (Base /\ SyncInvariant /\ ApprovalsInvariant)'
      /\ [Next]_vars
      => [Lifecycle!Next]_Seen
  BY LifecycleStep
<1> QED
  BY <1>1, <1>2, ApprovalsAlways, PTL DEF Spec, ImplementsLifecycle, Lifecycle!Spec
=============================================================================
