--------------------------- MODULE AgentRunEngine ---------------------------
(***************************************************************************)
(* The Execution Engine of ai_platform: one AgentRun driven through its    *)
(* persisted phases by reconcilers that may overlap, crash and come back.  *)
(*                                                                         *)
(* A reconciler is one ControlPlane.reconcile_once() coroutine.  It is     *)
(* sequential: it schedules the run, settles ToolInvocations and enters    *)
(* AgentRuntime.run, and it gives up control only at the awaits of the     *)
(* code: the model call, the tool call of the engine and the tool calls of *)
(* the ToolInvocationController, for invocations of this run or of others. *)
(* Every action below is the work of one engine step or of one controller  *)
(* visit.  What the code keeps in local variables across an await is in    *)
(* snap: the id of the model invocation, the run's data, the phases in the *)
(* controller's list of ToolInvocations.  Everything else is re-read.      *)
(*                                                                         *)
(* The store holds the run's phase and status.data, the ToolInvocations    *)
(* (one per iteration: the name is a function of the iteration) and the    *)
(* Approvals (one per guarded action: they are found by action hash).      *)
(***************************************************************************)
EXTENDS Integers, FiniteSets

CONSTANTS
  Reconcilers,           \* reconcile_once coroutines, in one process or many
  Policies,              \* the policies a run may be subject to
  DeclaredTools,         \* how many tools agent.spec.tools names
  MaxIterations, MaxModelInvocations, MaxToolInvocations,
  MaxDecisionFailures, MaxToolFailures, MaxModelRetries, MaxToolRetries,
                         \* the run's spec.execution budgets
  MaxCrashes,            \* bound on the crashes of reconcilers
  LoadsMayFail           \* whether a resource the run refers to may be missing

Iterations == 1..MaxIterations

\* What Policy is asked about: the use of a declared tool, the model call,
\* the ToolInvocation of an iteration, the write of the Artifact.
Use(k)  == <<"use", k>>
Model   == <<"model", 0>>
Tool(i) == <<"tool", i>>
Write   == <<"artifact", 0>>
Guarded == {Use(k) : k \in 1..DeclaredTools} \cup {Model, Write}
             \cup {Tool(i) : i \in Iterations}
NoAction == <<"none", 0>>

Effects == {"Allow", "RequireApproval", "Deny"}

ASSUME PoliciesAssumption == Policies \subseteq [Guarded -> Effects]

ASSUME BudgetsAssumption ==
  /\ DeclaredTools \in Nat
  /\ MaxIterations \in Nat
  /\ MaxModelInvocations \in Nat
  /\ MaxToolInvocations \in Nat
  /\ MaxDecisionFailures \in Nat
  /\ MaxToolFailures \in Nat
  /\ MaxModelRetries \in Nat
  /\ MaxToolRetries \in Nat
  /\ MaxCrashes \in Nat
  /\ LoadsMayFail \in BOOLEAN

TerminalPhases == {"Succeeded", "Failed", "Cancelled", "TimedOut", "BudgetExceeded"}

ResumablePhases ==
  {"Scheduled", "Starting", "AwaitingDecision", "DecisionReady",
   "ProcessingDecision", "WaitingForTool", "WaitingForObservation", "Finalizing"}

Phases == TerminalPhases \cup ResumablePhases \cup {"Pending", "WaitingForApproval"}

ToolTerminalPhases == {"Succeeded", "Failed", "Denied", "TimedOut", "Cancelled"}

ToolPhases == ToolTerminalPhases
                \cup {"Absent", "Pending", "WaitingForApproval", "Authorized", "Running"}

\* What the model may answer; "invalid" stands for every response that
\* _parse_and_validate_decision refuses.
Responses == {"invoke_tool", "complete", "fail", "invalid"}

FrameStates ==
  {"none", "prepared", "decision-requested", "decision-produced",
   "decision-rejected", "decision-validated", "waiting-for-tool",
   "tool-observed", "observation-delivered", "finalizing", "finalized"}

-----------------------------------------------------------------------------
VARIABLES
  phase,           \* status.phase of the AgentRun
  data,            \* status.data of the AgentRun
  policy,          \* the effect Policy has on each guarded action
  cancelRequested, \* spec.cancellationRequested
  ctxReady,        \* the run's Context is Ready
  wallExpired,     \* maxWallTimeSeconds have passed since executionStartedAt
  deadlinePassed,  \* the deadline of the active model invocation has passed
  tool,            \* iteration -> status of its ToolInvocation
  approvals,       \* guarded action -> status of its Approval
  pc,              \* where each reconciler is
  snap,            \* what each reconciler remembers across an await
  crashes,         \* crashes so far
  issued,          \* history: ids of the model invocations ever issued
  executions,      \* history: iteration -> starts of its tool's runtime
  deliveries,      \* history: iteration -> deliveries of its Observation
  outdated         \* history: iterations a controller authorised although
                   \* their invocation was not in the phase it had listed

env     == <<policy, cancelRequested, ctxReady, wallExpired>>
history == <<issued, executions, deliveries, outdated>>
vars == <<phase, data, policy, cancelRequested, ctxReady, wallExpired,
          deadlinePassed, tool, approvals, pc, snap, crashes,
          issued, executions, deliveries, outdated>>

\* activeModelInvocation: the execution epoch, iteration and attempt its id
\* is built from.
ModelInvocations == [epoch : Nat, iteration : Nat, attempt : Nat]
NoModel == [epoch |-> 0, iteration |-> 0, attempt |-> 0]

NoFrame == [n |-> 0, state |-> "none", attempts |-> 0, modelRetries |-> 0,
            toolRetries |-> 0, raw |-> "none", decision |-> "none", tool |-> FALSE]

\* The active ExecutionFrame. Frames behind it are never read again by the
\* engine except to render messages.
Frames == [n : 0..MaxIterations, state : FrameStates, attempts : Nat,
           modelRetries : Nat, toolRetries : Nat,
           raw : Responses \cup {"none"},
           decision : (Responses \ {"invalid"}) \cup {"none"}, tool : BOOLEAN]

NoUsage == [iterations |-> 0, model |-> 0, tool |-> 0,
            decisionFailures |-> 0, toolFailures |-> 0]

Usages == [iterations : Nat, model : Nat, tool : Nat,
           decisionFailures : Nat, toolFailures : Nat]

\* status.data: executionState, executionEpoch, the active frame, budgetUsage,
\* activeModelInvocation, pendingApproval and activeToolInvocation.
Data == [state : Phases \cup {"none"}, epoch : Nat, frame : Frames, usage : Usages,
         active : ModelInvocations, pending : Guarded \cup {NoAction},
         activeTool : 0..MaxIterations]

NoData == [state |-> "none", epoch |-> 0, frame |-> NoFrame, usage |-> NoUsage,
           active |-> NoModel, pending |-> NoAction, activeTool |-> 0]

\* A controller's list without an entry.
Nothing == [i \in Iterations |-> "Absent"]

\* What survives an await: the id of the model invocation; the run's data; the
\* iteration of the ToolInvocation that is executed; the phases, as they were
\* listed, of the invocations the ToolInvocationController has yet to visit.
Snaps == [inv : ModelInvocations, data : Data, n : 0..MaxIterations,
          listed : [Iterations -> ToolPhases]]

NoSnap == [inv |-> NoModel, data |-> NoData, n |-> 0, listed |-> Nothing]

TypeOK ==
  /\ phase \in Phases
  /\ data \in Data
  /\ policy \in [Guarded -> Effects]
  /\ cancelRequested \in BOOLEAN
  /\ ctxReady \in BOOLEAN
  /\ wallExpired \in BOOLEAN
  /\ deadlinePassed \in BOOLEAN
  /\ tool \in [Iterations -> [phase : ToolPhases, observed : BOOLEAN]]
  /\ approvals \in [Guarded -> [phase : {"None", "Pending", "Approved", "Rejected"},
                                bound : BOOLEAN]]
  /\ pc \in [Reconcilers -> {"ready", "engine", "model", "tool", "tools", "tic"}]
  /\ snap \in [Reconcilers -> Snaps]
  /\ crashes \in 0..MaxCrashes
  /\ issued \subseteq ModelInvocations
  /\ executions \in [Iterations -> Nat]
  /\ deliveries \in [Iterations -> Nat]
  /\ outdated \subseteq Iterations

Init ==
  /\ phase = "Pending"
  /\ data = NoData
  /\ policy \in Policies
  /\ cancelRequested = FALSE
  /\ ctxReady = FALSE
  /\ wallExpired = FALSE
  /\ deadlinePassed = FALSE
  /\ tool = [i \in Iterations |-> [phase |-> "Absent", observed |-> FALSE]]
  /\ approvals = [g \in Guarded |-> [phase |-> "None", bound |-> FALSE]]
  /\ pc = [r \in Reconcilers |-> "ready"]
  /\ snap = [r \in Reconcilers |-> NoSnap]
  /\ crashes = 0
  /\ issued = {}
  /\ executions = [i \in Iterations |-> 0]
  /\ deliveries = [i \in Iterations |-> 0]
  /\ outdated = {}

-----------------------------------------------------------------------------
(* Steps a reconciler takes inside AgentRuntime.run *)

Terminal == phase \in TerminalPhases

\* The reconciler stays in the engine's loop, leaves it, or awaits a call.
Continue(r) == pc' = [pc EXCEPT ![r] = "engine"] /\ UNCHANGED snap
Leave(r)    == pc' = [pc EXCEPT ![r] = "ready"] /\ UNCHANGED snap
Await(r, at, s) == pc' = [pc EXCEPT ![r] = at] /\ snap' = [snap EXCEPT ![r] = s]
Return(r, at)   == pc' = [pc EXCEPT ![r] = at] /\ snap' = [snap EXCEPT ![r] = NoSnap]

\* The engine moves the run to phase p and persists d as its data.
Enter(p, d) == phase' = p /\ data' = [d EXCEPT !.state = p]

\* _fail_run
Fail(d) == Enter("Failed", [d EXCEPT !.active = NoModel])

\* update_status merges: a key that d lacks keeps the value the store has.
Merged(d) == [d EXCEPT !.active = IF @ = NoModel THEN data.active ELSE @,
                       !.pending = IF @ = NoAction THEN data.pending ELSE @]

WallTimeExceeded == wallExpired /\ data.state # "none"

\* A pass over a run whose top-of-loop checks let it reach its phase handler.
EngineTurn(r) ==
  /\ pc[r] \in {"ready", "engine"}
  /\ phase \in ResumablePhases
  /\ ~cancelRequested
  /\ ~WallTimeExceeded

\* Mutant: any decision on the approval, also a rejection, opens the way.
VerdictOfDecided(g) ==
  IF policy[g] # "RequireApproval" THEN policy[g]
  ELSE IF approvals[g].phase \in {"Approved", "Rejected"} THEN "Allow"
  ELSE "RequireApproval"

\* PolicyEngine.authorize: what the policy and the approval of g's hash say.
Verdict(g) ==
  IF policy[g] # "RequireApproval" THEN policy[g]
  ELSE CASE approvals[g].phase = "Approved" -> "Allow"
         [] approvals[g].phase = "Rejected" -> "Deny"
         [] OTHER -> "RequireApproval"

\* The approval of g is created once; bound approvals name the AgentRun.
Ask(g, bound) ==
  approvals' = IF approvals[g].phase = "None"
                 THEN [approvals EXCEPT ![g] = [phase |-> "Pending", bound |-> bound]]
                 ELSE approvals

\* The run waits for the approval of g; its executionState is left as d has it.
Pause(r, g, d) ==
  /\ Ask(g, TRUE)
  /\ phase' = "WaitingForApproval"
  /\ data' = [d EXCEPT !.pending = g]
  /\ Leave(r)

\* Mutant: a run that waits for an approval returns before the check.
CancellableUnlessWaiting == phase \in ResumablePhases

Cancellable == phase \in ResumablePhases \cup {"WaitingForApproval"}

\* _cancel_if_requested, at the top of the loop: also a run that waits for an
\* approval is cancelled. The keys it means to clear come back with the data.
CancelRun(r) ==
  /\ pc[r] \in {"ready", "engine"}
  /\ Cancellable
  /\ cancelRequested
  /\ Enter("Cancelled", data)
  /\ Leave(r)
  /\ UNCHANGED <<env, deadlinePassed, tool, approvals, crashes, history>>

\* _timeout_if_expired, at the top of the loop. A run that waits for an
\* approval does not get that far.
TimeOutRun(r) ==
  /\ pc[r] \in {"ready", "engine"}
  /\ phase \in ResumablePhases
  /\ ~cancelRequested
  /\ WallTimeExceeded
  /\ Enter("TimedOut", [data EXCEPT !.active = NoModel])
  /\ Leave(r)
  /\ UNCHANGED <<env, deadlinePassed, tool, approvals, crashes, history>>

\* A run, at its next epoch, as _start_engine persists it.
Started == [data EXCEPT !.state = "Starting", !.epoch = @ + 1]

\* The first declared tool Policy does not simply allow stops the start.
FirstBlocked(k) ==
  /\ Verdict(Use(k)) # "Allow"
  /\ \A j \in 1..(k - 1) : Verdict(Use(j)) = "Allow"

StartEngine(r) ==
  /\ EngineTurn(r)
  /\ phase = "Scheduled"
  /\ \/ /\ \A k \in 1..DeclaredTools : Verdict(Use(k)) = "Allow"
        /\ Enter("Starting", Started)
        /\ Continue(r)
        /\ UNCHANGED approvals
     \/ \E k \in 1..DeclaredTools :
          /\ FirstBlocked(k)
          /\ Verdict(Use(k)) = "RequireApproval"
          /\ Pause(r, Use(k), Started)
     \/ \E k \in 1..DeclaredTools :
          /\ FirstBlocked(k)
          /\ Verdict(Use(k)) = "Deny"
          /\ Fail(Started)
          /\ Leave(r)
          /\ UNCHANGED approvals
  /\ UNCHANGED <<env, deadlinePassed, tool, crashes, history>>

PrepareExecution(r) ==
  /\ EngineTurn(r)
  /\ phase = "Starting"
  /\ IF ctxReady THEN Enter("AwaitingDecision", data) /\ Continue(r)
                 ELSE Fail(data) /\ Leave(r)
  /\ UNCHANGED <<env, deadlinePassed, tool, approvals, crashes, history>>

-----------------------------------------------------------------------------
(* AwaitingDecision: the model is asked for a Decision *)

\* Mutant: a delivered Observation does not end the iteration.
NeedsFrameUnlessDelivered(f) == f.n = 0 \/ f.state \in {"finalized", "decision-rejected"}

\* _ensure_active_frame: the active frame is used up, a new iteration starts.
\* Its other branches, which resume a persisted response, Decision or
\* ToolInvocation, need a frame that no run awaiting a Decision has
\* (PersistedStateConsistent).
NeedsFrame(f) ==
  f.n = 0 \/ f.state \in {"observation-delivered", "finalized", "decision-rejected"}

WithNewFrame(d) ==
  [d EXCEPT !.usage.iterations = @ + 1,
            !.frame = [NoFrame EXCEPT !.n = d.usage.iterations + 1, !.state = "prepared"]]

Opened == IF NeedsFrame(data.frame) THEN WithNewFrame(data) ELSE data

\* Mutant: the boundary of maxIterations is off by one.
IterationLeftOrLast == NeedsFrame(data.frame) => data.usage.iterations <= MaxIterations

IterationLeft == NeedsFrame(data.frame) => data.usage.iterations < MaxIterations

\* Mutant: the boundary of maxModelInvocations is off by one.
ModelCallLeftOrLast == data.usage.model <= MaxModelInvocations

ModelCallLeft == data.usage.model < MaxModelInvocations

\* A model invocation is recorded as running for the active frame.
InFlight == /\ data.frame.state = "decision-requested"
            /\ data.frame.raw = "none"
            /\ data.active # NoModel

\* Mutant: the deadline of the call is the wall time budget of the run.
ExpiredWithRun == wallExpired

\* _model_invocation_expired
Expired == deadlinePassed

\* Mutant: the attempt is not part of the id.
InvocationIdWithoutAttempt(d) == [epoch |-> d.epoch, iteration |-> d.frame.n, attempt |-> 1]

\* _model_invocation_id of the next attempt of d's frame.
InvocationId(d) ==
  [epoch |-> d.epoch, iteration |-> d.frame.n, attempt |-> d.frame.attempts + 1]

DecisionTurn(r) == EngineTurn(r) /\ phase = "AwaitingDecision"

ExhaustIterations(r) ==
  /\ DecisionTurn(r)
  /\ ~IterationLeft
  /\ Enter("BudgetExceeded", data)
  /\ Leave(r)
  /\ UNCHANGED <<env, deadlinePassed, tool, approvals, crashes, history>>

ExhaustModelCalls(r) ==
  /\ DecisionTurn(r)
  /\ IterationLeft
  /\ ~ModelCallLeft
  /\ Enter("BudgetExceeded", Opened)
  /\ Leave(r)
  /\ UNCHANGED <<env, deadlinePassed, tool, approvals, crashes, history>>

ModelTurn(r) == DecisionTurn(r) /\ IterationLeft /\ ModelCallLeft

AwaitModelApproval(r) ==
  /\ ModelTurn(r)
  /\ Verdict(Model) = "RequireApproval"
  /\ Pause(r, Model, Opened)
  /\ UNCHANGED <<env, deadlinePassed, tool, crashes, history>>

DenyModel(r) ==
  /\ ModelTurn(r)
  /\ Verdict(Model) = "Deny"
  /\ Fail(Opened)
  /\ Leave(r)
  /\ UNCHANGED <<env, deadlinePassed, tool, approvals, crashes, history>>

\* The invocation another pass issued is past its deadline.
ExpireInFlight(r) ==
  /\ ModelTurn(r)
  /\ Verdict(Model) = "Allow"
  /\ InFlight
  /\ Expired
  /\ Enter("TimedOut", [data EXCEPT !.active = NoModel])
  /\ Leave(r)
  /\ UNCHANGED <<env, deadlinePassed, tool, approvals, crashes, history>>

RequestDecision(r) ==
  /\ ModelTurn(r)
  /\ Verdict(Model) = "Allow"
  /\ ~InFlight
  /\ LET id == InvocationId(Opened)
     IN  /\ data' = [Opened EXCEPT !.frame.attempts = @ + 1,
                                   !.frame.state = "decision-requested",
                                   !.usage.model = @ + 1,
                                   !.active = id]
         /\ issued' = issued \cup {id}
         /\ Await(r, "model", [NoSnap EXCEPT !.inv = id])
  /\ deadlinePassed' = FALSE
  /\ UNCHANGED <<phase, env, tool, approvals, crashes, executions, deliveries, outdated>>

\* Mutant: only the id of the invocation is compared.
ModelFenceById(r) == data.active = snap[r].inv

\* _fence_model_completion: the run still awaits this very invocation.
ModelFence(r) ==
  /\ phase = "AwaitingDecision"
  /\ data.state = "AwaitingDecision"
  /\ data.epoch = snap[r].inv.epoch
  /\ data.active = snap[r].inv

\* The loop goes on unless the run awaits something or somebody else.
AfterModel(r, p) ==
  Return(r, IF p \in TerminalPhases \cup {"AwaitingDecision", "WaitingForApproval"}
              THEN "ready" ELSE "engine")

\* A completion that does not pass the fence changes nothing.
DiscardModel(r) ==
  /\ pc[r] = "model"
  /\ ~ModelFence(r)
  /\ AfterModel(r, phase)
  /\ UNCHANGED <<phase, data, env, deadlinePassed, tool, approvals, crashes, history>>

ModelAnswers(r, answer) ==
  /\ pc[r] = "model"
  /\ ModelFence(r)
  /\ Enter("DecisionReady", [data EXCEPT !.frame.raw = answer,
                                         !.frame.state = "decision-produced",
                                         !.active = NoModel])
  /\ deadlinePassed' = FALSE
  /\ AfterModel(r, "DecisionReady")
  /\ UNCHANGED <<env, tool, approvals, crashes, history>>

\* asyncio.wait_for gives up; the deadline was fixed just before it started.
ModelTimesOut(r) ==
  /\ pc[r] = "model"
  /\ ModelFence(r)
  /\ deadlinePassed
  /\ Enter("TimedOut", [data EXCEPT !.active = NoModel])
  /\ AfterModel(r, "TimedOut")
  /\ UNCHANGED <<env, deadlinePassed, tool, approvals, crashes, history>>

ModelFails(r) ==
  /\ pc[r] = "model"
  /\ ModelFence(r)
  /\ LET failed == [data EXCEPT !.frame.modelRetries = @ + 1, !.active = NoModel]
     IN  IF failed.frame.modelRetries <= MaxModelRetries
           THEN /\ Enter("AwaitingDecision", failed)
                /\ AfterModel(r, "AwaitingDecision")
           ELSE /\ Fail(failed)
                /\ AfterModel(r, "Failed")
  /\ deadlinePassed' = FALSE
  /\ UNCHANGED <<env, tool, approvals, crashes, history>>

-----------------------------------------------------------------------------
(* DecisionReady, ProcessingDecision: the Decision is validated and acted on *)

ToolCallLeft == data.usage.tool < MaxToolInvocations

\* _parse_and_validate_decision, the part that depends on the run.
Acceptable == /\ data.frame.raw # "invalid"
              /\ data.frame.raw = "invoke_tool" => ToolCallLeft

AcceptDecision(r) ==
  /\ EngineTurn(r)
  /\ phase = "DecisionReady"
  /\ Acceptable
  /\ Enter("ProcessingDecision", [data EXCEPT !.frame.decision = data.frame.raw,
                                              !.frame.state = "decision-validated"])
  /\ Continue(r)
  /\ UNCHANGED <<env, deadlinePassed, tool, approvals, crashes, history>>

RejectDecision(r) ==
  /\ EngineTurn(r)
  /\ phase = "DecisionReady"
  /\ ~Acceptable
  /\ LET rejected == [data EXCEPT !.usage.decisionFailures = @ + 1,
                                  !.frame.state = "decision-rejected"]
     IN  IF rejected.usage.decisionFailures <= MaxDecisionFailures
           THEN Enter("AwaitingDecision", rejected) /\ Continue(r)
           ELSE Enter("Failed", rejected) /\ Leave(r)
  /\ UNCHANGED <<env, deadlinePassed, tool, approvals, crashes, history>>

DecisionIs(r, d) ==
  EngineTurn(r) /\ phase = "ProcessingDecision" /\ data.frame.decision = d

\* Mutant: the ToolInvocation is not counted.
ToolRecordedUncounted(counted) ==
  [data EXCEPT !.frame.tool = TRUE,
               !.frame.state = "waiting-for-tool",
               !.activeTool = data.frame.n]

\* The frame as _create_tool_invocation leaves it.
ToolRecorded(counted) ==
  [data EXCEPT !.usage.tool = IF counted THEN @ + 1 ELSE @,
               !.frame.tool = TRUE,
               !.frame.state = "waiting-for-tool",
               !.activeTool = data.frame.n]

\* The ToolInvocation of the iteration is created unless it exists already: it
\* does after a crash between its creation and the transition of the run.
CreateToolInvocation(r) ==
  /\ DecisionIs(r, "invoke_tool")
  /\ LET n == data.frame.n IN
     IF data.frame.tool
       THEN Enter("WaitingForTool", data) /\ Continue(r) /\ UNCHANGED tool
     ELSE IF ~ToolCallLeft
       THEN Enter("BudgetExceeded", data) /\ Leave(r) /\ UNCHANGED tool
     ELSE /\ tool' = IF tool[n].phase = "Absent"
                       THEN [tool EXCEPT ![n].phase = "Pending"] ELSE tool
          /\ Enter("WaitingForTool", ToolRecorded(tool[n].phase = "Absent"))
          /\ Continue(r)
  /\ UNCHANGED <<env, deadlinePassed, approvals, crashes, history>>

BeginFinalizing(r) ==
  /\ DecisionIs(r, "complete")
  /\ Enter("Finalizing", [data EXCEPT !.frame.state = "finalizing"])
  /\ Continue(r)
  /\ UNCHANGED <<env, deadlinePassed, tool, approvals, crashes, history>>

FailByDecision(r) ==
  /\ DecisionIs(r, "fail")
  /\ Fail(data)
  /\ Leave(r)
  /\ UNCHANGED <<env, deadlinePassed, tool, approvals, crashes, history>>

-----------------------------------------------------------------------------
(* WaitingForTool: the ToolInvocation is authorised, executed and observed *)

\* The status of iteration i's ToolInvocation becomes p; a terminal phase is
\* always written together with an Observation.
ToolBecomes(i, p) ==
  tool' = [tool EXCEPT ![i] = [phase |-> p,
                               observed |-> @.observed \/ p \in ToolTerminalPhases]]

\* The ToolInvocation the run waits for: the frame's, else the active one. They
\* differ when an invocation of an earlier iteration, which a controller with an
\* old list has parked again, is rejected and the run is to go on.
Awaited(d) == IF d.frame.tool THEN d.frame.n ELSE d.activeTool

\* d, with the outcome of its ToolInvocation noted.
Observed(d) == [d EXCEPT !.frame.state = "tool-observed", !.activeTool = Awaited(d)]

\* The run goes on to the Observation.
Observe == Enter("WaitingForObservation", Observed(data))

\* Iteration i's ToolInvocation, read in phase p, waits for an open approval.
ApprovalPending(i, p) == p = "WaitingForApproval" /\ approvals[Tool(i)].phase = "Pending"

ToolTurn(r) == EngineTurn(r) /\ phase = "WaitingForTool"

ObserveTool(r) ==
  /\ ToolTurn(r)
  /\ tool[Awaited(data)].phase \in ToolTerminalPhases
  /\ Observe
  /\ Continue(r)
  /\ UNCHANGED <<env, deadlinePassed, tool, approvals, crashes, history>>

\* Somebody started the tool: nobody can tell how far it got, so the engine
\* fails the invocation (ExecutionStateUnknown) instead of executing it again.
RefuseReplay(r) ==
  /\ ToolTurn(r)
  /\ tool[Awaited(data)].phase = "Running"
  /\ ToolBecomes(Awaited(data), "Failed")
  /\ Observe
  /\ Continue(r)
  /\ UNCHANGED <<env, deadlinePassed, approvals, crashes, history>>

\* Mutant: an invocation that is Running is not refused but executed again.
StartableAlsoRunning(i, p) ==
  /\ p \in {"Pending", "Authorized", "WaitingForApproval", "Running"}
  /\ ~ApprovalPending(i, p)

\* Mutant: an invocation that is settled is started again.
StartableAlsoSettled(i, p) == p \notin {"Absent", "Running"} /\ ~ApprovalPending(i, p)

\* An invocation that was read in phase p may be authorised: it was neither
\* settled, nor started, nor does it wait for an approval that is still open.
Startable(i, p) ==
  /\ p \in {"Pending", "Authorized", "WaitingForApproval"}
  /\ ~ApprovalPending(i, p)

StartTurn(r) == ToolTurn(r) /\ Startable(Awaited(data), tool[Awaited(data)].phase)

\* The run stays in WaitingForTool; the invocation is what waits.
ParkTool(r) ==
  /\ StartTurn(r)
  /\ Verdict(Tool(Awaited(data))) = "RequireApproval"
  /\ ToolBecomes(Awaited(data), "WaitingForApproval")
  /\ Ask(Tool(Awaited(data)), TRUE)
  /\ data' = [data EXCEPT !.pending = Tool(Awaited(data))]
  /\ Leave(r)
  /\ UNCHANGED <<phase, env, deadlinePassed, crashes, history>>

DenyTool(r) ==
  /\ StartTurn(r)
  /\ Verdict(Tool(Awaited(data))) = "Deny"
  /\ ToolBecomes(Awaited(data), "Denied")
  /\ Observe
  /\ Continue(r)
  /\ UNCHANGED <<env, deadlinePassed, approvals, crashes, history>>

\* The Tool's contract no longer admits the invocation (checked before Policy).
RefuseTool(r) ==
  /\ StartTurn(r)
  /\ ToolBecomes(Awaited(data), "Failed")
  /\ Observe
  /\ Continue(r)
  /\ UNCHANGED <<env, deadlinePassed, approvals, crashes, history>>

Executes(i) == executions' = [executions EXCEPT ![i] = @ + 1]

StartTool(r) ==
  /\ StartTurn(r)
  /\ Verdict(Tool(Awaited(data))) = "Allow"
  /\ ToolBecomes(Awaited(data), "Running")
  /\ Executes(Awaited(data))
  /\ Await(r, "tool", [NoSnap EXCEPT !.data = data, !.n = Awaited(data)])
  /\ UNCHANGED <<phase, data, env, deadlinePassed, approvals, crashes, issued, deliveries, outdated>>

\* The tool call is over and the invocation's phase is t: the run, whatever it
\* has become meanwhile, is moved with the data remembered from before the
\* call. The fence of _transition compares the run just read with itself.
Resume(r, d, t) ==
  IF Terminal
    THEN Return(r, "ready") /\ UNCHANGED <<phase, data>>
  ELSE IF t \in ToolTerminalPhases
    THEN /\ Enter("WaitingForObservation", Merged(Observed(d)))
         /\ Return(r, "engine")
  ELSE /\ Return(r, IF phase \in {"WaitingForTool", "WaitingForApproval"}
                      THEN "ready" ELSE "engine")
       /\ UNCHANGED <<phase, data>>

ToolSucceeds(r) ==
  /\ pc[r] = "tool"
  /\ ToolBecomes(snap[r].n, "Succeeded")
  /\ Resume(r, snap[r].data, "Succeeded")
  /\ UNCHANGED <<env, deadlinePassed, approvals, crashes, history>>

\* Mutant: the failure is saved without a fence.
SaveFenceOpen(d) == TRUE

\* _save_run_data, for the data remembered from before the call.
SaveFence(d) ==
  /\ phase = "WaitingForTool"
  /\ data.state = d.state
  /\ data.epoch = d.epoch
  /\ data.active = d.active

\* Mutant: the retries of the frame are not counted.
CountToolFailureOnly(d) == [d EXCEPT !.usage.toolFailures = @ + 1]

CountToolFailure(d) ==
  [d EXCEPT !.usage.toolFailures = @ + 1, !.frame.toolRetries = @ + 1]

\* The failure cannot be saved: the invocation is left as it is.
ToolFailureFenced(r) ==
  /\ pc[r] = "tool"
  /\ ~SaveFence(snap[r].data)
  /\ Resume(r, CountToolFailure(snap[r].data), tool[snap[r].n].phase)
  /\ UNCHANGED <<env, deadlinePassed, tool, approvals, crashes, history>>

ToolTimesOut(r) ==
  /\ pc[r] = "tool"
  /\ SaveFence(snap[r].data)
  /\ ToolBecomes(snap[r].n, "TimedOut")
  /\ Resume(r, CountToolFailure(snap[r].data), "TimedOut")
  /\ UNCHANGED <<env, deadlinePassed, approvals, crashes, history>>

ToolErrorTurn(r) == pc[r] = "tool" /\ SaveFence(snap[r].data)

ToolFailuresLeft(d) == d.usage.toolFailures <= MaxToolFailures

ExhaustToolFailures(r) ==
  /\ ToolErrorTurn(r)
  /\ LET failed == CountToolFailure(snap[r].data) IN
     /\ ~ToolFailuresLeft(failed)
     /\ Enter("BudgetExceeded", Merged(failed))
  /\ ToolBecomes(snap[r].n, "Failed")
  /\ Return(r, "ready")
  /\ UNCHANGED <<env, deadlinePassed, approvals, crashes, history>>

\* Pending, authorised again and Running once more, without giving up control.
RetryTool(r) ==
  /\ ToolErrorTurn(r)
  /\ LET failed == CountToolFailure(snap[r].data) IN
     /\ ToolFailuresLeft(failed)
     /\ failed.frame.toolRetries <= MaxToolRetries
     /\ Verdict(Tool(snap[r].n)) = "Allow"
     /\ data' = Merged(failed)
     /\ Await(r, "tool", [snap[r] EXCEPT !.data = failed])
  /\ ToolBecomes(snap[r].n, "Running")
  /\ Executes(snap[r].n)
  /\ UNCHANGED <<phase, env, deadlinePassed, approvals, crashes, issued, deliveries, outdated>>

\* No retry is left, or the Tool's contract no longer admits the retry.
ToolFails(r, admitted) ==
  /\ ToolErrorTurn(r)
  /\ LET failed == CountToolFailure(snap[r].data) IN
     /\ ToolFailuresLeft(failed)
     /\ admitted => failed.frame.toolRetries > MaxToolRetries
     /\ Resume(r, failed, "Failed")
  /\ ToolBecomes(snap[r].n, "Failed")
  /\ UNCHANGED <<env, deadlinePassed, approvals, crashes, history>>

-----------------------------------------------------------------------------
(* WaitingForObservation, Finalizing *)

\* The Observation is delivered and the next iteration begins. The data is
\* written back whole, so activeToolInvocation and pendingApproval, which the
\* code lists as keys to clear, stay.
DeliverObservation(r) ==
  /\ EngineTurn(r)
  /\ phase = "WaitingForObservation"
  /\ IF tool[Awaited(data)].observed
       THEN /\ Enter("AwaitingDecision", [data EXCEPT !.frame.state = "observation-delivered"])
            /\ deliveries' = [deliveries EXCEPT ![Awaited(data)] = @ + 1]
            /\ Continue(r)
       ELSE /\ Fail(data)
            /\ UNCHANGED deliveries
            /\ Leave(r)
  /\ UNCHANGED <<env, deadlinePassed, tool, approvals, crashes, issued, executions, outdated>>

FinalTurn(r) == EngineTurn(r) /\ phase = "Finalizing"

CompleteExecution(r) ==
  /\ FinalTurn(r)
  /\ data.frame.decision = "complete"
  /\ Verdict(Write) = "Allow"
  /\ Enter("Succeeded", [data EXCEPT !.frame.state = "finalized"])
  /\ Leave(r)
  /\ UNCHANGED <<env, deadlinePassed, tool, approvals, crashes, history>>

AwaitWriteApproval(r) ==
  /\ FinalTurn(r)
  /\ data.frame.decision = "complete"
  /\ Verdict(Write) = "RequireApproval"
  /\ Pause(r, Write, data)
  /\ UNCHANGED <<env, deadlinePassed, tool, crashes, history>>

\* The outputs the Mission requires are missing, or Policy denies the write.
FailFinalization(r, outputsComplete) ==
  /\ FinalTurn(r)
  /\ outputsComplete => \/ data.frame.decision # "complete"
                        \/ Verdict(Write) = "Deny"
  /\ Fail(data)
  /\ Leave(r)
  /\ UNCHANGED <<env, deadlinePassed, tool, approvals, crashes, history>>

-----------------------------------------------------------------------------
(* Around the engine: the worker, the scheduler, the end of a pass *)

\* AgentRunController
Schedule(r) ==
  /\ pc[r] = "ready"
  /\ phase = "Pending"
  /\ ctxReady
  /\ phase' = "Scheduled"
  /\ UNCHANGED <<data, env, deadlinePassed, tool, approvals, pc, snap, crashes, history>>

\* The pass ends without changing anything: the run is over, waits for
\* somebody, or its model invocation is still in flight.
EndPass(r) ==
  /\ pc[r] = "engine"
  /\ \/ phase \in TerminalPhases \cup {"Pending"}
     \/ phase = "WaitingForApproval" /\ ~cancelRequested
     \/ ToolTurn(r) /\ ApprovalPending(Awaited(data), tool[Awaited(data)].phase)
     \/ ModelTurn(r) /\ Verdict(Model) = "Allow" /\ InFlight /\ ~Expired
  /\ Leave(r)
  /\ UNCHANGED <<phase, data, env, deadlinePassed, tool, approvals, crashes, history>>

\* An exception leaves AgentRuntime.run (a resource the run refers to cannot be
\* loaded): LocalAgentRunWorker fails the run without an executionState.
FailPass(r) ==
  /\ LoadsMayFail
  /\ pc[r] \in {"ready", "engine"}
  /\ \/ phase \in ResumablePhases
     \/ phase = "WaitingForApproval" /\ cancelRequested
  /\ phase' = "Failed"
  /\ Leave(r)
  /\ UNCHANGED <<data, env, deadlinePassed, tool, approvals, crashes, history>>

-----------------------------------------------------------------------------
(* ToolInvocationController: it lists the unsettled ToolInvocations once and   *)
(* visits one after the other, in the phase the list has. A visit may come     *)
(* long after the list was made: it awaits the tools of the entries before it, *)
(* which may be those of other runs. Only the AgentRun, the Policy and the     *)
(* approval are read again.                                                    *)

\* Mutant: invocations that wait for an approval are left alone.
UnsettledUnlessWaiting(i) == tool[i].phase \in {"Pending", "Authorized", "Running"}

Unsettled(i) == tool[i].phase \notin ToolTerminalPhases \cup {"Absent"}

ListInvocations(r) ==
  /\ pc[r] = "ready"
  /\ \E i \in Iterations : Unsettled(i)
  /\ Await(r, "tools", [NoSnap EXCEPT !.listed =
       [i \in Iterations |-> IF Unsettled(i) THEN tool[i].phase ELSE "Absent"]])
  /\ UNCHANGED <<phase, data, env, deadlinePassed, tool, approvals, crashes, history>>

\* It is i's turn, the list being sorted by name; it was listed in phase p.
Visits(r, i, p) ==
  /\ pc[r] = "tools"
  /\ snap[r].listed[i] = p
  /\ p # "Absent"
  /\ \A j \in 1..(i - 1) : snap[r].listed[j] = "Absent"

\* The list once i is visited.
ListAfter(r, i) == [snap[r].listed EXCEPT ![i] = "Absent"]

\* The controller goes on with what is left of its list.
GoOn(r, left) ==
  Await(r, IF left = Nothing THEN "ready" ELSE "tools", [NoSnap EXCEPT !.listed = left])

\* Mutant: only a cancelled parent fences its ToolInvocations.
ParentFencedByCancel(i) == phase = "Cancelled"

\* The parent run is over. The code also compares execution epochs and owners,
\* which cannot differ: the epoch of a run never advances beyond 1.
ParentFenced(i) == Terminal

FailRunningReplay(r, i) ==
  /\ Visits(r, i, "Running")
  /\ ToolBecomes(i, "Failed")
  /\ GoOn(r, ListAfter(r, i))
  /\ UNCHANGED <<phase, data, env, deadlinePassed, approvals, crashes, history>>

FenceInvocation(r, i) ==
  /\ \E p \in ToolPhases \ {"Running"} : Visits(r, i, p)
  /\ ParentFenced(i)
  /\ ToolBecomes(i, "Cancelled")
  /\ GoOn(r, ListAfter(r, i))
  /\ UNCHANGED <<phase, data, env, deadlinePassed, approvals, crashes, history>>

SkipWaiting(r, i) ==
  /\ \E p \in ToolPhases : Visits(r, i, p) /\ ApprovalPending(i, p)
  /\ ~ParentFenced(i)
  /\ GoOn(r, ListAfter(r, i))
  /\ UNCHANGED <<phase, data, env, deadlinePassed, tool, approvals, crashes, history>>

ControllerTurn(r, i) ==
  /\ \E p \in ToolPhases : Visits(r, i, p) /\ Startable(i, p)
  /\ ~ParentFenced(i)

\* The approval the controller asks for is not tied to the AgentRun. What was
\* listed as waiting is not marked again, but its approval is decided.
ControllerParks(r, i) ==
  /\ ControllerTurn(r, i)
  /\ Verdict(Tool(i)) = "RequireApproval"
  /\ ToolBecomes(i, "WaitingForApproval")
  /\ Ask(Tool(i), FALSE)
  /\ GoOn(r, ListAfter(r, i))
  /\ UNCHANGED <<phase, data, env, deadlinePassed, crashes, history>>

\* Policy denies the invocation, or the Tool's contract does not admit it.
ControllerRefuses(r, i) ==
  /\ ControllerTurn(r, i)
  /\ \/ Verdict(Tool(i)) = "Deny" /\ ToolBecomes(i, "Denied")
     \/ ToolBecomes(i, "Failed")
  /\ GoOn(r, ListAfter(r, i))
  /\ UNCHANGED <<phase, data, env, deadlinePassed, approvals, crashes, history>>

\* History: the list was out of date when i was authorised.
NoteOutdated(r, i) ==
  outdated' = IF snap[r].listed[i] # tool[i].phase THEN outdated \cup {i} ELSE outdated

ControllerStarts(r, i) ==
  /\ ControllerTurn(r, i)
  /\ Verdict(Tool(i)) = "Allow"
  /\ ToolBecomes(i, "Running")
  /\ Executes(i)
  /\ NoteOutdated(r, i)
  /\ Await(r, "tic", [NoSnap EXCEPT !.n = i, !.listed = ListAfter(r, i)])
  /\ UNCHANGED <<phase, data, env, deadlinePassed, approvals, crashes, issued, deliveries>>

\* The outcome is written whatever the invocation or the run is by now.
ControllerSettles(r, outcome) ==
  /\ pc[r] = "tic"
  /\ ToolBecomes(snap[r].n, outcome)
  /\ GoOn(r, snap[r].listed)
  /\ UNCHANGED <<phase, data, env, deadlinePassed, approvals, crashes, history>>

-----------------------------------------------------------------------------
(* ApprovalService *)

Decide(g, decision) ==
  /\ approvals[g].phase = "Pending"
  /\ approvals' = [approvals EXCEPT ![g].phase = decision]

\* The run is put back into the phase its executionState names.
Approve(g) ==
  /\ Decide(g, "Approved")
  /\ IF approvals[g].bound
       THEN /\ phase' = IF data.state = "none" THEN "Pending" ELSE data.state
            /\ data' = [data EXCEPT !.pending = NoAction]
       ELSE UNCHANGED <<phase, data>>
  /\ UNCHANGED <<env, deadlinePassed, tool, pc, snap, crashes, history>>

RejectTerminate(g) ==
  /\ Decide(g, "Rejected")
  /\ IF approvals[g].bound
       THEN /\ phase' = "Failed"
            /\ data' = [data EXCEPT !.pending = NoAction]
       ELSE UNCHANGED <<phase, data>>
  /\ UNCHANGED <<env, deadlinePassed, tool, pc, snap, crashes, history>>

\* Only for the approval the run's active ToolInvocation waits for.
RejectContinue(i) ==
  /\ Decide(Tool(i), "Rejected")
  /\ approvals[Tool(i)].bound
  /\ ~Terminal
  /\ data.activeTool = i
  /\ tool[i].phase = "WaitingForApproval"
  /\ ToolBecomes(i, "Denied")
  /\ LET denied == CountToolFailure(data) IN
     IF ToolFailuresLeft(denied)
       THEN Enter("WaitingForTool", denied)
       ELSE phase' = "BudgetExceeded" /\ data' = denied
  /\ UNCHANGED <<env, deadlinePassed, pc, snap, crashes, history>>

-----------------------------------------------------------------------------
(* Users and time *)

RequestCancel ==
  /\ ~cancelRequested
  /\ cancelRequested' = TRUE
  /\ UNCHANGED <<phase, data, policy, ctxReady, wallExpired, deadlinePassed,
                 tool, approvals, pc, snap, crashes, history>>

\* The Context is built, or must be built again and is not; it is only looked
\* at until the run awaits its first Decision.
ChangeContext ==
  /\ phase \in {"Pending", "Scheduled", "Starting"}
  /\ ctxReady' = ~ctxReady
  /\ UNCHANGED <<phase, data, policy, cancelRequested, wallExpired, deadlinePassed,
                 tool, approvals, pc, snap, crashes, history>>

PassWallTime ==
  /\ data.state # "none"
  /\ ~wallExpired
  /\ wallExpired' = TRUE
  /\ UNCHANGED <<phase, data, policy, cancelRequested, ctxReady, deadlinePassed,
                 tool, approvals, pc, snap, crashes, history>>

PassDeadline ==
  /\ phase = "AwaitingDecision"
  /\ data.active # NoModel
  /\ ~deadlinePassed
  /\ deadlinePassed' = TRUE
  /\ UNCHANGED <<phase, data, env, tool, approvals, pc, snap, crashes, history>>

-----------------------------------------------------------------------------
(* Crashes: a reconciler dies between two writes and starts over *)

CrashLeft == crashes < MaxCrashes /\ crashes' = crashes + 1

\* Between two steps, or in a model or tool call. What the call did is lost.
Crash(r) ==
  /\ CrashLeft
  /\ pc[r] # "ready"
  /\ Return(r, "ready")
  /\ UNCHANGED <<phase, data, env, deadlinePassed, tool, approvals, history>>

\* Starting is persisted, the declared tools are not authorised yet.
DieAfterStart(r) ==
  /\ CrashLeft
  /\ EngineTurn(r)
  /\ phase = "Scheduled"
  /\ Enter("Starting", Started)
  /\ Leave(r)
  /\ UNCHANGED <<env, deadlinePassed, tool, approvals, history>>

\* The new frame is persisted, its model invocation is not issued yet.
DieAfterFrame(r) ==
  /\ CrashLeft
  /\ DecisionTurn(r)
  /\ IterationLeft
  /\ data' = Opened
  /\ Leave(r)
  /\ UNCHANGED <<phase, env, deadlinePassed, tool, approvals, history>>

\* The ToolInvocation exists, the run does not know yet.
DieAfterToolApply(r) ==
  /\ CrashLeft
  /\ DecisionIs(r, "invoke_tool")
  /\ ~data.frame.tool
  /\ ToolCallLeft
  /\ tool[data.frame.n].phase = "Absent"
  /\ tool' = [tool EXCEPT ![data.frame.n].phase = "Pending"]
  /\ Leave(r)
  /\ UNCHANGED <<phase, data, env, deadlinePassed, approvals, history>>

\* The ToolInvocation is Authorized, its runtime is not called yet.
DieAfterAuthorize(r, i) ==
  /\ CrashLeft
  /\ \/ ControllerTurn(r, i) /\ NoteOutdated(r, i)
     \/ StartTurn(r) /\ i = Awaited(data) /\ UNCHANGED outdated
  /\ Verdict(Tool(i)) = "Allow"
  /\ ToolBecomes(i, "Authorized")
  /\ Return(r, "ready")
  /\ UNCHANGED <<phase, data, env, deadlinePassed, approvals, issued, executions, deliveries>>

\* The ToolInvocation is observed, the run does not know yet; a failure is
\* counted before the ToolInvocation gets its phase p.
DieAfterToolCall(r, p) ==
  /\ CrashLeft
  /\ pc[r] = "tool"
  /\ IF p = "Succeeded" THEN UNCHANGED data
     ELSE LET failed == CountToolFailure(snap[r].data) IN
          /\ SaveFence(snap[r].data)
          /\ p \in {"Pending", "Authorized"} =>
               ToolFailuresLeft(failed) /\ failed.frame.toolRetries <= MaxToolRetries
          /\ data' = Merged(failed)
  /\ IF p = "Running" THEN UNCHANGED tool ELSE ToolBecomes(snap[r].n, p)
  /\ Return(r, "ready")
  /\ UNCHANGED <<phase, env, deadlinePassed, approvals, history>>

-----------------------------------------------------------------------------
(* The specification *)

EngineStep(r) ==
  \/ CancelRun(r)
  \/ TimeOutRun(r)
  \/ StartEngine(r)
  \/ PrepareExecution(r)
  \/ ExhaustIterations(r)
  \/ ExhaustModelCalls(r)
  \/ AwaitModelApproval(r)
  \/ DenyModel(r)
  \/ ExpireInFlight(r)
  \/ RequestDecision(r)
  \/ AcceptDecision(r)
  \/ RejectDecision(r)
  \/ CreateToolInvocation(r)
  \/ BeginFinalizing(r)
  \/ FailByDecision(r)
  \/ ObserveTool(r)
  \/ RefuseReplay(r)
  \/ ParkTool(r)
  \/ DenyTool(r)
  \/ RefuseTool(r)
  \/ StartTool(r)
  \/ DeliverObservation(r)
  \/ CompleteExecution(r)
  \/ AwaitWriteApproval(r)
  \/ \E outputsComplete \in BOOLEAN : FailFinalization(r, outputsComplete)
  \/ EndPass(r)
  \/ FailPass(r)

\* The call a reconciler awaits is over.
CallReturns(r) ==
  \/ DiscardModel(r)
  \/ \E answer \in Responses : ModelAnswers(r, answer)
  \/ ModelTimesOut(r)
  \/ ModelFails(r)
  \/ ToolSucceeds(r)
  \/ ToolFailureFenced(r)
  \/ ToolTimesOut(r)
  \/ ExhaustToolFailures(r)
  \/ RetryTool(r)
  \/ \E admitted \in BOOLEAN : ToolFails(r, admitted)
  \/ \E outcome \in {"Succeeded", "Failed", "TimedOut"} : ControllerSettles(r, outcome)

ControllerStep(r, i) ==
  \/ FailRunningReplay(r, i)
  \/ FenceInvocation(r, i)
  \/ SkipWaiting(r, i)
  \/ ControllerParks(r, i)
  \/ ControllerRefuses(r, i)
  \/ ControllerStarts(r, i)

CrashStep(r) ==
  \/ Crash(r)
  \/ DieAfterStart(r)
  \/ DieAfterFrame(r)
  \/ DieAfterToolApply(r)
  \/ \E i \in Iterations : DieAfterAuthorize(r, i)
  \/ \E p \in {"Succeeded", "Failed", "TimedOut", "Running", "Pending", "Authorized"} :
       DieAfterToolCall(r, p)

ApprovalStep ==
  \/ \E g \in Guarded : Approve(g) \/ RejectTerminate(g)
  \/ \E i \in Iterations : RejectContinue(i)

Next ==
  \/ \E r \in Reconcilers :
       \/ Schedule(r)
       \/ EngineStep(r)
       \/ CallReturns(r)
       \/ ListInvocations(r)
       \/ \E i \in Iterations : ControllerStep(r, i)
       \/ CrashStep(r)
  \/ ApprovalStep
  \/ RequestCancel
  \/ ChangeContext
  \/ PassWallTime
  \/ PassDeadline

Spec == Init /\ [][Next]_vars

\* The control plane's loop visits every resource again and again, a model call
\* and a tool call end (wait_for bounds the first; the second is bounded when a
\* timeout is configured, which is assumed), and deadlines pass. Nothing is
\* assumed of users, approvers, the Context or the wall time budget. A controller
\* pass interrupts the engine and may come again and again, but reconcile_once
\* goes on from it to the worker: hence strong fairness of the engine's step.
Fairness ==
  /\ \A r \in Reconcilers :
       /\ WF_vars(Schedule(r))
       /\ SF_vars(EngineStep(r))
       /\ WF_vars(CallReturns(r))
       /\ WF_vars(ListInvocations(r))
       /\ WF_vars(\E i \in Iterations : ControllerStep(r, i))
  /\ WF_vars(PassDeadline)

FairSpec == Spec /\ Fairness

-----------------------------------------------------------------------------
(* What the engine keeps true, however its reconcilers overlap *)

\* The phase and status.data are written together or, by the worker and the
\* ApprovalService, the phase alone.
PhaseFits ==
  phase \in IF data.state = "none" THEN {"Pending", "Scheduled", "Failed"}
            ELSE {data.state, "WaitingForApproval", "Failed", "BudgetExceeded"}

\* What the handler of executionState d.state reads of its frame is there.
FrameFits(d) ==
  LET f == d.frame IN
  /\ d.state \in {"none", "Starting"} => f = NoFrame
  /\ d.state = "AwaitingDecision" =>
       \/ f = NoFrame \/ f.state \in {"decision-rejected", "observation-delivered"}
       \/ f.state \in {"prepared", "decision-requested"} /\ f.raw = "none" /\ ~f.tool
  /\ d.state = "DecisionReady" => f.raw # "none"
  /\ d.state = "ProcessingDecision" => f.decision # "none" /\ f.decision = f.raw
  /\ d.state = "WaitingForTool" => Awaited(d) # 0
  /\ d.state = "WaitingForObservation" => Awaited(d) # 0 /\ f.state = "tool-observed"
  /\ d.state = "Finalizing" => f.decision = "complete"
  /\ f.n = 0 <=> f = NoFrame

\* A ToolInvocation the run relies on exists, and one it observed is observed.
ToolFits(d) ==
  /\ Awaited(d) # 0 => tool[Awaited(d)].phase # "Absent"
  /\ d.state = "WaitingForObservation" => tool[Awaited(d)].observed

\* Whatever the interleaving of reconcilers, stale writes after a tool call, old
\* lists and crashes, the persisted phase, executionState, frame and ToolInvocation agree,
\* so no handler meets the states its internal-error exits are for: "No active
\* ToolInvocation recorded", "No model response recorded", "Observation missing".
\* The executionEpoch of a started run is 1 for ever: a run never starts twice.
PersistedStateConsistent ==
  /\ PhaseFits
  /\ data.epoch \in {0, 1}
  /\ data.state = "none" => data.epoch = 0
  /\ data.state \in ResumablePhases => data.epoch = 1
  /\ FrameFits(data)
  /\ ToolFits(data)

\* The recorded usage stays within the hard budgets of spec.execution, although
\* a reconciler may write back usage it read before a tool call.
WithinBudgets(d) ==
  /\ d.usage.iterations <= MaxIterations
  /\ d.usage.model <= MaxModelInvocations
  /\ d.usage.tool <= MaxToolInvocations
  /\ d.frame.n = d.usage.iterations

BudgetsRespected == WithinBudgets(data)

\* At most one reconciler is executing the ToolInvocation of an iteration, and
\* nobody may start it meanwhile, although engines and controllers that refuse
\* to replay it settle it behind the executor's back and retries run again. The
\* one way to a second execution is a controller that authorises an invocation
\* which is no longer in the phase its list has.
OneExecution ==
  \A r \in Reconcilers : pc[r] \in {"tool", "tic"} /\ snap[r].n \notin outdated =>
    /\ tool[snap[r].n].phase \in {"Running"} \cup ToolTerminalPhases
    /\ \A q \in Reconcilers \ {r} : pc[q] \in {"tool", "tic"} => snap[q].n # snap[r].n

\* The policy allows g, or an approver did.
Permitted(g) ==
  \/ policy[g] = "Allow"
  \/ policy[g] = "RequireApproval" /\ approvals[g].phase = "Approved"

\* The model is called, a tool executed, the Artifact written only if Policy
\* allowed it or an approver did; a rejection is never overtaken.
EffectsApproved ==
  /\ issued # {} => Permitted(Model)
  /\ \A i \in Iterations : executions[i] > 0 => Permitted(Tool(i))
  /\ phase = "Succeeded" => Permitted(Write)

\* Once the run is over no model call is issued, no tool started and nothing
\* delivered, not even by a reconciler that was in a call when it ended.
NothingBeginsAfterEnd == [][Terminal => UNCHANGED history]_vars

\* A terminal phase is left, or replaced, only by the decision on an approval.
EndIsFinal == [][Terminal /\ phase' # phase => ApprovalStep]_vars

-----------------------------------------------------------------------------
(* Why: the inductive invariant behind the properties above *)

\* An engine that awaits a tool call remembers data that was consistent when
\* the call began, of an iteration whose ToolInvocation still exists.
SnapFits(r) ==
  LET d == snap[r].data IN
  /\ snap[r].n = Awaited(d)
  /\ d.state = "WaitingForTool"
  /\ d.epoch = 1
  /\ d.frame.n # 0
  /\ d.activeTool # 0
  /\ d.frame.tool => d.activeTool = d.frame.n
  /\ tool[Awaited(d)].phase # "Absent"

\* activeToolInvocation outlives its iteration, but never names another
\* invocation than the frame does: Awaited(d) is d.activeTool all along.
ActiveToolFits ==
  /\ data.frame.tool => data.activeTool = data.frame.n
  /\ data.activeTool # 0 => data.frame # NoFrame

RunConsistent ==
  /\ PersistedStateConsistent
  /\ data.state \notin {"Pending", "Scheduled", "WaitingForApproval"}
  /\ phase = "WaitingForApproval" => data.state \in ResumablePhases
  /\ data.active # NoModel => data.frame # NoFrame
  /\ ActiveToolFits

ToolsConsistent ==
  \A i \in Iterations : tool[i].phase \in ToolTerminalPhases => tool[i].observed

CallsConsistent ==
  /\ \A r \in Reconcilers : pc[r] = "tool" => SnapFits(r)
  /\ \A r \in Reconcilers : pc[r] = "model" => snap[r].inv # NoModel

StateInvariant == RunConsistent /\ ToolsConsistent /\ CallsConsistent

BudgetsInvariant ==
  /\ WithinBudgets(data)
  /\ \A r \in Reconcilers : pc[r] = "tool" => WithinBudgets(snap[r].data)

\* Every effect so far was allowed, and it would be allowed again: an approval
\* is decided once.
EffectsInvariant ==
  /\ issued # {} => Verdict(Model) = "Allow"
  /\ \A i \in Iterations : executions[i] > 0 => Verdict(Tool(i)) = "Allow"
  /\ phase = "Succeeded" \/ data.state = "Succeeded" => Verdict(Write) = "Allow"

-----------------------------------------------------------------------------
(* What holds of one reconciler that crashes and comes back *)

\* Every model invocation is issued once and paid for once; two invocations
\* never share an id, also after a crash in between.
ModelCallsCounted == Cardinality(issued) = data.usage.model

\* A tool runs once per counted attempt, crashes and retries included.
ExecutionsBounded == \A i \in Iterations : executions[i] <= 1 + MaxToolRetries

\* ToolInvocations are counted; a crash between the creation of one and the
\* run's transition leaves at most one uncounted.
InvocationsCounted ==
  Cardinality({i \in Iterations : tool[i].phase # "Absent"}) <= data.usage.tool + crashes

\* An Observation is delivered once.
DeliveredOnce == \A i \in Iterations : deliveries[i] <= 1

\* The run has taken the outcome of iteration i's ToolInvocation.
Taken(i) ==
  \/ i < data.frame.n
  \/ i = data.frame.n /\ data.frame.state \in {"tool-observed", "observation-delivered"}

\* A settled ToolInvocation stays settled, and never changes once the run has
\* taken its outcome. Before that one kind of it may be settled once more: denied
\* by an approver while it is on the controller's list.
SettledIsFinal ==
  [][\A i \in Iterations : tool[i].phase \in ToolTerminalPhases =>
       /\ tool'[i].phase \in ToolTerminalPhases
       /\ tool[i].phase # "Denied" \/ Taken(i) => tool'[i] = tool[i]]_vars

\* The run waits for somebody: an approver, or the Context.
WaitsForSomebody ==
  \/ phase = "Pending" /\ ~ctxReady
  \/ phase = "WaitingForApproval" /\ \E g \in Guarded :
       data.pending = g /\ approvals[g].phase = "Pending"
  \/ phase = "WaitingForTool" /\ ApprovalPending(Awaited(data), tool[Awaited(data)].phase)

\* The run never gets stuck: whatever crashed, it ends or waits for somebody,
\* again and again.
NeverStuck == []<>(Terminal \/ WaitsForSomebody)

\* After the end of the run every ToolInvocation is settled sooner or later.
ToolsSettle ==
  Terminal ~> \A i \in Iterations : tool[i].phase \in ToolTerminalPhases \cup {"Absent"}

\* A cancellation of a run that was ever scheduled ends the run, also while it
\* waits for an approval nobody decides.
CancellationEnds == cancelRequested /\ phase # "Pending" ~> Terminal
=============================================================================
