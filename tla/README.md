# A formal model of the AI platform's control plane and Execution Engine

TLA+ modules, TLC configurations and TLAPS proofs for `ai_platform`, a
declarative control plane for AI agents. A user applies resources (Workspace,
Mission, Policy, Knowledge, ...); controllers reconcile them into Fleets,
Agents, Contexts and AgentRuns; the Execution Engine drives each AgentRun
through a loop of model calls and tool calls; Policy and approvals guard what
the run may do. Everything is persisted in one SQLite store, so that any
process can take over a run.

Paths such as `runtime.py:1478` are relative to `src/ai_platform/`; `docs/`
stands for `src/docs/`.

## 1. Inventory

| Component | State it keeps | Operations | What makes it correct |
|---|---|---|---|
| `ResourceStore` (storage.py) | resources as JSON manifests with generation and status, events, artifact records, knowledge chunks | `apply`, `update_status` (merge), `get`, `list`, `delete` (cascade), `emit_event`, `replace_knowledge_chunks` | no update is lost; generations grow; ownership is acyclic; no orphans after a cascade |
| Execution Engine, `AgentRuntime` (runtime.py) | `status.phase` and `status.data` of an AgentRun: executionState, epoch, frames, usage, active model invocation | one handler per phase, called from the loop of `run` | the persisted parts agree; budgets are hard; effects are permitted; nothing is repeated after a crash; a finished run stays finished |
| Tool runtimes (runtime.py) | none; they change a workspace | `execute` in a thread | stay within the workspace |
| `ToolInvocationController` (controllers.py) | status of ToolInvocations | settle every unsettled invocation: fence, refuse replay, authorise, execute | never two executions at once; invocations of a finished run are settled |
| `LocalAgentRunWorker`, `AgentRunController` | phase of AgentRuns | schedule a Pending run; call the engine; fail a run whose pass raised | every run is driven on |
| `PolicyEngine` (policy.py) | Approvals | `evaluate`, `authorize`, create an approval, pause the run | one approval per action; a decision is final |
| `ApprovalService` (policy.py) | Approvals, phase of the AgentRun | `approve`, `reject` (terminate or continue) | resumes exactly what waited |
| Mission, Fleet, Agent controllers | the hierarchy and its statuses | materialise children, aggregate their phases upwards | the children converge to the spec; a parent's status follows from its children |
| KnowledgeIndex, Context controllers, knowledge.py | chunks, hashes of their documents, rendered Contexts | index, retrieve, build a Context | chunks and hashes agree; a Context holds the best chunks of one generation of the index |
| `ControlPlane` | none | `reconcile_once`: the controllers in a fixed order; `run_forever` | everything is visited again and again; nothing ends the loop |
| API, CLI | none | the same operations, plus cancellation | |
| Model adapters (models.py) | none | `generate` | answer, error, or no answer in time |
| Events, observability | events | projections | write-only for all others |

How they interact. Everything goes through the store: controllers list
resources, compute, and write statuses back; the API and the CLI call the same
services. Concurrency comes from three sources. Inside one process, `POST
/reconcile`, `POST /controllers/run`, the approval endpoints and the background
loop start several `reconcile_once` coroutines in one event loop; they
interleave at awaits, and the engine has exactly two: `client.generate`
(runtime.py:1050) and the tool runtime's thread (runtime.py:1595, and
controllers.py:1225 for the controller). Several processes (API server, `cli
reconcile --watch`) share the database, so they interleave between any two
database sessions. And a process may die at any point and be replaced.

What is hard: data read before an await and written after it; a second
reconciler that sees a ToolInvocation Running and cannot know whether its
executor is alive; late model answers; late decisions of approvers; crashes
between two writes that belong together; budgets at their boundary; a retry of
what somebody else has settled; an approver and a worker that miss each other; users who
delete what a controller has listed; chunks and hashes written in two sessions.
`PROJECT.json` lists every hazard at its line,
with the properties that cover it.

## 2. Modules

The most important behaviour came first: the engine, where model calls, tools
and money meet concurrency and crashes. The rest follows what it depends on and
what depends on it.

| Module | Models | Proofs | Runs |
|---|---|---|---|
| `AgentRunEngine` | one run, its ToolInvocations and approvals, overlapping reconcilers, crashes | `AgentRunEngineConsistency`, `AgentRunEngineProofs`, `AgentRunRecoveryProofs` | `overlap`, `recovery`, `progress` |
| `AgentRunEngineClaims` | a promise of the documents that the engine breaks | | `stale_completion` |
| `AgentRunLifecycle`, `AgentRunRefinement` | what a run promises the controllers above it, and that the engine implements it | `AgentRunRecoveryProofs`, `MissionHierarchyProofs` | `recovery`, `hierarchy_progress` |
| `ApprovalHandover` | a run and its approvers, one session of the store at a time, in several processes | `ApprovalHandoverProofs` | `handover`, `lost_wakeup` |
| `MissionHierarchy` | Mission, Fleet, Agents, AgentRuns, Contexts: materialisation and aggregation | `MissionHierarchyProofs` | `hierarchy`, `hierarchy_progress` |
| `ControlLoop` | the loop over two or more Workspaces, ownership, cascading deletion, the death of the loop | `ControlLoopProofs` | `control_loop`, `workspace_isolation` |
| `KnowledgeIndexing` | the index of a Workspace whose files change, and a Context built from it | `KnowledgeIndexingProofs` | `knowledge` |
| `MarkdownChunker`, `KeywordRetrieval` | chunking and ranking, with reference definitions | `RetrievalProofs` | `retrieval` |

How they compose. The same AgentRun appears in five modules at five levels of
detail. `AgentRunLifecycle` is what they have in common: AgentRunEngine implements
it (`ImplementsLifecycle`), and the AgentRuns of MissionHierarchy make no moves but
its own (`OneLifePerGeneration`); both are proved, the first for one reconciler.
ApprovalHandover opens the steps
that AgentRunEngine takes as one (`Ask`, `Pause`, `Approve`, `RejectTerminate`).
ControlLoop forgets phases, so as to follow which resources exist while a pass is
suspended. KnowledgeIndexing is what MissionHierarchy leaves to a choice: whether an
index can be built. A content of KnowledgeIndexing stands for what MarkdownChunker
cuts from it.

What is left to do. Splitting every handler of AgentRunEngine at its sessions, so
that two processes interleave inside `update_status` and
`_fence_execution_mutation` (StatusRace in the first plan), multiplies a state
space of more than a million states by the positions inside each handler: it is
out of TLC's reach as a whole. ApprovalHandover does it for the handlers in which an
approver and a worker meet.

## 3. AgentRunEngine: how the model corresponds to the code

**Atomicity.** A reconciler is one `reconcile_once` coroutine. Between two
awaits a coroutine of one event loop is not interrupted, so one action is one
turn of the loop in `AgentRuntime.run`, one outcome of an awaited call with
everything up to the next turn, one visit of a controller, or one decision of an
approver. `pc[r]` says where a coroutine is:
`ready` (outside the engine), `engine` (between two turns of the loop),
`model`, `tool` (in one of the engine's awaits), `tools` (the
ToolInvocationController has listed the ToolInvocations and may be awaiting those of
other runs), `tic` (it awaits the tool of this run). `snap[r]` holds the local variables
that live across an await: the id of the model invocation, `data` and the iteration of
the tool call, or the controller's list. What a handler reads again after an await is
read from the state, what it does not from `snap`. For several processes this atomicity is an idealisation; ApprovalHandover opens
the windows inside the handlers that ask for, take and act on approvals.

Inside a process, turns of the loop that do not await cannot be interleaved
with others. The model allows interleaving between turns anyway: that covers
several processes at the granularity of handlers, and is an over-approximation
for one.

**The controller's list.** `ToolInvocationController.reconcile_once` lists the
ToolInvocations once (controllers.py:1118) and tests the phase that the list has, although
the tools of the entries before are awaited in between; only the run, the Policy and the
approval are read again (1141, 1147, 1199). So `ListInvocations` puts the phases into
`snap[r].listed`; `Visits(r, i, p)` says that it is the turn of invocation i, which was listed in
phase p; and every action of the controller is guarded by p, not by `tool[i].phase`,
which it overwrites whatever it has become. One run is modelled; others appear as
the time that passes between `ListInvocations` and a visit, in which other reconcilers,
approvers, users and clocks act. `outdated` records the invocations that were authorised
in a phase the list no longer had right.

**State.** `phase` and `data` are `status.phase` and `status.data`. Of the data
the model keeps executionState, executionEpoch, the active frame, the usage,
activeModelInvocation, pendingApproval and activeToolInvocation; a frame keeps
its iteration, state, attempts, retry counters, raw and validated decision, and
whether it has a ToolInvocation. `Awaited` is the invocation a run waits for: that of its frame, else
activeToolInvocation (runtime.py:1440); the two differ in principle, because an invocation of an
earlier iteration can be parked again by a controller with an old list and then be
rejected with continue. A ToolInvocation's name is a function of run
and iteration (runtime.py:2874), so `tool` is indexed by iteration. Approvals
are found by action hash (policy.py:42, 201), so `approvals` is indexed by the
guarded action; the hash covers the invocation's name, which gives one approval
per iteration. `bound` says whether the approval names the AgentRun: those that
the controller asks for do not (controllers.py:1147). The store merges data
(storage.py:744): a key that the written data lacks keeps its value. `Merged`
models that, and it is also why the engine's `clear_data_keys` clear nothing
that the written data still contains.

**Actions.** Each disjunct of `EngineStep`, `CallReturns`, `ControllerStep` and
`ApprovalStep` is named after the code's outcome and `PROJECT.json` maps it to its
lines. Checks at the top of the loop (terminal, Pending, WaitingForApproval,
cancellation, wall time, in this order) are in `EngineTurn`, `CancelRun` and
`TimeOutRun`. Environment actions are `RequestCancel` (the API), `ChangeContext`
(the ContextController), `PassWallTime` and `PassDeadline`.

**Crashes.** `Crash` kills a coroutine between two turns or in an awaited call:
it starts over as `ready`. The `DieAfter...` actions do the first of several
writes of a handler and then die: after Starting was persisted, after a new
frame, after the ToolInvocation was created, after Authorized, and at each
write of a tool call's outcome. A crash while a call is recorded as in flight
is `Crash` after `RequestDecision`.

**Data that is abstracted.** A model answer is one of `invoke_tool`, `complete`,
`fail`, `invalid`; the last stands for every response that validation refuses
for a reason of its own. A policy is a function from guarded actions to
effects, chosen in `Init` and never changed. Missing resources are the constant
`LoadsMayFail`; a Tool whose contract no longer admits an invocation is a choice
(`RefuseTool`, `ControllerRefuses`). Time is two flags, that the wall time and
the deadline of the active invocation have passed.

**Ghost variables.** `issued`, `executions` and `deliveries` record the ids of
model calls, the starts of tools, and the deliveries of Observations, and `outdated` the
authorisations by an old list. No guard reads them.

**What is left out.** Messages, events, Artifacts, wall-clock values, the
step guard of 1000 turns, changes of a run's spec other than cancellation,
the handlers of other runs, and the recovery branches of
`_ensure_active_frame` that need a frame no run awaiting a decision has: the
theorem `StateConsistent` shows that these states do not occur. A thread that goes
on after its tool timed out is outside the model. A crash inside `authorize`
or inside a decision of the ApprovalService is in ApprovalHandover, the deletion of
a run in ControlLoop.

## 4. MissionHierarchy: how the model corresponds to the code

**Atomicity.** The Mission, Fleet, Agent, KnowledgeIndex, Context and AgentRun
controllers await nothing, so one action is one pass of one controller
(`reconcile_once` of its class), and `at[c]` counts the passes of control plane `c`
in the order of `ControlPlane.reconcile_once` (controllers.py:1630): `Cycle`. The
worker and the ToolInvocationController, which come in the middle, are the
`RunActs` that may happen at any time. Several control planes interleave between
passes; that two processes interleave inside a pass is not modelled.

**State.** One Mission, its FleetTemplate, its Fleet, the Agents by name, and for
the present generation of each Agent one attempt: the AgentRun and its Context.
Every resource has its generation `gen`, and its status the phase and the
`observedGeneration`, `obs`. The annotations by which a controller recognises
what it has made (controllers.py:192, 534) are `missionGen`, `templateGen`,
`fleetGen`. `apply` (storage.py:217) gives an existing resource the next generation
and keeps its status; `update_status` writes the phase and makes `obs` the present
generation. A Context that is applied again because the query changed is
`Stale`: Ready, of an older generation. A new generation of an Agent has an
AgentRun of another name (controllers.py:83): `NewAttempts` forgets the old one,
which runs on but is read by no controller of the hierarchy.

**Actions.** A pass is split by its outcome: a Mission is skipped, aggregated,
rejected because its template is gone, or its Fleet is applied; a Fleet is skipped,
failed because Capabilities cannot be resolved, its outdated Agents are applied, or
it is aggregated. `AgentPass` makes what is absent below each unsettled Agent and
aggregates its attempt. `IndexPass`, `ContextPass`, `SchedulePass` are the
controllers below. Users apply the Mission again, apply the template, and delete
it (generations then start over). AgentRuns wait, resume, end, are rejected, are
failed while they wait, and are revived: the moves of AgentRunLifecycle, which
AgentRunEngine is shown to implement (section 8).

**Crashes.** Each `Die...` action does some of the writes of a pass and returns
the control plane to the first of its passes: `DieAfterFleet` before the Mission's
status, `DieAmongAgents` after any Agents and perhaps before the status of the last,
`DieAmongAttempts` after any of the resources of an Agent, `DieAmongContexts` and
`DieAmongRuns` after any of several. `DieBetweenPasses` writes nothing. Crashes are
not counted: any number is possible.

**Data that is abstracted.** Whether a Capability, one of its Tools or a Model is
missing is a choice of each pass, possible only when there is a template, because
only then is there a Capability. Whether an index can be built is a choice of
each pass. A query is named by the generation of the Mission that introduced it.

**What is left out.** Other Missions, which share only the KnowledgeIndex (one per
Workspace; what it holds is in KnowledgeIndexing); deletion of Missions (in
ControlLoop); exceptions that fail an Agent, which need a Mission deleted under it; Capabilities that change so that an
Agent no longer matches; users who edit Fleets and Agents, which the controllers
own; messages, events and data of the statuses.

## 5. ApprovalHandover: how the model corresponds to the code

**Scope.** One AgentRun at one guarded action whose Policy asks for an approval:
the write of its Artifact in `_finalize_run`. The model call and the use of a
declared tool ask, pause and resume in the same way.

**Atomicity.** One session of the store is one step; processes interleave between
any two. Where the code first reads a resource and then calls `update_status` on
it, and the read decides something, there are two steps: `ReadRun` and `WriteRun`
of the approver, `Fence` and `Settle` of the engine, `Load` and `Record`.
`update_status` itself is one step; see section 10.

**State.** `run` has the phase, the executionState and the pendingApproval.
`approval` gives each name its phase; None is a name that was never used. A worker
is a process in `LocalAgentRunWorker`, `worker[w].at` the place in
`authorize` that it has come to; a decider is a process in `approve` or
`reject`. Granting and rejecting find their run through the Approval
(policy.py:482), the engine its Approval through the hash of the action
(policy.py:201), which contains the name of the run but neither its uid nor its
generation. Therefore approvals survive `DeleteRun` and apply to the run that
`Recreate` makes.

**Actions.** `Enter` (the handler and its fence), then by what
`_approval_for_action` finds `Reuse`, `Granted`, `Refused`, `NotAskedYet`;
`CreateApproval` (apply), `MarkPending` (the update_status that follows it) and
`PauseRun`; `Perform`, `Fence`, `Settle`. A decider does `Load`, `Record`, `ReadRun`,
`WriteRun`. `Die` and `Abandon` kill a worker or a command anywhere.
With `EarlyDecisions = FALSE` an approver acts on what a waiting run names; with
TRUE also on approvals that the list of approvals shows (api.py:139).

**Fairness.** Weak fairness of each worker's next step, crashes apart (the loop
returns to the run), and of a decider that has loaded an approval: a command runs
to its end unless it is killed, which `disturbed` records. Nobody has to decide.

## 6. ControlLoop: how the model corresponds to the code

**Scope.** One process: `run_forever`, started once by `POST /controllers/run`,
and the API's other endpoints. Each Workspace has at most one resource of each
kind, with the ownership of `_default_owner_references` (storage.py:303). The
phases of Missions, Fleets and Agents are reduced to "its controller passes it
over", those of an AgentRun to Pending, Active, Over, those of a ToolInvocation
to Open, Running, Settled.

**Atomicity.** What happens between two awaits is one step. Controllers that
await nothing take one step per pass. `LocalAgentRunWorker` and
`ToolInvocationController` list what they are going to visit (`ListRuns`,
`ListTools`: `todo`) and then take one step per visit and per awaited call. Users act
while the loop sleeps or awaits, or is dead (`UsersTurn`).

**What ends the loop.** No method between a controller's `except` branches and the
task of `run_forever` catches anything. The branches themselves write to the
resource whose handling failed: the worker's to the AgentRun
(controllers.py:1084), the ToolInvocationController's to the ToolInvocation
after loading its AgentRun (controllers.py:1156, 1170). `RunVisitSurvives` and
`ToolVisitSurvives` say when these resources are there. If not, `update_status`
raises KeyError, the task ends, and `POST /controllers/run` answers
"already-running" from then on (api.py:88).

**Deletion.** `Removed`: a Workspace takes everything in its namespace with it,
Missions and Fleets what they own, directly or not, anything else only itself
(storage.py:529). A deleted resource that a controller wants is created again
under its old name and adopts what was left behind: a re-created AgentRun the
ToolInvocation of its predecessor (runtime.py:1379; `WantsTool`).

**History variables.** `cut`, `exposed` and `touched` record what deletions hit. No
guard reads them.

**Fairness.** Weak fairness of `LoopStep`: the event loop goes on, awaited calls
have timeouts, and the sleep ends. A restart is possible, never assumed.

**What is left out.** KnowledgeIndexes, Contexts and Artifacts, which no other
resource in the model owns or is owned by on the path from Workspace to
ToolInvocation; `POST /reconcile`, which runs a second pass and reports its
exception to the caller; generations; approvals.

## 7. KnowledgeIndexing and retrieval: how the models correspond to the code

**KnowledgeIndexing.** The KnowledgeIndex of one Workspace, in one process.
`ensure_indexed` loads the documents one by one (`Load`), compares (`Compare`),
replaces the chunks (`Replace`) and records status and hashes (`Record`), or fails
(`Fail`); the last three are sessions of their own. It has no await: the only things that happen
between its steps are changes of files (`Edit`), made by tools, which run in
threads, and by people, and the end of the process (`Crash`). A document is its content, and stands
for its hash; the chunks of a document are the content they were cut from, none
if it has no text (`Blank`). The loop goes through three controllers in the
order of `reconcile_once`: the AgentController extends the sources of the index by what
the Mission refers to (any sources: `AgentDue`), the KnowledgeIndexController
indexes, the ContextController builds. The API searches (`Search`, which indexes
first) and deletes the index (`DeleteIndex`) while the loop sleeps.

`reverted` is a history variable. It becomes TRUE in one sequence of events: the
chunks of a changed file are stored, the process ends before the hash is, and
the file gets back the content it had. The index then looks current, is Ready, and
serves chunks of a content that the file no longer has. Hashes cannot tell; a
marker written before the chunks are replaced could.

Fairness: the loop goes on (`WF_vars(LoopStep)`), and it wakes up although
searches may interrupt its sleep again and again (`SF_vars(WakeUp)`): a timer of the
event loop is not starved by requests.

**MarkdownChunker, KeywordRetrieval.** Pure functions of the code as operators:
`Sections`, `ChunkSection`, `Chunk`; `Score`, `Retrieved`, `Unique`,
`ContextChunks`. A line is its level as a heading and its length; a chunk in
the store the number of occurrences of query terms, whether its source is
preferred, and its hash. Lines are named by their numbers, so that what is
lost, moved or duplicated shows. Loops of the code that carry a state over lines or
paragraphs (`_sections`, `_chunk_section`) are folds of one step over that state:
`ScanLine`, `CutLine`, `Pack`. A sort of the code is `InOrder`: the enumeration of a
set that an order sorts. The reference definitions are in the second half of
each module and do not say how anything is computed: the lines with text, all of them, once
and in order (`KeepsText`); limits and greedy packing (`Fits`); the headings
that enclose a line (`IsUnderItsHeadings`); the chunks before which fewer than the
limit rank, each content once (`HoldsTheBest`). `Nested` is the premise of the third:
when a document skips a level, `headings[: level - 1]` keeps headings of the same
level that have ended, and the path of a section names them.

## 8. AgentRunLifecycle and the refinement

`_aggregate_agent` (controllers.py:851) tells six conditions of a run apart;
`Seen` computes them from the state of AgentRunEngine in the order of its
branches, and `AgentRunLifecycle` has the moves between them.
`ImplementsLifecycle == Lifecycle!Spec` with `run <- Seen`: every step of engine,
crash, approver, cancellation and time is one of these moves or none. Two of them
are worth knowing. `EndUnasked`: an approval granted for a tool that the controller
asked about leaves pendingApproval behind, and the run succeeds while its
Agent still shows Waiting. `Revive`: a run that failed with an approval open
comes back when it is granted (section 9, smaller disagreements).

MissionHierarchy has an action for each of these moves. `OneLifePerGeneration` is the
other half of the composition: whatever control planes, users and crashes do, the
AgentRun of an Agent is created once per generation, makes only moves of
`AgentRunLifecycle`, and gives way to another only when its Agent gets a new
generation. So no controller moves a run behind the engine's back, and what
MissionHierarchy shows holds with the engine below it.

The refinement holds for one reconciler. With two, a stale completion
(`stale_completion`) takes a run back into a wait that was over. Section 10 proves it
for one reconciler and any policies, budgets and number of crashes.

## 9. What TLC checks

The instances are in the `.cfg` files; `MCAgentRunEngine.tla` has the policies and
the symmetry of the engine's runs, `MCRetrieval.tla` the inputs of the two pure
algorithms. "States" are distinct states.

| Run | Instance | States | Properties | Shows |
|---|---|---|---|---|
| `overlap` | two reconcilers, one crash, everything allowed, no retry of tools | 438 390 | `PersistedStateConsistent`, `BudgetsRespected`, `OneExecution`, `EndIsFinal`, `NothingBeginsAfterEnd` | overlapping reconcilers damage neither the persisted state nor the budgets, execute a tool at the same time only by an old list, and begin nothing after the end |
| `recovery` | one reconciler, one crash, loads may fail, seven policies | 581 210 | `TypeOK`, `EffectsApproved`, `ModelCallsCounted`, `ExecutionsBounded`, `InvocationsCounted`, `DeliveredOnce`, `SettledIsFinal`, `ImplementsLifecycle` | no effect without permission; a crash repeats nothing that was counted or delivered, and what is settled stays settled; the engine is the run that the controllers above it expect |
| `progress` | one reconciler, one crash, fairness | 160 918 | `NeverStuck`, `ToolsSettle`, `CancellationEnds` | the run ends or waits for somebody, tools settle, cancellation works |
| `hierarchy` | two Agents, one change | 2 587 409 | `TypeOK`, `SuccessIsEarned`, `AttemptsAnswerEdits` | success goes up only from the AgentRuns that the present generation asked for; no execution without a change of desired state |
| `hierarchy_progress` | one Agent, one change, fairness | 107 487 | `OneLifePerGeneration`, `MissionSettles`, `FailureReachesFleet` | no pass restarts an AgentRun; the Mission ends or waits for an approval; a failure is not lost on its way up |
| `handover` | one worker, one approver, two crashes, two deletions, fairness | 1 977 | `AskedOnce`, `PerformedIsApproved`, `ApprovedRunEnds` | one question per action, one answer, and the answer reaches the run |
| `control_loop` | two Workspaces, two deletions, one restart, fairness | 64 681 | `OrphansAreCut`, `LoopDiesOnlyByDeletion`, `RunsEnd` | cascades are complete; the loop dies of nothing but the deletion of what is in use |
| `knowledge` | two files, three contents, two edits, one crash, fairness | 229 994 | `ServedAsNamed`, `IndexGetsFresh`, `ContextGetsReady` | what is served is what the index names, and the index gets to the files as they are |
| `retrieval` | documents of up to five lines, stores of up to four chunks | 31 951 | `ChunksKeepText`, `ChunksFit`, `SectionsEnclose`, `ContextHoldsTheBest` | chunker and ranking do what their reference definitions say |

**Bounds of the engine.** Two
iterations are the least at which a frame, a ToolInvocation and an Observation
of one iteration can be confused with those of another; three model calls allow
a retry on top of two iterations (in `overlap` there are two: either a second
iteration or a retry, no rejected Decision may be corrected and no failed tool be tried
again, so that two reconcilers with their lists stay within minutes; `recovery` has all
three with one reconciler, and the proofs of section 10 have them with any number);
one crash and one retry each separate "once"
from "twice". One or two reconcilers: two are needed for every overlap, and the
state kept per reconciler mentions no third; the proofs of section 10 cover any
number. Reconcilers are symmetric (no property distinguishes them) in
the runs without liveness. Deadlock is not checked because a run that is over, or
waits for a person, may stop; what must not stop is checked by `NeverStuck`.
The properties of `recovery` need one reconciler: with two the code violates them,
which is what the first finding is about. Section 10 proves them for one reconciler and
every value of the other bounds.

**Bounds of the hierarchy.** Two Agents are the least of which some can be applied,
done or failed and others not; one change of the Mission or the template separates
"the present generation" from "an earlier one".
Crashes need no bound. One control plane that may die between and within passes
already goes back to the Mission at any moment; two of them can also skip passes
forward, in orders that the proofs cover for any number and TLC's
instances do not. In `hierarchy_progress` one Agent is the way up that a failure has
to take; what other Agents add, a Fleet that has failed already, is what the
property asks for. Deadlock is checked.

**Bounds of the handover.** Two names for approvals, so that a second one could be
created: `AskedOnce` would show it. Two crashes of the worker are one before
and one after the pause, or two while it asks; commands of the approver may die any
number of times. Two deletions let a
run be created again and once more. `PerformedIsApproved` and `ApprovedRunEnds` are
checked for one worker and one approver who acts when the run waits; section 9's
findings say what happens otherwise.

**Bounds of the loop.** Two Workspaces are needed for one to harm the other. Two
deletions reach every pair of an orphan and a second loss, such as the Agent above
an AgentRun and then the run. One restart shows that a loop that starts anew
drives on what it finds. How often resources are created again is not bounded.

**Bounds of the knowledge.** Two sources, of which one is declared and the other is
added by the Mission, so that the set of sources changes under a Ready index;
three contents, one of which cuts into no chunk; two edits can change a
file and change it back, which with a crash in between is the reverted case.

**Bounds of retrieval.** Within five lines there are a heading, a second one of
a higher, equal or lower level, and paragraphs on either side of the limit
(`MaxChars = 8`; two lines of five characters exceed it, as one paragraph or as two). Four
chunks with a limit of two have ties, duplicates within and beyond the limit, and
chunks without any match.

**Fairness.** *Engine:* weak fairness of the scheduling and of the controller's list and
visits, for each reconciler: `run_forever` and `reconcile --watch` visit every
resource again and again (controllers.py:1647). Strong fairness of the engine's steps:
a reconciler in the model may begin a pass of the controller whenever it is `ready`, which
disables the engine for a while, but `reconcile_once` always goes on from that
controller to the worker (controllers.py:1639), so the engine has its turn again and again.
Weak fairness of the return of
a call: `asyncio.wait_for` bounds a model call (runtime.py:1050) and a tool call
that has a timeout (runtime.py:2917); that one is configured is an assumption.
Weak fairness of the deadline. Nothing is assumed of users, approvers, Contexts,
crashes or the wall time. *Hierarchy:* weak fairness of the passes of each control
plane, and that it comes to the last pass of its cycle again and again
(`[]<>(at[c] = 9)`): a process that died in the same
place each time would prevent all progress. Strong fairness of the end of an
AgentRun: an AgentRun may wait and resume, but each round spends a budget
(`BudgetsRespected` and `NeverStuck` of the engine), so one that is Scheduled again
and again ends. Nothing is assumed of users or approvers. The fairness of the other
modules is explained in sections 5 to 7.

**Mutants.** For each property of a passing run the module defines a mutated
operator next to the original (comments beginning `Mutant:`), a plausible bug of
the code that violates the property on that run's instance. They are not used
by the specification.

### Findings: what the documents promise and the code does not do

Each is a run with one property that TLC refutes. The shortest traces tell these
stories.

* `stale_completion` (`StaleCompletionFenced`): r1 executes the tool of iteration 1.
  r2 sees it Running,
  refuses to replay it, observes the failure and takes the run to iteration 2.
  r1's call returns. It re-reads the run, whose phase is now AwaitingDecision,
  fences this fresh run against itself, and writes the data it read before the
  call: the run is back in iteration 1 waiting for the Observation. The usage is
  rolled back as well, so iteration 2 is opened a second time, and a model
  invocation gets an id that was used before. (If r1's call fails and may be
  retried, the tool is executed again although its ToolInvocation is settled; if it
  succeeds, Failed is overwritten with Succeeded.) docs/spec/023-execution-engine.md:67
  demands that every mutation verify what it completes.
* `lost_wakeup` (`ApprovedRunEnds`): a worker has created the Approval and not yet
  paused the run. An approver in another process finds it in the list of approvals
  and grants it; there is no waiting run to resume. Then the worker writes
  WaitingForApproval (policy.py:277), which looks neither at the run nor at the
  Approval. The Approval is no longer Pending, so nobody can decide it again, and the
  engine returns at once from a run that waits. The run waits for ever, although
  docs/spec/012-policy.md:77 wants runs resumed when an Approval is granted. A window
  earlier in the same function, the worker writes the status Pending over the decision
  (policy.py:248).
* `workspace_isolation` (`WorkspacesAreIsolated`): a user deletes an AgentRun while
  the worker awaits its model. The pass raises, and so does the branch that wants
  to mark the run as failed (controllers.py:1084). Nothing above catches it; the
  task of `run_forever` ends, `POST /controllers/run` answers "already-running"
  (api.py:88), and the runs of every other Workspace stop. A ToolInvocation that is
  deleted while it is listed does the same, and an unsettled ToolInvocation whose AgentRun
  was deleted makes every later pass die, restarts included (controllers.py:1156).
  docs/spec/004-workspaces.md:17 forbids a Workspace to depend on another.

### The old list

Two more promises are broken by the list of the ToolInvocationController. They
are exceptions in the properties instead of runs of their own, so that what holds all the
same is checked and proved.

* `OneExecution` leaves out the invocations in `outdated`. The code executes
  an invocation twice at a time, in one process and without a crash: it waits for an
  approval, a coroutine lists it as WaitingForApproval and awaits the tool of another run, the
  approval is granted, another coroutine (`POST /reconcile`) starts the tool, and the first
  comes back, still sees WaitingForApproval in its list, finds the approval decided, is
  allowed by Policy and starts the tool again (controllers.py:1128, 1203). Nor does it notice
  that an invocation has completed meanwhile, which is then executed again, against
  docs/spec/021-tool-invocations.md:87. Without the exception TLC finds the first of these
  behaviours after thirteen steps, under the policy `ApproveTools`.
* `SettledIsFinal` lets an invocation that was denied be settled once more until the run has
  taken its outcome. With a single reconciler, while the controller awaits the tool of
  another run, an approver rejects with continue: the invocation becomes Denied. The controller
  comes back with its list and writes Denied by Policy over the rejection's Observation; or, if the
  rejection has exhausted maxToolFailures and so ended the run (policy.py:573), it turns Denied
  into Cancelled (controllers.py:1299). docs/spec/021-tool-invocations.md:83 forbids to
  change the result of a terminal ToolInvocation. No other settled invocation is touched, and none
  whose outcome the run has taken.

With two reconcilers neither `SettledIsFinal` nor `ExecutionsBounded` holds, by the list or by
stale completions.

### Smaller disagreements

The modules contain these behaviours, and no run is spent on them.

Approvals and policies. An approval stays Pending when its run is over; if the worker
failed the run because a resource could not be loaded, granting it makes the run
continue (the move `Revive`; policy.py:479, against docs/spec/012-policy.md:88), and
rejecting the approval of a Cancelled run makes it Failed. The action's hash contains
neither uid nor generation, so an approval also speaks of a run that was deleted and
created again (`Recreate`). Two approvers in two processes can both find an
Approval Pending. With two workers, one that asks late can put the run back to waiting
on an approval that is decided. The first declared tool needs an approval and the
second is denied: Starting is persisted before tools are authorised
(runtime.py:885), and the approval puts the run back to Starting, which looks at no
tool (012-policy.md:48).

Budgets and ends. Tool timeouts count as tool failures but are not compared with
maxToolFailures (runtime.py:1600; 023-execution-engine.md:96).
A ToolInvocation that is Pending when cancellation is requested is still started by
the ToolInvocationController. A run whose last budgeted model call is in flight
ends as BudgetExceeded on the next pass, before the call is looked at. A Decision
beyond maxToolInvocations counts as an invalid Decision and may end the run as
Failed. A ToolInvocation created just before a crash is reused and never counted
(`InvocationsCounted` allows one per crash). A run that is Pending returns before
the cancellation check, one that waits for an approval before the wall time check
(hence the premise of `CancellationEnds`).

The hierarchy. A Mission that is applied again while its Fleet is about to succeed
can be Completed at its new generation on the Fleet's old status
(controllers.py:264; 005-missions.md:67); `SuccessIsEarned` speaks of the Fleet and does
not see it. When the documents cannot be indexed, Context,
Agent, Fleet and Mission fail for good, but the Context is built later after all and its
AgentRun is scheduled, calls models and tools, and nobody looks at its result
(controllers.py:932, 1010; 007-agents.md:18). A FleetTemplate that is deleted and
created again with other Agents has the generation it had before, so the drift
that docs/spec/006-fleets.md:22 asks to be detectable is not noticed
(controllers.py:252). An Agent that the Fleet no longer desires stays owned, and its
failure fails the Fleet (controllers.py:617). When a control plane dies between applying an
Agent and setting it Pending, the new generation shows the old phase, and an old Failed
fails the Fleet. The AgentRun of an earlier generation of an Agent runs on. With two
control planes an AgentRun can be scheduled on a Context that is Ready for an older query.

Deletion. An AgentRun that is created again takes the ToolInvocation of its
predecessor for its own (runtime.py:1379).

Knowledge. In the reverted case of section 7 the index is Ready and serves other
chunks than its hashes name (011-knowledge.md wants Ready, Failed and stale told apart);
two processes, one of them the CLI's index command, get there without a crash.
A document whose headings skip a level gets section paths that lose a heading
(knowledge.py:116; `SectionsEnclose` has this as its premise). Chunks are cut to the
limit before duplicates are dropped, so a Context can hold fewer than the limit
although there are more (knowledge.py:461).

## 10. What is proved

TLAPS proves the following for every value of the constants that the named
assumptions of the modules admit.

Of the engine, for every set of reconcilers and policies and
every value of the budgets, under `PoliciesAssumption` (a policy is a function from
guarded actions to effects) and `BudgetsAssumption` (budgets are natural numbers, as
`ExecutionSpec` validates):

| Theorem | Module | Statement |
|---|---|---|
| `ConsistentTyped` | AgentRunEngineConsistency | `Spec => [](TypeOK /\ StateInvariant)` |
| `TypeCorrect` | AgentRunEngineConsistency | `Spec => []TypeOK` |
| `StateConsistent` | AgentRunEngineConsistency | `Spec => []PersistedStateConsistent` |
| `NothingBeginsAfterEndHolds` | AgentRunEngineProofs | `Spec => NothingBeginsAfterEnd` |
| `EndIsFinalHolds` | AgentRunEngineProofs | `Spec => EndIsFinal` |
| `BudgetsRespectedAlways` | AgentRunEngineProofs | `Spec => []BudgetsRespected` |
| `OneExecutionAlways` | AgentRunEngineProofs | `Spec => []OneExecution` |
| `EffectsApprovedAlways` | AgentRunEngineProofs | `Spec => []EffectsApproved` |

Of the engine driven by one reconciler (`OneReconciler`: any two reconcilers are the
same), under the same assumptions and for any number of crashes:

| Theorem | Module | Statement |
|---|---|---|
| `ModelCallsCountedAlways` | AgentRunRecoveryProofs | `Spec => []ModelCallsCounted` |
| `ExecutionsBoundedAlways` | AgentRunRecoveryProofs | `Spec => []ExecutionsBounded` |
| `InvocationsCountedAlways` | AgentRunRecoveryProofs | `Spec => []InvocationsCounted` |
| `DeliveredOnceAlways` | AgentRunRecoveryProofs | `Spec => []DeliveredOnce` |
| `SettledIsFinalHolds` | AgentRunRecoveryProofs | `Spec => SettledIsFinal` |
| `LifecycleImplemented` | AgentRunRecoveryProofs | `Spec => ImplementsLifecycle` |

`OneReconciler` is what a deployment with one control plane is. It cannot be
dropped: with two reconcilers, one can take the executor of the other for a crashed one and
settle its ToolInvocation, and the executor then writes its old data over the
run's (`stale_completion` is such a behaviour of the code), or a controller with an old list
starts what the other has settled.

Of the hierarchy, for every set of control planes, every finite set of
Agents and every number of changes and crashes, under `NamesAssumption` (the
default Agent is one of the Agents, which are finitely many) and
`BoundsAssumption` (the number of changes is a natural number):

| Theorem | Module | Statement |
|---|---|---|
| `InvariantHolds` | MissionHierarchyProofs | `Spec => []HierarchyInvariant` |
| `HierarchyTyped` | MissionHierarchyProofs | `Spec => []TypeOK` |
| `SuccessIsEarnedAlways` | MissionHierarchyProofs | `Spec => []SuccessIsEarned` |
| `AttemptsAnswerEditsAlways` | MissionHierarchyProofs | `Spec => []AttemptsAnswerEdits` |
| `OneLifePerGenerationHolds` | MissionHierarchyProofs | `Spec => OneLifePerGeneration` |

Of the handover, for every finite set of workers, every set of approvers and any
number of crashes and deletions, under `NamesAssumption` and `BoundsAssumption` of
that module:

| Theorem | Module | Statement |
|---|---|---|
| `SpecTypeOK` | ApprovalHandoverProofs | `Spec => []TypeOK` |
| `SpecAskedOnce` | ApprovalHandoverProofs | `Spec => []AskedOnce` |
| `SpecPerformedIsApproved` | ApprovalHandoverProofs | `ASSUME AlonePremise(w, d) PROVE Spec => []PerformedIsApproved` |

`AlonePremise(w, d)` says that `w` is the only worker, `d` the only approver, and that
approvers act on what a waiting run names. Without it the code breaks the property.

Of the loop, for every set of Workspaces and any number of deletions and restarts
(`BoundsAssumption`: they are natural numbers):

| Theorem | Module | Statement |
|---|---|---|
| `SpecTypeOK` | ControlLoopProofs | `Spec => []TypeOK` |
| `SpecOrphansAreCut` | ControlLoopProofs | `Spec => []OrphansAreCut` |
| `SpecLoopDiesOnlyByDeletion` | ControlLoopProofs | `Spec => []LoopDiesOnlyByDeletion` |

Of the knowledge, for any sources, contents, edits and crashes, under
`ContentsAssumption` (a missing file has no content, blank contents are contents),
`DeclaredAssumption` (declared sources are sources) and `EditsAssumption` (the bounds
are natural numbers):

| Theorem | Module | Statement |
|---|---|---|
| `SpecTypeOK` | KnowledgeIndexingProofs | `Spec => []TypeOK` |
| `SpecServedAsNamed` | KnowledgeIndexingProofs | `Spec => []ServedAsNamed` |

Of chunking and retrieval, for every limit, under `MaxCharsAssumption` and
`LimitAssumption` (`MAX_CHUNK_CHARS` and the limit of a Context are natural numbers):

| Theorem | Module | Statement |
|---|---|---|
| `SectionsDivide` | RetrievalProofs | `ASSUME doc \in Seq(Line) PROVE IsDivision(doc, Sections(doc), Len(doc))` |
| `TextIsKept` | RetrievalProofs | `ASSUME doc \in Seq(Line) PROVE KeepsText(doc)` |
| `ChunksAreFull` | RetrievalProofs | `ASSUME doc \in Seq(Line) PROVE Fits(doc)` |
| `ChunksStandUnder` | RetrievalProofs | `ASSUME doc \in Seq(Line), Nested(doc) PROVE IsUnderItsHeadings(doc)` |
| `BestChunks` | RetrievalProofs | `ASSUME store \in Seq([matches : Nat, preferred : BOOLEAN, hash : Hash]) PROVE HoldsTheBest(store)` |
| `SpecKeepsText` | RetrievalProofs | `Spec => []ChunksKeepText` |
| `SpecFits` | RetrievalProofs | `Spec => []ChunksFit` |
| `SpecEncloses` | RetrievalProofs | `Spec => []SectionsEnclose` |
| `SpecHoldsTheBest` | RetrievalProofs | `Spec => []ContextHoldsTheBest` |

`Line` has any level and any length, `Hash` is any set: the first five speak of every
document and every store, however long. The last four are what they say of the
documents and stores that `MCRetrieval` writes, without its bounds on their lengths.

### The arguments

**Types and consistency of the engine.** Neither is inductive alone. That the frame's
iteration indexes `tool` in `WaitingForTool` is a fact about consistency
(`FrameFits`); that a field update stays a field update is a fact about types.
So `TypeOK /\ StateInvariant` is the inductive invariant. `StateInvariant`
strengthens `PersistedStateConsistent` by what must hold of the copies that
reconcilers carry across a tool call (`SnapFits`: the data was consistent, in
WaitingForTool, in epoch 1, and its ToolInvocation still exists), because those
copies become the persisted data; by `ToolsConsistent` (a settled invocation has
an Observation), because that is what makes it safe to enter
WaitingForObservation; and by `ActiveToolFits`, because a rejection with
continue moves the run to WaitingForTool on the strength of
activeToolInvocation, a key the code never clears. An old list can bring an invocation of
an earlier iteration back to WaitingForApproval, so that it is not harmless by itself; but the
handlers read the frame first, and what `ActiveToolFits` says is that the key names the invocation of
the frame once there is one, so `Awaited` is the active one whichever is read. The first half of AgentRunEngineConsistency
holds the lemmas about the operators (what `Enter`, `Fail`, `Merged`, `Observed`, ...
do to each field) and the preservation of types per action; the second half
preserves the parts of `StateInvariant` per action.

**The end of a run.** `NothingBeginsAfterEnd` and `EndIsFinal` need no invariant
beyond this one: every action that issues, starts or delivers has `~Terminal`
through `EngineTurn`, `ModelFence`, `SaveFence` or `ParentFenced`. The proofs are
one case per action.

**Budgets.** `BudgetsRespected` is preserved by increments because each is guarded
by its limit, but data written after a tool call comes from `snap`; the invariant
`BudgetsInvariant` says the same of each remembered copy.

**Effects.** `EffectsInvariant` states permission through `Verdict`, which is
stable: policies do not change, and `Decide` touches only Pending approvals. That
a run whose data says Succeeded was permitted to write its Artifact is added
because an approval can put the phase back to executionState.

**One execution.** A start requires a ToolInvocation that is startable in the phase its
starter knows. For the engine that is its phase, and no executor's invocation is startable.
For the controller it is the phase of its list: if that is out of date, the invocation
enters `outdated` and nothing is claimed of it; if not, the case is the engine's. A retry,
which sets Running anew, does not change who executes. Only a controller with an old list
takes an executor's invocation out of Running or a settled phase without starting it: it parks it,
and then the policy asks for an approval. `EffectsInvariant` excludes that, since what was
executed is allowed and stays allowed; `ExecutionsKnown` says that an executor's
invocation was executed.

**Moves.** The engine has dozens of actions, and what the recovery properties
speak of (counters, ToolInvocations, histories) changes in few of them. Each step is
one of nine moves (lemma `EveryStepMoves`): it leaves all that alone (`Quiet`),
opens an iteration, requests a Decision, creates a ToolInvocation, records it, turns a
ToolInvocation from one phase to another, counts a failure of the tool, delivers
an Observation, or settles again what was denied (`SettlesAgain`). The actions are looked at once, for this lemma; everything below is
one case per move.

**In step.** `SyncInvariant` is the part that one reconciler buys. While a tool is
awaited, nobody else settles its ToolInvocation (`ExecutorsRun`) or writes the
frame and the usage that the executor will write back (`CallsInSync`): approvers and
cancellation can act at that time, and they touch neither. `FrameKnown` says how far the
frame of an iteration is in each executionState, and `ToolsOfFrames` which
ToolInvocations there can be: the later iterations have none, those of the earlier
ones are settled, and the present one may have one the run does not know of yet, left by
a crash. `ListsKnown` says what can have become of a listed invocation: it is that of the frame,
its outcome is not taken yet, and it is in the phase it was listed in, unless it waited for an
approval that was refused. In that case Policy denies it (`AskedForReason`: an approval is asked for
only where the policy requires one), so the controller may settle it again but neither start nor
park it. `SettledIsFinal` is read off the moves with this. `Base` collects the invariants proved before for any number of reconcilers.

**Histories.** `issued`, `executions` and `deliveries` remember what happened outside the
store, which a crash does not undo. Each is behind what is persisted: an id was issued for
an iteration and an attempt that the frame has counted (`IssuedBehind`), so the
next id is a new one; as long as a tool can still be started, its starts are at most the
retries the frame has counted (`ExecutionsCounted`); what was delivered belongs to an
earlier iteration, or the frame says `observation-delivered` (`DeliveredBehind`).
`ModelCallsCounted` alone says nothing about the next id, which is why it is not
inductive. `InvocationsCounted` is: a ToolInvocation is created together with the count
that pays for it, or with the crash that does.

**Open approvals.** What the AgentController sees depends on `pendingApproval` and
on approvals that are still open. `OpenKnown` says that an open approval that names the run
is the one it waits for, unless the run is over; `NothingOpen` that no tool is
executed while one is open. So there is at most one open approval, and when it is
decided the run has none.

**The refinement.** With these invariants a step is classified by what is seen before it:
nothing but `Schedule` leaves Pending (`PendingStep`), a run that is over and has
no open approval is not seen to move (`EndedSeen`), one with an open approval is
rejected or revived (`UndecidedSeen`), and a live run makes one of the other moves
(`LiveSeen`).

**The hierarchy.** Neither bound on generations is inductive: that a Fleet is not
applied more often than there are changes depends on what the annotations
remember. So the invariant counts. `MissionCounted`: the Mission has no more
generations than changes, and one. `FleetCounted`: nor has the Fleet, and as long as
it does not match, one less: the change that made it differ has paid for the next
generation, and a crash after the Fleet was applied changes nothing, because the
Fleet then matches. `AgentsCounted`: an Agent has no more generations than the Fleet
it was made from had. `AttemptsAnswerEdits` follows from
`TypeOK`, which bounds these generations. For `SuccessIsEarned` the strengthening is
`AgentSuccessEarned` (an Agent that reports success of its present generation has
a succeeded AgentRun) and `StatusesBehind` (no status speaks of a generation yet to
come, so that what is applied is not current). Each part is one lemma with
one step per action. `OneLifePerGeneration` needs of this only the types: each
controller's write of the attempts has a lemma (`EnsuredLives`, `AppliedLives`,
`ContextLives`, `ScheduleLives`), which a pass and the death in the middle of it
share.

**Asking once.** `AskingInvariant` counts: the approvals there are and the workers
that are about to create one are together no more than the workers
there are. A worker begins to ask only when it has found no approval; a
worker that has created one has left that place, and any that begins later finds it.
`CarriedAreAsked` says that the approvals whose status somebody is about to write are
among those counted, so that such a write creates none.

**One answer.** `HandoverInvariant` says where the one approval can be undecided: as
long as the worker is about to write its status or the approver has loaded it, it is
Pending, and never both, because the approver acts on a run that waits, and a run
waits only when its worker has left `authorize`. So nobody overwrites a decision, and
what the worker found Approved stays so.

**Cascades.** `OrphansAreCut` is inductive: what is created is created under an owner
that is there (or was cut off already), and what a deletion removes is closed under
ownership, except for kinds that are deleted by themselves, which `cut` records.

**The loop.** `LoopInvariant` is `LoopIsSafe` unless a resource in use has been
deleted: what the controller has listed is still there (`ListedIsThere`), a call is
about something listed (`CallsForListed`), and unsettled work has its run
(`WorkHasRun`), which are the premises on which the except branches can write.

**Chunks and hashes.** Between `Replace` and `Record`, the chunks are those of the loaded
documents (`ChunksOfLoaded`); a crash there leaves chunks of contents that the
hashes do not name. `RevertedIsNoticed` says that the file of every such source is not
what its hash says, or `reverted` holds, and `LoadedDiffers` that neither is what was
loaded of it. So the comparison finds it, and what
is passed as current (`CurrentIsNamed`) has the chunks its hashes name. An edit keeps
this unless it restores the recorded content, and then `reverted` becomes TRUE.

**Induction and folds.** The induction theorems of the library take an operator as a
parameter, which the installed provers cannot instantiate. A set serves as well: a
set of natural numbers that has an element has a least one (`Least`), and so a set that has
0, and with each number below N the next one, has all up to N (`InductionUpTo`).
The functions that the folds are defined by exist by the same induction, which makes of
each fold a run: states `f[0]` to `f[Len(s)]`, where every state is one step
(`ScanLine`, `CutLine`, `Pack`) from the one before (`ScanRuns`, `CutRuns`, `PackRuns`,
`TotalRuns`, `FlattenRuns`). What is proved of a run is an invariant, as of a behaviour.

**Sections.** `PathInv` says that the path kept so far is ascending and, if no level is
skipped, consists of the headings that enclose the present line, the one at place k
of level k. Its hard case is a heading (`PathAtHeading`): because of these levels,
what `headings[: level - 1]` keeps of the path is what the new heading does not end.
`ScanInv` adds that the sections done so far divide the lines before the open
body (`IsDivision`).

**Text.** `IsText(doc, lines, a, b)`: the lines are those with text from a to b, sorted.
Texts of adjoining intervals concatenate to a text (`TextConcat`); that is all that
cutting, packing and flattening have to keep, and order, completeness and
uniqueness follow from it at once.

**Packing.** `PackInv` says that the length the code keeps is the length of the
open pack with its joints (`ChunkLength`), so that what is compared with `MaxChars`
is the length of the chunk there would be; a pack is closed only by a paragraph
that would not have fitted. `Fits` tells sections by their paths, and two
sections never have the same: the path of a section ends with the line at which
the section starts (`First`), or is empty, in the first one only (`ChunksConcat`).

**Ranking.** The elements of a finite set that an order sorts have an enumeration, by
their number of predecessors (`SortedEnumeration`), and in every sorted
enumeration the place of an element is that number (`PlaceIsRank`). So to be among
the first `Limit` is to have fewer than `Limit` before it, and the first of a content
in rank is the one with none of the same content before it.

### Only model-checked

Liveness (`NeverStuck`, `ToolsSettle`, `CancellationEnds`, `MissionSettles`,
`FailureReachesFleet`, `ApprovedRunEnds`, `RunsEnd`, `IndexGetsFresh`,
`ContextGetsReady`) depends on fairness and ENABLED, which are out of
reach of the installed provers. Every other property of a passing run is a theorem.
Those of `recovery` and `handover` have premises that some deployments do not meet
(`OneReconciler`, `AlonePremise`); the findings of section 9 say what becomes of the
properties there. No module uses RECURSIVE.

## 11. Limits

The instances are small, and what TLC says of liveness is said of
those instances. Policies, tools and Agents do not change during a run.

Not modelled, and why:

* Tool runtimes and their registry, model adapters: what they do is one call without
  state of the control plane; their outcomes (answer, error, timeout) are choices. A
  tool's thread that goes on after its timeout (runtime.py:2919) changes a workspace,
  which no module but KnowledgeIndexing (`Edit`) has.
* Resource schemas: validation of data by pydantic. Events and observability: written
  and projected, never read by what is modelled.
* Formatting, rendering of Contexts, terms of a query, resolution of
  paths; CLI commands but for those that approve and reject.
* Two processes inside one `update_status` (storage.py:705) or between
  `_fence_execution_mutation` and the write that follows it (runtime.py:2147). What
  becomes of two such updates depends on when the database driver opens a transaction,
  which the code leaves to its default; and splitting every handler of the engine
  there is too large for TLC. ApprovalHandover takes each session as one
  step; AgentRunEngine, each handler.
* The CLI's index command beside the loop; changes of an AgentRun's spec
  (`is_current`); the Artifact resource and its record; several Missions of one Workspace.
