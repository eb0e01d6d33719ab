--------------------- MODULE AgentRunEngineConsistency ---------------------
(***************************************************************************)
(* Type correctness of AgentRunEngine, and that its persisted state stays  *)
(* consistent: StateInvariant is inductive, together with the types, for   *)
(* any number of reconcilers, any policies and any budgets.                *)
(***************************************************************************)
EXTENDS AgentRunEngine, TLAPS

-----------------------------------------------------------------------------
(* What the operators on status.data and the ToolInvocations return *)

LEMMA NoDataTyped == NoData \in Data /\ NoModel \in ModelInvocations
<1>1. NoFrame \in Frames
  BY BudgetsAssumption DEF NoFrame, Frames, FrameStates
<1>2. NoUsage \in Usages
  BY DEF NoUsage, Usages
<1>3. NoModel \in ModelInvocations
  BY DEF NoModel, ModelInvocations
<1> QED
  BY <1>1, <1>2, <1>3, BudgetsAssumption DEF NoData, Data

\* The fields of status.data may be replaced one by one.
LEMMA FieldsTyped ==
  ASSUME NEW d \in Data
  PROVE  /\ \A p \in Phases : [d EXCEPT !.state = p] \in Data
         /\ \A f \in Frames : [d EXCEPT !.frame = f] \in Data
         /\ \A u \in Usages : [d EXCEPT !.usage = u] \in Data
         /\ \A m \in ModelInvocations : [d EXCEPT !.active = m] \in Data
         /\ \A g \in Guarded \cup {NoAction} : [d EXCEPT !.pending = g] \in Data
         /\ \A n \in 0..MaxIterations : [d EXCEPT !.activeTool = n] \in Data
  BY DEF Data

\* So may the state of its frame.
LEMMA FrameStateTyped ==
  ASSUME NEW d \in Data, NEW s \in FrameStates
  PROVE  [d EXCEPT !.frame.state = s] \in Data
  BY DEF Data, Frames

LEMMA StartedTyped == data \in Data => Started \in Data
<1> SUFFICES ASSUME data \in Data
             PROVE  Started \in Data
  OBVIOUS
<1>1. "Starting" \in Phases
  BY DEF Phases, ResumablePhases
<1>2. data.epoch + 1 \in Nat
  BY DEF Data
<1> QED
  BY <1>1, <1>2 DEF Data, Started

LEMMA OpenedTyped ==
  ASSUME data \in Data, IterationLeft
  PROVE  Opened \in Data
<1>1. CASE NeedsFrame(data.frame)
  <2> DEFINE u == [data.usage EXCEPT !.iterations = @ + 1]
             f == [NoFrame EXCEPT !.n = data.usage.iterations + 1, !.state = "prepared"]
  <2>1. u \in Usages
    BY DEF Data, Usages
  <2>2. data.usage.iterations + 1 \in 0..MaxIterations
    BY <1>1, BudgetsAssumption DEF IterationLeft, Data, Usages
  <2>3. f \in Frames
    BY <2>2 DEF Frames, NoFrame, FrameStates
  <2>4. Opened = [data EXCEPT !.usage = u, !.frame = f]
    BY <1>1 DEF Opened, WithNewFrame, Data
  <2> HIDE DEF u, f
  <2> QED
    BY <2>1, <2>3, <2>4 DEF Data
<1>2. CASE ~NeedsFrame(data.frame)
  BY <1>2 DEF Opened
<1> QED
  BY <1>1, <1>2

LEMMA CountToolFailureTyped ==
  ASSUME NEW d \in Data
  PROVE  CountToolFailure(d) \in Data
<1> DEFINE u == [d.usage EXCEPT !.toolFailures = @ + 1]
           f == [d.frame EXCEPT !.toolRetries = @ + 1]
<1>1. u \in Usages /\ f \in Frames
  BY DEF Data, Usages, Frames
<1>2. CountToolFailure(d) = [d EXCEPT !.usage = u, !.frame = f]
  BY DEF CountToolFailure, Data
<1> HIDE DEF u, f
<1> QED
  BY <1>1, <1>2 DEF Data

LEMMA ToolRecordedTyped ==
  ASSUME data \in Data, NEW counted \in BOOLEAN
  PROVE  ToolRecorded(counted) \in Data
<1> DEFINE u == [data.usage EXCEPT !.tool = IF counted THEN @ + 1 ELSE @]
           f == [data.frame EXCEPT !.tool = TRUE, !.state = "waiting-for-tool"]
<1>1. u \in Usages
  BY DEF Data, Usages
<1>2. f \in Frames
  BY DEF Data, Frames, FrameStates
<1>3. data.frame.n \in 0..MaxIterations
  BY DEF Data, Frames
<1>4. ToolRecorded(counted) = [data EXCEPT !.usage = u, !.frame = f, !.activeTool = data.frame.n]
  BY DEF ToolRecorded, Data
<1> HIDE DEF u, f
<1> QED
  BY <1>1, <1>2, <1>3, <1>4 DEF Data

LEMMA AwaitedTyped ==
  ASSUME NEW d \in Data
  PROVE  Awaited(d) \in 0..MaxIterations
  BY DEF Awaited, Data, Frames

LEMMA ObservedTyped ==
  ASSUME NEW d \in Data
  PROVE  Observed(d) \in Data
<1>1. Awaited(d) \in 0..MaxIterations /\ "tool-observed" \in FrameStates
  BY AwaitedTyped DEF FrameStates
<1> DEFINE e == [d EXCEPT !.frame.state = "tool-observed"]
<1>2. e \in Data
  BY <1>1, FrameStateTyped
<1>3. Observed(d) = [e EXCEPT !.activeTool = Awaited(d)]
  BY DEF Observed, Data
<1> HIDE DEF e
<1> QED
  BY <1>1, <1>2, <1>3, FieldsTyped

LEMMA MergedTyped ==
  ASSUME data \in Data, NEW d \in Data
  PROVE  Merged(d) \in Data
<1> DEFINE a == IF d.active = NoModel THEN data.active ELSE d.active
           g == IF d.pending = NoAction THEN data.pending ELSE d.pending
<1>1. a \in ModelInvocations /\ g \in Guarded \cup {NoAction}
  BY DEF Data
<1>2. Merged(d) = [d EXCEPT !.active = a, !.pending = g]
  BY DEF Merged, Data
<1> HIDE DEF a, g
<1> QED
  BY <1>1, <1>2 DEF Data

LEMMA ToolBecomesTyped ==
  ASSUME TypeOK, NEW i, NEW p \in ToolPhases, ToolBecomes(i, p)
  PROVE  tool' \in [Iterations -> [phase : ToolPhases, observed : BOOLEAN]]
<1>1. tool \in [Iterations -> [phase : ToolPhases, observed : BOOLEAN]]
  BY DEF TypeOK
<1>2. (tool[i].observed \/ p \in ToolTerminalPhases) \in BOOLEAN
  OBVIOUS
<1> QED
  BY <1>1, <1>2 DEF ToolBecomes

-----------------------------------------------------------------------------
(* The parts of TypeOK that the actions share *)

RunTyped == phase \in Phases /\ data \in Data

ControlTyped ==
  /\ pc \in [Reconcilers -> {"ready", "engine", "model", "tool", "tools", "tic"}]
  /\ snap \in [Reconcilers -> Snaps]

ApprovalsTyped ==
  approvals \in [Guarded -> [phase : {"None", "Pending", "Approved", "Rejected"}, bound : BOOLEAN]]

LEMMA PhasesNamed ==
  /\ \A p \in TerminalPhases \cup ResumablePhases \cup {"Pending", "WaitingForApproval"} : p \in Phases
  /\ \A p \in ToolTerminalPhases \cup {"Absent", "Pending", "WaitingForApproval", "Authorized", "Running"} :
       p \in ToolPhases
  BY DEF Phases, ToolPhases

LEMMA EnterTyped ==
  ASSUME NEW p \in Phases, NEW d \in Data, Enter(p, d)
  PROVE  RunTyped'
  BY FieldsTyped DEF Enter, RunTyped

LEMMA FailTyped ==
  ASSUME NEW d \in Data, Fail(d)
  PROVE  RunTyped'
<1>1. [d EXCEPT !.active = NoModel] \in Data
  BY FieldsTyped, NoDataTyped
<1>2. "Failed" \in Phases
  BY DEF Phases, TerminalPhases
<1> QED
  BY <1>1, <1>2, EnterTyped DEF Fail

LEMMA AskTyped ==
  ASSUME ApprovalsTyped, NEW g \in Guarded, NEW bound \in BOOLEAN, Ask(g, bound)
  PROVE  ApprovalsTyped'
  BY DEF ApprovalsTyped, Ask

LEMMA DecideTyped ==
  ASSUME ApprovalsTyped, NEW g \in Guarded, NEW decision \in {"Approved", "Rejected"},
         Decide(g, decision)
  PROVE  ApprovalsTyped'
  BY DEF ApprovalsTyped, Decide

LEMMA PauseTyped ==
  ASSUME ApprovalsTyped, NEW r \in Reconcilers, NEW g \in Guarded, NEW d \in Data, Pause(r, g, d)
  PROVE  RunTyped' /\ ApprovalsTyped'
<1>1. [d EXCEPT !.pending = g] \in Data
  BY FieldsTyped
<1> QED
  BY <1>1, AskTyped DEF Pause, RunTyped, Phases

LEMMA MoveTyped ==
  ASSUME ControlTyped, NEW r \in Reconcilers, Continue(r) \/ Leave(r)
  PROVE  ControlTyped'
  BY DEF ControlTyped, Continue, Leave

LEMMA AwaitTyped ==
  ASSUME ControlTyped, NEW r \in Reconcilers,
         NEW at \in {"ready", "model", "tool", "tools", "tic"},
         NEW s \in Snaps,
         Await(r, at, s)
  PROVE  ControlTyped'
  BY DEF ControlTyped, Await

\* What a controller remembers: its list, and what it executes.
LEMMA NoSnapTyped ==
  /\ NoSnap \in Snaps
  /\ \A left \in [Iterations -> ToolPhases] : [NoSnap EXCEPT !.listed = left] \in Snaps
  /\ \A i \in Iterations, left \in [Iterations -> ToolPhases] :
       [NoSnap EXCEPT !.n = i, !.listed = left] \in Snaps
  /\ \A m \in ModelInvocations : [NoSnap EXCEPT !.inv = m] \in Snaps
<1>1. Nothing \in [Iterations -> ToolPhases]
  BY DEF Nothing, ToolPhases
<1>2. 0 \in 0..MaxIterations /\ Iterations \subseteq 0..MaxIterations
  BY BudgetsAssumption DEF Iterations
<1> QED
  BY <1>1, <1>2, NoDataTyped DEF NoSnap, Snaps

LEMMA GoOnTyped ==
  ASSUME ControlTyped, NEW r \in Reconcilers, NEW left \in [Iterations -> ToolPhases],
         GoOn(r, left)
  PROVE  ControlTyped'
  BY NoSnapTyped, AwaitTyped DEF GoOn

LEMMA ReturnTyped ==
  ASSUME ControlTyped, NEW r \in Reconcilers, NEW at \in {"ready", "engine"}, Return(r, at)
  PROVE  ControlTyped'
  BY NoSnapTyped DEF ControlTyped, Return

LEMMA ResumeTyped ==
  ASSUME RunTyped, ControlTyped, NEW r \in Reconcilers, NEW d \in Data, NEW t,
         Resume(r, d, t)
  PROVE  RunTyped' /\ ControlTyped'
<1>1. CASE Terminal
  BY <1>1, ReturnTyped DEF Resume, RunTyped
<1>2. CASE ~Terminal /\ t \in ToolTerminalPhases
  <2>1. Merged(Observed(d)) \in Data
    BY ObservedTyped, MergedTyped DEF RunTyped
  <2>2. Enter("WaitingForObservation", Merged(Observed(d))) /\ Return(r, "engine")
    BY <1>2 DEF Resume
  <2> QED
    BY <2>1, <2>2, PhasesNamed, EnterTyped, ReturnTyped DEF ResumablePhases
<1>3. CASE ~Terminal /\ t \notin ToolTerminalPhases
  BY <1>3, ReturnTyped DEF Resume, RunTyped
<1> QED
  BY <1>1, <1>2, <1>3

LEMMA AfterModelTyped ==
  ASSUME ControlTyped, NEW r \in Reconcilers, NEW p, AfterModel(r, p)
  PROVE  ControlTyped'
  BY ReturnTyped DEF AfterModel

-----------------------------------------------------------------------------
(* Every step keeps the types *)

RestTyped ==
  /\ policy \in [Guarded -> Effects]
  /\ cancelRequested \in BOOLEAN
  /\ ctxReady \in BOOLEAN
  /\ wallExpired \in BOOLEAN
  /\ deadlinePassed \in BOOLEAN
  /\ tool \in [Iterations -> [phase : ToolPhases, observed : BOOLEAN]]
  /\ crashes \in 0..MaxCrashes
  /\ issued \subseteq ModelInvocations
  /\ executions \in [Iterations -> Nat]
  /\ deliveries \in [Iterations -> Nat]
  /\ outdated \subseteq Iterations

LEMMA TypeOKParts == TypeOK <=> RunTyped /\ ControlTyped /\ ApprovalsTyped /\ RestTyped
  BY DEF TypeOK, RunTyped, ControlTyped, ApprovalsTyped, RestTyped

LEMMA GuardedNamed ==
  /\ Model \in Guarded /\ Write \in Guarded
  /\ \A k \in 1..DeclaredTools : Use(k) \in Guarded
  /\ \A i \in Iterations : Tool(i) \in Guarded
  BY DEF Guarded, Model, Write, Use, Tool

LEMMA CrashLeftTyped == RestTyped /\ CrashLeft => crashes' \in 0..MaxCrashes
  BY BudgetsAssumption DEF RestTyped, CrashLeft

LEMMA ExecutesTyped ==
  ASSUME RestTyped, NEW i, Executes(i)
  PROVE  executions' \in [Iterations -> Nat]
<1>1. CASE i \in Iterations
  BY <1>1 DEF RestTyped, Executes
<1>2. CASE i \notin Iterations
  BY <1>2 DEF RestTyped, Executes
<1> QED
  BY <1>1, <1>2

\* The types as the provers need them of the data an action starts from.
LEMMA DataFieldsTyped ==
  ASSUME NEW d \in Data
  PROVE  /\ d.frame.n \in 0..MaxIterations
         /\ d.frame \in Frames
         /\ d.usage \in Usages
         /\ d.frame.raw \in Responses \cup {"none"}
         /\ d.state \in Phases \cup {"none"}
         /\ d.epoch \in Nat
  BY DEF Data, Frames

\* So may the fields of a frame that the model's and the validator's steps write.
LEMMA FramesTyped ==
  ASSUME NEW f \in Frames, NEW s \in FrameStates
  PROVE  /\ [f EXCEPT !.state = s] \in Frames
         /\ [f EXCEPT !.attempts = @ + 1, !.state = s] \in Frames
         /\ [f EXCEPT !.modelRetries = @ + 1] \in Frames
         /\ \A a \in Responses : [f EXCEPT !.raw = a, !.state = s] \in Frames
<1>1. [f EXCEPT !.state = s] \in Frames
  BY DEF Frames
<1>2. [f EXCEPT !.attempts = @ + 1, !.state = s] \in Frames
  <2>1. \A a \in Nat : [f EXCEPT !.attempts = a] \in Frames
    BY DEF Frames
  <2>2. \A e \in Frames : [e EXCEPT !.state = s] \in Frames
    BY DEF Frames
  <2>3. f.attempts + 1 \in Nat
    BY DEF Frames
  <2>4. [f EXCEPT !.attempts = @ + 1, !.state = s]
          = [[f EXCEPT !.attempts = f.attempts + 1] EXCEPT !.state = s]
    BY DEF Frames
  <2> QED
    BY <2>1, <2>2, <2>3, <2>4
<1>3. [f EXCEPT !.modelRetries = @ + 1] \in Frames
  BY DEF Frames
<1>4. ASSUME NEW a \in Responses
      PROVE  [f EXCEPT !.raw = a, !.state = s] \in Frames
  BY DEF Frames
<1> QED
  BY <1>1, <1>2, <1>3, <1>4

LEMMA FrameStatesNamed ==
  {"decision-requested", "decision-produced", "decision-rejected"} \subseteq FrameStates
  BY DEF FrameStates

\* A run that waits for a tool knows which: the one thing the types owe to
\* the consistency of the persisted state.
LEMMA WaitingKnowsTool ==
  ASSUME TypeOK, StateInvariant, phase = "WaitingForTool"
  PROVE  Awaited(data) \in Iterations
<1>1. data.state = "WaitingForTool"
  BY DEF StateInvariant, RunConsistent, PersistedStateConsistent, PhaseFits
<1>2. Awaited(data) # 0
  BY <1>1 DEF StateInvariant, RunConsistent, PersistedStateConsistent, FrameFits
<1>3. Awaited(data) \in 0..MaxIterations
  BY AwaitedTyped DEF TypeOK
<1> QED
  BY <1>2, <1>3, BudgetsAssumption DEF Iterations

LEMMA EngineStepTyped ==
  ASSUME TypeOK, StateInvariant, NEW r \in Reconcilers, EngineStep(r)
  PROVE  TypeOK'
<1> USE PhasesNamed, GuardedNamed
    DEF RunTyped, ControlTyped, ApprovalsTyped, RestTyped, env, history,
        TerminalPhases, ResumablePhases, ToolTerminalPhases
<1>0. RunTyped /\ ControlTyped /\ ApprovalsTyped /\ RestTyped
  BY TypeOKParts
<1> SUFFICES RunTyped' /\ ControlTyped' /\ ApprovalsTyped' /\ RestTyped'
  BY DEF TypeOK
<1>1. CASE CancelRun(r)
  BY <1>0, <1>1, EnterTyped, MoveTyped DEF CancelRun
<1>2. CASE TimeOutRun(r)
  BY <1>0, <1>2, FieldsTyped, NoDataTyped, EnterTyped, MoveTyped DEF TimeOutRun
<1>3. CASE StartEngine(r)
  <2>1. CASE Enter("Starting", Started) /\ Continue(r) /\ UNCHANGED approvals
    BY <1>0, <1>3, <2>1, StartedTyped, EnterTyped, MoveTyped DEF StartEngine
  <2>2. CASE \E k \in 1..DeclaredTools : Pause(r, Use(k), Started)
    <3>1. PICK k \in 1..DeclaredTools : Pause(r, Use(k), Started)
      BY <2>2
    <3>2. RunTyped' /\ ApprovalsTyped'
      BY <1>0, <3>1, StartedTyped, PauseTyped
    <3> QED
      BY <1>0, <1>3, <3>1, <3>2, MoveTyped DEF StartEngine, Pause
  <2>3. CASE Fail(Started) /\ Leave(r) /\ UNCHANGED approvals
    BY <1>0, <1>3, <2>3, StartedTyped, FailTyped, MoveTyped DEF StartEngine
  <2> QED
    BY <1>3, <2>1, <2>2, <2>3 DEF StartEngine
<1>4. CASE PrepareExecution(r)
  BY <1>0, <1>4, EnterTyped, FailTyped, MoveTyped DEF PrepareExecution
<1>5. CASE ExhaustIterations(r)
  BY <1>0, <1>5, EnterTyped, MoveTyped DEF ExhaustIterations
<1>6. CASE ExhaustModelCalls(r)
  BY <1>0, <1>6, OpenedTyped, EnterTyped, MoveTyped DEF ExhaustModelCalls
<1>7. CASE AwaitModelApproval(r)
  BY <1>0, <1>7, OpenedTyped, PauseTyped, MoveTyped DEF AwaitModelApproval, ModelTurn, Pause
<1>8. CASE DenyModel(r)
  BY <1>0, <1>8, OpenedTyped, FailTyped, MoveTyped DEF DenyModel, ModelTurn
<1>9. CASE ExpireInFlight(r)
  BY <1>0, <1>9, FieldsTyped, NoDataTyped, EnterTyped, MoveTyped DEF ExpireInFlight
<1>10. CASE RequestDecision(r)
  <2> DEFINE id == InvocationId(Opened)
             f == [Opened.frame EXCEPT !.attempts = @ + 1, !.state = "decision-requested"]
             u == [Opened.usage EXCEPT !.model = @ + 1]
  <2>1. Opened \in Data
    BY <1>0, <1>10, OpenedTyped DEF RequestDecision, ModelTurn
  <2>2. id \in ModelInvocations /\ f \in Frames /\ u \in Usages
    <3>1. Opened.frame \in Frames /\ Opened.usage \in Usages /\ Opened.epoch \in Nat
      BY <2>1, DataFieldsTyped
    <3>2. id \in ModelInvocations
      BY <3>1, BudgetsAssumption DEF InvocationId, ModelInvocations, Frames
    <3>3. f \in Frames
      BY <3>1, FramesTyped, FrameStatesNamed
    <3>4. u \in Usages
      BY <3>1 DEF Usages
    <3> QED
      BY <3>2, <3>3, <3>4
  <2>3. data' = [Opened EXCEPT !.frame = f, !.usage = u, !.active = id]
    BY <2>1, <1>10 DEF RequestDecision, Data
  <2>4. [NoSnap EXCEPT !.inv = id] \in Snaps
    BY <2>2, NoSnapTyped
  <2>5. Await(r, "model", [NoSnap EXCEPT !.inv = id]) /\ issued' = issued \cup {id}
    BY <1>10 DEF RequestDecision
  <2> HIDE DEF id, f, u
  <2>6. data' \in Data
    BY <2>1, <2>2, <2>3 DEF Data
  <2> QED
    BY <1>0, <1>10, <2>2, <2>4, <2>5, <2>6, AwaitTyped DEF RequestDecision
<1>11. CASE AcceptDecision(r)
  <2> DEFINE f == [data.frame EXCEPT !.decision = data.frame.raw, !.state = "decision-validated"]
  <2>1. phase = "DecisionReady" /\ data.frame.raw # "invalid"
    BY <1>11 DEF AcceptDecision, Acceptable
  <2>2. f \in Frames
    BY <1>0, <2>1 DEF Data, Frames, FrameStates
  <2>3. [data EXCEPT !.frame.decision = data.frame.raw, !.frame.state = "decision-validated"]
          = [data EXCEPT !.frame = f]
    BY <1>0 DEF Data
  <2> HIDE DEF f
  <2> QED
    BY <1>0, <1>11, <2>2, <2>3, FieldsTyped, EnterTyped, MoveTyped DEF AcceptDecision
<1>12. CASE RejectDecision(r)
  <2> DEFINE rejected == [data EXCEPT !.usage.decisionFailures = @ + 1,
                                      !.frame.state = "decision-rejected"]
             u == [data.usage EXCEPT !.decisionFailures = @ + 1]
             f == [data.frame EXCEPT !.state = "decision-rejected"]
  <2>1. u \in Usages /\ f \in Frames
    <3>1. data.frame \in Frames /\ data.usage \in Usages
      BY <1>0, DataFieldsTyped
    <3>2. u \in Usages
      BY <3>1 DEF Usages
    <3>3. f \in Frames
      BY <3>1, FramesTyped, FrameStatesNamed
    <3> QED
      BY <3>2, <3>3
  <2>2. rejected = [data EXCEPT !.usage = u, !.frame = f]
    BY <1>0 DEF Data
  <2>3. \/ Enter("AwaitingDecision", rejected) /\ Continue(r)
        \/ Enter("Failed", rejected) /\ Leave(r)
    BY <1>12 DEF RejectDecision
  <2> HIDE DEF rejected, u, f
  <2>4. rejected \in Data
    BY <1>0, <2>1, <2>2 DEF Data
  <2> QED
    BY <1>0, <1>12, <2>3, <2>4, EnterTyped, MoveTyped DEF RejectDecision
<1>13. CASE CreateToolInvocation(r)
  <2>1. \/ Enter("WaitingForTool", data) /\ Continue(r)
        \/ Enter("BudgetExceeded", data) /\ Leave(r)
        \/ Enter("WaitingForTool", ToolRecorded(tool[data.frame.n].phase = "Absent")) /\ Continue(r)
    BY <1>13 DEF CreateToolInvocation
  <2>2. RunTyped' /\ ControlTyped'
    BY <1>0, <2>1, ToolRecordedTyped, EnterTyped, MoveTyped
  <2>3. tool' = tool \/ tool' = [tool EXCEPT ![data.frame.n].phase = "Pending"]
    BY <1>13 DEF CreateToolInvocation
  <2>4. tool' \in [Iterations -> [phase : ToolPhases, observed : BOOLEAN]]
    BY <1>0, <2>3
  <2> QED
    BY <1>0, <1>13, <2>2, <2>4 DEF CreateToolInvocation
<1>14. CASE BeginFinalizing(r)
  BY <1>0, <1>14, FrameStateTyped, EnterTyped, MoveTyped DEF BeginFinalizing, FrameStates
<1>15. CASE FailByDecision(r)
  BY <1>0, <1>15, FailTyped, MoveTyped DEF FailByDecision
<1>16. CASE ObserveTool(r)
  BY <1>0, <1>16, ObservedTyped, EnterTyped, MoveTyped DEF ObserveTool, Observe
<1>17. CASE RefuseReplay(r)
  BY <1>0, <1>17, ObservedTyped, EnterTyped, MoveTyped, ToolBecomesTyped DEF RefuseReplay, Observe
<1>18. CASE ParkTool(r)
  <2> DEFINE g == Tool(Awaited(data))
  <2>1. g \in Guarded
    BY <1>18, WaitingKnowsTool DEF ParkTool, StartTurn, ToolTurn
  <2>2. Ask(g, TRUE) /\ data' = [data EXCEPT !.pending = g]
    BY <1>18 DEF ParkTool
  <2> HIDE DEF g
  <2>3. ApprovalsTyped'
    BY <1>0, <2>1, <2>2, AskTyped
  <2>4. RunTyped'
    BY <1>0, <1>18, <2>1, <2>2, FieldsTyped DEF ParkTool
  <2> QED
    BY <1>0, <1>18, <2>3, <2>4, ToolBecomesTyped, MoveTyped DEF ParkTool
<1>19. CASE DenyTool(r)
  BY <1>0, <1>19, ObservedTyped, EnterTyped, MoveTyped, ToolBecomesTyped DEF DenyTool, Observe
<1>20. CASE RefuseTool(r)
  BY <1>0, <1>20, ObservedTyped, EnterTyped, MoveTyped, ToolBecomesTyped DEF RefuseTool, Observe
<1>21. CASE StartTool(r)
  <2> DEFINE s == [NoSnap EXCEPT !.data = data, !.n = Awaited(data)]
  <2>1. s \in Snaps
    BY <1>0, NoSnapTyped, AwaitedTyped DEF Snaps
  <2>2. Await(r, "tool", s)
    BY <1>21 DEF StartTool
  <2> HIDE DEF s
  <2> QED
    BY <1>0, <1>21, <2>1, <2>2, AwaitTyped, ToolBecomesTyped, ExecutesTyped DEF StartTool
<1>22. CASE DeliverObservation(r)
  <2>1. \/ /\ Enter("AwaitingDecision", [data EXCEPT !.frame.state = "observation-delivered"])
           /\ deliveries' = [deliveries EXCEPT ![Awaited(data)] = @ + 1]
           /\ Continue(r)
        \/ Fail(data) /\ UNCHANGED deliveries /\ Leave(r)
    BY <1>22 DEF DeliverObservation
  <2>2. RunTyped' /\ ControlTyped'
    BY <1>0, <2>1, FrameStateTyped, EnterTyped, FailTyped, MoveTyped DEF FrameStates
  <2>3. deliveries' \in [Iterations -> Nat]
    <3>1. CASE Awaited(data) \in Iterations
      BY <1>0, <2>1, <3>1
    <3>2. CASE Awaited(data) \notin Iterations
      BY <1>0, <2>1, <3>2
    <3> QED
      BY <3>1, <3>2
  <2> QED
    BY <1>0, <1>22, <2>2, <2>3 DEF DeliverObservation
<1>23. CASE CompleteExecution(r)
  BY <1>0, <1>23, FrameStateTyped, EnterTyped, MoveTyped DEF CompleteExecution, FrameStates
<1>24. CASE AwaitWriteApproval(r)
  BY <1>0, <1>24, PauseTyped, MoveTyped DEF AwaitWriteApproval, Pause
<1>25. CASE \E outputsComplete \in BOOLEAN : FailFinalization(r, outputsComplete)
  BY <1>0, <1>25, FailTyped, MoveTyped DEF FailFinalization
<1>26. CASE EndPass(r)
  BY <1>0, <1>26, MoveTyped DEF EndPass
<1>27. CASE FailPass(r)
  BY <1>0, <1>27, MoveTyped DEF FailPass
<1> QED
  BY <1>1, <1>2, <1>3, <1>4, <1>5, <1>6, <1>7, <1>8, <1>9, <1>10, <1>11, <1>12, <1>13, <1>14,
     <1>15, <1>16, <1>17, <1>18, <1>19, <1>20, <1>21, <1>22, <1>23, <1>24, <1>25, <1>26, <1>27
  DEF EngineStep

LEMMA CallReturnsTyped ==
  ASSUME TypeOK, NEW r \in Reconcilers, CallReturns(r)
  PROVE  TypeOK'
<1> USE PhasesNamed
    DEF RunTyped, ControlTyped, ApprovalsTyped, RestTyped, env, history,
        TerminalPhases, ResumablePhases, ToolTerminalPhases
<1>0. RunTyped /\ ControlTyped /\ ApprovalsTyped /\ RestTyped
  BY TypeOKParts
<1>00. snap[r].data \in Data /\ snap[r].inv \in ModelInvocations /\ snap[r].n \in 0..MaxIterations
       /\ snap[r].listed \in [Iterations -> ToolPhases]
  BY <1>0 DEF Snaps
<1>01. CountToolFailure(snap[r].data) \in Data /\ Merged(CountToolFailure(snap[r].data)) \in Data
  BY <1>0, <1>00, CountToolFailureTyped, MergedTyped
<1> SUFFICES RunTyped' /\ ControlTyped' /\ ApprovalsTyped' /\ RestTyped'
  BY DEF TypeOK
<1>1. CASE DiscardModel(r)
  BY <1>0, <1>1, AfterModelTyped DEF DiscardModel
<1>2. ASSUME NEW answer \in Responses, ModelAnswers(r, answer)
      PROVE  RunTyped' /\ ControlTyped' /\ ApprovalsTyped' /\ RestTyped'
  <2> DEFINE f == [data.frame EXCEPT !.raw = answer, !.state = "decision-produced"]
             d == [data EXCEPT !.frame.raw = answer, !.frame.state = "decision-produced",
                               !.active = NoModel]
  <2>1. f \in Frames
    BY <1>0, DataFieldsTyped, FramesTyped, FrameStatesNamed
  <2>2. d = [data EXCEPT !.frame = f, !.active = NoModel]
    BY <1>0 DEF Data
  <2>3. Enter("DecisionReady", d) /\ AfterModel(r, "DecisionReady")
    BY <1>2 DEF ModelAnswers
  <2> HIDE DEF d, f
  <2>4. d \in Data
    BY <1>0, <2>1, <2>2, NoDataTyped DEF Data
  <2> QED
    BY <1>0, <1>2, <2>3, <2>4, EnterTyped, AfterModelTyped DEF ModelAnswers
<1>3. CASE ModelTimesOut(r)
  BY <1>0, <1>3, FieldsTyped, NoDataTyped, EnterTyped, AfterModelTyped DEF ModelTimesOut
<1>4. CASE ModelFails(r)
  <2> DEFINE f == [data.frame EXCEPT !.modelRetries = @ + 1]
             failed == [data EXCEPT !.frame.modelRetries = @ + 1, !.active = NoModel]
  <2>1. f \in Frames
    BY <1>0, DataFieldsTyped, FramesTyped, FrameStatesNamed
  <2>2. failed = [data EXCEPT !.frame = f, !.active = NoModel]
    BY <1>0 DEF Data
  <2>3. \/ Enter("AwaitingDecision", failed) /\ AfterModel(r, "AwaitingDecision")
        \/ Fail(failed) /\ AfterModel(r, "Failed")
    BY <1>4 DEF ModelFails
  <2> HIDE DEF failed, f
  <2>4. failed \in Data
    BY <1>0, <2>1, <2>2, NoDataTyped DEF Data
  <2> QED
    BY <1>0, <1>4, <2>3, <2>4, EnterTyped, FailTyped, AfterModelTyped DEF ModelFails
<1>5. CASE ToolSucceeds(r)
  BY <1>0, <1>00, <1>5, ResumeTyped, ToolBecomesTyped DEF ToolSucceeds
<1>6. CASE ToolFailureFenced(r)
  BY <1>0, <1>01, <1>6, ResumeTyped DEF ToolFailureFenced
<1>7. CASE ToolTimesOut(r)
  BY <1>0, <1>01, <1>7, ResumeTyped, ToolBecomesTyped DEF ToolTimesOut
<1>8. CASE ExhaustToolFailures(r)
  BY <1>0, <1>01, <1>8, EnterTyped, ReturnTyped, ToolBecomesTyped DEF ExhaustToolFailures
<1>9. CASE RetryTool(r)
  <2> DEFINE failed == CountToolFailure(snap[r].data)
             s == [snap[r] EXCEPT !.data = failed]
  <2>1. data' = Merged(failed) /\ Await(r, "tool", s)
    BY <1>9 DEF RetryTool
  <2>2. s \in Snaps
    BY <1>0, <1>00, <1>01 DEF Snaps
  <2> HIDE DEF s
  <2>3. RunTyped' /\ ControlTyped'
    BY <1>0, <1>01, <1>9, <2>1, <2>2, AwaitTyped DEF RetryTool
  <2> QED
    BY <1>0, <1>9, <2>3, ToolBecomesTyped, ExecutesTyped DEF RetryTool
<1>10. CASE \E admitted \in BOOLEAN : ToolFails(r, admitted)
  BY <1>0, <1>01, <1>10, ResumeTyped, ToolBecomesTyped DEF ToolFails
<1>11. CASE \E outcome \in {"Succeeded", "Failed", "TimedOut"} : ControllerSettles(r, outcome)
  BY <1>0, <1>00, <1>11, GoOnTyped, ToolBecomesTyped DEF ControllerSettles
<1> QED
  BY <1>1, <1>2, <1>3, <1>4, <1>5, <1>6, <1>7, <1>8, <1>9, <1>10, <1>11 DEF CallReturns

LEMMA CrashStepTyped ==
  ASSUME TypeOK, StateInvariant, NEW r \in Reconcilers, CrashStep(r)
  PROVE  TypeOK'
<1> USE PhasesNamed, CrashLeftTyped
    DEF RunTyped, ControlTyped, ApprovalsTyped, RestTyped, env, history,
        TerminalPhases, ResumablePhases, ToolTerminalPhases
<1>0. RunTyped /\ ControlTyped /\ ApprovalsTyped /\ RestTyped
  BY TypeOKParts
<1> SUFFICES RunTyped' /\ ControlTyped' /\ ApprovalsTyped' /\ RestTyped'
  BY DEF TypeOK
<1>1. CASE Crash(r)
  BY <1>0, <1>1, ReturnTyped DEF Crash
<1>2. CASE DieAfterStart(r)
  BY <1>0, <1>2, StartedTyped, EnterTyped, MoveTyped DEF DieAfterStart
<1>3. CASE DieAfterFrame(r)
  BY <1>0, <1>3, OpenedTyped, MoveTyped DEF DieAfterFrame
<1>4. CASE DieAfterToolApply(r)
  BY <1>0, <1>4, MoveTyped DEF DieAfterToolApply
<1>5. CASE \E i \in Iterations : DieAfterAuthorize(r, i)
  BY <1>0, <1>5, ToolBecomesTyped, ReturnTyped DEF DieAfterAuthorize, NoteOutdated
<1>6. ASSUME NEW p \in {"Succeeded", "Failed", "TimedOut", "Running", "Pending", "Authorized"},
             DieAfterToolCall(r, p)
      PROVE  RunTyped' /\ ControlTyped' /\ ApprovalsTyped' /\ RestTyped'
  <2>1. Merged(CountToolFailure(snap[r].data)) \in Data
    BY <1>0, CountToolFailureTyped, MergedTyped DEF Snaps
  <2>2. data' = data \/ data' = Merged(CountToolFailure(snap[r].data))
    BY <1>6 DEF DieAfterToolCall
  <2>3. tool' \in [Iterations -> [phase : ToolPhases, observed : BOOLEAN]]
    BY <1>0, <1>6, ToolBecomesTyped DEF DieAfterToolCall
  <2> QED
    BY <1>0, <1>6, <2>1, <2>2, <2>3, ReturnTyped DEF DieAfterToolCall
<1> QED
  BY <1>1, <1>2, <1>3, <1>4, <1>5, <1>6 DEF CrashStep

LEMMA ApprovalStepTyped ==
  ASSUME TypeOK, StateInvariant, ApprovalStep
  PROVE  TypeOK'
<1> USE PhasesNamed
    DEF RunTyped, ControlTyped, ApprovalsTyped, RestTyped, env, history,
        TerminalPhases, ResumablePhases, ToolTerminalPhases
<1>0. RunTyped /\ ControlTyped /\ ApprovalsTyped /\ RestTyped
  BY TypeOKParts
<1> SUFFICES RunTyped' /\ ControlTyped' /\ ApprovalsTyped' /\ RestTyped'
  BY DEF TypeOK
<1>1. ASSUME NEW g \in Guarded, Approve(g) \/ RejectTerminate(g)
      PROVE  RunTyped' /\ ControlTyped' /\ ApprovalsTyped' /\ RestTyped'
  <2>1. ApprovalsTyped'
    BY <1>0, <1>1, DecideTyped DEF Approve, RejectTerminate
  <2>2. [data EXCEPT !.pending = NoAction] \in Data
    BY <1>0, FieldsTyped
  <2>3. data.state \in Phases \cup {"none"}
    BY <1>0, DataFieldsTyped
  <2>4. RunTyped'
    BY <1>0, <1>1, <2>2, <2>3 DEF Approve, RejectTerminate
  <2> QED
    BY <1>0, <1>1, <2>1, <2>4 DEF Approve, RejectTerminate
<1>2. ASSUME NEW i \in Iterations, RejectContinue(i)
      PROVE  RunTyped' /\ ControlTyped' /\ ApprovalsTyped' /\ RestTyped'
  <2>1. CountToolFailure(data) \in Data
    BY <1>0, CountToolFailureTyped
  <2>2. RunTyped'
    BY <1>0, <1>2, <2>1, EnterTyped DEF RejectContinue
  <2>3. ApprovalsTyped'
    BY <1>0, <1>2, GuardedNamed, DecideTyped DEF RejectContinue
  <2> QED
    BY <1>0, <1>2, <2>2, <2>3, ToolBecomesTyped DEF RejectContinue
<1> QED
  BY <1>1, <1>2 DEF ApprovalStep

LEMMA ControllerStepTyped ==
  ASSUME TypeOK, NEW r \in Reconcilers, NEW i \in Iterations, ControllerStep(r, i)
  PROVE  TypeOK'
<1> USE PhasesNamed, GuardedNamed
    DEF RunTyped, ControlTyped, ApprovalsTyped, RestTyped, env, history, ToolTerminalPhases
<1>0. RunTyped /\ ControlTyped /\ ApprovalsTyped /\ RestTyped
  BY TypeOKParts
<1> SUFFICES RunTyped' /\ ControlTyped' /\ ApprovalsTyped' /\ RestTyped'
  BY DEF TypeOK
<1>00. ListAfter(r, i) \in [Iterations -> ToolPhases]
  BY <1>0 DEF ListAfter, Snaps
<1>1. CASE FailRunningReplay(r, i)
  BY <1>0, <1>00, <1>1, ToolBecomesTyped, GoOnTyped DEF FailRunningReplay
<1>2. CASE FenceInvocation(r, i)
  BY <1>0, <1>00, <1>2, ToolBecomesTyped, GoOnTyped DEF FenceInvocation
<1>3. CASE ControllerParks(r, i)
  <2>1. ApprovalsTyped'
    BY <1>0, <1>3, AskTyped DEF ControllerParks
  <2> QED
    BY <1>0, <1>00, <1>3, <2>1, ToolBecomesTyped, GoOnTyped DEF ControllerParks
<1>4. CASE ControllerRefuses(r, i)
  BY <1>0, <1>00, <1>4, ToolBecomesTyped, GoOnTyped DEF ControllerRefuses
<1>5. CASE ControllerStarts(r, i)
  <2> DEFINE s == [NoSnap EXCEPT !.n = i, !.listed = ListAfter(r, i)]
  <2>1. s \in Snaps
    BY <1>00, NoSnapTyped
  <2>2. Await(r, "tic", s)
    BY <1>5 DEF ControllerStarts
  <2> HIDE DEF s
  <2>3. ControlTyped'
    BY <1>0, <2>1, <2>2, AwaitTyped
  <2>4. outdated' \subseteq Iterations
    BY <1>0, <1>5 DEF ControllerStarts, NoteOutdated
  <2> QED
    BY <1>0, <1>5, <2>3, <2>4, ToolBecomesTyped, ExecutesTyped DEF ControllerStarts
<1>6. CASE SkipWaiting(r, i)
  BY <1>0, <1>00, <1>6, GoOnTyped DEF SkipWaiting
<1> QED
  BY <1>1, <1>2, <1>3, <1>4, <1>5, <1>6 DEF ControllerStep

LEMMA ListInvocationsTyped ==
  ASSUME TypeOK, NEW r \in Reconcilers, ListInvocations(r)
  PROVE  TypeOK'
<1> DEFINE left == [i \in Iterations |-> IF Unsettled(i) THEN tool[i].phase ELSE "Absent"]
<1>1. left \in [Iterations -> ToolPhases]
  BY DEF TypeOK, ToolPhases
<1>2. Await(r, "tools", [NoSnap EXCEPT !.listed = left])
  BY DEF ListInvocations
<1> HIDE DEF left
<1>3. ControlTyped'
  BY <1>1, <1>2, TypeOKParts, NoSnapTyped, AwaitTyped
<1>4. UNCHANGED <<phase, data, env, deadlinePassed, tool, approvals, crashes, history>>
  BY DEF ListInvocations
<1>5. RunTyped' /\ ApprovalsTyped' /\ RestTyped'
  BY <1>4, TypeOKParts DEF RunTyped, ApprovalsTyped, RestTyped, env, history
<1> QED
  BY <1>3, <1>5 DEF TypeOK, RunTyped, ControlTyped, ApprovalsTyped, RestTyped

LEMMA TypesKept ==
  ASSUME TypeOK, StateInvariant, [Next]_vars
  PROVE  TypeOK'
<1>1. ASSUME NEW r \in Reconcilers, Schedule(r)
      PROVE  TypeOK'
  BY <1>1 DEF TypeOK, Schedule, env, history, Phases, ResumablePhases
<1>2. CASE RequestCancel \/ ChangeContext \/ PassWallTime \/ PassDeadline
  BY <1>2 DEF TypeOK, RequestCancel, ChangeContext, PassWallTime, PassDeadline, env, history
<1>3. CASE UNCHANGED vars
  BY <1>3 DEF TypeOK, vars
<1> QED
  BY <1>1, <1>2, <1>3, EngineStepTyped, CallReturnsTyped, ListInvocationsTyped,
     ControllerStepTyped, CrashStepTyped, ApprovalStepTyped DEF Next

LEMMA TypesHoldInitially == Init => TypeOK
<1> SUFFICES ASSUME Init
             PROVE  TypeOK
  OBVIOUS
<1>1. NoSnap \in Snaps
  BY NoSnapTyped
<1>2. policy \in [Guarded -> Effects]
  BY PoliciesAssumption DEF Init
<1>3. phase \in Phases /\ data \in Data /\ crashes \in 0..MaxCrashes /\ issued \subseteq ModelInvocations
  BY NoDataTyped, BudgetsAssumption DEF Init, Phases
<1>4. tool \in [Iterations -> [phase : ToolPhases, observed : BOOLEAN]]
  BY DEF Init, ToolPhases
<1>5. ApprovalsTyped
  BY DEF Init, ApprovalsTyped
<1>6. ControlTyped
  BY <1>1 DEF Init, ControlTyped
<1> QED
  BY <1>2, <1>3, <1>4, <1>5, <1>6 DEF Init, TypeOK, ApprovalsTyped, ControlTyped

-----------------------------------------------------------------------------
(* What the operators on status.data leave in the fields the invariant reads *)

LEMMA EnterFields ==
  ASSUME NEW p, NEW d \in Data, Enter(p, d)
  PROVE  /\ phase' = p
         /\ data'.state = p
         /\ data'.epoch = d.epoch
         /\ data'.frame = d.frame
         /\ data'.active = d.active
         /\ data'.activeTool = d.activeTool
  BY DEF Enter, Data

LEMMA FailFields ==
  ASSUME NEW d \in Data, Fail(d)
  PROVE  /\ phase' = "Failed"
         /\ data'.state = "Failed"
         /\ data'.epoch = d.epoch
         /\ data'.frame = d.frame
         /\ data'.active = NoModel
         /\ data'.activeTool = d.activeTool
  BY DEF Fail, Enter, Data

LEMMA PauseFields ==
  ASSUME NEW d \in Data, NEW r, NEW g, Pause(r, g, d)
  PROVE  /\ phase' = "WaitingForApproval"
         /\ data'.state = d.state
         /\ data'.epoch = d.epoch
         /\ data'.frame = d.frame
         /\ data'.active = d.active
         /\ data'.activeTool = d.activeTool
  BY DEF Pause, Data

LEMMA StartedFields ==
  ASSUME data \in Data
  PROVE  /\ Started.state = "Starting"
         /\ Started.epoch = data.epoch + 1
         /\ Started.frame = data.frame
         /\ Started.active = data.active
         /\ Started.activeTool = data.activeTool
  BY DEF Started, Data

LEMMA FrameStateFields ==
  ASSUME NEW d \in Data, NEW s
  PROVE  LET e == [d EXCEPT !.frame.state = s]
         IN  /\ e.state = d.state
             /\ e.epoch = d.epoch
             /\ e.active = d.active
             /\ e.activeTool = d.activeTool
             /\ e.frame = [d.frame EXCEPT !.state = s]
             /\ e.frame.n = d.frame.n
             /\ e.frame.state = s
             /\ e.frame.raw = d.frame.raw
             /\ e.frame.decision = d.frame.decision
             /\ e.frame.tool = d.frame.tool
<1>1. d.frame \in Frames
  BY DataFieldsTyped
<1>2. [d EXCEPT !.frame.state = s] = [d EXCEPT !.frame = [d.frame EXCEPT !.state = s]]
  BY DEF Data
<1> DEFINE f == [d.frame EXCEPT !.state = s]
<1>3. /\ f.n = d.frame.n /\ f.state = s /\ f.raw = d.frame.raw
      /\ f.decision = d.frame.decision /\ f.tool = d.frame.tool
  BY <1>1 DEF Frames
<1> HIDE DEF f
<1>4. LET e == [d EXCEPT !.frame = f]
      IN  e.state = d.state /\ e.epoch = d.epoch /\ e.active = d.active
            /\ e.activeTool = d.activeTool /\ e.frame = f
  BY DEF Data
<1> QED
  BY <1>2, <1>3, <1>4 DEF f

\* The new frame of an iteration, or the frame a crash left behind.
LEMMA OpenedFields ==
  ASSUME data \in Data
  PROVE  /\ Opened.state = data.state
         /\ Opened.epoch = data.epoch
         /\ Opened.active = data.active
         /\ Opened.activeTool = data.activeTool
         /\ NeedsFrame(data.frame) =>
              /\ Opened.frame.n = data.usage.iterations + 1
              /\ Opened.frame.state = "prepared"
              /\ Opened.frame.raw = "none"
              /\ ~Opened.frame.tool
         /\ ~NeedsFrame(data.frame) => Opened = data
<1>1. CASE NeedsFrame(data.frame)
  <2> DEFINE u == [data.usage EXCEPT !.iterations = @ + 1]
             f == [NoFrame EXCEPT !.n = data.usage.iterations + 1, !.state = "prepared"]
  <2>1. Opened = [data EXCEPT !.usage = u, !.frame = f]
    BY <1>1 DEF Opened, WithNewFrame, Data
  <2>2. f.n = data.usage.iterations + 1 /\ f.state = "prepared" /\ f.raw = "none" /\ ~f.tool
    BY DEF NoFrame
  <2> HIDE DEF u, f
  <2>3. /\ Opened.state = data.state /\ Opened.epoch = data.epoch /\ Opened.active = data.active
        /\ Opened.activeTool = data.activeTool /\ Opened.frame = f
    BY <2>1 DEF Data
  <2> QED
    BY <1>1, <2>2, <2>3
<1>2. CASE ~NeedsFrame(data.frame)
  BY <1>2 DEF Opened
<1> QED
  BY <1>1, <1>2

LEMMA CountToolFailureFields ==
  ASSUME NEW d \in Data
  PROVE  LET e == CountToolFailure(d)
         IN  /\ e.state = d.state
             /\ e.epoch = d.epoch
             /\ e.active = d.active
             /\ e.activeTool = d.activeTool
             /\ e.frame.n = d.frame.n
             /\ e.frame.state = d.frame.state
             /\ e.frame.raw = d.frame.raw
             /\ e.frame.decision = d.frame.decision
             /\ e.frame.tool = d.frame.tool
<1> DEFINE u == [d.usage EXCEPT !.toolFailures = @ + 1]
           f == [d.frame EXCEPT !.toolRetries = @ + 1]
<1>1. CountToolFailure(d) = [d EXCEPT !.usage = u, !.frame = f]
  BY DEF CountToolFailure, Data
<1>2. d.frame \in Frames
  BY DataFieldsTyped
<1>3. /\ f.n = d.frame.n /\ f.state = d.frame.state /\ f.raw = d.frame.raw
      /\ f.decision = d.frame.decision /\ f.tool = d.frame.tool
  BY <1>2 DEF Frames
<1> HIDE DEF u, f
<1> QED
  BY <1>1, <1>3 DEF Data

LEMMA ToolRecordedFields ==
  ASSUME data \in Data, NEW counted \in BOOLEAN
  PROVE  LET e == ToolRecorded(counted)
         IN  /\ e.state = data.state
             /\ e.epoch = data.epoch
             /\ e.active = data.active
             /\ e.activeTool = data.frame.n
             /\ e.frame.n = data.frame.n
             /\ e.frame.tool
<1> DEFINE u == [data.usage EXCEPT !.tool = IF counted THEN @ + 1 ELSE @]
           f == [data.frame EXCEPT !.tool = TRUE, !.state = "waiting-for-tool"]
<1>1. ToolRecorded(counted) = [data EXCEPT !.usage = u, !.frame = f, !.activeTool = data.frame.n]
  BY DEF ToolRecorded, Data
<1>2. data.frame \in Frames
  BY DataFieldsTyped
<1>3. f.n = data.frame.n /\ f.tool
  BY <1>2 DEF Frames
<1> HIDE DEF u, f
<1> QED
  BY <1>1, <1>3 DEF Data

\* The active ToolInvocation is the one the run waits for.
LEMMA AwaitedIsActive ==
  ASSUME NEW d, d.frame.tool => d.activeTool = d.frame.n
  PROVE  Awaited(d) = d.activeTool
  BY DEF Awaited

LEMMA ObservedFields ==
  ASSUME NEW d \in Data
  PROVE  LET e == Observed(d)
         IN  /\ e.state = d.state
             /\ e.epoch = d.epoch
             /\ e.active = d.active
             /\ e.activeTool = Awaited(d)
             /\ e.frame.n = d.frame.n
             /\ e.frame.state = "tool-observed"
             /\ e.frame.tool = d.frame.tool
<1> DEFINE e == [d EXCEPT !.frame.state = "tool-observed"]
<1>1. Observed(d) = [e EXCEPT !.activeTool = Awaited(d)]
  BY DEF Observed, Data
<1>2. e \in Data
  BY FrameStateTyped DEF FrameStates
<1>3. /\ e.state = d.state /\ e.epoch = d.epoch /\ e.active = d.active
      /\ e.frame.n = d.frame.n /\ e.frame.state = "tool-observed" /\ e.frame.tool = d.frame.tool
  BY FrameStateFields
<1> HIDE DEF e
<1> QED
  BY <1>1, <1>2, <1>3 DEF Data

LEMMA MergedFields ==
  ASSUME data \in Data, NEW d \in Data
  PROVE  LET e == Merged(d)
         IN  /\ e.state = d.state
             /\ e.epoch = d.epoch
             /\ e.frame = d.frame
             /\ e.activeTool = d.activeTool
<1> DEFINE a == IF d.active = NoModel THEN data.active ELSE d.active
           g == IF d.pending = NoAction THEN data.pending ELSE d.pending
<1>1. Merged(d) = [d EXCEPT !.active = a, !.pending = g]
  BY DEF Merged, Data
<1> HIDE DEF a, g
<1> QED
  BY <1>1 DEF Data

-----------------------------------------------------------------------------
(* The ToolInvocations, and the calls that are under way *)

\* ToolInvocations neither disappear nor lose their Observation.
ToolsGrow ==
  \A i \in Iterations : /\ tool[i].phase # "Absent" => tool'[i].phase # "Absent"
                        /\ tool[i].observed => tool'[i].observed

LEMMA ToolBecomesFields ==
  ASSUME TypeOK, NEW i \in Iterations, NEW p \in ToolPhases, ToolBecomes(i, p)
  PROVE  /\ tool'[i].phase = p
         /\ tool'[i].observed <=> tool[i].observed \/ p \in ToolTerminalPhases
         /\ \A j \in Iterations \ {i} : tool'[j] = tool[j]
<1>1. tool \in [Iterations -> [phase : ToolPhases, observed : BOOLEAN]]
  BY DEF TypeOK
<1> QED
  BY <1>1 DEF ToolBecomes

LEMMA ToolBecomesGrows ==
  ASSUME TypeOK, ToolsConsistent, NEW i, NEW p \in ToolPhases \ {"Absent"}, ToolBecomes(i, p)
  PROVE  ToolsGrow /\ ToolsConsistent'
<1>1. CASE i \in Iterations
  BY <1>1, ToolBecomesFields DEF ToolsGrow, ToolsConsistent
<1>2. CASE i \notin Iterations
  <2>1. tool' = tool
    BY <1>2 DEF TypeOK, ToolBecomes
  <2> QED
    BY <2>1 DEF ToolsGrow, ToolsConsistent
<1> QED
  BY <1>1, <1>2

LEMMA ToolsUnchanged ==
  ASSUME ToolsConsistent, UNCHANGED tool
  PROVE  ToolsGrow /\ ToolsConsistent'
  BY DEF ToolsGrow, ToolsConsistent

\* What a reconciler remembers of its call stays true while others move on.
LEMMA SnapAwaits ==
  ASSUME TypeOK, NEW q \in Reconcilers, SnapFits(q)
  PROVE  Awaited(snap[q].data) \in Iterations /\ Awaited(snap[q].data) # 0
<1> DEFINE d == snap[q].data
<1>1. d \in Data
  BY DEF TypeOK, Snaps
<1>2. Awaited(d) \in 0..MaxIterations
  BY <1>1, AwaitedTyped
<1>3. Awaited(d) # 0
  BY AwaitedIsActive DEF SnapFits
<1> HIDE DEF d
<1> QED
  BY <1>2, <1>3, BudgetsAssumption DEF Iterations, d

LEMMA SnapKept ==
  ASSUME TypeOK, ToolsGrow, NEW q \in Reconcilers, SnapFits(q), snap'[q] = snap[q]
  PROVE  SnapFits(q)'
  BY SnapAwaits DEF SnapFits, ToolsGrow, Awaited

LEMMA CallsKept ==
  ASSUME TypeOK, CallsConsistent, ToolsGrow, NEW r \in Reconcilers,
         \/ Continue(r) \/ Leave(r)
         \/ \E at \in {"ready", "engine"} : Return(r, at)
         \/ \E s : \E at \in {"ready", "tools", "tic"} : Await(r, at, s)
         \/ UNCHANGED <<pc, snap>>
  PROVE  CallsConsistent'
<1> SUFFICES ASSUME NEW q \in Reconcilers
             PROVE  /\ pc'[q] = "tool" => SnapFits(q)'
                    /\ pc'[q] = "model" => snap'[q].inv # NoModel
  BY DEF CallsConsistent
<1>1. /\ pc'[q] = "tool" => pc[q] = "tool" /\ snap'[q] = snap[q]
      /\ pc'[q] = "model" => pc[q] = "model" /\ snap'[q] = snap[q]
  BY DEF TypeOK, Continue, Leave, Return, Await
<1> QED
  BY <1>1, SnapKept DEF CallsConsistent

-----------------------------------------------------------------------------
(* The run *)

\* The fields of the run's status that the invariant reads do not change.
RunStays ==
  /\ phase' = phase
  /\ data'.state = data.state
  /\ data'.epoch = data.epoch
  /\ data'.frame = data.frame
  /\ data'.active = data.active
  /\ data'.activeTool = data.activeTool

LEMMA RunKept ==
  ASSUME TypeOK, RunConsistent, RunStays, ToolsGrow
  PROVE  RunConsistent'
<1>1. Awaited(data) \in 0..MaxIterations /\ Awaited(data)' = Awaited(data)
  BY AwaitedTyped DEF TypeOK, RunStays, Awaited
<1>2. Awaited(data) # 0 => Awaited(data) \in Iterations
  BY <1>1, BudgetsAssumption DEF Iterations
<1>3. data.state = "WaitingForObservation" => Awaited(data) # 0
  BY DEF RunConsistent, PersistedStateConsistent, FrameFits
<1>4. ToolFits(data)'
  BY <1>1, <1>2, <1>3 DEF RunConsistent, PersistedStateConsistent, ToolFits, ToolsGrow, RunStays
<1>5. ActiveToolFits'
  BY DEF RunConsistent, ActiveToolFits, RunStays
<1>6. FrameFits(data)'
  BY <1>1 DEF RunConsistent, PersistedStateConsistent, FrameFits, RunStays
<1> QED
  BY <1>4, <1>5, <1>6 DEF RunConsistent, PersistedStateConsistent, PhaseFits, RunStays

\* A step that does not touch the ToolInvocations may change the phase alone.
LEMMA PhaseChanged ==
  ASSUME RunConsistent, UNCHANGED <<data, tool>>,
         (PhaseFits /\ (phase = "WaitingForApproval" => data.state \in ResumablePhases))'
  PROVE  RunConsistent'
  BY DEF RunConsistent, PersistedStateConsistent, FrameFits, ToolFits, ActiveToolFits, Awaited

-----------------------------------------------------------------------------
(* The engine's steps *)

\* What RunConsistent says of status.data in every executionState.
Sound(d) ==
  /\ d.epoch \in {0, 1}
  /\ d.frame.n = 0 <=> d.frame = NoFrame
  /\ d.active # NoModel => d.frame # NoFrame
  /\ d.frame.tool => d.activeTool = d.frame.n
  /\ d.activeTool # 0 => d.frame # NoFrame
  /\ d.activeTool # 0 => tool[d.activeTool].phase # "Absent"

LEMMA RunSound ==
  ASSUME TypeOK, RunConsistent
  PROVE  /\ Sound(data)
         /\ Awaited(data) = data.activeTool
         /\ data.frame.n \in 0..MaxIterations
         /\ data.frame # NoFrame => data.frame.n \in Iterations
         /\ data.frame.tool => data.frame # NoFrame
         /\ phase = "Scheduled" => data.state = "none"
         /\ phase \in ResumablePhases \ {"Scheduled"} => data.state = phase /\ data.epoch = 1
         /\ data.state = "none" => data.epoch = 0
<1>1. Awaited(data) = data.activeTool
  BY AwaitedIsActive DEF RunConsistent, ActiveToolFits
<1>2. Sound(data)
  BY <1>1 DEF Sound, RunConsistent, PersistedStateConsistent, FrameFits, ToolFits, ActiveToolFits
<1>3. data.frame.n \in 0..MaxIterations
  BY DataFieldsTyped DEF TypeOK
<1>4. data.frame # NoFrame => data.frame.n \in Iterations
  BY <1>2, <1>3, BudgetsAssumption DEF Sound, Iterations
<1>5. data.frame.tool => data.frame # NoFrame
  BY DEF NoFrame
<1>6. /\ phase = "Scheduled" => data.state = "none"
      /\ phase \in ResumablePhases \ {"Scheduled"} => data.state = phase /\ data.epoch = 1
      /\ data.state = "none" => data.epoch = 0
  BY DEF RunConsistent, PersistedStateConsistent, PhaseFits, ResumablePhases
<1> QED
  BY <1>1, <1>2, <1>3, <1>4, <1>5, <1>6

\* What Sound says is what the invariant says of ToolInvocations.
LEMMA SoundTools ==
  ASSUME Sound(data)'
  PROVE  /\ Awaited(data)' = data'.activeTool
         /\ ActiveToolFits'
         /\ data'.state # "WaitingForObservation" => ToolFits(data)'
<1>1. Awaited(data)' = data'.activeTool
  BY DEF Sound, Awaited
<1> QED
  BY <1>1 DEF Sound, ActiveToolFits, ToolFits

\* A run that ends owes nothing to the handlers any more.
LEMMA RunEnds ==
  ASSUME Sound(data)', data'.state \in TerminalPhases, phase' = data'.state
  PROVE  RunConsistent'
  BY SoundTools DEF RunConsistent, PersistedStateConsistent, PhaseFits, FrameFits,
                    Sound, TerminalPhases, ResumablePhases

\* A live run enters executionState p, or waits for an approval in it.
LEMMA RunEnters ==
  ASSUME NEW p \in ResumablePhases \ {"Scheduled"},
         data'.state = p, phase' \in {p, "WaitingForApproval"},
         Sound(data)', data'.epoch = 1, FrameFits(data)',
         p = "WaitingForObservation" => tool'[data'.activeTool].observed
  PROVE  RunConsistent'
<1>1. ToolFits(data)' /\ ActiveToolFits'
  BY SoundTools DEF ToolFits, Sound
<1> QED
  BY <1>1 DEF RunConsistent, PersistedStateConsistent, PhaseFits, Sound, ResumablePhases

\* Sound goes on to hold while ToolInvocations do not disappear.
LEMMA SoundKept ==
  ASSUME ToolsGrow, NEW d \in Data, Sound(d),
         data'.epoch = d.epoch, data'.frame = d.frame, data'.active \in {d.active, NoModel},
         data'.activeTool = d.activeTool
  PROVE  Sound(data)'
<1>1. d.activeTool # 0 => d.activeTool \in Iterations
  BY BudgetsAssumption DEF Data, Iterations
<1> QED
  BY <1>1 DEF Sound, ToolsGrow

LEMMA EnterEnds ==
  ASSUME TypeOK, RunConsistent, ToolsGrow, NEW d \in Data, NEW p \in TerminalPhases,
         Enter(p, d), Sound(d)
  PROVE  RunConsistent'
<1>1. /\ phase' = p /\ data'.state = p /\ data'.epoch = d.epoch /\ data'.frame = d.frame
      /\ data'.active = d.active /\ data'.activeTool = d.activeTool
  BY EnterFields
<1> QED
  BY <1>1, SoundKept, RunEnds

LEMMA FailEnds ==
  ASSUME TypeOK, RunConsistent, ToolsGrow, NEW d \in Data, Fail(d), Sound(d)
  PROVE  RunConsistent'
<1>1. /\ phase' = "Failed" /\ data'.state = "Failed" /\ data'.epoch = d.epoch
      /\ data'.frame = d.frame /\ data'.active = NoModel /\ data'.activeTool = d.activeTool
  BY FailFields
<1> QED
  BY <1>1, SoundKept, RunEnds DEF TerminalPhases

LEMMA StartedConsistent ==
  ASSUME TypeOK, StateInvariant, phase = "Scheduled", UNCHANGED tool,
         \/ Enter("Starting", Started)
         \/ \E r, g : Pause(r, g, Started)
         \/ Fail(Started)
  PROVE  RunConsistent'
<1>1. data \in Data /\ RunConsistent
  BY DEF TypeOK, StateInvariant
<1>2. data.state = "none" /\ data.epoch = 0
  BY <1>1, RunSound
<1>3. data.frame = NoFrame /\ data.active = NoModel /\ data.activeTool = 0
  BY <1>1, <1>2 DEF RunConsistent, PersistedStateConsistent, FrameFits, ActiveToolFits
<1>4. /\ Started \in Data /\ Started.state = "Starting" /\ Started.epoch = 1
      /\ Started.frame = NoFrame /\ Started.active = NoModel
      /\ Started.activeTool = 0
  BY <1>1, <1>2, <1>3, StartedTyped, StartedFields
<1>5. NoFrame.n = 0 /\ ~NoFrame.tool
  BY DEF NoFrame
<1>6. CASE Fail(Started)
  <2>1. Sound(Started)
    BY <1>4, <1>5 DEF Sound
  <2>2. ToolsGrow
    BY ToolsUnchanged DEF StateInvariant
  <2> QED
    BY <1>1, <1>4, <1>5, <1>6, <2>1, <2>2, FailEnds
<1>7. CASE Enter("Starting", Started) \/ \E r, g : Pause(r, g, Started)
  <2>1. /\ phase' \in {"Starting", "WaitingForApproval"} /\ data'.state = "Starting"
        /\ data'.epoch = 1 /\ data'.frame = NoFrame /\ data'.active = NoModel
        /\ data'.activeTool = 0
    BY <1>4, <1>7, EnterFields, PauseFields
  <2>2. Sound(data)' /\ FrameFits(data)'
    BY <1>5, <2>1 DEF Sound, FrameFits
  <2> QED
    BY <2>1, <2>2, RunEnters DEF ResumablePhases
<1> QED
  BY <1>6, <1>7

\* The data of a run that is about to ask the model.
LEMMA OpenedConsistent ==
  ASSUME TypeOK, RunConsistent, phase = "AwaitingDecision", IterationLeft
  PROVE  /\ Opened \in Data
         /\ Opened.state = "AwaitingDecision"
         /\ Opened.epoch = 1
         /\ Opened.activeTool = data.activeTool
         /\ Opened.frame.n \in Iterations
         /\ Opened.frame # NoFrame
         /\ Opened.frame.state \in {"prepared", "decision-requested"}
         /\ Opened.frame.raw = "none"
         /\ ~Opened.frame.tool
         /\ Sound(Opened)
<1>1. data \in Data /\ Opened \in Data
  BY OpenedTyped DEF TypeOK
<1>2. data.state = "AwaitingDecision" /\ data.epoch = 1
  BY RunSound DEF ResumablePhases
<1>3. Opened.frame.n \in 0..MaxIterations /\ data.usage.iterations \in Nat
  BY <1>1, DataFieldsTyped DEF Usages
<1>4. /\ Opened.frame.n # 0
      /\ Opened.frame.state \in {"prepared", "decision-requested"}
      /\ Opened.frame.raw = "none"
      /\ ~Opened.frame.tool
  <2>1. CASE NeedsFrame(data.frame)
    BY <1>1, <1>3, <2>1, OpenedFields
  <2>2. CASE ~NeedsFrame(data.frame)
    BY <1>1, <1>2, <2>2, OpenedFields
       DEF NeedsFrame, NoFrame, RunConsistent, PersistedStateConsistent, FrameFits
  <2> QED
    BY <2>1, <2>2
<1>5. Opened.frame # NoFrame
  BY <1>4 DEF NoFrame
<1>6. /\ Opened.state = "AwaitingDecision" /\ Opened.epoch = 1
      /\ Opened.activeTool = data.activeTool
  BY <1>1, <1>2, OpenedFields
<1>7. Opened.frame.n \in Iterations
  BY <1>3, <1>4, BudgetsAssumption DEF Iterations
<1>8. Sound(data)
  BY RunSound
<1> QED
  BY <1>1, <1>4, <1>5, <1>6, <1>7, <1>8, BudgetsAssumption DEF Sound, Iterations

\* The run awaits a Decision for a frame that has none yet.
LEMMA AwaitsDecision ==
  ASSUME TypeOK, phase' \in {"AwaitingDecision", "WaitingForApproval"},
         data'.state = "AwaitingDecision", data'.epoch = 1,
         Sound(data)', data'.frame # NoFrame,
         \/ data'.frame.state \in {"decision-rejected", "observation-delivered"}
         \/ /\ data'.frame.state \in {"prepared", "decision-requested"}
            /\ data'.frame.raw = "none" /\ ~data'.frame.tool
  PROVE  RunConsistent'
<1>1. FrameFits(data)'
  BY DEF FrameFits, Sound
<1> QED
  BY <1>1, RunEnters DEF ResumablePhases

LEMMA ClearedSound ==
  ASSUME NEW d \in Data, Sound(d)
  PROVE  LET e == [d EXCEPT !.active = NoModel]
         IN  e \in Data /\ Sound(e) /\ e.frame = d.frame
<1> DEFINE e == [d EXCEPT !.active = NoModel]
<1>1. e \in Data
  BY FieldsTyped, NoDataTyped
<1>2. /\ e.epoch = d.epoch /\ e.frame = d.frame /\ e.active = NoModel
      /\ e.activeTool = d.activeTool
  BY DEF Data
<1> HIDE DEF e
<1>3. Sound(e)
  BY <1>2 DEF Sound
<1> QED
  BY <1>1, <1>2, <1>3 DEF e

LEMMA FrameStateSound ==
  ASSUME NEW d \in Data, Sound(d), d.frame # NoFrame, NEW s \in FrameStates
  PROVE  LET e == [d EXCEPT !.frame.state = s]
         IN  e \in Data /\ Sound(e) /\ e.frame.n = d.frame.n /\ e.frame # NoFrame
<1> DEFINE e == [d EXCEPT !.frame.state = s]
<1>1. e \in Data
  BY FrameStateTyped
<1>2. /\ e.epoch = d.epoch /\ e.active = d.active /\ e.activeTool = d.activeTool
      /\ e.frame.n = d.frame.n /\ e.frame.tool = d.frame.tool
  BY FrameStateFields
<1>3. e.frame.n # 0
  BY <1>2 DEF Sound
<1>4. e.frame # NoFrame
  BY <1>3 DEF NoFrame
<1> HIDE DEF e
<1>5. Sound(e)
  BY <1>2, <1>3, <1>4 DEF Sound
<1> QED
  BY <1>1, <1>2, <1>4, <1>5 DEF e

\* Steps that end the run, or that leave its status as it is.
LEMMA EndingStepConsistent ==
  ASSUME TypeOK, StateInvariant, NEW r \in Reconcilers,
         \/ CancelRun(r) \/ TimeOutRun(r) \/ ExhaustIterations(r) \/ ExhaustModelCalls(r)
         \/ DenyModel(r) \/ ExpireInFlight(r) \/ FailByDecision(r)
         \/ \E outputsComplete \in BOOLEAN : FailFinalization(r, outputsComplete)
         \/ CompleteExecution(r) \/ EndPass(r) \/ FailPass(r)
  PROVE  StateInvariant'
<1>1. data \in Data /\ RunConsistent /\ ToolsConsistent /\ CallsConsistent
  BY DEF TypeOK, StateInvariant
<1>2. UNCHANGED tool /\ Leave(r)
  BY DEF CancelRun, TimeOutRun, ExhaustIterations, ExhaustModelCalls, DenyModel, ExpireInFlight,
         FailByDecision, FailFinalization, CompleteExecution, EndPass, FailPass
<1>3. ToolsGrow /\ ToolsConsistent' /\ CallsConsistent'
  BY <1>1, <1>2, ToolsUnchanged, CallsKept
<1>4. Sound(data)
  BY <1>1, RunSound
<1> SUFFICES RunConsistent'
  BY <1>3 DEF StateInvariant
<1>5. CASE \E p \in TerminalPhases : Enter(p, data)
  BY <1>1, <1>3, <1>4, <1>5, EnterEnds
<1>6. CASE \E p \in TerminalPhases : Enter(p, [data EXCEPT !.active = NoModel])
  BY <1>1, <1>3, <1>4, <1>6, ClearedSound, EnterEnds
<1>7. CASE Fail(data)
  BY <1>1, <1>3, <1>4, <1>7, FailEnds
<1>8. CASE CancelRun(r)
  BY <1>5, <1>8 DEF CancelRun, TerminalPhases
<1>9. CASE TimeOutRun(r) \/ ExpireInFlight(r)
  BY <1>6, <1>9 DEF TimeOutRun, ExpireInFlight, TerminalPhases
<1>10. CASE ExhaustIterations(r)
  BY <1>5, <1>10 DEF ExhaustIterations, TerminalPhases
<1>11. CASE ExhaustModelCalls(r) \/ DenyModel(r)
  <2>1. phase = "AwaitingDecision" /\ IterationLeft
    BY <1>11 DEF ExhaustModelCalls, DenyModel, ModelTurn, DecisionTurn
  <2>2. Opened \in Data /\ Sound(Opened) /\ ~Opened.frame.tool
    BY <1>1, <2>1, OpenedConsistent
  <2>3. Enter("BudgetExceeded", Opened) \/ Fail(Opened)
    BY <1>11 DEF ExhaustModelCalls, DenyModel
  <2> QED
    BY <1>1, <1>3, <2>2, <2>3, EnterEnds, FailEnds DEF TerminalPhases
<1>12. CASE FailByDecision(r) \/ \E outputsComplete \in BOOLEAN : FailFinalization(r, outputsComplete)
  BY <1>7, <1>12 DEF FailByDecision, FailFinalization
<1>13. CASE CompleteExecution(r)
  <2>1. data.frame # NoFrame
    BY <1>13 DEF CompleteExecution, NoFrame
  <2> DEFINE e == [data EXCEPT !.frame.state = "finalized"]
  <2>2. e \in Data /\ Sound(e) /\ e.frame.n = data.frame.n
    BY <1>1, <1>4, <2>1, FrameStateSound DEF FrameStates
  <2>3. Enter("Succeeded", e)
    BY <1>13 DEF CompleteExecution
  <2>4. data.frame.n \in Iterations
    BY <1>1, <2>1, RunSound
  <2> HIDE DEF e
  <2> QED
    BY <1>1, <1>3, <2>2, <2>3, <2>4, EnterEnds DEF TerminalPhases
<1>14. CASE EndPass(r)
  BY <1>1, <1>14, PhaseChanged DEF EndPass, RunConsistent, PersistedStateConsistent, PhaseFits
<1>15. CASE FailPass(r)
  <2>1. UNCHANGED <<data, tool>> /\ phase' = "Failed"
    BY <1>15 DEF FailPass
  <2> QED
    BY <1>1, <2>1, PhaseChanged DEF PhaseFits
<1> QED
  BY <1>8, <1>9, <1>10, <1>11, <1>12, <1>13, <1>14, <1>15

\* The run waits for the model: a frame is opened, perhaps recorded as asked.
LEMMA ModelStepConsistent ==
  ASSUME TypeOK, StateInvariant, NEW r \in Reconcilers,
         AwaitModelApproval(r) \/ RequestDecision(r) \/ DieAfterFrame(r)
  PROVE  StateInvariant'
<1>1. data \in Data /\ RunConsistent /\ ToolsConsistent /\ CallsConsistent
  BY DEF TypeOK, StateInvariant
<1>2. UNCHANGED tool /\ phase = "AwaitingDecision" /\ IterationLeft
  BY DEF AwaitModelApproval, RequestDecision, DieAfterFrame, ModelTurn, DecisionTurn
<1>3. ToolsGrow /\ ToolsConsistent'
  BY <1>1, <1>2, ToolsUnchanged
<1>4. /\ Opened \in Data /\ Opened.state = "AwaitingDecision" /\ Opened.epoch = 1
      /\ Opened.activeTool = data.activeTool /\ Opened.frame # NoFrame
      /\ Opened.frame.state \in {"prepared", "decision-requested"}
      /\ Opened.frame.raw = "none" /\ ~Opened.frame.tool
      /\ Opened.frame.n \in Iterations
      /\ Sound(Opened)
  BY <1>1, <1>2, OpenedConsistent
<1>5. CASE AwaitModelApproval(r)
  <2>1. Pause(r, Model, Opened)
    BY <1>5 DEF AwaitModelApproval
  <2>2. /\ phase' = "WaitingForApproval" /\ data'.state = Opened.state
        /\ data'.epoch = Opened.epoch /\ data'.frame = Opened.frame
        /\ data'.active = Opened.active /\ data'.activeTool = Opened.activeTool
    BY <1>4, <2>1, PauseFields
  <2>3. Sound(data)'
    BY <1>2, <1>4, <2>2 DEF Sound
  <2>4. RunConsistent'
    BY <1>2, <1>4, <2>2, <2>3, AwaitsDecision
  <2>5. CallsConsistent'
    BY <1>1, <1>3, <2>1, CallsKept DEF Pause
  <2> QED
    BY <1>3, <2>4, <2>5 DEF StateInvariant
<1>6. CASE DieAfterFrame(r)
  <2>1. data' = Opened /\ phase' = phase /\ Leave(r)
    BY <1>6 DEF DieAfterFrame
  <2>2. Sound(data)'
    BY <1>2, <1>4, <2>1 DEF Sound
  <2>3. RunConsistent'
    BY <1>2, <1>4, <2>1, <2>2, AwaitsDecision
  <2>4. CallsConsistent'
    BY <1>1, <1>3, <2>1, CallsKept
  <2> QED
    BY <1>3, <2>3, <2>4 DEF StateInvariant
<1>7. CASE RequestDecision(r)
  <2> DEFINE id == InvocationId(Opened)
             f == [Opened.frame EXCEPT !.attempts = @ + 1, !.state = "decision-requested"]
             u == [Opened.usage EXCEPT !.model = @ + 1]
  <2>1. Opened.frame \in Frames /\ Opened.usage \in Usages
    BY <1>4, DataFieldsTyped
  <2>2. f.n = Opened.frame.n /\ f.state = "decision-requested" /\ f.raw = "none" /\ ~f.tool
    BY <1>4, <2>1 DEF Frames
  <2>3. f # NoFrame
    BY <2>2 DEF NoFrame
  <2>4. id # NoModel
    <3>1. Opened.frame.attempts \in Nat
      BY <2>1 DEF Frames
    <3>2. id.attempt # 0
      BY <3>1 DEF InvocationId
    <3> QED
      BY <3>2 DEF NoModel
  <2>5. data' = [Opened EXCEPT !.frame = f, !.usage = u, !.active = id]
    BY <1>4, <1>7 DEF RequestDecision, Data
  <2>6. Await(r, "model", [NoSnap EXCEPT !.inv = id]) /\ phase' = phase
    BY <1>7 DEF RequestDecision
  <2> HIDE DEF id, f, u
  <2>7. /\ data'.state = "AwaitingDecision" /\ data'.epoch = 1 /\ data'.frame = f
        /\ data'.active = id /\ data'.activeTool = data.activeTool
    BY <1>4, <2>5 DEF Data
  <2>8. Sound(data)'
    BY <1>2, <1>4, <2>2, <2>3, <2>7, BudgetsAssumption DEF Sound, Iterations
  <2>9. RunConsistent'
    BY <1>2, <1>4, <2>2, <2>3, <2>6, <2>7, <2>8, AwaitsDecision
  <2>10. CallsConsistent'
    <3>1. snap'[r].inv = id /\ pc'[r] = "model"
      BY <2>6 DEF Await, NoSnap, TypeOK
    <3>2. \A q \in Reconcilers \ {r} : pc'[q] = pc[q] /\ snap'[q] = snap[q]
      BY <2>6 DEF Await, TypeOK
    <3>3. ASSUME NEW q \in Reconcilers \ {r}, pc[q] = "tool"
          PROVE  SnapFits(q)'
      BY <1>1, <1>3, <3>2, <3>3, SnapKept DEF CallsConsistent
    <3> QED
      BY <1>1, <2>4, <3>1, <3>2, <3>3 DEF CallsConsistent
  <2> QED
    BY <1>3, <2>9, <2>10 DEF StateInvariant
<1> QED
  BY <1>5, <1>6, <1>7

\* The steps before the first Decision and around each Decision.
LEMMA DecisionStepConsistent ==
  ASSUME TypeOK, StateInvariant, NEW r \in Reconcilers,
         \/ StartEngine(r) \/ DieAfterStart(r) \/ PrepareExecution(r)
         \/ AcceptDecision(r) \/ RejectDecision(r) \/ BeginFinalizing(r)
         \/ AwaitWriteApproval(r)
  PROVE  StateInvariant'
<1>1. data \in Data /\ RunConsistent /\ ToolsConsistent /\ CallsConsistent
  BY DEF TypeOK, StateInvariant
<1>2. UNCHANGED tool /\ (Continue(r) \/ Leave(r))
  BY DEF StartEngine, DieAfterStart, PrepareExecution, AcceptDecision, RejectDecision,
         BeginFinalizing, AwaitWriteApproval, Pause
<1>3. ToolsGrow /\ ToolsConsistent' /\ CallsConsistent'
  BY <1>1, <1>2, ToolsUnchanged, CallsKept
<1>4. Sound(data)
  BY <1>1, RunSound
<1> SUFFICES RunConsistent'
  BY <1>3 DEF StateInvariant
<1>5. CASE StartEngine(r) \/ DieAfterStart(r)
  BY <1>2, <1>5, StartedConsistent DEF StartEngine, DieAfterStart
<1>6. CASE PrepareExecution(r)
  <2>1. data.state = "Starting" /\ data.epoch = 1 /\ data.frame = NoFrame
    BY <1>1, <1>6, RunSound
       DEF PrepareExecution, ResumablePhases, RunConsistent, PersistedStateConsistent, FrameFits
  <2>2. CASE Enter("AwaitingDecision", data)
    <3>1. /\ phase' = "AwaitingDecision" /\ data'.state = "AwaitingDecision" /\ data'.epoch = 1
          /\ data'.frame = NoFrame /\ data'.active = data.active
          /\ data'.activeTool = data.activeTool
      BY <1>1, <2>1, <2>2, EnterFields
    <3>2. Sound(data)' /\ FrameFits(data)'
      BY <1>2, <1>4, <2>1, <3>1 DEF Sound, FrameFits, NoFrame
    <3> QED
      BY <3>1, <3>2, RunEnters DEF ResumablePhases
  <2>3. CASE Fail(data)
    BY <1>1, <1>3, <1>4, <2>3, FailEnds
  <2> QED
    BY <1>6, <2>2, <2>3 DEF PrepareExecution
<1>7. CASE AcceptDecision(r) \/ RejectDecision(r)
  <2>1. data.state = "DecisionReady" /\ data.epoch = 1
    BY <1>1, <1>7, RunSound DEF AcceptDecision, RejectDecision, ResumablePhases
  <2>2. data.frame.raw # "none"
    BY <1>1, <2>1 DEF RunConsistent, PersistedStateConsistent, FrameFits
  <2>3. data.frame # NoFrame
    BY <2>2 DEF NoFrame
  <2>5. CASE AcceptDecision(r)
    <3> DEFINE f == [data.frame EXCEPT !.decision = data.frame.raw, !.state = "decision-validated"]
    <3>1. phase' = "ProcessingDecision" /\ data' = [data EXCEPT !.frame = f, !.state = "ProcessingDecision"]
      BY <1>1, <2>5 DEF AcceptDecision, Enter, Data
    <3>2. /\ f.n = data.frame.n /\ f.raw = data.frame.raw /\ f.decision = data.frame.raw
          /\ f.tool = data.frame.tool
      BY <1>1, DataFieldsTyped DEF Frames
    <3>3. f # NoFrame
      BY <2>2, <3>2 DEF NoFrame
    <3> HIDE DEF f
    <3>4. /\ data'.state = "ProcessingDecision" /\ data'.epoch = 1 /\ data'.frame = f
          /\ data'.active = data.active /\ data'.activeTool = data.activeTool
      BY <1>1, <2>1, <3>1 DEF Data
    <3>5. Sound(data)' /\ FrameFits(data)'
      BY <1>2, <1>4, <2>2, <2>3, <3>2, <3>3, <3>4 DEF Sound, FrameFits
    <3> QED
      BY <3>1, <3>4, <3>5, RunEnters DEF ResumablePhases
  <2>6. CASE RejectDecision(r)
    <3> DEFINE u == [data.usage EXCEPT !.decisionFailures = @ + 1]
               f == [data.frame EXCEPT !.state = "decision-rejected"]
               rejected == [data EXCEPT !.usage = u, !.frame = f]
    <3>1. [data EXCEPT !.usage.decisionFailures = @ + 1, !.frame.state = "decision-rejected"]
            = rejected
      BY <1>1 DEF Data
    <3>2. Enter("AwaitingDecision", rejected) \/ Enter("Failed", rejected)
      BY <2>6, <3>1 DEF RejectDecision
    <3>3. u \in Usages /\ f \in Frames
      <4>1. data.frame \in Frames /\ data.usage \in Usages
        BY <1>1, DataFieldsTyped
      <4>2. u \in Usages
        BY <4>1 DEF Usages
      <4>3. f \in Frames
        BY <4>1, FramesTyped, FrameStatesNamed
      <4> QED
        BY <4>2, <4>3
    <3>4. f.n = data.frame.n /\ f.state = "decision-rejected" /\ f.tool = data.frame.tool
      BY <1>1, DataFieldsTyped DEF Frames
    <3>5. f # NoFrame
      BY <3>4 DEF NoFrame
    <3> HIDE DEF u, f
    <3>6. /\ rejected \in Data
          /\ rejected.epoch = 1 /\ rejected.frame = f
          /\ rejected.active = data.active /\ rejected.activeTool = data.activeTool
      BY <1>1, <2>1, <3>3 DEF Data
    <3> HIDE DEF rejected
    <3>7. Sound(rejected)
      BY <1>4, <2>3, <3>4, <3>5, <3>6 DEF Sound
    <3>8. CASE Enter("AwaitingDecision", rejected)
      <4>1. /\ phase' = "AwaitingDecision" /\ data'.state = "AwaitingDecision"
            /\ data'.epoch = 1 /\ data'.frame = f /\ data'.active = data.active
            /\ data'.activeTool = data.activeTool
        BY <3>6, <3>8, EnterFields
      <4>2. Sound(data)'
        BY <1>2, <3>6, <3>7, <4>1 DEF Sound
      <4> QED
        BY <3>4, <3>5, <4>1, <4>2, AwaitsDecision
    <3>9. CASE Enter("Failed", rejected)
      BY <1>1, <1>3, <3>6, <3>7, <3>9, EnterEnds DEF TerminalPhases
    <3> QED
      BY <3>2, <3>8, <3>9
  <2> QED
    BY <1>7, <2>5, <2>6
<1>8. CASE BeginFinalizing(r)
  <2> DEFINE e == [data EXCEPT !.frame.state = "finalizing"]
  <2>1. data.state = "ProcessingDecision" /\ data.epoch = 1 /\ data.frame.decision = "complete"
    BY <1>1, <1>8, RunSound DEF BeginFinalizing, DecisionIs, ResumablePhases
  <2>2. data.frame # NoFrame
    BY <2>1 DEF NoFrame
  <2>3. e \in Data /\ Sound(e) /\ e.frame.n = data.frame.n /\ e.frame # NoFrame
    BY <1>1, <1>4, <2>2, FrameStateSound DEF FrameStates
  <2>4. /\ e.epoch = 1 /\ e.frame.decision = "complete" /\ e.frame.tool = data.frame.tool
        /\ e.activeTool = data.activeTool
    BY <1>1, <2>1, FrameStateFields
  <2>5. Enter("Finalizing", e)
    BY <1>8 DEF BeginFinalizing
  <2> HIDE DEF e
  <2>6. /\ phase' = "Finalizing" /\ data'.state = "Finalizing" /\ data'.epoch = 1
        /\ data'.frame = e.frame /\ data'.active = e.active /\ data'.activeTool = data.activeTool
    BY <2>3, <2>4, <2>5, EnterFields
  <2>7. Sound(data)' /\ FrameFits(data)'
    BY <1>2, <2>3, <2>4, <2>6 DEF Sound, FrameFits
  <2> QED
    BY <2>6, <2>7, RunEnters DEF ResumablePhases
<1>9. CASE AwaitWriteApproval(r)
  <2>1. data.state = "Finalizing" /\ data.epoch = 1
    BY <1>1, <1>9, RunSound DEF AwaitWriteApproval, FinalTurn, ResumablePhases
  <2>2. /\ phase' = "WaitingForApproval" /\ data'.state = data.state /\ data'.epoch = data.epoch
        /\ data'.frame = data.frame /\ data'.active = data.active
        /\ data'.activeTool = data.activeTool
    BY <1>1, <1>9, PauseFields DEF AwaitWriteApproval
  <2>3. Sound(data)' /\ FrameFits(data)'
    BY <1>1, <1>2, <1>4, <2>2 DEF Sound, RunConsistent, PersistedStateConsistent, FrameFits, Awaited
  <2> QED
    BY <2>1, <2>2, <2>3, RunEnters DEF ResumablePhases
<1> QED
  BY <1>5, <1>6, <1>7, <1>8, <1>9

-----------------------------------------------------------------------------
(* The steps around a ToolInvocation *)

\* The outcome of the ToolInvocation is noted in the frame.
LEMMA RunObserves ==
  ASSUME phase' = "WaitingForObservation", data'.state = "WaitingForObservation",
         data'.epoch = 1, data'.frame.n # 0, data'.frame.state = "tool-observed",
         data'.activeTool # 0, data'.frame.tool => data'.activeTool = data'.frame.n,
         tool'[data'.activeTool].phase \in ToolTerminalPhases, tool'[data'.activeTool].observed
  PROVE  RunConsistent'
<1>1. data'.frame # NoFrame
  BY DEF NoFrame
<1>2. Sound(data)'
  BY <1>1 DEF Sound, ToolTerminalPhases
<1>3. FrameFits(data)'
  BY <1>1, <1>2, SoundTools DEF FrameFits
<1> QED
  BY <1>2, <1>3, RunEnters DEF ResumablePhases

\* The run waits for its active ToolInvocation.
LEMMA RunWaitsForTool ==
  ASSUME phase' \in {"WaitingForTool", "BudgetExceeded"}, data'.state = "WaitingForTool",
         data'.epoch = 1, data'.frame.n # 0,
         data'.activeTool # 0, data'.frame.tool => data'.activeTool = data'.frame.n,
         tool'[data'.activeTool].phase # "Absent"
  PROVE  RunConsistent'
<1>1. data'.frame # NoFrame
  BY DEF NoFrame
<1>2. Sound(data)'
  BY <1>1 DEF Sound
<1>3. FrameFits(data)' /\ ToolFits(data)' /\ ActiveToolFits'
  BY <1>1, <1>2, SoundTools DEF FrameFits
<1> QED
  BY <1>2, <1>3 DEF RunConsistent, PersistedStateConsistent, PhaseFits, Sound, ResumablePhases

\* What a run that waits for a tool knows.
LEMMA WaitingForToolKnows ==
  ASSUME TypeOK, RunConsistent, phase = "WaitingForTool" \/ data.state = "WaitingForTool"
  PROVE  /\ data.state = "WaitingForTool"
         /\ data.epoch = 1
         /\ data.frame.n # 0
         /\ Awaited(data) \in Iterations
         /\ Awaited(data) # 0
         /\ data.activeTool = Awaited(data)
         /\ data.frame.tool => data.frame.n = Awaited(data)
         /\ tool[Awaited(data)].phase # "Absent"
<1>1. data.state = "WaitingForTool"
  BY DEF RunConsistent, PersistedStateConsistent, PhaseFits
<1>2. data.epoch = 1 /\ Awaited(data) # 0
  BY <1>1 DEF RunConsistent, PersistedStateConsistent, FrameFits, ResumablePhases
<1>3. Sound(data) /\ Awaited(data) = data.activeTool
  BY RunSound
<1>4. Awaited(data) \in Iterations
  BY <1>2, AwaitedTyped, BudgetsAssumption DEF TypeOK, Iterations
<1> QED
  BY <1>1, <1>2, <1>3, <1>4 DEF Sound

\* The ToolInvocation is settled and the run goes on with its outcome.
LEMMA ObserveConsistent ==
  ASSUME TypeOK, RunConsistent, phase = "WaitingForTool", Observe,
         tool'[Awaited(data)].phase \in ToolTerminalPhases, tool'[Awaited(data)].observed
  PROVE  RunConsistent'
<1> DEFINE n == Awaited(data)
<1>1. data \in Data
  BY DEF TypeOK
<1>2. data.epoch = 1 /\ data.frame.n # 0 /\ n # 0 /\ (data.frame.tool => data.frame.n = n)
  BY WaitingForToolKnows
<1>3. Enter("WaitingForObservation", Observed(data)) /\ Observed(data) \in Data
  BY <1>1, ObservedTyped DEF Observe
<1>4. /\ phase' = "WaitingForObservation" /\ data'.state = "WaitingForObservation"
      /\ data'.epoch = Observed(data).epoch /\ data'.frame = Observed(data).frame
      /\ data'.activeTool = Observed(data).activeTool
  BY <1>3, EnterFields
<1>5. /\ Observed(data).epoch = 1 /\ Observed(data).frame.n = data.frame.n
      /\ Observed(data).frame.state = "tool-observed"
      /\ Observed(data).frame.tool = data.frame.tool
      /\ Observed(data).activeTool = n
  BY <1>1, <1>2, ObservedFields
<1> HIDE DEF n
<1>6. tool'[n].phase \in ToolTerminalPhases /\ tool'[n].observed
  BY DEF n
<1> QED
  BY <1>2, <1>4, <1>5, <1>6, RunObserves

LEMMA CreateStepConsistent ==
  ASSUME TypeOK, StateInvariant, NEW r \in Reconcilers,
         CreateToolInvocation(r) \/ DieAfterToolApply(r)
  PROVE  StateInvariant'
<1> DEFINE n == data.frame.n
<1>1. data \in Data /\ RunConsistent /\ ToolsConsistent /\ CallsConsistent
  BY DEF TypeOK, StateInvariant
<1>2. data.state = "ProcessingDecision" /\ data.epoch = 1 /\ data.frame.decision = "invoke_tool"
  BY <1>1, RunSound DEF CreateToolInvocation, DieAfterToolApply, DecisionIs, ResumablePhases
<1>3. data.frame # NoFrame
  BY <1>2 DEF NoFrame
<1>4. Sound(data) /\ n \in Iterations /\ n # 0
  BY <1>1, <1>3, RunSound DEF Sound
<1>5. /\ \/ tool' = tool
         \/ tool[n].phase = "Absent" /\ tool' = [tool EXCEPT ![n].phase = "Pending"]
      /\ Continue(r) \/ Leave(r)
  BY DEF CreateToolInvocation, DieAfterToolApply
<1>6. /\ \A i \in Iterations \ {n} : tool'[i] = tool[i]
      /\ tool'[n].observed = tool[n].observed
      /\ tool'[n].phase \in {tool[n].phase, "Pending"}
      /\ tool[n].phase # "Absent" => tool'[n].phase = tool[n].phase
  <2>1. tool \in [Iterations -> [phase : ToolPhases, observed : BOOLEAN]]
    BY DEF TypeOK
  <2> QED
    BY <1>4, <1>5, <2>1
<1>7. ToolsGrow /\ ToolsConsistent'
  BY <1>1, <1>6 DEF ToolsGrow, ToolsConsistent, ToolTerminalPhases
<1>8. CallsConsistent'
  BY <1>1, <1>5, <1>7, CallsKept
<1> SUFFICES RunConsistent'
  BY <1>7, <1>8 DEF StateInvariant
<1>9. CASE UNCHANGED <<phase, data>>
  BY <1>1, <1>7, <1>9, RunKept DEF RunStays
<1>10. CASE Enter("WaitingForTool", data) /\ data.frame.tool /\ tool' = tool
  BY <1>1, <1>2, <1>4, <1>10, EnterFields, RunWaitsForTool DEF Sound
<1>11. CASE Enter("BudgetExceeded", data)
  BY <1>1, <1>4, <1>7, <1>11, EnterEnds DEF TerminalPhases
<1>12. CASE /\ Enter("WaitingForTool", ToolRecorded(tool[n].phase = "Absent"))
            /\ tool' = IF tool[n].phase = "Absent"
                         THEN [tool EXCEPT ![n].phase = "Pending"] ELSE tool
  <2> DEFINE e == ToolRecorded(tool[n].phase = "Absent")
  <2>1. e \in Data
    BY <1>1, ToolRecordedTyped
  <2>2. e.epoch = 1 /\ e.activeTool = n /\ e.frame.n = n /\ e.frame.tool
    BY <1>1, <1>2, ToolRecordedFields
  <2>3. tool'[n].phase # "Absent"
    BY <1>4, <1>12 DEF TypeOK
  <2> HIDE DEF e
  <2>4. /\ phase' = "WaitingForTool" /\ data'.state = "WaitingForTool" /\ data'.epoch = 1
        /\ data'.frame = e.frame /\ data'.activeTool = n
    BY <1>12, <2>1, <2>2, EnterFields DEF e
  <2> QED
    BY <1>4, <2>2, <2>3, <2>4, RunWaitsForTool
<1> QED
  BY <1>9, <1>10, <1>11, <1>12 DEF CreateToolInvocation, DieAfterToolApply

\* The ToolInvocation is observed, or settled without being executed.
LEMMA ObserveStepConsistent ==
  ASSUME TypeOK, StateInvariant, NEW r \in Reconcilers,
         ObserveTool(r) \/ RefuseReplay(r) \/ DenyTool(r) \/ RefuseTool(r)
  PROVE  StateInvariant'
<1> DEFINE n == Awaited(data)
<1>1. RunConsistent /\ ToolsConsistent /\ CallsConsistent
  BY DEF StateInvariant
<1>2. phase = "WaitingForTool" /\ Observe /\ Continue(r)
  BY DEF ObserveTool, RefuseReplay, DenyTool, RefuseTool, StartTurn, ToolTurn
<1>3. n \in Iterations
  BY <1>1, <1>2, WaitingForToolKnows
<1>4. \/ UNCHANGED tool /\ tool[n].phase \in ToolTerminalPhases
      \/ \E p \in ToolTerminalPhases : ToolBecomes(n, p)
  BY DEF ObserveTool, RefuseReplay, DenyTool, RefuseTool, ToolTerminalPhases
<1>5. ToolsGrow /\ ToolsConsistent' /\ tool'[n].phase \in ToolTerminalPhases /\ tool'[n].observed
  <2>1. CASE UNCHANGED tool /\ tool[n].phase \in ToolTerminalPhases
    BY <1>1, <1>3, <2>1, ToolsUnchanged DEF ToolsConsistent
  <2>2. ASSUME NEW p \in ToolTerminalPhases, ToolBecomes(n, p)
        PROVE  ToolsGrow /\ ToolsConsistent' /\ tool'[n].phase \in ToolTerminalPhases /\ tool'[n].observed
    <3>1. p \in ToolPhases \ {"Absent"}
      BY DEF ToolPhases, ToolTerminalPhases
    <3> QED
      BY <1>1, <1>3, <2>2, <3>1, ToolBecomesGrows, ToolBecomesFields
  <2> QED
    BY <1>4, <2>1, <2>2
<1>6. CallsConsistent'
  BY <1>1, <1>2, <1>5, CallsKept
<1>7. RunConsistent'
  BY <1>1, <1>2, <1>5, ObserveConsistent
<1> QED
  BY <1>5, <1>6, <1>7 DEF StateInvariant

\* The names of the ToolInvocation's phases that are not settled.
LEMMA OpenPhases ==
  /\ {"Pending", "Authorized", "WaitingForApproval", "Running"} \subseteq ToolPhases \ {"Absent"}
  /\ ToolTerminalPhases \subseteq ToolPhases \ {"Absent"}
  /\ \A i, p : Startable(i, p) => p \in ToolPhases \ (ToolTerminalPhases \cup {"Absent", "Running"})
  /\ {"Succeeded", "Failed", "TimedOut", "Denied", "Cancelled"} \subseteq ToolTerminalPhases
  BY DEF ToolPhases, ToolTerminalPhases, Startable

LEMMA ParkToolConsistent ==
  ASSUME TypeOK, StateInvariant, NEW r \in Reconcilers, ParkTool(r)
  PROVE  StateInvariant'
<1> DEFINE n == Awaited(data)
<1>1. data \in Data /\ RunConsistent /\ ToolsConsistent /\ CallsConsistent
  BY DEF TypeOK, StateInvariant
<1>2. /\ phase = "WaitingForTool" /\ phase' = phase /\ data' = [data EXCEPT !.pending = Tool(n)]
      /\ ToolBecomes(n, "WaitingForApproval") /\ Leave(r)
  BY DEF ParkTool, StartTurn, ToolTurn
<1>4. ToolsGrow /\ ToolsConsistent'
  BY <1>1, <1>2, OpenPhases, ToolBecomesGrows
<1>5. RunStays
  BY <1>1, <1>2 DEF RunStays, Data
<1>6. RunConsistent'
  BY <1>1, <1>4, <1>5, RunKept
<1>7. CallsConsistent'
  BY <1>1, <1>2, <1>4, CallsKept
<1> QED
  BY <1>4, <1>6, <1>7 DEF StateInvariant

LEMMA StartToolConsistent ==
  ASSUME TypeOK, StateInvariant, NEW r \in Reconcilers, StartTool(r)
  PROVE  StateInvariant'
<1> DEFINE n == Awaited(data)
<1>1. data \in Data /\ RunConsistent /\ ToolsConsistent /\ CallsConsistent
  BY DEF TypeOK, StateInvariant
<1>2. /\ phase = "WaitingForTool" /\ UNCHANGED <<phase, data>> /\ ToolBecomes(n, "Running")
      /\ Await(r, "tool", [NoSnap EXCEPT !.data = data, !.n = n])
  BY DEF StartTool, StartTurn, ToolTurn
<1>3. /\ data.state = "WaitingForTool" /\ data.epoch = 1 /\ data.frame.n # 0
      /\ n \in Iterations /\ n # 0 /\ data.activeTool = n /\ (data.frame.tool => data.frame.n = n)
      /\ tool[n].phase # "Absent"
  BY <1>1, <1>2, WaitingForToolKnows
<1>4. ToolsGrow /\ ToolsConsistent'
  BY <1>1, <1>2, OpenPhases, ToolBecomesGrows
<1>5. RunConsistent'
  BY <1>1, <1>2, <1>4, RunKept DEF RunStays
<1>6. CallsConsistent'
  <2>1. pc'[r] = "tool" /\ snap'[r].data = data /\ snap'[r].n = n
    BY <1>2 DEF Await, NoSnap, TypeOK
  <2>2. SnapFits(r)'
    BY <1>3, <1>4, <2>1 DEF SnapFits, ToolsGrow, Awaited
  <2>3. \A q \in Reconcilers \ {r} : pc'[q] = pc[q] /\ snap'[q] = snap[q]
    BY <1>2 DEF Await, TypeOK
  <2> QED
    BY <1>1, <1>4, <2>1, <2>2, <2>3, SnapKept DEF CallsConsistent
<1> QED
  BY <1>4, <1>5, <1>6 DEF StateInvariant

LEMMA DeliverObservationConsistent ==
  ASSUME TypeOK, StateInvariant, NEW r \in Reconcilers, DeliverObservation(r)
  PROVE  StateInvariant'
<1>1. data \in Data /\ RunConsistent /\ ToolsConsistent /\ CallsConsistent
  BY DEF TypeOK, StateInvariant
<1>2. UNCHANGED tool /\ (Continue(r) \/ Leave(r))
  BY DEF DeliverObservation
<1>3. ToolsGrow /\ ToolsConsistent' /\ CallsConsistent'
  BY <1>1, <1>2, ToolsUnchanged, CallsKept
<1>4. data.state = "WaitingForObservation" /\ data.epoch = 1
  BY <1>1, RunSound DEF DeliverObservation, ResumablePhases
<1>5. data.frame # NoFrame
  BY <1>1, <1>4 DEF RunConsistent, PersistedStateConsistent, FrameFits, NoFrame
<1>6. Sound(data)
  BY <1>1, RunSound
<1>7. CASE Enter("AwaitingDecision", [data EXCEPT !.frame.state = "observation-delivered"])
  <2> DEFINE e == [data EXCEPT !.frame.state = "observation-delivered"]
  <2>1. e \in Data /\ Sound(e) /\ e.frame.n = data.frame.n /\ e.frame # NoFrame
    BY <1>1, <1>5, <1>6, FrameStateSound DEF FrameStates
  <2>2. /\ e.epoch = 1 /\ e.activeTool = data.activeTool
        /\ e.frame.state = "observation-delivered"
    BY <1>1, <1>4, FrameStateFields
  <2> HIDE DEF e
  <2>4. /\ phase' = "AwaitingDecision" /\ data'.state = "AwaitingDecision" /\ data'.epoch = 1
        /\ data'.frame = e.frame /\ data'.active = e.active /\ data'.activeTool = e.activeTool
    BY <1>7, <2>1, <2>2, EnterFields DEF e
  <2>5. Sound(data)'
    BY <1>2, <2>1, <2>2, <2>4 DEF Sound
  <2> QED
    BY <1>3, <2>1, <2>2, <2>4, <2>5, AwaitsDecision DEF StateInvariant
<1>8. CASE Fail(data)
  BY <1>1, <1>3, <1>6, <1>8, FailEnds DEF StateInvariant
<1> QED
  BY <1>7, <1>8 DEF DeliverObservation

LEMMA EngineStepConsistent ==
  ASSUME TypeOK, StateInvariant, NEW r \in Reconcilers, EngineStep(r)
  PROVE  StateInvariant'
  BY EndingStepConsistent, ModelStepConsistent, DecisionStepConsistent, CreateStepConsistent,
     ObserveStepConsistent, ParkToolConsistent, StartToolConsistent, DeliverObservationConsistent
  DEF EngineStep

-----------------------------------------------------------------------------
(* The steps that end a model call or a tool call *)

LEMMA ModelReturnsConsistent ==
  ASSUME TypeOK, StateInvariant, NEW r \in Reconcilers,
         \/ DiscardModel(r) \/ ModelTimesOut(r) \/ ModelFails(r)
         \/ \E answer \in Responses : ModelAnswers(r, answer)
  PROVE  StateInvariant'
<1>1. data \in Data /\ RunConsistent /\ ToolsConsistent /\ CallsConsistent
  BY DEF TypeOK, StateInvariant
<1>2. UNCHANGED tool /\ \E at \in {"ready", "engine"} : Return(r, at)
  BY DEF DiscardModel, ModelTimesOut, ModelFails, ModelAnswers, AfterModel
<1>3. ToolsGrow /\ ToolsConsistent' /\ CallsConsistent'
  BY <1>1, <1>2, ToolsUnchanged, CallsKept
<1>4. Sound(data)
  BY <1>1, RunSound
<1> SUFFICES RunConsistent'
  BY <1>3 DEF StateInvariant
<1>5. CASE DiscardModel(r)
  BY <1>1, <1>5, PhaseChanged DEF DiscardModel, RunConsistent, PersistedStateConsistent, PhaseFits
<1>6. CASE ModelTimesOut(r)
  BY <1>1, <1>3, <1>4, <1>6, ClearedSound, EnterEnds DEF ModelTimesOut, TerminalPhases
<1>7. CASE ModelFails(r) \/ \E answer \in Responses : ModelAnswers(r, answer)
  <2>1. /\ pc[r] = "model" /\ phase = "AwaitingDecision" /\ data.state = "AwaitingDecision"
        /\ data.active = snap[r].inv
    BY <1>7 DEF ModelFails, ModelAnswers, ModelFence
  <2>2. data.frame # NoFrame /\ data.frame.n # 0 /\ data.epoch = 1
    BY <1>1, <1>4, <2>1, RunSound
       DEF CallsConsistent, Sound, ResumablePhases
  <2>3. data.frame \in Frames
    BY <1>1, DataFieldsTyped
  <2>4. CASE ModelFails(r)
    <3> DEFINE f == [data.frame EXCEPT !.modelRetries = @ + 1]
               failed == [data EXCEPT !.frame = f, !.active = NoModel]
    <3>1. [data EXCEPT !.frame.modelRetries = @ + 1, !.active = NoModel] = failed
      BY <1>1 DEF Data
    <3>2. Enter("AwaitingDecision", failed) \/ Fail(failed)
      BY <2>4, <3>1 DEF ModelFails
    <3>3. /\ f \in Frames /\ f.n = data.frame.n /\ f.state = data.frame.state
          /\ f.raw = data.frame.raw /\ f.tool = data.frame.tool
      <4>1. f \in Frames
        BY <2>3, FramesTyped, FrameStatesNamed
      <4> QED
        BY <2>3, <4>1 DEF Frames
    <3>4. f # NoFrame
      BY <2>2, <3>3 DEF NoFrame
    <3> HIDE DEF f
    <3>5. /\ failed \in Data /\ failed.epoch = 1 /\ failed.frame = f
          /\ failed.active = NoModel /\ failed.activeTool = data.activeTool
      BY <1>1, <2>2, <3>3, NoDataTyped DEF Data
    <3> HIDE DEF failed
    <3>6. Sound(failed)
      BY <1>4, <2>2, <3>3, <3>4, <3>5 DEF Sound
    <3>7. CASE Enter("AwaitingDecision", failed)
      <4>1. /\ phase' = "AwaitingDecision" /\ data'.state = "AwaitingDecision" /\ data'.epoch = 1
            /\ data'.frame = f /\ data'.active = NoModel /\ data'.activeTool = data.activeTool
        BY <3>5, <3>7, EnterFields
      <4>2. Sound(data)'
        BY <1>2, <3>5, <3>6, <4>1 DEF Sound
      <4>3. \/ f.state \in {"decision-rejected", "observation-delivered"}
            \/ f.state \in {"prepared", "decision-requested"} /\ f.raw = "none" /\ ~f.tool
        BY <1>1, <2>1, <2>2, <3>3 DEF RunConsistent, PersistedStateConsistent, FrameFits
      <4> QED
        BY <3>4, <4>1, <4>2, <4>3, AwaitsDecision
    <3>8. CASE Fail(failed)
      BY <1>1, <1>3, <3>5, <3>6, <3>8, FailEnds
    <3> QED
      BY <3>2, <3>7, <3>8
  <2>5. ASSUME NEW answer \in Responses, ModelAnswers(r, answer)
        PROVE  RunConsistent'
    <3> DEFINE f == [data.frame EXCEPT !.raw = answer, !.state = "decision-produced"]
               d == [data EXCEPT !.frame = f, !.active = NoModel]
    <3>1. [data EXCEPT !.frame.raw = answer, !.frame.state = "decision-produced", !.active = NoModel] = d
      BY <1>1 DEF Data
    <3>2. Enter("DecisionReady", d)
      BY <2>5, <3>1 DEF ModelAnswers
    <3>3. f \in Frames /\ f.n = data.frame.n /\ f.raw = answer /\ f.tool = data.frame.tool
      <4>1. f \in Frames
        BY <2>3, FramesTyped, FrameStatesNamed
      <4> QED
        BY <2>3, <4>1 DEF Frames
    <3>4. f # NoFrame /\ answer # "none"
      BY <2>2, <3>3 DEF NoFrame, Responses
    <3> HIDE DEF f
    <3>5. /\ d \in Data /\ d.epoch = 1 /\ d.frame = f
          /\ d.active = NoModel /\ d.activeTool = data.activeTool
      BY <1>1, <2>2, <3>3, NoDataTyped DEF Data
    <3> HIDE DEF d
    <3>6. /\ phase' = "DecisionReady" /\ data'.state = "DecisionReady" /\ data'.epoch = 1
          /\ data'.frame = f /\ data'.active = NoModel /\ data'.activeTool = data.activeTool
      BY <3>2, <3>5, EnterFields
    <3>7. Sound(data)' /\ FrameFits(data)'
      BY <1>2, <1>4, <2>2, <3>3, <3>4, <3>6 DEF Sound, FrameFits
    <3> QED
      BY <3>6, <3>7, RunEnters DEF ResumablePhases
  <2> QED
    BY <1>7, <2>4, <2>5
<1> QED
  BY <1>5, <1>6, <1>7

\* What d says of the tool call that reconciler r awaits.
Calls(r, d) ==
  /\ d \in Data
  /\ d.state = "WaitingForTool"
  /\ d.epoch = 1
  /\ d.frame.n # 0
  /\ Awaited(d) = snap[r].n
  /\ d.activeTool = snap[r].n
  /\ d.frame.tool => d.frame.n = snap[r].n

\* What a reconciler remembers of its tool call.
LEMMA SnapKnown ==
  ASSUME TypeOK, StateInvariant, NEW r \in Reconcilers, pc[r] = "tool"
  PROVE  /\ Calls(r, snap[r].data)
         /\ snap[r].n \in Iterations
         /\ snap[r].n # 0
         /\ tool[snap[r].n].phase # "Absent"
<1>1. snap[r].data \in Data
  BY DEF TypeOK, Snaps
<1>2. SnapFits(r)
  BY DEF StateInvariant, CallsConsistent
<1>3. Awaited(snap[r].data) = snap[r].data.activeTool
  BY <1>2, AwaitedIsActive DEF SnapFits
<1> QED
  BY <1>1, <1>2, <1>3, SnapAwaits DEF SnapFits, Calls

\* The same holds when the failure of the call has been counted.
LEMMA FailureKnown ==
  ASSUME TypeOK, StateInvariant, NEW r \in Reconcilers, pc[r] = "tool"
  PROVE  Calls(r, CountToolFailure(snap[r].data))
<1>1. Calls(r, snap[r].data)
  BY SnapKnown
<1> QED
  BY <1>1, CountToolFailureTyped, CountToolFailureFields, AwaitedIsActive DEF Calls

LEMMA ResumeConsistent ==
  ASSUME TypeOK, StateInvariant, NEW r \in Reconcilers, pc[r] = "tool",
         NEW d, NEW t, Resume(r, d, t), Calls(r, d), ToolsGrow, ToolsConsistent',
         t \in ToolTerminalPhases => tool'[snap[r].n].phase \in ToolTerminalPhases
  PROVE  StateInvariant'
<1>1. data \in Data /\ d \in Data /\ RunConsistent /\ CallsConsistent
  BY DEF TypeOK, StateInvariant, Calls
<1>2. CallsConsistent'
  BY <1>1, CallsKept DEF Resume
<1>3. CASE UNCHANGED <<phase, data>>
  BY <1>1, <1>2, <1>3, RunKept DEF RunStays, StateInvariant
<1>4. CASE t \in ToolTerminalPhases /\ Enter("WaitingForObservation", Merged(Observed(d)))
  <2>1. Observed(d) \in Data /\ Merged(Observed(d)) \in Data
    BY <1>1, ObservedTyped, MergedTyped
  <2>2. /\ Merged(Observed(d)).epoch = 1
        /\ Merged(Observed(d)).frame.n = d.frame.n
        /\ Merged(Observed(d)).frame.state = "tool-observed"
        /\ Merged(Observed(d)).frame.tool = d.frame.tool
        /\ Merged(Observed(d)).activeTool = snap[r].n
    BY <1>1, <2>1, ObservedFields, MergedFields DEF Calls
  <2>3. /\ phase' = "WaitingForObservation" /\ data'.state = "WaitingForObservation"
        /\ data'.epoch = 1 /\ data'.frame = Merged(Observed(d)).frame
        /\ data'.activeTool = snap[r].n
    BY <1>4, <2>1, <2>2, EnterFields
  <2>4. /\ snap[r].n \in Iterations /\ snap[r].n # 0
        /\ tool'[snap[r].n].phase \in ToolTerminalPhases
    BY <1>4, SnapKnown
  <2>5. tool'[snap[r].n].observed
    BY <2>4 DEF ToolsConsistent
  <2>6. RunConsistent'
    BY <2>2, <2>3, <2>4, <2>5, RunObserves DEF Calls
  <2> QED
    BY <1>2, <2>6 DEF StateInvariant
<1> QED
  BY <1>3, <1>4 DEF Resume

\* The failure of a tool call is saved: the run still waits for that tool.
LEMMA FailureSaved ==
  ASSUME TypeOK, StateInvariant, NEW r \in Reconcilers, pc[r] = "tool",
         phase = "WaitingForTool", phase' = phase, ToolsGrow,
         data' = Merged(CountToolFailure(snap[r].data))
  PROVE  RunConsistent'
<1> DEFINE failed == CountToolFailure(snap[r].data)
<1>1. data \in Data
  BY DEF TypeOK
<1>2. Calls(r, failed)
  BY FailureKnown
<1> HIDE DEF failed
<1>3. /\ data'.state = "WaitingForTool" /\ data'.epoch = 1 /\ data'.frame = failed.frame
      /\ data'.activeTool = snap[r].n
  BY <1>1, <1>2, MergedFields DEF failed, Calls
<1>4. snap[r].n \in Iterations /\ snap[r].n # 0 /\ tool'[snap[r].n].phase # "Absent"
  BY SnapKnown DEF ToolsGrow
<1> QED
  BY <1>2, <1>3, <1>4, RunWaitsForTool DEF Calls

LEMMA ToolReturnsConsistent ==
  ASSUME TypeOK, StateInvariant, NEW r \in Reconcilers,
         \/ ToolSucceeds(r) \/ ToolFailureFenced(r) \/ ToolTimesOut(r)
         \/ \E admitted \in BOOLEAN : ToolFails(r, admitted)
  PROVE  StateInvariant'
<1> DEFINE n == snap[r].n
           failed == CountToolFailure(snap[r].data)
<1>1. ToolsConsistent /\ pc[r] = "tool"
  BY DEF StateInvariant, ToolSucceeds, ToolFailureFenced, ToolTimesOut, ToolFails, ToolErrorTurn
<1>2. n \in Iterations /\ Calls(r, snap[r].data)
  BY <1>1, SnapKnown
<1>3. Calls(r, failed)
  BY <1>1, FailureKnown
<1> HIDE DEF failed
<1>4. ASSUME NEW t \in ToolTerminalPhases, ToolBecomes(n, t)
      PROVE  ToolsGrow /\ ToolsConsistent' /\ tool'[n].phase \in ToolTerminalPhases
  <2>1. t \in ToolPhases \ {"Absent"}
    BY OpenPhases
  <2> QED
    BY <1>1, <1>2, <1>4, <2>1, ToolBecomesGrows, ToolBecomesFields
<1>5. CASE ToolSucceeds(r)
  <2>1. ToolBecomes(n, "Succeeded") /\ Resume(r, snap[r].data, "Succeeded")
    BY <1>5 DEF ToolSucceeds
  <2> QED
    BY <1>1, <1>2, <1>4, <2>1, OpenPhases, ResumeConsistent
<1>6. CASE ToolFailureFenced(r)
  <2>1. UNCHANGED tool /\ Resume(r, failed, tool[n].phase)
    BY <1>6 DEF ToolFailureFenced, failed
  <2>2. ToolsGrow /\ ToolsConsistent'
    BY <1>1, <2>1, ToolsUnchanged
  <2> QED
    BY <1>1, <1>2, <1>3, <2>1, <2>2, ResumeConsistent
<1>7. CASE ToolTimesOut(r)
  <2>1. ToolBecomes(n, "TimedOut") /\ Resume(r, failed, "TimedOut")
    BY <1>7 DEF ToolTimesOut, failed
  <2> QED
    BY <1>1, <1>3, <1>4, <2>1, OpenPhases, ResumeConsistent
<1>8. CASE \E admitted \in BOOLEAN : ToolFails(r, admitted)
  <2>1. ToolBecomes(n, "Failed") /\ Resume(r, failed, "Failed")
    BY <1>8 DEF ToolFails, failed
  <2> QED
    BY <1>1, <1>3, <1>4, <2>1, OpenPhases, ResumeConsistent
<1> QED
  BY <1>5, <1>6, <1>7, <1>8

LEMMA ToolErrorConsistent ==
  ASSUME TypeOK, StateInvariant, NEW r \in Reconcilers,
         ExhaustToolFailures(r) \/ RetryTool(r)
  PROVE  StateInvariant'
<1> DEFINE n == snap[r].n
           failed == CountToolFailure(snap[r].data)
<1>1. /\ data \in Data /\ RunConsistent /\ ToolsConsistent /\ CallsConsistent
      /\ pc[r] = "tool" /\ phase = "WaitingForTool"
  BY DEF TypeOK, StateInvariant, ExhaustToolFailures, RetryTool, ToolErrorTurn, SaveFence
<1>2. n \in Iterations /\ n # 0 /\ tool[n].phase # "Absent"
  BY <1>1, SnapKnown
<1>3. Calls(r, failed)
  BY <1>1, FailureKnown
<1>4. CASE ExhaustToolFailures(r)
  <2>1. Enter("BudgetExceeded", Merged(failed)) /\ ToolBecomes(n, "Failed") /\ Return(r, "ready")
    BY <1>4 DEF ExhaustToolFailures
  <2> HIDE DEF failed
  <2>2. ToolsGrow /\ ToolsConsistent'
    BY <1>1, <2>1, OpenPhases, ToolBecomesGrows
  <2>3. CallsConsistent'
    BY <1>1, <2>1, <2>2, CallsKept
  <2>4. /\ Merged(failed) \in Data /\ Merged(failed).epoch = 1
        /\ Merged(failed).frame = failed.frame /\ Merged(failed).activeTool = n
    BY <1>1, <1>3, MergedTyped, MergedFields DEF Calls
  <2>5. failed.frame # NoFrame
    BY <1>3 DEF NoFrame, Calls
  <2>6. Sound(Merged(failed))
    BY <1>2, <1>3, <2>4, <2>5 DEF Sound, Calls
  <2>7. RunConsistent'
    BY <1>1, <2>1, <2>2, <2>4, <2>6, EnterEnds DEF TerminalPhases
  <2> QED
    BY <2>2, <2>3, <2>7 DEF StateInvariant
<1>5. CASE RetryTool(r)
  <2>1. /\ data' = Merged(failed) /\ phase' = phase /\ ToolBecomes(n, "Running")
        /\ Await(r, "tool", [snap[r] EXCEPT !.data = failed])
    BY <1>5 DEF RetryTool
  <2>2. ToolsGrow /\ ToolsConsistent'
    BY <1>1, <2>1, OpenPhases, ToolBecomesGrows
  <2>3. RunConsistent'
    BY <1>1, <2>1, <2>2, FailureSaved
  <2> HIDE DEF failed
  <2>4. pc'[r] = "tool" /\ snap'[r].data = failed /\ snap'[r].n = n
    BY <2>1 DEF Await, TypeOK
  <2>5. SnapFits(r)'
    BY <1>2, <1>3, <2>2, <2>4 DEF SnapFits, ToolsGrow, Calls, Awaited
  <2>6. \A q \in Reconcilers \ {r} : pc'[q] = pc[q] /\ snap'[q] = snap[q]
    BY <2>1 DEF Await, TypeOK
  <2>8. CallsConsistent'
    BY <1>1, <2>2, <2>4, <2>5, <2>6, SnapKept DEF CallsConsistent
  <2> QED
    BY <2>2, <2>3, <2>8 DEF StateInvariant
<1> QED
  BY <1>4, <1>5

\* Steps that move a ToolInvocation and leave the run alone.
LEMMA ToolAloneConsistent ==
  ASSUME TypeOK, StateInvariant, NEW r \in Reconcilers, NEW i,
         NEW p \in ToolPhases \ {"Absent"},
         ToolBecomes(i, p) \/ UNCHANGED tool, UNCHANGED <<phase, data>>,
         \/ Leave(r) \/ Return(r, "ready")
         \/ \E s : \E at \in {"ready", "tools", "tic"} : Await(r, at, s)
         \/ UNCHANGED <<pc, snap>>
  PROVE  StateInvariant'
<1>1. RunConsistent /\ ToolsConsistent /\ CallsConsistent
  BY DEF StateInvariant
<1>2. ToolsGrow /\ ToolsConsistent'
  BY <1>1, ToolBecomesGrows, ToolsUnchanged
<1>3. CallsConsistent'
  BY <1>1, <1>2, CallsKept
<1>4. RunConsistent'
  BY <1>1, <1>2, RunKept DEF RunStays
<1> QED
  BY <1>2, <1>3, <1>4 DEF StateInvariant

LEMMA GoesOn ==
  ASSUME NEW r, NEW left, GoOn(r, left)
  PROVE  \E s : \E at \in {"ready", "tools", "tic"} : Await(r, at, s)
  BY DEF GoOn

LEMMA CallReturnsConsistent ==
  ASSUME TypeOK, StateInvariant, NEW r \in Reconcilers, CallReturns(r)
  PROVE  StateInvariant'
<1>1. ASSUME NEW outcome \in {"Succeeded", "Failed", "TimedOut"}, ControllerSettles(r, outcome)
      PROVE  StateInvariant'
  <2>1. outcome \in ToolPhases \ {"Absent"}
    BY OpenPhases
  <2> QED
    BY <1>1, <2>1, GoesOn, ToolAloneConsistent DEF ControllerSettles
<1> QED
  BY <1>1, ModelReturnsConsistent, ToolReturnsConsistent, ToolErrorConsistent DEF CallReturns

LEMMA ControllerStepConsistent ==
  ASSUME TypeOK, StateInvariant, NEW r \in Reconcilers, NEW i \in Iterations,
         ControllerStep(r, i)
  PROVE  StateInvariant'
<1>1. \/ \E p \in {"Failed", "Cancelled", "WaitingForApproval", "Denied", "Running"} :
           ToolBecomes(i, p)
      \/ UNCHANGED tool
  BY DEF ControllerStep, FailRunningReplay, FenceInvocation, SkipWaiting, ControllerParks,
         ControllerRefuses, ControllerStarts
<1>2. UNCHANGED <<phase, data>>
  BY DEF ControllerStep, FailRunningReplay, FenceInvocation, SkipWaiting, ControllerParks,
         ControllerRefuses, ControllerStarts
<1>3. \E s : \E at \in {"ready", "tools", "tic"} : Await(r, at, s)
  BY GoesOn DEF ControllerStep, FailRunningReplay, FenceInvocation, SkipWaiting, ControllerParks,
                ControllerRefuses, ControllerStarts
<1> QED
  BY <1>1, <1>2, <1>3, OpenPhases, ToolAloneConsistent

-----------------------------------------------------------------------------
(* Crashes, approvals, users and time *)

LEMMA CrashStepConsistent ==
  ASSUME TypeOK, StateInvariant, NEW r \in Reconcilers, CrashStep(r)
  PROVE  StateInvariant'
<1>1. data \in Data /\ RunConsistent /\ ToolsConsistent /\ CallsConsistent
  BY DEF TypeOK, StateInvariant
<1>2. CASE Crash(r)
  <2>1. UNCHANGED <<phase, data, tool>> /\ Return(r, "ready")
    BY <1>2 DEF Crash
  <2>2. ToolsGrow /\ ToolsConsistent' /\ CallsConsistent'
    BY <1>1, <2>1, ToolsUnchanged, CallsKept
  <2>3. RunConsistent'
    BY <1>1, <2>1, PhaseChanged DEF RunConsistent, PersistedStateConsistent, PhaseFits
  <2> QED
    BY <2>2, <2>3 DEF StateInvariant
<1>3. CASE \E i \in Iterations : DieAfterAuthorize(r, i)
  <2>1. PICK i \in Iterations : DieAfterAuthorize(r, i)
    BY <1>3
  <2>2. ToolBecomes(i, "Authorized") /\ Return(r, "ready") /\ UNCHANGED <<phase, data>>
    BY <2>1 DEF DieAfterAuthorize
  <2> QED
    BY <2>2, OpenPhases, ToolAloneConsistent
<1>4. ASSUME NEW p \in {"Succeeded", "Failed", "TimedOut", "Running", "Pending", "Authorized"},
             DieAfterToolCall(r, p)
      PROVE  StateInvariant'
  <2>1. /\ pc[r] = "tool" /\ phase' = phase /\ Return(r, "ready")
        /\ UNCHANGED tool \/ ToolBecomes(snap[r].n, p)
    BY <1>4 DEF DieAfterToolCall
  <2>2. p \in ToolPhases \ {"Absent"}
    BY OpenPhases
  <2>3. CASE p = "Succeeded"
    <3>1. UNCHANGED <<phase, data>> /\ ToolBecomes(snap[r].n, p)
      BY <1>4, <2>3 DEF DieAfterToolCall
    <3> QED
      BY <2>1, <2>2, <2>3, <3>1, OpenPhases, ToolAloneConsistent
  <2>4. CASE p # "Succeeded"
    <3>1. phase = "WaitingForTool" /\ data' = Merged(CountToolFailure(snap[r].data))
      BY <1>4, <2>4 DEF DieAfterToolCall, SaveFence
    <3>2. ToolsGrow /\ ToolsConsistent'
      BY <1>1, <2>1, <2>2, ToolsUnchanged, ToolBecomesGrows
    <3>3. RunConsistent'
      BY <2>1, <3>1, <3>2, FailureSaved
    <3>4. CallsConsistent'
      BY <1>1, <2>1, <3>2, CallsKept
    <3> QED
      BY <3>2, <3>3, <3>4 DEF StateInvariant
  <2> QED
    BY <2>3, <2>4
<1> QED
  BY <1>2, <1>3, <1>4, DecisionStepConsistent, ModelStepConsistent, CreateStepConsistent
  DEF CrashStep

LEMMA ApprovalStepConsistent ==
  ASSUME TypeOK, StateInvariant, ApprovalStep
  PROVE  StateInvariant'
<1>1. data \in Data /\ RunConsistent /\ ToolsConsistent /\ CallsConsistent
  BY DEF TypeOK, StateInvariant
<1>2. ASSUME NEW g \in Guarded, Approve(g) \/ RejectTerminate(g)
      PROVE  StateInvariant'
  <2>1. UNCHANGED <<tool, pc, snap>>
    BY <1>2 DEF Approve, RejectTerminate
  <2>2. ToolsGrow /\ ToolsConsistent' /\ CallsConsistent'
    <3>1. ToolsGrow /\ ToolsConsistent'
      BY <1>1, <2>1, ToolsUnchanged
    <3> QED
      BY <1>1, <2>1, <3>1 DEF CallsConsistent, SnapFits
  <2>3. /\ data'.state = data.state /\ data'.epoch = data.epoch /\ data'.frame = data.frame
        /\ data'.active = data.active /\ data'.activeTool = data.activeTool
    BY <1>1, <1>2 DEF Approve, RejectTerminate, Data
  <2>4. \/ phase' = phase \/ phase' = "Failed"
        \/ phase' = IF data.state = "none" THEN "Pending" ELSE data.state
    BY <1>2 DEF Approve, RejectTerminate
  <2>5. FrameFits(data)' /\ ToolFits(data)' /\ ActiveToolFits'
    BY <1>1, <2>1, <2>3
       DEF RunConsistent, PersistedStateConsistent, FrameFits, ToolFits, ActiveToolFits, Awaited
  <2>6. PhaseFits' /\ (phase' = "WaitingForApproval" => data'.state \in ResumablePhases)
    BY <1>1, <2>3, <2>4 DEF RunConsistent, PersistedStateConsistent, PhaseFits
  <2>7. RunConsistent'
    BY <1>1, <2>3, <2>5, <2>6 DEF RunConsistent, PersistedStateConsistent
  <2> QED
    BY <2>2, <2>7 DEF StateInvariant
<1>3. ASSUME NEW i \in Iterations, RejectContinue(i)
      PROVE  StateInvariant'
  <2> DEFINE denied == CountToolFailure(data)
  <2>1. /\ phase \notin TerminalPhases /\ data.activeTool = i
        /\ tool[i].phase = "WaitingForApproval" /\ ToolBecomes(i, "Denied")
        /\ UNCHANGED <<pc, snap>>
        /\ \/ Enter("WaitingForTool", denied)
           \/ phase' = "BudgetExceeded" /\ data' = denied
    BY <1>3 DEF RejectContinue, Terminal
  <2>2. ToolsGrow /\ ToolsConsistent' /\ tool'[i].phase # "Absent"
    BY <1>1, <2>1, OpenPhases, ToolBecomesGrows, ToolBecomesFields DEF ToolTerminalPhases
  <2>3. CallsConsistent'
    BY <1>1, <2>1, <2>2, SnapKept DEF CallsConsistent
  <2>4. i # 0
    BY BudgetsAssumption DEF Iterations
  <2>5. Sound(data) /\ data.frame # NoFrame
    BY <1>1, <2>1, <2>4, RunSound DEF Sound
  <2>6. data.epoch = 1
    BY <1>1, <2>1, <2>5
       DEF RunConsistent, PersistedStateConsistent, PhaseFits, FrameFits, Phases,
           TerminalPhases, ResumablePhases, TypeOK
  <2>7. data.frame.n # 0 /\ (data.frame.tool => data.frame.n = i)
    BY <2>1, <2>5 DEF Sound
  <2>8. /\ denied \in Data /\ denied.state = data.state /\ denied.epoch = 1
        /\ denied.frame.n = data.frame.n /\ denied.frame.tool = data.frame.tool
        /\ denied.frame.state = data.frame.state /\ denied.frame.raw = data.frame.raw
        /\ denied.frame.decision = data.frame.decision
        /\ denied.active = data.active /\ denied.activeTool = i
    BY <1>1, <2>1, <2>6, CountToolFailureTyped, CountToolFailureFields
  <2> HIDE DEF denied
  <2>9. CASE Enter("WaitingForTool", denied)
    <3>1. /\ phase' = "WaitingForTool" /\ data'.state = "WaitingForTool"
          /\ data'.epoch = 1 /\ data'.frame = denied.frame /\ data'.activeTool = i
      BY <2>8, <2>9, EnterFields
    <3>2. RunConsistent'
      BY <2>2, <2>4, <2>7, <2>8, <3>1, RunWaitsForTool
    <3> QED
      BY <2>2, <2>3, <3>2 DEF StateInvariant
  <2>10. CASE phase' = "BudgetExceeded" /\ data' = denied
    <3>1. denied.frame # NoFrame
      BY <2>7, <2>8 DEF NoFrame
    <3>2. Sound(data)' /\ Awaited(data)' = i /\ Awaited(data) = i
      BY <1>1, <2>1, <2>2, <2>5, <2>7, <2>8, <2>10, <3>1, RunSound DEF Sound, Awaited
    <3>3. ActiveToolFits'
      BY <3>2, SoundTools
    <3>4. FrameFits(data)'
      BY <1>1, <2>4, <2>5, <2>7, <2>8, <2>10, <3>1, <3>2
         DEF FrameFits, RunConsistent, PersistedStateConsistent
    <3>5. ToolFits(data)'
      BY <1>1, <2>2, <2>8, <2>10, <3>2
         DEF ToolFits, ToolsGrow, RunConsistent, PersistedStateConsistent
    <3>6. RunConsistent'
      BY <1>1, <2>6, <2>8, <2>10, <3>1, <3>3, <3>4, <3>5
         DEF RunConsistent, PersistedStateConsistent, PhaseFits
    <3> QED
      BY <2>2, <2>3, <3>6 DEF StateInvariant
  <2> QED
    BY <2>1, <2>9, <2>10
<1> QED
  BY <1>2, <1>3 DEF ApprovalStep

LEMMA StateKept ==
  ASSUME TypeOK, StateInvariant, [Next]_vars
  PROVE  StateInvariant'
<1>1. RunConsistent /\ ToolsConsistent /\ CallsConsistent
  BY DEF StateInvariant
<1>2. CASE \/ \E r \in Reconcilers : Schedule(r)
           \/ RequestCancel \/ ChangeContext \/ PassWallTime \/ PassDeadline
           \/ UNCHANGED vars
  <2>1. /\ data' = data /\ tool' = tool /\ pc' = pc /\ snap' = snap
        /\ phase' = phase \/ (phase = "Pending" /\ phase' = "Scheduled")
    <3>1. CASE \E r \in Reconcilers : Schedule(r)
      BY <3>1 DEF Schedule
    <3>2. CASE RequestCancel \/ ChangeContext
      BY <3>2 DEF RequestCancel, ChangeContext
    <3>3. CASE PassWallTime \/ PassDeadline
      BY <3>3 DEF PassWallTime, PassDeadline
    <3>4. CASE UNCHANGED vars
      BY <3>4 DEF vars
    <3> QED
      BY <1>2, <3>1, <3>2, <3>3, <3>4
  <2>2. PhaseFits' /\ (phase' = "WaitingForApproval" => data'.state \in ResumablePhases)
    BY <1>1, <2>1 DEF RunConsistent, PersistedStateConsistent, PhaseFits
  <2>3. RunConsistent'
    BY <1>1, <2>1, <2>2, PhaseChanged
  <2> QED
    BY <1>1, <2>1, <2>3 DEF StateInvariant, ToolsConsistent, CallsConsistent, SnapFits
<1>3. ASSUME NEW r \in Reconcilers, ListInvocations(r)
      PROVE  StateInvariant'
  <2>1. UNCHANGED <<phase, data, tool>> /\ \E s : Await(r, "tools", s)
    BY <1>3 DEF ListInvocations
  <2> QED
    BY <2>1, OpenPhases, ToolAloneConsistent
<1> QED
  BY <1>2, <1>3, EngineStepConsistent, CallReturnsConsistent, ControllerStepConsistent,
     CrashStepConsistent, ApprovalStepConsistent DEF Next

LEMMA StateHoldsInitially == Init => StateInvariant
<1> SUFFICES ASSUME Init
             PROVE  StateInvariant
  OBVIOUS
<1>1. /\ data.state = "none" /\ data.epoch = 0 /\ data.frame = NoFrame /\ data.active = NoModel
      /\ data.activeTool = 0 /\ phase = "Pending" /\ NoFrame.n = 0 /\ ~NoFrame.tool
  BY DEF Init, NoData, NoFrame
<1>2. RunConsistent
  BY <1>1 DEF RunConsistent, PersistedStateConsistent, PhaseFits, FrameFits, ToolFits,
              ActiveToolFits, Awaited, ResumablePhases
<1>3. ToolsConsistent /\ CallsConsistent
  BY DEF Init, ToolsConsistent, CallsConsistent, ToolTerminalPhases
<1> QED
  BY <1>2, <1>3 DEF StateInvariant

-----------------------------------------------------------------------------
(* The theorems *)

\* The types and the consistency of the persisted state are one induction: only
\* a consistent run has an iteration whenever it waits for a tool.
THEOREM ConsistentTyped == Spec => [](TypeOK /\ StateInvariant)
<1>1. Init => TypeOK /\ StateInvariant
  BY TypesHoldInitially, StateHoldsInitially
<1>2. TypeOK /\ StateInvariant /\ [Next]_vars => (TypeOK /\ StateInvariant)'
  BY TypesKept, StateKept
<1> QED
  BY <1>1, <1>2, PTL DEF Spec

\* Every variable keeps its type, for any reconcilers, policies and budgets.
THEOREM TypeCorrect == Spec => []TypeOK
  BY ConsistentTyped, PTL

\* However reconcilers overlap, are late with their writes or crash, the phase,
\* executionState, frame and ToolInvocation of the run agree, so that no phase
\* handler meets a state its internal-error exits are for.
THEOREM StateConsistent == Spec => []PersistedStateConsistent
<1>1. StateInvariant => PersistedStateConsistent
  BY DEF StateInvariant, RunConsistent
<1> QED
  BY <1>1, ConsistentTyped, PTL
=============================================================================
