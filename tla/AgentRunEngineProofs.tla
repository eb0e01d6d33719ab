------------------------ MODULE AgentRunEngineProofs ------------------------
(***************************************************************************)
(* What AgentRunEngine guarantees beyond the consistency of its state, for *)
(* any number of reconcilers, any policies and any budgets.                *)
(***************************************************************************)
EXTENDS AgentRunEngineConsistency

-----------------------------------------------------------------------------
(* The end of the run *)

LEMMA EndedIsLeftAlone ==
  ASSUME NEW r, Terminal, EngineStep(r)
  PROVE  UNCHANGED <<phase, issued, executions, deliveries, outdated>>
<1>1. phase \notin ResumablePhases /\ ~Cancellable
  BY DEF Terminal, Cancellable, TerminalPhases, ResumablePhases
<1>2. ~EngineTurn(r)
  BY <1>1 DEF EngineTurn
<1>3. EndPass(r)
  BY <1>1, <1>2
     DEF EngineStep, CancelRun, TimeOutRun, StartEngine, PrepareExecution, ExhaustIterations,
         ExhaustModelCalls, AwaitModelApproval, DenyModel, ExpireInFlight, RequestDecision,
         AcceptDecision, RejectDecision, CreateToolInvocation, BeginFinalizing, FailByDecision,
         ObserveTool, RefuseReplay, ParkTool, DenyTool, RefuseTool, StartTool, DeliverObservation,
         CompleteExecution, AwaitWriteApproval, FailFinalization, FailPass, Terminal,
         ModelTurn, DecisionTurn, DecisionIs, StartTurn, ToolTurn, FinalTurn, TerminalPhases
<1> QED
  BY <1>3 DEF EndPass, history

LEMMA EndedCallsReturn ==
  ASSUME NEW r, Terminal, CallReturns(r)
  PROVE  UNCHANGED <<phase, issued, executions, deliveries, outdated>>
<1>1. phase \notin {"AwaitingDecision", "WaitingForTool"}
  BY DEF Terminal, TerminalPhases
<1>2. ~ModelFence(r) /\ \A d : ~SaveFence(d)
  BY <1>1 DEF ModelFence, SaveFence
<1>3. \/ DiscardModel(r) \/ ToolSucceeds(r) \/ ToolFailureFenced(r)
      \/ \E outcome \in {"Succeeded", "Failed", "TimedOut"} : ControllerSettles(r, outcome)
  BY <1>2 DEF CallReturns, ModelAnswers, ModelTimesOut, ModelFails, ToolTimesOut,
              ExhaustToolFailures, RetryTool, ToolFails, ToolErrorTurn
<1> QED
  BY <1>3 DEF DiscardModel, ToolSucceeds, ToolFailureFenced, ControllerSettles, Resume, history

LEMMA EndedControllers ==
  ASSUME NEW r, Terminal, ListInvocations(r) \/ \E i : ControllerStep(r, i)
  PROVE  UNCHANGED <<phase, issued, executions, deliveries, outdated>>
  BY DEF ListInvocations, ControllerStep, FailRunningReplay, FenceInvocation, SkipWaiting,
         ControllerParks, ControllerRefuses, ControllerStarts, ControllerTurn, ParentFenced, history

LEMMA EndedCrashes ==
  ASSUME NEW r, Terminal, CrashStep(r)
  PROVE  UNCHANGED <<phase, issued, executions, deliveries, outdated>>
<1>1. ~EngineTurn(r)
  BY DEF EngineTurn, Terminal, TerminalPhases, ResumablePhases
<1>2. \/ Crash(r)
      \/ \E p \in {"Succeeded", "Failed", "TimedOut", "Running", "Pending", "Authorized"} :
           DieAfterToolCall(r, p)
  BY <1>1 DEF CrashStep, DieAfterStart, DieAfterFrame, DieAfterToolApply, DieAfterAuthorize,
              DecisionTurn, DecisionIs, ControllerTurn, ParentFenced, StartTurn, ToolTurn
<1> QED
  BY <1>2 DEF Crash, DieAfterToolCall, history

LEMMA EndedStep ==
  ASSUME Terminal, [Next]_vars
  PROVE  /\ UNCHANGED <<issued, executions, deliveries, outdated>>
         /\ phase' # phase => ApprovalStep
<1>1. ASSUME NEW r \in Reconcilers, Schedule(r)
      PROVE  FALSE
  BY <1>1 DEF Schedule, Terminal, TerminalPhases
<1>2. CASE ApprovalStep
  BY <1>2 DEF ApprovalStep, Approve, RejectTerminate, RejectContinue, history
<1>3. CASE RequestCancel \/ ChangeContext
  BY <1>3 DEF RequestCancel, ChangeContext, history
<1>4. CASE PassWallTime \/ PassDeadline
  BY <1>4 DEF PassWallTime, PassDeadline, history
<1>5. CASE UNCHANGED vars
  BY <1>5 DEF vars
<1> QED
  BY <1>1, <1>2, <1>3, <1>4, <1>5, EndedIsLeftAlone, EndedCallsReturn, EndedControllers, EndedCrashes
  DEF Next

\* Whatever a late reconciler still does, after the end of the run no model call
\* is issued, no tool started and no Observation delivered.
THEOREM NothingBeginsAfterEndHolds == Spec => NothingBeginsAfterEnd
<1>1. [Next]_vars => [Terminal => UNCHANGED history]_vars
  BY EndedStep DEF history
<1> QED
  BY <1>1, PTL DEF Spec, NothingBeginsAfterEnd

\* No step but a decision on an approval replaces a terminal phase: neither a
\* late completion nor another reconciler's pass.
THEOREM EndIsFinalHolds == Spec => EndIsFinal
<1>1. [Next]_vars => [Terminal /\ phase' # phase => ApprovalStep]_vars
  BY EndedStep
<1> QED
  BY <1>1, PTL DEF Spec, EndIsFinal

-----------------------------------------------------------------------------
(* Budgets *)

\* Operators that leave the counters of the budgets alone.
LEMMA UncountedWithinBudgets ==
  ASSUME NEW d \in Data, WithinBudgets(d)
  PROVE  /\ \A p : WithinBudgets([d EXCEPT !.state = p])
         /\ WithinBudgets([d EXCEPT !.active = NoModel])
         /\ \A g : WithinBudgets([d EXCEPT !.pending = g])
         /\ \A s : WithinBudgets([d EXCEPT !.frame.state = s])
         /\ WithinBudgets(Observed(d))
         /\ WithinBudgets(CountToolFailure(d))
<1>1. d.frame \in Frames /\ d.usage \in Usages
  BY DataFieldsTyped
<1>2. /\ \A p : WithinBudgets([d EXCEPT !.state = p])
      /\ WithinBudgets([d EXCEPT !.active = NoModel])
      /\ \A g : WithinBudgets([d EXCEPT !.pending = g])
  BY DEF WithinBudgets, Data
<1>3. ASSUME NEW s
      PROVE  WithinBudgets([d EXCEPT !.frame.state = s])
  BY <1>1 DEF WithinBudgets, Data, Frames
<1>4. WithinBudgets(Observed(d))
  BY <1>1 DEF Observed, WithinBudgets, Data, Frames
<1>5. WithinBudgets(CountToolFailure(d))
  <2> DEFINE u == [d.usage EXCEPT !.toolFailures = @ + 1]
             f == [d.frame EXCEPT !.toolRetries = @ + 1]
  <2>1. CountToolFailure(d) = [d EXCEPT !.usage = u, !.frame = f]
    BY DEF CountToolFailure, Data
  <2>2. /\ f.n = d.frame.n /\ u.iterations = d.usage.iterations
        /\ u.model = d.usage.model /\ u.tool = d.usage.tool
    BY <1>1 DEF Frames, Usages
  <2> HIDE DEF u, f
  <2>3. CountToolFailure(d).usage = u /\ CountToolFailure(d).frame = f
    BY <2>1 DEF Data
  <2> QED
    BY <2>2, <2>3 DEF WithinBudgets
<1> QED
  BY <1>2, <1>3, <1>4, <1>5

LEMMA MergedWithinBudgets ==
  ASSUME data \in Data, NEW d \in Data, WithinBudgets(d)
  PROVE  WithinBudgets(Merged(d))
<1> DEFINE a == IF d.active = NoModel THEN data.active ELSE d.active
           g == IF d.pending = NoAction THEN data.pending ELSE d.pending
<1>1. Merged(d) = [d EXCEPT !.active = a, !.pending = g]
  BY DEF Merged, Data
<1> HIDE DEF a, g
<1> QED
  BY <1>1 DEF WithinBudgets, Data

LEMMA OpenedWithinBudgets ==
  ASSUME data \in Data, WithinBudgets(data), IterationLeft
  PROVE  WithinBudgets(Opened)
<1>1. CASE NeedsFrame(data.frame)
  <2> DEFINE u == [data.usage EXCEPT !.iterations = @ + 1]
             f == [NoFrame EXCEPT !.n = data.usage.iterations + 1, !.state = "prepared"]
  <2>1. Opened = [data EXCEPT !.usage = u, !.frame = f]
    BY <1>1 DEF Opened, WithNewFrame, Data
  <2>2. data.usage \in Usages /\ data.usage.iterations < MaxIterations
    BY <1>1, DataFieldsTyped DEF IterationLeft
  <2>3. /\ u.iterations = data.usage.iterations + 1 /\ u.model = data.usage.model
        /\ u.tool = data.usage.tool /\ f.n = data.usage.iterations + 1
    BY <2>2 DEF Usages, NoFrame
  <2>4. data.usage.iterations + 1 <= MaxIterations
    BY <2>2, BudgetsAssumption DEF Usages
  <2> HIDE DEF u, f
  <2>5. Opened.usage = u /\ Opened.frame = f
    BY <2>1 DEF Data
  <2> QED
    BY <2>3, <2>4, <2>5 DEF WithinBudgets
<1>2. CASE ~NeedsFrame(data.frame)
  BY <1>2 DEF Opened
<1> QED
  BY <1>1, <1>2

LEMMA EnterWithinBudgets ==
  ASSUME NEW d \in Data, WithinBudgets(d), NEW p, Enter(p, d) \/ Fail(d)
  PROVE  WithinBudgets(data)'
<1>1. [d EXCEPT !.active = NoModel] \in Data
  BY FieldsTyped, NoDataTyped
<1>2. WithinBudgets([d EXCEPT !.state = p])
  BY UncountedWithinBudgets
<1>3. WithinBudgets([d EXCEPT !.active = NoModel])
  BY UncountedWithinBudgets
<1>4. WithinBudgets([[d EXCEPT !.active = NoModel] EXCEPT !.state = "Failed"])
  BY <1>1, <1>3, UncountedWithinBudgets
<1> QED
  BY <1>2, <1>4 DEF Enter, Fail, WithinBudgets

\* What reconcilers remember of their calls is left alone, or forgotten.
LEMMA CallsWithinBudgets ==
  ASSUME TypeOK, BudgetsInvariant, NEW r \in Reconcilers,
         \/ Continue(r) \/ Leave(r)
         \/ (\E at \in {"ready", "engine"} : Return(r, at))
         \/ (\E at \in {"ready", "tools", "tic", "model"} : \E s : Await(r, at, s))
         \/ UNCHANGED <<pc, snap>>
  PROVE  \A q \in Reconcilers : pc'[q] = "tool" => WithinBudgets(snap'[q].data)
  BY DEF BudgetsInvariant, TypeOK, Continue, Leave, Return, Await

LEMMA EngineStepWithinBudgets ==
  ASSUME TypeOK, BudgetsInvariant, NEW r \in Reconcilers, EngineStep(r)
  PROVE  BudgetsInvariant'
<1>1. data \in Data /\ WithinBudgets(data)
  BY DEF TypeOK, BudgetsInvariant
<1>2. CASE StartTool(r)
  <2>1. data' = data /\ Await(r, "tool", [NoSnap EXCEPT !.data = data, !.n = Awaited(data)])
    BY <1>2 DEF StartTool
  <2>2. \A q \in Reconcilers : pc'[q] = "tool" => WithinBudgets(snap'[q].data)
    BY <1>1, <2>1 DEF Await, NoSnap, TypeOK, BudgetsInvariant
  <2> QED
    BY <1>1, <2>1, <2>2 DEF BudgetsInvariant, WithinBudgets
<1>3. CASE ~StartTool(r)
  <2>1. \/ Continue(r) \/ Leave(r) \/ \E s : Await(r, "model", s)
    BY <1>3 DEF EngineStep, CancelRun, TimeOutRun, StartEngine, PrepareExecution,
         ExhaustIterations, ExhaustModelCalls, AwaitModelApproval, DenyModel, ExpireInFlight,
         RequestDecision, AcceptDecision, RejectDecision, CreateToolInvocation, BeginFinalizing,
         FailByDecision, ObserveTool, RefuseReplay, ParkTool, DenyTool, RefuseTool,
         DeliverObservation, CompleteExecution, AwaitWriteApproval, FailFinalization, EndPass,
         FailPass, Pause
  <2>2. \A q \in Reconcilers : pc'[q] = "tool" => WithinBudgets(snap'[q].data)
    BY <2>1, CallsWithinBudgets
  <2> SUFFICES WithinBudgets(data)'
    BY <2>2 DEF BudgetsInvariant
  <2>3. CASE CancelRun(r) \/ TimeOutRun(r) \/ ExpireInFlight(r)
    <3>1. [data EXCEPT !.active = NoModel] \in Data /\ WithinBudgets([data EXCEPT !.active = NoModel])
      BY <1>1, FieldsTyped, NoDataTyped, UncountedWithinBudgets
    <3> QED
      BY <1>1, <2>3, <3>1, EnterWithinBudgets DEF CancelRun, TimeOutRun, ExpireInFlight
  <2>4. CASE StartEngine(r)
    <3>1. Started \in Data
      BY <1>1, StartedTyped
    <3>2. WithinBudgets(Started)
      BY <1>1 DEF Started, WithinBudgets, Data
    <3>3. \A g : WithinBudgets([Started EXCEPT !.pending = g])
      BY <3>1, <3>2, UncountedWithinBudgets
    <3> QED
      BY <2>4, <3>1, <3>2, <3>3, EnterWithinBudgets DEF StartEngine, Pause, WithinBudgets
  <2>5. CASE ExhaustModelCalls(r) \/ AwaitModelApproval(r) \/ DenyModel(r) \/ RequestDecision(r)
    <3>1. IterationLeft /\ (RequestDecision(r) => ModelCallLeft)
      BY <2>5 DEF ExhaustModelCalls, AwaitModelApproval, DenyModel, RequestDecision, ModelTurn
    <3>2. Opened \in Data /\ WithinBudgets(Opened) /\ Opened.usage.model = data.usage.model
      <4>1. Opened.usage.model = data.usage.model
        BY <1>1, DataFieldsTyped DEF Opened, WithNewFrame, Data, Usages
      <4> QED
        BY <1>1, <3>1, <4>1, OpenedTyped, OpenedWithinBudgets
    <3>3. CASE ExhaustModelCalls(r) \/ DenyModel(r)
      BY <3>2, <3>3, EnterWithinBudgets DEF ExhaustModelCalls, DenyModel
    <3>4. CASE AwaitModelApproval(r)
      <4>1. WithinBudgets([Opened EXCEPT !.pending = Model])
        BY <3>2, UncountedWithinBudgets
      <4> QED
        BY <3>4, <4>1 DEF AwaitModelApproval, Pause, WithinBudgets
    <3>5. CASE RequestDecision(r)
      <4> DEFINE id == InvocationId(Opened)
                 f == [Opened.frame EXCEPT !.attempts = @ + 1, !.state = "decision-requested"]
                 u == [Opened.usage EXCEPT !.model = @ + 1]
      <4>1. data' = [Opened EXCEPT !.frame = f, !.usage = u, !.active = id]
        BY <3>2, <3>5 DEF RequestDecision, Data
      <4>2. Opened.frame \in Frames /\ Opened.usage \in Usages
        BY <3>2, DataFieldsTyped
      <4>3. /\ f.n = Opened.frame.n /\ u.iterations = Opened.usage.iterations
            /\ u.tool = Opened.usage.tool /\ u.model = Opened.usage.model + 1
        BY <4>2 DEF Frames, Usages
      <4>4. Opened.usage.model + 1 <= MaxModelInvocations
        <5>1. data.usage.model \in Nat /\ data.usage.model < MaxModelInvocations
          BY <1>1, <3>1, <3>5, DataFieldsTyped DEF ModelCallLeft, Usages
        <5> QED
          BY <3>2, <5>1, BudgetsAssumption
      <4> HIDE DEF id, f, u
      <4>5. data'.usage = u /\ data'.frame = f
        BY <3>2, <4>1 DEF Data
      <4> QED
        BY <3>2, <4>3, <4>4, <4>5 DEF WithinBudgets
    <3> QED
      BY <2>5, <3>3, <3>4, <3>5
  <2>6. CASE AcceptDecision(r) \/ RejectDecision(r)
    <3>1. data.frame \in Frames /\ data.usage \in Usages
      BY <1>1, DataFieldsTyped
    <3>2. CASE AcceptDecision(r)
      <4> DEFINE f == [data.frame EXCEPT !.decision = data.frame.raw, !.state = "decision-validated"]
      <4>1. data' = [data EXCEPT !.frame = f, !.state = "ProcessingDecision"]
        BY <1>1, <3>2 DEF AcceptDecision, Enter, Data
      <4>2. f.n = data.frame.n
        BY <3>1 DEF Frames
      <4> HIDE DEF f
      <4> QED
        BY <1>1, <4>1, <4>2 DEF WithinBudgets, Data
    <3>3. CASE RejectDecision(r)
      <4> DEFINE f == [data.frame EXCEPT !.state = "decision-rejected"]
                 u == [data.usage EXCEPT !.decisionFailures = @ + 1]
      <4>1. \E p : data' = [data EXCEPT !.usage = u, !.frame = f, !.state = p]
        BY <1>1, <3>3 DEF RejectDecision, Enter, Data
      <4>2. /\ f.n = data.frame.n /\ u.iterations = data.usage.iterations
            /\ u.tool = data.usage.tool /\ u.model = data.usage.model
        BY <3>1 DEF Frames, Usages
      <4> HIDE DEF f, u
      <4> QED
        BY <1>1, <4>1, <4>2 DEF WithinBudgets, Data
    <3> QED
      BY <2>6, <3>2, <3>3
  <2>7. CASE CreateToolInvocation(r)
    <3> DEFINE counted == tool[data.frame.n].phase = "Absent"
    <3>1. \/ \E p : Enter(p, data)
          \/ ToolCallLeft /\ Enter("WaitingForTool", ToolRecorded(counted))
      BY <2>7 DEF CreateToolInvocation
    <3>2. ToolRecorded(counted) \in Data
      BY <1>1, ToolRecordedTyped
    <3>3. ToolCallLeft => WithinBudgets(ToolRecorded(counted))
      <4> DEFINE u == [data.usage EXCEPT !.tool = IF counted THEN @ + 1 ELSE @]
                 f == [data.frame EXCEPT !.tool = TRUE, !.state = "waiting-for-tool"]
      <4>1. ToolRecorded(counted) = [data EXCEPT !.usage = u, !.frame = f, !.activeTool = data.frame.n]
        BY <1>1 DEF ToolRecorded, Data
      <4>2. data.frame \in Frames /\ data.usage \in Usages
        BY <1>1, DataFieldsTyped
      <4>3. /\ f.n = data.frame.n /\ u.iterations = data.usage.iterations
            /\ u.model = data.usage.model /\ u.tool \in {data.usage.tool, data.usage.tool + 1}
        BY <4>2 DEF Frames, Usages
      <4>4. data.usage.tool \in Nat
        BY <4>2 DEF Usages
      <4>5. ToolCallLeft => u.tool <= MaxToolInvocations
        BY <4>3, <4>4, BudgetsAssumption DEF ToolCallLeft
      <4> HIDE DEF u, f, counted
      <4>6. ToolRecorded(counted).usage = u /\ ToolRecorded(counted).frame = f
        BY <1>1, <4>1 DEF Data
      <4> QED
        BY <1>1, <4>3, <4>5, <4>6 DEF WithinBudgets
    <3> HIDE DEF counted
    <3> QED
      BY <1>1, <3>1, <3>2, <3>3, EnterWithinBudgets
  <2>8. CASE BeginFinalizing(r) \/ DeliverObservation(r) \/ CompleteExecution(r)
    <3>1. \A s \in FrameStates : LET e == [data EXCEPT !.frame.state = s]
                               IN  e \in Data /\ WithinBudgets(e)
      BY <1>1, FrameStateTyped, UncountedWithinBudgets
    <3>2. \/ \E s \in FrameStates : \E p : Enter(p, [data EXCEPT !.frame.state = s])
          \/ Fail(data)
      BY <2>8 DEF BeginFinalizing, DeliverObservation, CompleteExecution, FrameStates
    <3> QED
      BY <1>1, <3>1, <3>2, EnterWithinBudgets
  <2>9. CASE ObserveTool(r) \/ RefuseReplay(r) \/ DenyTool(r) \/ RefuseTool(r)
    <3>1. Enter("WaitingForObservation", Observed(data))
      BY <2>9 DEF ObserveTool, RefuseReplay, DenyTool, RefuseTool, Observe
    <3> QED
      BY <1>1, <3>1, ObservedTyped, UncountedWithinBudgets, EnterWithinBudgets
  <2>10. CASE ParkTool(r) \/ AwaitWriteApproval(r)
    <3>1. \E g : data' = [data EXCEPT !.pending = g]
      BY <2>10 DEF ParkTool, AwaitWriteApproval, Pause
    <3> QED
      BY <1>1, <3>1, UncountedWithinBudgets DEF WithinBudgets
  <2>11. CASE PrepareExecution(r) \/ ExhaustIterations(r) \/ FailByDecision(r)
                \/ \E outputsComplete \in BOOLEAN : FailFinalization(r, outputsComplete)
    BY <1>1, <2>11, EnterWithinBudgets
       DEF PrepareExecution, ExhaustIterations, FailByDecision, FailFinalization
  <2>12. CASE EndPass(r) \/ FailPass(r)
    BY <1>1, <2>12 DEF EndPass, FailPass, WithinBudgets
  <2> QED
    BY <1>3, <2>3, <2>4, <2>5, <2>6, <2>7, <2>8, <2>9, <2>10, <2>11, <2>12 DEF EngineStep
<1> QED
  BY <1>2, <1>3

LEMMA CallReturnsWithinBudgets ==
  ASSUME TypeOK, BudgetsInvariant, NEW r \in Reconcilers, CallReturns(r)
  PROVE  BudgetsInvariant'
<1>1. data \in Data /\ WithinBudgets(data)
  BY DEF TypeOK, BudgetsInvariant
<1>2. snap[r].data \in Data
  BY DEF TypeOK, Snaps
<1> DEFINE failed == CountToolFailure(snap[r].data)
<1>3. pc[r] = "tool" =>
        /\ WithinBudgets(snap[r].data) /\ WithinBudgets(Merged(Observed(snap[r].data)))
        /\ failed \in Data /\ WithinBudgets(failed) /\ WithinBudgets(Merged(failed))
        /\ WithinBudgets(Merged(Observed(failed)))
  <2> SUFFICES ASSUME pc[r] = "tool"
               PROVE  /\ WithinBudgets(snap[r].data)
                      /\ WithinBudgets(Merged(Observed(snap[r].data)))
                      /\ failed \in Data /\ WithinBudgets(failed)
                      /\ WithinBudgets(Merged(failed))
                      /\ WithinBudgets(Merged(Observed(failed)))
    OBVIOUS
  <2>1. WithinBudgets(snap[r].data)
    BY DEF BudgetsInvariant
  <2>2. failed \in Data /\ WithinBudgets(failed)
    BY <1>2, <2>1, CountToolFailureTyped, UncountedWithinBudgets
  <2> HIDE DEF failed
  <2> QED
    BY <1>1, <1>2, <2>1, <2>2, ObservedTyped, UncountedWithinBudgets, MergedWithinBudgets
<1>4. CASE RetryTool(r)
  <2>1. /\ pc[r] = "tool" /\ data' = Merged(failed)
        /\ Await(r, "tool", [snap[r] EXCEPT !.data = failed])
    BY <1>4 DEF RetryTool, ToolErrorTurn
  <2> HIDE DEF failed
  <2>2. \A q \in Reconcilers : pc'[q] = "tool" => WithinBudgets(snap'[q].data)
    BY <1>3, <2>1 DEF Await, TypeOK, BudgetsInvariant
  <2> QED
    BY <1>3, <2>1, <2>2 DEF BudgetsInvariant, WithinBudgets
<1>5. CASE ~RetryTool(r)
  <2>1. \/ \E at \in {"ready", "engine"} : Return(r, at)
        \/ \E at \in {"ready", "tools"} : \E s : Await(r, at, s)
    BY <1>5 DEF CallReturns, DiscardModel, ModelAnswers, ModelTimesOut, ModelFails, ToolSucceeds,
                ToolFailureFenced, ToolTimesOut, ExhaustToolFailures, ToolFails,
                ControllerSettles, AfterModel, Resume, GoOn
  <2>2. \A q \in Reconcilers : pc'[q] = "tool" => WithinBudgets(snap'[q].data)
    BY <2>1, CallsWithinBudgets
  <2> SUFFICES WithinBudgets(data)'
    BY <2>2 DEF BudgetsInvariant
  <2>3. CASE DiscardModel(r) \/ \E outcome \in {"Succeeded", "Failed", "TimedOut"} : ControllerSettles(r, outcome)
    BY <1>1, <2>3 DEF DiscardModel, ControllerSettles, WithinBudgets
  <2>4. CASE ModelTimesOut(r)
    <3>1. [data EXCEPT !.active = NoModel] \in Data /\ WithinBudgets([data EXCEPT !.active = NoModel])
      BY <1>1, FieldsTyped, NoDataTyped, UncountedWithinBudgets
    <3> QED
      BY <2>4, <3>1, EnterWithinBudgets DEF ModelTimesOut
  <2>5. CASE ModelFails(r) \/ \E answer \in Responses : ModelAnswers(r, answer)
    <3>1. \E f : /\ f.n = data.frame.n
                 /\ \E p : data' = [data EXCEPT !.frame = f, !.active = NoModel, !.state = p]
      <4>1. data.frame \in Frames
        BY <1>1, DataFieldsTyped
      <4>2. CASE ModelFails(r)
        <5> DEFINE f == [data.frame EXCEPT !.modelRetries = @ + 1]
        <5>1. \E p : data' = [data EXCEPT !.frame = f, !.active = NoModel, !.state = p]
          BY <1>1, <4>2 DEF ModelFails, Enter, Fail, Data
        <5>2. f.n = data.frame.n
          BY <4>1 DEF Frames
        <5> QED
          BY <5>1, <5>2
      <4>3. ASSUME NEW answer \in Responses, ModelAnswers(r, answer)
            PROVE  \E f : /\ f.n = data.frame.n
                          /\ \E p : data' = [data EXCEPT !.frame = f, !.active = NoModel, !.state = p]
        <5> DEFINE f == [data.frame EXCEPT !.raw = answer, !.state = "decision-produced"]
        <5>1. \E p : data' = [data EXCEPT !.frame = f, !.active = NoModel, !.state = p]
          BY <1>1, <4>3 DEF ModelAnswers, Enter, Data
        <5>2. f.n = data.frame.n
          BY <4>1 DEF Frames
        <5> QED
          BY <5>1, <5>2
      <4> QED
        BY <2>5, <4>2, <4>3
    <3> QED
      BY <1>1, <3>1 DEF WithinBudgets, Data
  <2>6. CASE ToolSucceeds(r) \/ ToolFailureFenced(r) \/ ToolTimesOut(r)
               \/ \E admitted \in BOOLEAN : ToolFails(r, admitted)
    <3>1. pc[r] = "tool" /\ \E t : Resume(r, snap[r].data, t) \/ Resume(r, failed, t)
      BY <2>6 DEF ToolSucceeds, ToolFailureFenced, ToolTimesOut, ToolFails, ToolErrorTurn
    <3>2. /\ Merged(Observed(snap[r].data)) \in Data
          /\ Merged(Observed(failed)) \in Data
      BY <1>1, <1>2, <1>3, <3>1, ObservedTyped, MergedTyped
    <3> HIDE DEF failed
    <3>3. \/ data' = data
          \/ Enter("WaitingForObservation", Merged(Observed(snap[r].data)))
          \/ Enter("WaitingForObservation", Merged(Observed(failed)))
      BY <3>1 DEF Resume
    <3> QED
      BY <1>1, <1>3, <3>1, <3>2, <3>3, EnterWithinBudgets DEF WithinBudgets
  <2>7. CASE ExhaustToolFailures(r)
    <3>1. pc[r] = "tool" /\ Enter("BudgetExceeded", Merged(failed))
      BY <2>7 DEF ExhaustToolFailures, ToolErrorTurn
    <3> HIDE DEF failed
    <3>2. Merged(failed) \in Data
      BY <1>1, <1>3, <3>1, MergedTyped
    <3> QED
      BY <1>3, <3>1, <3>2, EnterWithinBudgets
  <2> QED
    BY <1>5, <2>3, <2>4, <2>5, <2>6, <2>7 DEF CallReturns
<1> QED
  BY <1>4, <1>5

LEMMA CrashStepWithinBudgets ==
  ASSUME TypeOK, BudgetsInvariant, NEW r \in Reconcilers, CrashStep(r)
  PROVE  BudgetsInvariant'
<1>1. data \in Data /\ WithinBudgets(data) /\ snap[r].data \in Data
  BY DEF TypeOK, Snaps, BudgetsInvariant
<1>2. \A q \in Reconcilers : pc'[q] = "tool" => WithinBudgets(snap'[q].data)
  <2>1. Leave(r) \/ Return(r, "ready")
    BY DEF CrashStep, Crash, DieAfterStart, DieAfterFrame, DieAfterToolApply, DieAfterAuthorize,
           DieAfterToolCall
  <2> QED
    BY <2>1, CallsWithinBudgets
<1> SUFFICES WithinBudgets(data)'
  BY <1>2 DEF BudgetsInvariant
<1>3. CASE UNCHANGED data
  BY <1>1, <1>3 DEF WithinBudgets
<1>4. CASE DieAfterStart(r)
  <2>1. Started \in Data
    BY <1>1, StartedTyped
  <2>2. WithinBudgets(Started)
    BY <1>1 DEF Started, WithinBudgets, Data
  <2> QED
    BY <1>4, <2>1, <2>2, EnterWithinBudgets DEF DieAfterStart
<1>5. CASE DieAfterFrame(r)
  <2>1. WithinBudgets(Opened)
    BY <1>1, <1>5, OpenedWithinBudgets DEF DieAfterFrame
  <2> QED
    BY <1>5, <2>1 DEF DieAfterFrame, WithinBudgets
<1>6. CASE pc[r] = "tool" /\ data' = Merged(CountToolFailure(snap[r].data))
  <2> DEFINE failed == CountToolFailure(snap[r].data)
  <2>1. failed \in Data /\ WithinBudgets(failed)
    BY <1>1, <1>6, CountToolFailureTyped, UncountedWithinBudgets DEF BudgetsInvariant
  <2> HIDE DEF failed
  <2>2. WithinBudgets(Merged(failed))
    BY <1>1, <2>1, MergedWithinBudgets
  <2> QED
    BY <1>6, <2>2 DEF WithinBudgets, failed
<1> QED
  BY <1>3, <1>4, <1>5, <1>6
  DEF CrashStep, Crash, DieAfterToolApply, DieAfterAuthorize, DieAfterToolCall

LEMMA ApprovalStepWithinBudgets ==
  ASSUME TypeOK, BudgetsInvariant, ApprovalStep
  PROVE  BudgetsInvariant'
<1>1. data \in Data /\ WithinBudgets(data)
  BY DEF TypeOK, BudgetsInvariant
<1>2. UNCHANGED <<pc, snap>>
  BY DEF ApprovalStep, Approve, RejectTerminate, RejectContinue
<1> SUFFICES WithinBudgets(data)'
  BY <1>2 DEF BudgetsInvariant
<1>3. CountToolFailure(data) \in Data /\ WithinBudgets(CountToolFailure(data))
  BY <1>1, CountToolFailureTyped, UncountedWithinBudgets
<1>4. WithinBudgets([data EXCEPT !.pending = NoAction])
  BY <1>1, UncountedWithinBudgets
<1>5. \/ data' = data \/ data' = [data EXCEPT !.pending = NoAction]
      \/ data' = CountToolFailure(data) \/ Enter("WaitingForTool", CountToolFailure(data))
  BY DEF ApprovalStep, Approve, RejectTerminate, RejectContinue
<1> QED
  BY <1>1, <1>3, <1>4, <1>5, EnterWithinBudgets DEF WithinBudgets

LEMMA BudgetsKept ==
  ASSUME TypeOK, BudgetsInvariant, [Next]_vars
  PROVE  BudgetsInvariant'
<1>1. ASSUME NEW r \in Reconcilers,
             \/ Schedule(r) \/ ListInvocations(r)
             \/ \E i \in Iterations : ControllerStep(r, i)
      PROVE  BudgetsInvariant'
  <2>1. /\ data' = data
        /\ \/ UNCHANGED <<pc, snap>>
           \/ \E at \in {"ready", "tools", "tic"} : \E s : Await(r, at, s)
    BY <1>1 DEF Schedule, ListInvocations, ControllerStep, FailRunningReplay, FenceInvocation,
                SkipWaiting, ControllerParks, ControllerRefuses, ControllerStarts, GoOn
  <2>2. \A q \in Reconcilers : pc'[q] = "tool" => WithinBudgets(snap'[q].data)
    BY <2>1, CallsWithinBudgets
  <2> QED
    BY <2>1, <2>2 DEF BudgetsInvariant, WithinBudgets
<1>2. CASE RequestCancel \/ ChangeContext
  BY <1>2 DEF RequestCancel, ChangeContext, BudgetsInvariant, WithinBudgets
<1>3. CASE PassWallTime \/ PassDeadline
  BY <1>3 DEF PassWallTime, PassDeadline, BudgetsInvariant, WithinBudgets
<1>4. CASE UNCHANGED vars
  BY <1>4 DEF vars, BudgetsInvariant, WithinBudgets
<1> QED
  BY <1>1, <1>2, <1>3, <1>4, EngineStepWithinBudgets, CallReturnsWithinBudgets,
     CrashStepWithinBudgets, ApprovalStepWithinBudgets DEF Next

\* The recorded usage never exceeds the budgets of spec.execution, although a
\* reconciler may write back, after a tool call, usage it read before the call.
THEOREM BudgetsRespectedAlways == Spec => []BudgetsRespected
<1>1. Init => BudgetsInvariant
  BY BudgetsAssumption DEF Init, BudgetsInvariant, WithinBudgets, NoData, NoUsage, NoFrame
<1>2. TypeOK /\ BudgetsInvariant /\ [Next]_vars => BudgetsInvariant'
  BY BudgetsKept
<1>3. BudgetsInvariant => BudgetsRespected
  BY DEF BudgetsInvariant, BudgetsRespected
<1> QED
  BY <1>1, <1>2, <1>3, TypeCorrect, PTL DEF Spec

-----------------------------------------------------------------------------
(* Policy and approvals *)

\* What is allowed stays allowed: policies do not change and a decision on an
\* approval is final.
AllowedStays == \A g \in Guarded : Verdict(g) = "Allow" => Verdict(g)' = "Allow"

LEMMA AllowedStaysAllowed ==
  ASSUME TypeOK, policy' = policy,
         \/ approvals' = approvals
         \/ \E g \in Guarded : \E bound \in BOOLEAN : Ask(g, bound)
         \/ \E g \in Guarded : \E decision \in {"Approved", "Rejected"} : Decide(g, decision)
  PROVE  AllowedStays
<1> SUFFICES ASSUME NEW h \in Guarded, Verdict(h) = "Allow"
             PROVE  Verdict(h)' = "Allow"
  BY DEF AllowedStays
<1>1. policy[h] = "RequireApproval" => approvals[h].phase = "Approved"
  BY DEF Verdict
<1>2. approvals[h].phase = "Approved" => approvals'[h].phase = "Approved"
  <2>1. CASE approvals' = approvals
    BY <2>1
  <2>2. ASSUME NEW g \in Guarded, NEW bound \in BOOLEAN, Ask(g, bound)
        PROVE  approvals[h].phase = "Approved" => approvals'[h].phase = "Approved"
    BY <2>2 DEF Ask, TypeOK
  <2>3. ASSUME NEW g \in Guarded, NEW decision \in {"Approved", "Rejected"}, Decide(g, decision)
        PROVE  approvals[h].phase = "Approved" => approvals'[h].phase = "Approved"
    BY <2>3 DEF Decide, TypeOK
  <2> QED
    BY <2>1, <2>2, <2>3
<1> QED
  BY <1>1, <1>2 DEF Verdict

\* A step that has no effect on the outside keeps the invariant.
LEMMA NoEffect ==
  ASSUME TypeOK, EffectsInvariant, AllowedStays,
         issued' = issued, executions' = executions,
         phase' = "Succeeded" => phase = "Succeeded" \/ data.state = "Succeeded",
         data'.state = "Succeeded" => data.state = "Succeeded"
  PROVE  EffectsInvariant'
  BY GuardedNamed DEF EffectsInvariant, AllowedStays

\* The start of a tool's runtime is an effect that was allowed.
LEMMA ExecutesAllowed ==
  ASSUME TypeOK, EffectsInvariant, UNCHANGED <<policy, approvals>>, issued' = issued,
         NEW i, Executes(i), Verdict(Tool(i)) = "Allow", phase' = phase,
         data'.state = data.state
  PROVE  EffectsInvariant'
<1>1. \A g : Verdict(g)' = Verdict(g)
  BY DEF Verdict
<1>2. ASSUME NEW j \in Iterations, executions'[j] > 0
      PROVE  Verdict(Tool(j)) = "Allow"
  <2>1. CASE j = i
    BY <2>1
  <2>2. CASE j # i
    <3>1. executions'[j] = executions[j]
      BY <2>2 DEF Executes, TypeOK
    <3> QED
      BY <1>2, <3>1 DEF EffectsInvariant
  <2> QED
    BY <2>1, <2>2
<1> QED
  BY <1>1, <1>2 DEF EffectsInvariant

\* The run enters another phase than Succeeded.
LEMMA EnterNoEffect ==
  ASSUME NEW d \in Data, NEW p, p # "Succeeded", Enter(p, d) \/ Fail(d)
  PROVE  phase' # "Succeeded" /\ data'.state # "Succeeded"
  BY EnterFields, FailFields

LEMMA PauseNoEffect ==
  ASSUME NEW d \in Data, NEW r, NEW g \in Guarded, Pause(r, g, d)
  PROVE  /\ phase' # "Succeeded" /\ data'.state = d.state
         /\ \E h \in Guarded : \E bound \in BOOLEAN : Ask(h, bound)
<1>1. Ask(g, TRUE)
  BY DEF Pause
<1> QED
  BY <1>1, PauseFields

\* A step of the engine other than the model call, the start of the tool and the
\* success of the run.
LEMMA EngineStepNoEffect ==
  ASSUME TypeOK, StateInvariant, EffectsInvariant, NEW r \in Reconcilers, EngineStep(r),
         ~RequestDecision(r), ~StartTool(r), ~CompleteExecution(r)
  PROVE  EffectsInvariant'
<1>1. data \in Data
  BY DEF TypeOK
<1>2. policy' = policy /\ issued' = issued /\ executions' = executions
  BY DEF EngineStep, CancelRun, TimeOutRun, StartEngine, PrepareExecution, ExhaustIterations,
         ExhaustModelCalls, AwaitModelApproval, DenyModel, ExpireInFlight, AcceptDecision,
         RejectDecision, CreateToolInvocation, BeginFinalizing, FailByDecision, ObserveTool,
         RefuseReplay, ParkTool, DenyTool, RefuseTool, DeliverObservation, AwaitWriteApproval,
         FailFinalization, EndPass, FailPass, env, history
<1>3. ASSUME approvals' = approvals, phase' # "Succeeded" /\ data'.state # "Succeeded"
      PROVE  EffectsInvariant'
  BY <1>2, <1>3, AllowedStaysAllowed, NoEffect
<1>4. ASSUME NEW d \in Data, d.state # "Succeeded", NEW g \in Guarded, Pause(r, g, d)
      PROVE  EffectsInvariant'
  BY <1>2, <1>4, PauseNoEffect, AllowedStaysAllowed, NoEffect
<1>5. [data EXCEPT !.active = NoModel] \in Data
  BY <1>1, FieldsTyped, NoDataTyped
<1>6. CASE \/ CancelRun(r) \/ TimeOutRun(r) \/ PrepareExecution(r) \/ ExhaustIterations(r)
           \/ ExpireInFlight(r) \/ FailByDecision(r)
           \/ \E outputsComplete \in BOOLEAN : FailFinalization(r, outputsComplete)
  BY <1>1, <1>3, <1>5, <1>6, EnterNoEffect
     DEF CancelRun, TimeOutRun, PrepareExecution, ExhaustIterations, ExpireInFlight,
         FailByDecision, FailFinalization
<1>7. CASE StartEngine(r)
  <2>1. Started \in Data /\ Started.state # "Succeeded"
    BY <1>1, StartedTyped, StartedFields
  <2>2. CASE approvals' = approvals /\ (Enter("Starting", Started) \/ Fail(Started))
    BY <1>3, <2>1, <2>2, EnterNoEffect
  <2>3. CASE \E k \in 1..DeclaredTools : Pause(r, Use(k), Started)
    BY <1>4, <2>1, <2>3, GuardedNamed
  <2> QED
    BY <1>7, <2>2, <2>3 DEF StartEngine
<1>8. CASE ExhaustModelCalls(r) \/ AwaitModelApproval(r) \/ DenyModel(r)
  <2>1. IterationLeft /\ phase = "AwaitingDecision"
    BY <1>8 DEF ExhaustModelCalls, AwaitModelApproval, DenyModel, ModelTurn, DecisionTurn
  <2>2. Opened \in Data /\ Opened.state # "Succeeded"
    BY <2>1, OpenedConsistent DEF StateInvariant
  <2>3. CASE AwaitModelApproval(r)
    BY <1>4, <2>2, <2>3, GuardedNamed DEF AwaitModelApproval
  <2>4. CASE ExhaustModelCalls(r) \/ DenyModel(r)
    BY <1>3, <2>2, <2>4, EnterNoEffect DEF ExhaustModelCalls, DenyModel
  <2> QED
    BY <1>8, <2>3, <2>4
<1>9. CASE AcceptDecision(r) \/ RejectDecision(r)
  <2>1. /\ approvals' = approvals
        /\ \E p \in {"ProcessingDecision", "AwaitingDecision", "Failed"} :
             phase' = p /\ data'.state = p
    BY <1>1, <1>9 DEF AcceptDecision, RejectDecision, Enter, Data
  <2> QED
    BY <1>3, <2>1
<1>10. CASE CreateToolInvocation(r)
  <2> DEFINE e == ToolRecorded(tool[data.frame.n].phase = "Absent")
  <2>1. e \in Data
    BY <1>1, ToolRecordedTyped
  <2>2. /\ approvals' = approvals
        /\ \/ Enter("WaitingForTool", data) \/ Enter("BudgetExceeded", data)
           \/ Enter("WaitingForTool", e)
    BY <1>10 DEF CreateToolInvocation
  <2> HIDE DEF e
  <2> QED
    BY <1>1, <1>3, <2>1, <2>2, EnterNoEffect
<1>11. CASE BeginFinalizing(r) \/ DeliverObservation(r)
  <2>1. \A s \in FrameStates : [data EXCEPT !.frame.state = s] \in Data
    BY <1>1, FrameStateTyped
  <2>2. CASE BeginFinalizing(r)
    <3> DEFINE d == [data EXCEPT !.frame.state = "finalizing"]
    <3>1. d \in Data
      BY <2>1 DEF FrameStates
    <3>2. approvals' = approvals /\ Enter("Finalizing", d)
      BY <2>2 DEF BeginFinalizing
    <3> HIDE DEF d
    <3> QED
      BY <1>3, <3>1, <3>2, EnterNoEffect
  <2>3. CASE DeliverObservation(r)
    <3> DEFINE d == [data EXCEPT !.frame.state = "observation-delivered"]
    <3>1. d \in Data
      BY <2>1 DEF FrameStates
    <3>2. approvals' = approvals /\ (Enter("AwaitingDecision", d) \/ Fail(data))
      BY <2>3 DEF DeliverObservation
    <3> HIDE DEF d
    <3> QED
      BY <1>1, <1>3, <3>1, <3>2, EnterNoEffect
  <2> QED
    BY <1>11, <2>2, <2>3
<1>12. CASE ObserveTool(r) \/ RefuseReplay(r) \/ DenyTool(r) \/ RefuseTool(r)
  <2>1. approvals' = approvals /\ Enter("WaitingForObservation", Observed(data))
    BY <1>12 DEF ObserveTool, RefuseReplay, DenyTool, RefuseTool, Observe
  <2> QED
    BY <1>1, <1>3, <2>1, ObservedTyped, EnterNoEffect
<1>13. CASE ParkTool(r)
  <2>1. /\ phase = "WaitingForTool" /\ phase' = phase /\ Ask(Tool(Awaited(data)), TRUE)
        /\ data' = [data EXCEPT !.pending = Tool(Awaited(data))]
    BY <1>13 DEF ParkTool, StartTurn, ToolTurn
  <2>2. Tool(Awaited(data)) \in Guarded
    BY <2>1, WaitingForToolKnows, GuardedNamed DEF StateInvariant
  <2>3. data'.state = data.state
    BY <1>1, <2>1 DEF Data
  <2>4. AllowedStays
    BY <1>2, <2>1, <2>2, AllowedStaysAllowed
  <2> QED
    BY <1>2, <2>1, <2>3, <2>4, NoEffect
<1>14. CASE AwaitWriteApproval(r)
  <2>1. data.state # "Succeeded"
    BY <1>14, RunSound DEF AwaitWriteApproval, FinalTurn, StateInvariant, ResumablePhases
  <2> QED
    BY <1>1, <1>4, <1>14, <2>1, GuardedNamed DEF AwaitWriteApproval
<1>15. CASE EndPass(r) \/ FailPass(r)
  <2>1. approvals' = approvals /\ data' = data /\ (phase' = phase \/ phase' = "Failed")
    BY <1>15 DEF EndPass, FailPass
  <2> QED
    BY <1>2, <2>1, AllowedStaysAllowed, NoEffect
<1> QED
  BY <1>6, <1>7, <1>8, <1>9, <1>10, <1>11, <1>12, <1>13, <1>14, <1>15 DEF EngineStep

LEMMA EngineStepEffectsAllowed ==
  ASSUME TypeOK, StateInvariant, EffectsInvariant, NEW r \in Reconcilers, EngineStep(r)
  PROVE  EffectsInvariant'
<1>1. data \in Data
  BY DEF TypeOK
<1>2. CASE RequestDecision(r)
  <2>1. /\ Verdict(Model) = "Allow" /\ phase = "AwaitingDecision" /\ phase' = phase
        /\ UNCHANGED <<policy, approvals>> /\ executions' = executions /\ IterationLeft
    BY <1>2 DEF RequestDecision, ModelTurn, DecisionTurn, env
  <2>2. Opened \in Data /\ Opened.state = "AwaitingDecision"
    BY <2>1, OpenedConsistent DEF StateInvariant
  <2>3. data'.state # "Succeeded"
    BY <1>2, <2>2 DEF RequestDecision, Data
  <2>4. \A g : Verdict(g)' = Verdict(g)
    BY <2>1 DEF Verdict
  <2> QED
    BY <2>1, <2>3, <2>4 DEF EffectsInvariant
<1>3. CASE StartTool(r)
  <2>1. /\ UNCHANGED <<policy, approvals>> /\ issued' = issued /\ Executes(Awaited(data))
        /\ Verdict(Tool(Awaited(data))) = "Allow" /\ phase' = phase /\ data' = data
    BY <1>3 DEF StartTool, env
  <2> QED
    BY <2>1, ExecutesAllowed
<1>4. CASE CompleteExecution(r)
  <2>1. /\ Verdict(Write) = "Allow" /\ UNCHANGED <<policy, approvals>>
        /\ issued' = issued /\ executions' = executions
    BY <1>4 DEF CompleteExecution, env, history
  <2>2. \A g : Verdict(g)' = Verdict(g)
    BY <2>1 DEF Verdict
  <2> QED
    BY <2>1, <2>2 DEF EffectsInvariant
<1> QED
  BY <1>2, <1>3, <1>4, EngineStepNoEffect

LEMMA CallReturnsEffectsAllowed ==
  ASSUME TypeOK, StateInvariant, EffectsInvariant, NEW r \in Reconcilers, CallReturns(r)
  PROVE  EffectsInvariant'
<1>1. data \in Data /\ snap[r].data \in Data /\ CountToolFailure(snap[r].data) \in Data
  BY CountToolFailureTyped DEF TypeOK, Snaps
<1>2. CASE RetryTool(r)
  <2>1. /\ UNCHANGED <<policy, approvals>> /\ issued' = issued /\ Executes(snap[r].n)
        /\ Verdict(Tool(snap[r].n)) = "Allow" /\ phase' = phase
        /\ pc[r] = "tool" /\ data.state = snap[r].data.state
        /\ data' = Merged(CountToolFailure(snap[r].data))
    BY <1>2 DEF RetryTool, ToolErrorTurn, SaveFence, env
  <2>2. data'.state = data.state
    BY <1>1, <2>1, MergedFields, CountToolFailureFields
  <2> QED
    BY <2>1, <2>2, ExecutesAllowed
<1>3. CASE ~RetryTool(r)
  <2>1. policy' = policy /\ approvals' = approvals /\ issued' = issued /\ executions' = executions
    BY <1>3 DEF CallReturns, DiscardModel, ModelAnswers, ModelTimesOut, ModelFails, ToolSucceeds,
                ToolFailureFenced, ToolTimesOut, ExhaustToolFailures, ToolFails,
                ControllerSettles, env, history
  <2> SUFFICES \/ phase' = phase /\ data' = data
               \/ phase' # "Succeeded" /\ data'.state # "Succeeded"
    BY <2>1, AllowedStaysAllowed, NoEffect
  <2>2. CASE ModelTimesOut(r) \/ ModelFails(r) \/ \E answer \in Responses : ModelAnswers(r, answer)
    <3>1. \E p \in {"TimedOut", "AwaitingDecision", "Failed", "DecisionReady"} :
            phase' = p /\ data'.state = p
      BY <1>1, <2>2 DEF ModelTimesOut, ModelFails, ModelAnswers, Enter, Fail, Data
    <3> QED
      BY <3>1
  <2>3. CASE ToolSucceeds(r) \/ ToolFailureFenced(r) \/ ToolTimesOut(r)
               \/ \E admitted \in BOOLEAN : ToolFails(r, admitted)
    <3>1. \E d \in Data : \E t : Resume(r, d, t)
      BY <1>1, <2>3 DEF ToolSucceeds, ToolFailureFenced, ToolTimesOut, ToolFails
    <3>2. PICK d \in Data : \E t : Resume(r, d, t)
      BY <3>1
    <3>3. Merged(Observed(d)) \in Data
      BY <1>1, ObservedTyped, MergedTyped
    <3> QED
      BY <3>2, <3>3, EnterNoEffect DEF Resume
  <2>4. CASE ExhaustToolFailures(r)
    <3>1. Merged(CountToolFailure(snap[r].data)) \in Data
      BY <1>1, MergedTyped
    <3> QED
      BY <2>4, <3>1, EnterNoEffect DEF ExhaustToolFailures
  <2>5. CASE DiscardModel(r) \/ \E outcome \in {"Succeeded", "Failed", "TimedOut"} : ControllerSettles(r, outcome)
    BY <2>5 DEF DiscardModel, ControllerSettles
  <2> QED
    BY <1>3, <2>2, <2>3, <2>4, <2>5 DEF CallReturns
<1> QED
  BY <1>2, <1>3

LEMMA ControllerStepEffectsAllowed ==
  ASSUME TypeOK, EffectsInvariant, NEW r \in Reconcilers, NEW i \in Iterations, ControllerStep(r, i)
  PROVE  EffectsInvariant'
<1>1. CASE ControllerStarts(r, i)
  <2>1. /\ UNCHANGED <<policy, approvals>> /\ issued' = issued /\ Executes(i)
        /\ Verdict(Tool(i)) = "Allow" /\ phase' = phase /\ data' = data
    BY <1>1 DEF ControllerStarts, env
  <2> QED
    BY <2>1, ExecutesAllowed
<1>2. CASE ~ControllerStarts(r, i)
  <2>1. /\ policy' = policy /\ issued' = issued /\ executions' = executions
        /\ phase' = phase /\ data' = data
        /\ approvals' = approvals \/ Ask(Tool(i), FALSE)
    BY <1>2 DEF ControllerStep, FailRunningReplay, FenceInvocation, SkipWaiting,
                ControllerParks, ControllerRefuses, env, history
  <2>2. AllowedStays
    BY <2>1, GuardedNamed, AllowedStaysAllowed
  <2> QED
    BY <2>1, <2>2, NoEffect
<1> QED
  BY <1>1, <1>2

LEMMA CrashStepEffectsAllowed ==
  ASSUME TypeOK, StateInvariant, EffectsInvariant, NEW r \in Reconcilers, CrashStep(r)
  PROVE  EffectsInvariant'
<1>1. data \in Data /\ snap[r].data \in Data
  BY DEF TypeOK, Snaps
<1>2. /\ policy' = policy /\ approvals' = approvals
      /\ issued' = issued /\ executions' = executions
  BY DEF CrashStep, Crash, DieAfterStart, DieAfterFrame, DieAfterToolApply, DieAfterAuthorize,
         DieAfterToolCall, env, history
<1> SUFFICES \/ phase' = phase /\ data'.state = data.state
             \/ phase' # "Succeeded" /\ data'.state # "Succeeded"
  BY <1>2, AllowedStaysAllowed, NoEffect
<1>3. CASE DieAfterStart(r)
  BY <1>1, <1>3, StartedTyped, EnterNoEffect DEF DieAfterStart
<1>4. CASE DieAfterFrame(r)
  BY <1>1, <1>4, OpenedFields DEF DieAfterFrame
<1>5. ASSUME NEW p, DieAfterToolCall(r, p)
      PROVE  phase' = phase /\ data'.state = data.state
  <2>1. /\ phase' = phase
        /\ \/ data' = data
           \/ /\ data.state = snap[r].data.state
              /\ data' = Merged(CountToolFailure(snap[r].data))
    BY <1>5 DEF DieAfterToolCall, SaveFence
  <2> QED
    BY <1>1, <2>1, CountToolFailureTyped, MergedFields, CountToolFailureFields
<1> QED
  BY <1>3, <1>4, <1>5 DEF CrashStep, Crash, DieAfterToolApply, DieAfterAuthorize

LEMMA ApprovalStepEffectsAllowed ==
  ASSUME TypeOK, StateInvariant, EffectsInvariant, ApprovalStep
  PROVE  EffectsInvariant'
<1>1. data \in Data
  BY DEF TypeOK
<1>2. /\ policy' = policy /\ issued' = issued /\ executions' = executions
      /\ \E g \in Guarded : \E decision \in {"Approved", "Rejected"} : Decide(g, decision)
  BY GuardedNamed DEF ApprovalStep, Approve, RejectTerminate, RejectContinue, env, history
<1>3. AllowedStays
  BY <1>2, AllowedStaysAllowed
<1>4. CASE \E g \in Guarded : Approve(g) \/ RejectTerminate(g)
  <2>1. data'.state = data.state
    BY <1>1, <1>4 DEF Approve, RejectTerminate, Data
  <2>2. phase' \in {phase, "Pending", data.state, "Failed"}
    BY <1>4 DEF Approve, RejectTerminate
  <2> QED
    BY <1>2, <1>3, <2>1, <2>2, NoEffect
<1>5. CASE \E i \in Iterations : RejectContinue(i)
  <2> DEFINE denied == CountToolFailure(data)
  <2>1. denied \in Data /\ denied.state = data.state
    BY <1>1, CountToolFailureTyped, CountToolFailureFields
  <2>2. Enter("WaitingForTool", denied) \/ (phase' = "BudgetExceeded" /\ data' = denied)
    BY <1>5 DEF RejectContinue
  <2> HIDE DEF denied
  <2>3. phase' # "Succeeded" /\ (data'.state = "Succeeded" => data.state = "Succeeded")
    BY <2>1, <2>2, EnterNoEffect
  <2> QED
    BY <1>2, <1>3, <2>3, NoEffect
<1> QED
  BY <1>4, <1>5 DEF ApprovalStep

LEMMA EffectsStep ==
  ASSUME TypeOK, StateInvariant, EffectsInvariant, [Next]_vars
  PROVE  EffectsInvariant'
<1>1. CASE \/ \E r \in Reconcilers : Schedule(r) \/ ListInvocations(r)
           \/ RequestCancel \/ ChangeContext \/ PassWallTime \/ PassDeadline
           \/ UNCHANGED vars
  <2>1. /\ policy' = policy /\ approvals' = approvals /\ issued' = issued
        /\ executions' = executions /\ data' = data /\ (phase' = phase \/ phase' = "Scheduled")
    <3>1. CASE \E r \in Reconcilers : Schedule(r) \/ ListInvocations(r)
      BY <3>1 DEF Schedule, ListInvocations, env, history
    <3>2. CASE RequestCancel \/ ChangeContext
      BY <3>2 DEF RequestCancel, ChangeContext, history
    <3>3. CASE PassWallTime \/ PassDeadline
      BY <3>3 DEF PassWallTime, PassDeadline, env, history
    <3>4. CASE UNCHANGED vars
      BY <3>4 DEF vars
    <3> QED
      BY <1>1, <3>1, <3>2, <3>3, <3>4
  <2> QED
    BY <2>1, AllowedStaysAllowed, NoEffect
<1> QED
  BY <1>1, EngineStepEffectsAllowed, CallReturnsEffectsAllowed, ControllerStepEffectsAllowed,
     CrashStepEffectsAllowed, ApprovalStepEffectsAllowed DEF Next

LEMMA EffectsAlwaysAllowed == Spec => []EffectsInvariant
<1>1. Init => EffectsInvariant
  BY DEF Init, EffectsInvariant, NoData
<1>2. TypeOK /\ StateInvariant /\ EffectsInvariant /\ [Next]_vars => EffectsInvariant'
  BY EffectsStep
<1> QED
  BY <1>1, <1>2, ConsistentTyped, PTL DEF Spec

\* A model call, a tool execution (retries and replays by controllers included)
\* and the success of the run happen only if Policy allows the action or its
\* approval was granted, and no later decision contradicts that.
THEOREM EffectsApprovedAlways == Spec => []EffectsApproved
<1>1. EffectsInvariant => EffectsApproved
  <2>1. \A g : Verdict(g) = "Allow" => Permitted(g)
    BY DEF Verdict, Permitted
  <2> QED
    BY <2>1 DEF EffectsInvariant, EffectsApproved
<1> QED
  BY <1>1, EffectsAlwaysAllowed, PTL

-----------------------------------------------------------------------------
(* Executions of a ToolInvocation *)

Executing(r) == pc[r] \in {"tool", "tic"}

\* What a reconciler executes is the ToolInvocation of an iteration, and its
\* start was recorded.
ExecutionsKnown ==
  \A r \in Reconcilers : Executing(r) => snap[r].n \in Iterations /\ executions[snap[r].n] > 0

\* An invocation that was started, or that an old list made somebody authorise.
Begun(i) == i \in outdated \/ tool[i].phase \in {"Running"} \cup ToolTerminalPhases

\* What a step does that lets nobody begin an execution.
BeginsNothing(r) ==
  \/ Continue(r) \/ Leave(r)
  \/ \E at \in {"ready", "engine"} : Return(r, at)
  \/ \E at \in {"ready", "tools", "model"} : \E s : Await(r, at, s)
  \/ UNCHANGED <<pc, snap>>

LEMMA BeginsNothingKeeps ==
  ASSUME TypeOK, NEW r \in Reconcilers, BeginsNothing(r), NEW q \in Reconcilers, Executing(q)'
  PROVE  Executing(q) /\ snap'[q] = snap[q]
  BY DEF Executing, BeginsNothing, TypeOK, Continue, Leave, Return, Await

\* A step that begins no execution, if it leaves what others execute begun.
LEMMA ExecutionsKept ==
  ASSUME TypeOK, OneExecution, ExecutionsKnown, NEW r \in Reconcilers, BeginsNothing(r),
         executions' = executions, outdated \subseteq outdated',
         \A q \in Reconcilers : Executing(q)' => Begun(snap[q].n)'
  PROVE  OneExecution' /\ ExecutionsKnown'
<1>1. \A q \in Reconcilers : Executing(q)' => Executing(q) /\ snap'[q] = snap[q]
  BY BeginsNothingKeeps
<1>2. ExecutionsKnown'
  BY <1>1 DEF ExecutionsKnown
<1>3. ASSUME NEW p \in Reconcilers, Executing(p)', snap'[p].n \notin outdated'
      PROVE  /\ tool'[snap'[p].n].phase \in {"Running"} \cup ToolTerminalPhases
             /\ \A q \in Reconcilers \ {p} : Executing(q)' => snap'[q].n # snap'[p].n
  BY <1>1, <1>3 DEF OneExecution, Executing, Begun
<1> QED
  BY <1>2, <1>3 DEF OneExecution, Executing

\* Nothing begun is touched when a ToolInvocation is created.
LEMMA CreationKeepsExecutions ==
  ASSUME TypeOK, OneExecution, ExecutionsKnown, NEW r \in Reconcilers, BeginsNothing(r),
         executions' = executions, outdated' = outdated,
         \/ tool' = tool
         \/ /\ tool[data.frame.n].phase = "Absent"
            /\ tool' = [tool EXCEPT ![data.frame.n].phase = "Pending"]
  PROVE  OneExecution' /\ ExecutionsKnown'
<1>1. ASSUME NEW q \in Reconcilers, Executing(q)'
      PROVE  Begun(snap[q].n)'
  <2>1. Executing(q) /\ snap'[q] = snap[q]
    BY <1>1, BeginsNothingKeeps
  <2>2. snap[q].n \in Iterations /\ Begun(snap[q].n)
    BY <2>1 DEF ExecutionsKnown, OneExecution, Executing, Begun
  <2> QED
    BY <2>1, <2>2 DEF TypeOK, Begun, ToolTerminalPhases
<1> QED
  BY <1>1, ExecutionsKept

\* A step that moves ToolInvocation i to p and begins no execution: p is begun,
\* or an old list made somebody authorise i, or i was not begun, or nobody but r
\* executes i and r no longer does.
LEMMA MoveKeepsExecutions ==
  ASSUME TypeOK, OneExecution, ExecutionsKnown, NEW r \in Reconcilers, BeginsNothing(r),
         executions' = executions, outdated \subseteq outdated',
         NEW i, NEW p \in ToolPhases, ToolBecomes(i, p),
         \/ p \in {"Running"} \cup ToolTerminalPhases
         \/ i \in outdated'
         \/ i \in Iterations => executions[i] = 0
         \/ i \in Iterations /\ ~Begun(i)
         \/ Executing(r) /\ i = snap[r].n /\ ~Executing(r)'
  PROVE  OneExecution' /\ ExecutionsKnown'
<1>1. ASSUME NEW q \in Reconcilers, Executing(q)'
      PROVE  Begun(snap[q].n)'
  <2>1. Executing(q) /\ snap'[q] = snap[q]
    BY <1>1, BeginsNothingKeeps
  <2>2. snap[q].n \in Iterations /\ executions[snap[q].n] > 0 /\ Begun(snap[q].n)
    BY <2>1 DEF ExecutionsKnown, OneExecution, Executing, Begun
  <2>3. CASE snap[q].n \in outdated
    BY <2>1, <2>3 DEF Begun
  <2>4. CASE i # snap[q].n
    <3>1. tool'[snap[q].n] = tool[snap[q].n]
      BY <2>2, <2>4 DEF TypeOK, ToolBecomes
    <3> QED
      BY <2>1, <2>2, <3>1 DEF Begun
  <2>5. CASE i = snap[q].n /\ snap[q].n \notin outdated
    <3>1. executions[i] # 0 /\ Begun(i)
      BY <2>2, <2>5 DEF TypeOK
    <3>2. ~(Executing(r) /\ i = snap[r].n /\ ~Executing(r)')
      BY <1>1, <2>1, <2>5 DEF OneExecution, Executing
    <3>3. p \in {"Running"} \cup ToolTerminalPhases \/ i \in outdated'
      BY <2>2, <2>5, <3>1, <3>2
    <3>4. tool'[i].phase = p
      BY <2>2, <2>5, ToolBecomesFields
    <3> QED
      BY <2>1, <2>5, <3>3, <3>4 DEF Begun
  <2> QED
    BY <2>3, <2>4, <2>5
<1> QED
  BY <1>1, ExecutionsKept

\* What may be authorised is not begun: it may wait, or be authorised.
LEMMA StartableMoves ==
  ASSUME TypeOK, OneExecution, ExecutionsKnown, NEW r \in Reconcilers, BeginsNothing(r),
         executions' = executions, outdated \subseteq outdated',
         NEW i \in Iterations, NEW p \in {"WaitingForApproval", "Authorized"}, ToolBecomes(i, p),
         Startable(i, tool[i].phase) \/ i \in outdated'
  PROVE  OneExecution' /\ ExecutionsKnown'
<1>1. p \in ToolPhases
  BY OpenPhases
<1>2. i \in outdated' \/ ~Begun(i)
  BY OpenPhases DEF Begun
<1> QED
  BY <1>1, <1>2, MoveKeepsExecutions

\* A reconciler starts a ToolInvocation that nobody has started, or that was not
\* in the phase its list has.
LEMMA StartKeepsExecutions ==
  ASSUME TypeOK, OneExecution, ExecutionsKnown, NEW r \in Reconcilers,
         NEW i \in Iterations, outdated \subseteq outdated',
         Startable(i, tool[i].phase) \/ i \in outdated',
         ToolBecomes(i, "Running"), Executes(i),
         NEW at \in {"tool", "tic"}, NEW s, s.n = i, Await(r, at, s)
  PROVE  OneExecution' /\ ExecutionsKnown'
<1>1. tool'[i].phase = "Running" /\ \A j \in Iterations \ {i} : tool'[j] = tool[j]
  BY ToolBecomesFields DEF ToolPhases
<1>2. /\ executions'[i] > 0
      /\ \A j \in Iterations : executions[j] > 0 => executions'[j] > 0
  BY DEF Executes, TypeOK
<1>3. pc'[r] = at /\ snap'[r].n = i
  BY DEF Await, TypeOK
<1>4. \A q \in Reconcilers \ {r} : pc'[q] = pc[q] /\ snap'[q] = snap[q]
  BY DEF Await, TypeOK
<1>5. ASSUME NEW q \in Reconcilers \ {r}, Executing(q)
      PROVE  snap[q].n \in Iterations /\ (snap[q].n = i => i \in outdated')
  BY <1>5, OpenPhases DEF OneExecution, ExecutionsKnown, Executing
<1>6. ExecutionsKnown'
  BY <1>2, <1>3, <1>4, <1>5 DEF ExecutionsKnown, Executing
<1> QED
  BY <1>1, <1>3, <1>4, <1>5, <1>6 DEF OneExecution, Executing

LEMMA RetryKeepsExecutions ==
  ASSUME TypeOK, OneExecution, ExecutionsKnown, NEW r \in Reconcilers, RetryTool(r)
  PROVE  OneExecution' /\ ExecutionsKnown'
<1> DEFINE s == [snap[r] EXCEPT !.data = CountToolFailure(snap[r].data)]
<1>1. /\ pc[r] = "tool" /\ ToolBecomes(snap[r].n, "Running") /\ Executes(snap[r].n)
      /\ outdated' = outdated /\ Await(r, "tool", s)
  BY DEF RetryTool, ToolErrorTurn
<1>2. snap[r].n \in Iterations
  BY <1>1 DEF ExecutionsKnown, Executing
<1>3. /\ tool'[snap[r].n].phase = "Running"
      /\ \A j \in Iterations \ {snap[r].n} : tool'[j] = tool[j]
  BY <1>1, <1>2, ToolBecomesFields DEF ToolPhases
<1>4. /\ executions'[snap[r].n] > 0
      /\ \A j \in Iterations : executions[j] > 0 => executions'[j] > 0
  BY <1>1, <1>2 DEF Executes, TypeOK
<1>5. s.n = snap[r].n
  BY DEF TypeOK, Snaps
<1> HIDE DEF s
<1>6. pc'[r] = "tool" /\ snap'[r].n = snap[r].n
  BY <1>1, <1>5 DEF Await, TypeOK
<1>7. \A q \in Reconcilers \ {r} : pc'[q] = pc[q] /\ snap'[q] = snap[q]
  BY <1>1 DEF Await, TypeOK
<1>8. ExecutionsKnown'
  BY <1>2, <1>4, <1>6, <1>7 DEF ExecutionsKnown, Executing
<1> QED
  BY <1>1, <1>2, <1>3, <1>6, <1>7, <1>8 DEF OneExecution, ExecutionsKnown, Executing

LEMMA EngineStepKeepsExecutions ==
  ASSUME TypeOK, StateInvariant, OneExecution, ExecutionsKnown,
         NEW r \in Reconcilers, EngineStep(r)
  PROVE  OneExecution' /\ ExecutionsKnown'
<1>1. CASE StartTool(r)
  <2> DEFINE s == [NoSnap EXCEPT !.data = data, !.n = Awaited(data)]
  <2>1. /\ Startable(Awaited(data), tool[Awaited(data)].phase) /\ ToolBecomes(Awaited(data), "Running")
        /\ Executes(Awaited(data)) /\ outdated' = outdated /\ Await(r, "tool", s)
        /\ phase = "WaitingForTool"
    BY <1>1 DEF StartTool, StartTurn, ToolTurn
  <2>2. Awaited(data) \in Iterations
    BY <2>1, WaitingForToolKnows DEF StateInvariant
  <2>3. s.n = Awaited(data)
    BY DEF NoSnap
  <2> HIDE DEF s
  <2> QED
    BY <2>1, <2>2, <2>3, StartKeepsExecutions
<1>2. ASSUME ~StartTool(r)
      PROVE  /\ executions' = executions /\ outdated' = outdated
             /\ Continue(r) \/ Leave(r) \/ \E s : Await(r, "model", s)
  BY <1>2 DEF EngineStep, CancelRun, TimeOutRun, StartEngine, PrepareExecution,
       ExhaustIterations, ExhaustModelCalls, AwaitModelApproval, DenyModel, ExpireInFlight,
       RequestDecision, AcceptDecision, RejectDecision, CreateToolInvocation, BeginFinalizing,
       FailByDecision, ObserveTool, RefuseReplay, ParkTool, DenyTool, RefuseTool,
       DeliverObservation, CompleteExecution, AwaitWriteApproval, FailFinalization, EndPass,
       FailPass, Pause, history
<1>3. CASE CreateToolInvocation(r)
  <2>1. BeginsNothing(r) /\ executions' = executions /\ outdated' = outdated
    BY <1>3 DEF CreateToolInvocation, BeginsNothing, history
  <2>2. \/ tool' = tool
        \/ /\ tool[data.frame.n].phase = "Absent"
           /\ tool' = [tool EXCEPT ![data.frame.n].phase = "Pending"]
    BY <1>3 DEF CreateToolInvocation
  <2> QED
    BY <2>1, <2>2, CreationKeepsExecutions
<1>4. CASE RefuseReplay(r) \/ ParkTool(r) \/ DenyTool(r) \/ RefuseTool(r)
  <2>1. /\ BeginsNothing(r) /\ executions' = executions /\ outdated' = outdated
        /\ phase = "WaitingForTool"
        /\ \/ \E p \in ToolTerminalPhases : ToolBecomes(Awaited(data), p)
           \/ /\ ToolBecomes(Awaited(data), "WaitingForApproval")
              /\ Startable(Awaited(data), tool[Awaited(data)].phase)
    BY <1>4, OpenPhases
       DEF RefuseReplay, ParkTool, DenyTool, RefuseTool, StartTurn, ToolTurn, BeginsNothing, history
  <2>2. Awaited(data) \in Iterations
    BY <2>1, WaitingForToolKnows DEF StateInvariant
  <2>3. CASE \E p \in ToolTerminalPhases : ToolBecomes(Awaited(data), p)
    BY <2>1, <2>3, OpenPhases, MoveKeepsExecutions
  <2>4. CASE /\ ToolBecomes(Awaited(data), "WaitingForApproval")
             /\ Startable(Awaited(data), tool[Awaited(data)].phase)
    BY <2>1, <2>2, <2>4, StartableMoves
  <2> QED
    BY <2>1, <2>3, <2>4
<1>5. CASE ~(\/ StartTool(r) \/ CreateToolInvocation(r) \/ RefuseReplay(r) \/ ParkTool(r)
             \/ DenyTool(r) \/ RefuseTool(r))
  <2>1. tool' = tool
    BY <1>5 DEF EngineStep, CancelRun, TimeOutRun, StartEngine, PrepareExecution,
         ExhaustIterations, ExhaustModelCalls, AwaitModelApproval, DenyModel, ExpireInFlight,
         RequestDecision, AcceptDecision, RejectDecision, BeginFinalizing, FailByDecision,
         ObserveTool, DeliverObservation, CompleteExecution, AwaitWriteApproval,
         FailFinalization, EndPass, FailPass
  <2> QED
    BY <1>2, <1>5, <2>1, CreationKeepsExecutions DEF BeginsNothing
<1> QED
  BY <1>1, <1>3, <1>4, <1>5

LEMMA CallReturnsKeepsExecutions ==
  ASSUME TypeOK, OneExecution, ExecutionsKnown, NEW r \in Reconcilers, CallReturns(r)
  PROVE  OneExecution' /\ ExecutionsKnown'
<1>1. CASE RetryTool(r)
  BY <1>1, RetryKeepsExecutions
<1>2. CASE ~RetryTool(r)
  <2>1. BeginsNothing(r) /\ executions' = executions /\ outdated' = outdated
    BY <1>2 DEF CallReturns, DiscardModel, ModelAnswers, ModelTimesOut, ModelFails, ToolSucceeds,
                ToolFailureFenced, ToolTimesOut, ExhaustToolFailures, ToolFails,
                ControllerSettles, AfterModel, Resume, GoOn, BeginsNothing, history
  <2>2. tool' = tool \/ \E p \in ToolTerminalPhases : ToolBecomes(snap[r].n, p)
    BY <1>2 DEF CallReturns, DiscardModel, ModelAnswers, ModelTimesOut, ModelFails, ToolSucceeds,
                ToolFailureFenced, ToolTimesOut, ExhaustToolFailures, ToolFails,
                ControllerSettles, ToolTerminalPhases
  <2>3. CASE tool' = tool
    BY <2>1, <2>3, CreationKeepsExecutions
  <2>4. CASE \E p \in ToolTerminalPhases : ToolBecomes(snap[r].n, p)
    BY <2>1, <2>4, OpenPhases, MoveKeepsExecutions
  <2> QED
    BY <2>2, <2>3, <2>4
<1> QED
  BY <1>1, <1>2

\* What a controller may authorise is still in the phase its list has, or is
\* noted as outdated.
LEMMA ListedIsStartable ==
  ASSUME NEW r, NEW i, ControllerTurn(r, i), NoteOutdated(r, i)
  PROVE  /\ outdated \subseteq outdated'
         /\ Startable(i, tool[i].phase) \/ i \in outdated'
<1>1. Startable(i, snap[r].listed[i])
  BY DEF ControllerTurn, Visits
<1> QED
  BY <1>1 DEF NoteOutdated

LEMMA ControllerStepKeepsExecutions ==
  ASSUME TypeOK, EffectsInvariant, OneExecution, ExecutionsKnown,
         NEW r \in Reconcilers, NEW i \in Iterations, ControllerStep(r, i)
  PROVE  OneExecution' /\ ExecutionsKnown'
<1>1. CASE ControllerStarts(r, i)
  <2> DEFINE s == [NoSnap EXCEPT !.n = i, !.listed = ListAfter(r, i)]
  <2>1. /\ ControllerTurn(r, i) /\ NoteOutdated(r, i)
        /\ ToolBecomes(i, "Running") /\ Executes(i) /\ Await(r, "tic", s)
    BY <1>1 DEF ControllerStarts
  <2>2. s.n = i
    BY DEF NoSnap
  <2> HIDE DEF s
  <2> QED
    BY <2>1, <2>2, ListedIsStartable, StartKeepsExecutions
<1>2. CASE ~ControllerStarts(r, i)
  <2>1. BeginsNothing(r) /\ executions' = executions /\ outdated' = outdated
    BY <1>2 DEF ControllerStep, FailRunningReplay, FenceInvocation, SkipWaiting, ControllerParks,
                ControllerRefuses, GoOn, BeginsNothing, history
  <2>2. CASE ControllerParks(r, i)
    <3>1. executions[i] = 0
      BY <2>2 DEF ControllerParks, EffectsInvariant, TypeOK
    <3> QED
      BY <2>1, <2>2, <3>1, OpenPhases, MoveKeepsExecutions DEF ControllerParks
  <2>3. CASE ~ControllerParks(r, i)
    <3>1. tool' = tool \/ \E p \in ToolTerminalPhases : ToolBecomes(i, p)
      BY <1>2, <2>3, OpenPhases
         DEF ControllerStep, FailRunningReplay, FenceInvocation, SkipWaiting, ControllerRefuses
    <3>2. CASE tool' = tool
      BY <2>1, <3>2, CreationKeepsExecutions
    <3>3. CASE \E p \in ToolTerminalPhases : ToolBecomes(i, p)
      BY <2>1, <3>3, OpenPhases, MoveKeepsExecutions
    <3> QED
      BY <3>1, <3>2, <3>3
  <2> QED
    BY <2>2, <2>3
<1> QED
  BY <1>1, <1>2

LEMMA CrashStepKeepsExecutions ==
  ASSUME TypeOK, StateInvariant, OneExecution, ExecutionsKnown, NEW r \in Reconcilers, CrashStep(r)
  PROVE  OneExecution' /\ ExecutionsKnown'
<1>1. BeginsNothing(r) /\ executions' = executions
  BY DEF CrashStep, Crash, DieAfterStart, DieAfterFrame, DieAfterToolApply, DieAfterAuthorize,
         DieAfterToolCall, BeginsNothing, history
<1>2. CASE Crash(r) \/ DieAfterStart(r) \/ DieAfterFrame(r) \/ DieAfterToolApply(r)
  <2>1. /\ outdated' = outdated
        /\ \/ tool' = tool
           \/ /\ tool[data.frame.n].phase = "Absent"
              /\ tool' = [tool EXCEPT ![data.frame.n].phase = "Pending"]
    BY <1>2 DEF Crash, DieAfterStart, DieAfterFrame, DieAfterToolApply, history
  <2> QED
    BY <1>1, <2>1, CreationKeepsExecutions
<1>3. ASSUME NEW i \in Iterations, DieAfterAuthorize(r, i)
      PROVE  OneExecution' /\ ExecutionsKnown'
  <2>1. /\ ToolBecomes(i, "Authorized") /\ outdated \subseteq outdated'
        /\ Startable(i, tool[i].phase) \/ i \in outdated'
    BY <1>3, ListedIsStartable DEF DieAfterAuthorize, StartTurn
  <2> QED
    BY <1>1, <2>1, StartableMoves
<1>4. ASSUME NEW p \in {"Succeeded", "Failed", "TimedOut", "Running", "Pending", "Authorized"},
             DieAfterToolCall(r, p)
      PROVE  OneExecution' /\ ExecutionsKnown'
  <2>1. pc[r] = "tool" /\ Return(r, "ready") /\ outdated' = outdated
        /\ (tool' = tool \/ ToolBecomes(snap[r].n, p))
    BY <1>4 DEF DieAfterToolCall, history
  <2>2. Executing(r) /\ ~Executing(r)' /\ p \in ToolPhases
    BY <2>1, OpenPhases DEF Executing, Return, TypeOK
  <2>3. CASE tool' = tool
    BY <1>1, <2>1, <2>3, CreationKeepsExecutions
  <2>4. CASE ToolBecomes(snap[r].n, p)
    BY <1>1, <2>1, <2>2, <2>4, MoveKeepsExecutions
  <2> QED
    BY <2>1, <2>3, <2>4
<1> QED
  BY <1>2, <1>3, <1>4 DEF CrashStep

LEMMA ExecutionsStep ==
  ASSUME TypeOK, StateInvariant, EffectsInvariant, OneExecution, ExecutionsKnown, [Next]_vars
  PROVE  OneExecution' /\ ExecutionsKnown'
<1>1. CASE UNCHANGED <<tool, pc, snap, executions, outdated>>
  BY <1>1 DEF OneExecution, ExecutionsKnown, Executing
<1>2. ASSUME NEW r \in Reconcilers, ListInvocations(r)
      PROVE  OneExecution' /\ ExecutionsKnown'
  <2>1. /\ BeginsNothing(r) /\ executions' = executions /\ outdated' = outdated
        /\ tool' = tool
    BY <1>2 DEF ListInvocations, BeginsNothing, history
  <2> QED
    BY <2>1, CreationKeepsExecutions
<1>3. ASSUME NEW i \in Iterations, RejectContinue(i)
      PROVE  OneExecution' /\ ExecutionsKnown'
  <2>1. /\ ToolBecomes(i, "Denied") /\ UNCHANGED <<pc, snap>>
        /\ executions' = executions /\ outdated' = outdated
    BY <1>3 DEF RejectContinue, history
  <2>2. "Denied" \in ToolTerminalPhases /\ "Denied" \in ToolPhases
    BY OpenPhases
  <2>3. ASSUME NEW q \in Reconcilers, Executing(q), snap[q].n \notin outdated
        PROVE  tool'[snap[q].n].phase \in {"Running"} \cup ToolTerminalPhases
    BY <2>1, <2>2, <2>3, ToolBecomesFields DEF ExecutionsKnown, OneExecution, Executing
  <2> QED
    BY <2>1, <2>3 DEF OneExecution, ExecutionsKnown, Executing
<1>4. CASE ApprovalStep
  <2>1. CASE \E g \in Guarded : Approve(g) \/ RejectTerminate(g)
    BY <1>1, <2>1 DEF Approve, RejectTerminate, history
  <2> QED
    BY <1>3, <1>4, <2>1 DEF ApprovalStep
<1>5. CASE \E r \in Reconcilers : Schedule(r)
  BY <1>1, <1>5 DEF Schedule, history
<1>6. CASE RequestCancel \/ ChangeContext
  BY <1>1, <1>6 DEF RequestCancel, ChangeContext, history
<1>7. CASE PassWallTime \/ PassDeadline
  BY <1>1, <1>7 DEF PassWallTime, PassDeadline, history
<1>8. CASE UNCHANGED vars
  BY <1>1, <1>8 DEF vars
<1> QED
  BY <1>2, <1>4, <1>5, <1>6, <1>7, <1>8, EngineStepKeepsExecutions, CallReturnsKeepsExecutions,
     ControllerStepKeepsExecutions, CrashStepKeepsExecutions DEF Next

\* Two reconcilers never execute the same ToolInvocation at the same time, and a
\* ToolInvocation under execution is never startable, whoever settles it
\* meanwhile and however often its executor retries: unless a controller has
\* authorised it although it was no longer in the phase the controller's list
\* has. That is the only way.
THEOREM OneExecutionAlways == Spec => []OneExecution
<1>1. Init => OneExecution /\ ExecutionsKnown
  BY DEF Init, OneExecution, ExecutionsKnown, Executing
<1>2. TypeOK /\ StateInvariant /\ EffectsInvariant /\ OneExecution /\ ExecutionsKnown /\ [Next]_vars
        => (OneExecution /\ ExecutionsKnown)'
  BY ExecutionsStep
<1> QED
  BY <1>1, <1>2, ConsistentTyped, EffectsAlwaysAllowed, PTL DEF Spec

=============================================================================
