-------------------------- MODULE ControlLoopProofs --------------------------
(***************************************************************************)
(* Proofs about ControlLoop, for any Workspaces and any bounds.            *)
(***************************************************************************)
EXTENDS ControlLoop, TLAPS

LEMMA KindsFacts == 
  /\ Workspace = 1 /\ Mission = 2 /\ Fleet = 3 /\ Agent = 4 /\ AgentRun = 5
  /\ ToolInvocation = 6 /\ Kinds = 1..6
BY DEF Workspace, Mission, Fleet, Agent, AgentRun, ToolInvocation, Kinds

LEMMA VisitedTyped ==
  ASSUME TypeOK, NEW w \in Workspaces, Visited(w)
  PROVE  at' \in 0..10 /\ todo' \subseteq Workspaces
BY DEF TypeOK, Visited, Following

\* One step of the loop keeps the types.
LEMMA TypeOKInductive == TypeOK /\ [Next]_vars => TypeOK'
<1> SUFFICES ASSUME TypeOK, [Next]_vars PROVE TypeOK'
  OBVIOUS
<1> USE KindsFacts, BoundsAssumption
<1>1. CASE WakeUp
  BY <1>1, SMTT(30) DEF WakeUp, TypeOK, tree, history, counters
<1>2. ASSUME NEW controller, NEW kind \in {Mission, Fleet, Agent}, OwnerPass(controller, kind)
      PROVE TypeOK'
  <2>1. has' \in [Workspaces -> SUBSET Kinds]
    BY <1>2, SMTT(30) DEF OwnerPass, TypeOK
  <2>2. settled' \in [Workspaces -> SUBSET {Mission, Fleet, Agent}]
    BY <1>2, SMTT(30) DEF OwnerPass, TypeOK
  <2>3. cut' \in [Workspaces -> SUBSET {Agent, AgentRun}]
    BY <1>2, SMTT(30) DEF OwnerPass, TypeOK
  <2>4. at' \in 0..10
    BY <1>2, SMTT(30) DEF OwnerPass, TypeOK, Passed, Following
  <2> QED
    BY <1>2, <2>1, <2>2, <2>3, <2>4, SMTT(30) DEF OwnerPass, TypeOK, Passed, counters
<1>3. CASE SchedulePass
  BY <1>3, SMTT(30) DEF SchedulePass, TypeOK, Passed, Following, history, counters
<1>4. CASE ListTools \/ ListRuns
  BY <1>4, SMTT(30) DEF ListTools, ListRuns, List, TypeOK, Passed, Following, Unsettled,
     Scheduled, tree, history, counters
<1>5. ASSUME NEW w \in Workspaces,
             \/ VisitTool(w) \/ StartTool(w) \/ MissTool(w)
             \/ ToolReturns(w) \/ ToolReturnsToNothing(w)
      PROVE TypeOK'
  <2>1. CASE VisitTool(w)
    BY <2>1, VisitedTyped DEF VisitTool, TypeOK, history, counters
  <2>2. CASE StartTool(w)
    BY <2>2, SMTT(30) DEF StartTool, TypeOK, Calls, history, counters
  <2>3. CASE ToolReturns(w)
    BY <2>3, VisitedTyped DEF ToolReturns, TypeOK, history, counters
  <2>4. CASE MissTool(w) \/ ToolReturnsToNothing(w)
    BY <2>4 DEF MissTool, ToolReturnsToNothing, Dies, TypeOK, tree, history, counters
  <2> QED
    BY <1>5, <2>1, <2>2, <2>3, <2>4
<1>6. ASSUME NEW w \in Workspaces, EndRun(w) \/ CallModel(w) \/ MissRun(w)
      PROVE TypeOK'
  <2>1. CASE EndRun(w)
    BY <2>1, VisitedTyped DEF EndRun, TypeOK, history, counters
  <2>2. CASE CallModel(w)
    BY <2>2, SMTT(30) DEF CallModel, TypeOK, Calls, tree, history, counters
  <2>3. CASE MissRun(w)
    BY <2>3 DEF MissRun, Dies, TypeOK, tree, history, counters
  <2> QED
    BY <1>6, <2>1, <2>2, <2>3
<1>7. ASSUME NEW w \in Workspaces, EndAfterCall(w) \/ CallModelAgain(w) \/ MissAfterCall(w)
      PROVE TypeOK'
  <2>0. AfterCall(w) \/ tool' = ToolObserved(w) \/ tool' = tool
        => tool' \in [Workspaces -> {"Open", "Running", "Settled"}]
    BY DEF AfterCall, ToolObserved, TypeOK
  <2>1. CASE EndAfterCall(w)
    BY <2>0, <2>1, VisitedTyped DEF EndAfterCall, TypeOK, history, counters
  <2>2. CASE CallModelAgain(w)
    BY <2>0, <2>2, SMTT(30) DEF CallModelAgain, TypeOK, Calls, history, counters
  <2>3. CASE MissAfterCall(w)
    BY <2>0, <2>3 DEF MissAfterCall, Dies, TypeOK, history, counters
  <2> QED
    BY <1>7, <2>1, <2>2, <2>3
<1>8. ASSUME NEW w \in Workspaces, CallTool(w) \/ FailBeforeTool(w)
      PROVE TypeOK'
  BY <1>8, SMTT(30) DEF CallTool, FailBeforeTool,
     TypeOK, Visited, Following, Calls, NoCall, tree, history, counters
<1>9. ASSUME NEW w \in Workspaces, ApplyWorkspace(w) \/ ApplyMission(w)
      PROVE TypeOK'
  BY <1>9, SMTT(30) DEF ApplyWorkspace, ApplyMission, Apply, TypeOK, loop, history, counters
<1>10. ASSUME NEW w \in Workspaces, NEW kind \in Kinds, Delete(w, kind)
       PROVE TypeOK'
  <2>1. has' \in [Workspaces -> SUBSET Kinds]
    BY <1>10 DEF Delete, TypeOK
  <2>2. settled' \in [Workspaces -> SUBSET {Mission, Fleet, Agent}]
    BY <1>10 DEF Delete, TypeOK
  <2>3. cut' \in [Workspaces -> SUBSET {Agent, AgentRun}]
    BY <1>10 DEF Delete, TypeOK
  <2>4. exposed' \in BOOLEAN
    BY <1>10 DEF Delete
  <2>5. /\ run' \in [Workspaces -> {"Pending", "Active", "Over"}]
        /\ tool' \in [Workspaces -> {"Open", "Running", "Settled"}]
    BY <1>10 DEF Delete, TypeOK
  <2> QED
    BY <1>10, <2>1, <2>2, <2>3, <2>4, <2>5 DEF Delete, TypeOK, loop
<1>11. CASE Restart
  BY <1>11, SMTT(30) DEF Restart, StartedAgain, TypeOK, tree, history
<1>13. ASSUME NEW w \in Workspaces, RestartBeforeTool(w)
       PROVE TypeOK'
  BY <1>13, SMTT(30) DEF RestartBeforeTool, StartedAgain, TypeOK, history
<1>12. CASE UNCHANGED vars
  BY <1>12 DEF TypeOK, vars
<1> QED
  BY <1>1, <1>2, <1>3, <1>4, <1>5, <1>6, <1>7, <1>8, <1>9, <1>10, <1>11, <1>12, <1>13
  DEF Next, LoopStep, MissionPass, FleetPass, AgentPass

\* Every state is of its type.
THEOREM SpecTypeOK == Spec => []TypeOK
<1>1. Init => TypeOK
  <2> SUFFICES ASSUME Init PROVE TypeOK
    OBVIOUS
  <2>1. /\ has \in [Workspaces -> SUBSET Kinds]
        /\ settled \in [Workspaces -> SUBSET {Mission, Fleet, Agent}]
        /\ cut \in [Workspaces -> SUBSET {Agent, AgentRun}]
    BY KindsFacts DEF Init
  <2>2. /\ run \in [Workspaces -> {"Pending", "Active", "Over"}]
        /\ tool \in [Workspaces -> {"Open", "Running", "Settled"}]
    BY DEF Init
  <2>3. deletions \in 0..MaxDeletions /\ restarts \in 0..MaxRestarts /\ at \in 0..10
    BY BoundsAssumption DEF Init
  <2> QED
    BY <2>1, <2>2, <2>3 DEF Init, TypeOK
<1> QED
  BY <1>1, TypeOKInductive, PTL DEF Spec

-----------------------------------------------------------------------------
(* A cascade follows ownership without a gap. *)

\* What a deletion leaves has its owner still, or is owned by what was deleted.
LEMMA DeletionCuts ==
  ASSUME TypeOK, OrphansAreCut, NEW w \in Workspaces, NEW kind \in Kinds, Delete(w, kind)
  PROVE OrphansAreCut'
<1> SUFFICES ASSUME NEW v \in Workspaces, NEW k \in has'[v], k > 1
             PROVE k - 1 \in has'[v] \cup cut'[v]
  BY KindsFacts DEF OrphansAreCut
<1> USE KindsFacts
<1>1. /\ has' = [has EXCEPT ![w] = @ \ Removed(w, kind)]
      /\ \A u \in Workspaces : cut[u] \subseteq cut'[u]
      /\ kind \in {Agent, AgentRun} => kind \in cut'[w]
  BY DEF Delete, TypeOK
<1>2. k \in has[v] /\ k \in 1..6 /\ k - 1 \in has[v] \cup cut[v]
  BY <1>1 DEF TypeOK, OrphansAreCut
<1>3. CASE v # w
  BY <1>1, <1>2, <1>3 DEF TypeOK
<1>4. CASE v = w
  <2>1. k \notin Removed(w, kind)
    BY <1>1, <1>4 DEF TypeOK
  <2>2. SUFFICES ASSUME k - 1 \in has[w], k - 1 \in Removed(w, kind)
                 PROVE k - 1 \in cut'[w]
    BY <1>1, <1>2, <1>4 DEF TypeOK
  <2>3. CASE kind = Workspace
    BY <2>1, <2>3, <1>2, <1>4 DEF Removed
  <2>4. CASE kind \in {Mission, Fleet}
    <3>1. Removed(w, kind) = Descendants(w, kind)
      BY <2>4 DEF Removed
    <3>2. k - 1 >= kind /\ kind..(k - 1) \subseteq has[w]
      BY <2>2, <3>1 DEF Descendants
    <3>3. kind..k \subseteq has[w]
      BY <3>2, <1>2, <1>4
    <3> QED
      BY <3>1, <3>2, <3>3, <2>1, <1>2, <1>4 DEF Descendants
  <2>5. CASE kind \in {Agent, AgentRun, ToolInvocation}
    <3>1. Removed(w, kind) = {kind}
      BY <2>5 DEF Removed
    <3> QED
      BY <3>1, <2>2, <2>5, <1>1, <1>2
  <2> QED
    BY <2>3, <2>4, <2>5
<1> QED
  BY <1>3, <1>4

LEMMA OrphansInductive == TypeOK /\ OrphansAreCut /\ [Next]_vars => OrphansAreCut'
<1> SUFFICES ASSUME TypeOK, OrphansAreCut, [Next]_vars PROVE OrphansAreCut'
  OBVIOUS
<1> USE KindsFacts
<1>1. CASE UNCHANGED <<has, cut>>
  BY <1>1 DEF OrphansAreCut
<1>2. ASSUME NEW controller, NEW kind \in {Mission, Fleet, Agent}, OwnerPass(controller, kind)
      PROVE OrphansAreCut'
  BY <1>2, SMTT(30) DEF OwnerPass, Lacking, Due, OrphansAreCut, TypeOK
<1>3. ASSUME NEW w \in Workspaces, WantsTool(w), UNCHANGED cut,
             has' = [has EXCEPT ![w] = @ \cup {ToolInvocation}]
      PROVE OrphansAreCut'
  BY <1>3, SMTT(30) DEF WantsTool, Complete, OrphansAreCut, TypeOK
<1>4. ASSUME NEW w \in Workspaces, ApplyWorkspace(w) \/ ApplyMission(w)
      PROVE OrphansAreCut'
  BY <1>4, SMTT(30) DEF ApplyWorkspace, ApplyMission, Apply, OrphansAreCut, TypeOK, history
<1> QED
  BY <1>1, <1>2, <1>3, <1>4, DeletionCuts, SMTT(30)
  DEF Next, LoopStep, MissionPass, FleetPass, AgentPass, WakeUp, SchedulePass, ListTools,
      ListRuns, List, VisitTool, StartTool, MissTool, ToolReturns, ToolReturnsToNothing,
      EndRun, CallModel, MissRun, EndAfterCall, CallModelAgain, CallTool, FailBeforeTool,
      MissAfterCall, Restart, RestartBeforeTool, tree, history, vars

\* No deletion of a Workspace, Mission or Fleet, and no controller, leaves a
\* resource without its owner.
THEOREM SpecOrphansAreCut == Spec => []OrphansAreCut
<1>1. Init => OrphansAreCut
  BY KindsFacts DEF Init, OrphansAreCut
<1> QED
  BY <1>1, SpecTypeOK, OrphansInductive, PTL DEF Spec

-----------------------------------------------------------------------------
(* What a pass has listed is there when it comes to it. *)

\* The resources a visit in this pass needs.
Needed == {AgentRun} \cup (IF Cycle[at] = "tools" THEN {ToolInvocation} ELSE {})

\* An AgentRun that has unsettled work is there.
WorkHasRun == \A w \in Unsettled : AgentRun \in has[w]

\* Passes without awaits list nothing.
ListsInPasses == todo # {} => at > 0 /\ Cycle[at] \in {"tools", "runs"}

\* A call is made for something listed, and the controller's in its own pass.
CallsForListed ==
  call # NoCall => call.ws \in todo /\ (call.kind = "controller" <=> Cycle[at] = "tools")

ListedIsThere == \A w \in todo : Needed \subseteq has[w]

LoopIsSafe == alive /\ WorkHasRun /\ ListsInPasses /\ CallsForListed /\ ListedIsThere

LoopInvariant == exposed \/ LoopIsSafe

LEMMA PassKeepsLoopSafe ==
  ASSUME TypeOK, LoopIsSafe, Passed, call = NoCall, Cycle[at] \notin {"tools", "runs"},
         UNCHANGED tool,
         \A w \in Workspaces : /\ has[w] \subseteq has'[w]
                               /\ ToolInvocation \in has'[w] => ToolInvocation \in has[w]
  PROVE  LoopIsSafe'
BY DEF TypeOK, LoopIsSafe, WorkHasRun, ListsInPasses, CallsForListed, ListedIsThere, Passed,
       Unsettled, Needed

\* The visit ends, the list gets shorter, or the pass is over.
LEMMA VisitKeepsLoopSafe ==
  ASSUME TypeOK, LoopIsSafe, NEW w \in Workspaces, Visited(w), call' = NoCall, UNCHANGED alive,
         \A v \in Workspaces :
           /\ has[v] \subseteq has'[v]
           /\ v \in Unsettled' => v \in Unsettled \/ AgentRun \in has[v]
  PROVE  LoopIsSafe'
<1>1. WorkHasRun'
  BY DEF LoopIsSafe, WorkHasRun, Unsettled
<1>2. CASE todo = {w}
  BY <1>1, <1>2 DEF Visited, LoopIsSafe, ListsInPasses, CallsForListed, ListedIsThere
<1>3. CASE todo # {w}
  <2>1. at' = at /\ todo' \subseteq todo /\ Needed' = Needed
    BY <1>3 DEF Visited, Needed
  <2> QED
    BY <1>1, <2>1 DEF TypeOK, LoopIsSafe, ListsInPasses, CallsForListed, ListedIsThere
<1> QED
  BY <1>2, <1>3

\* A call begins for what the pass has come to.
LEMMA CallKeepsLoopSafe ==
  ASSUME TypeOK, LoopIsSafe, NEW w \in todo, NEW kind \in {"model", "tool", "controller"},
         kind = "controller" <=> Cycle[at] = "tools",
         call' = [kind |-> kind, ws |-> w], UNCHANGED <<at, todo, alive>>,
         \A v \in Workspaces :
           /\ has[v] \subseteq has'[v]
           /\ v \in Unsettled' => v \in Unsettled \/ AgentRun \in has[v]
  PROVE  LoopIsSafe'
<1>1. Needed' = Needed
  BY DEF Needed
<1> QED
  BY <1>1 DEF TypeOK, LoopIsSafe, WorkHasRun, ListsInPasses, CallsForListed, ListedIsThere,
              Unsettled

LEMMA DeletionKeepsLoopSafe ==
  ASSUME TypeOK, LoopIsSafe, NEW w \in Workspaces, NEW kind \in Kinds, Delete(w, kind)
  PROVE  LoopInvariant'
<1> SUFFICES ASSUME ~exposed' PROVE LoopIsSafe'
  BY DEF LoopInvariant
<1> DEFINE removed == Removed(w, kind)
<1>1. /\ has' = [has EXCEPT ![w] = @ \ removed]
      /\ ~Exposes(w, removed)
      /\ UNCHANGED <<at, todo, call, alive>>
      /\ ToolInvocation \notin removed => tool' = tool
  BY DEF Delete, loop
<1>2. Needed' = Needed
  BY <1>1 DEF Needed
<1>3. w \in todo => Needed \cap removed = {}
  BY <1>1 DEF Exposes, Needed
<1>4. ListedIsThere'
  BY <1>1, <1>2, <1>3 DEF TypeOK, LoopIsSafe, ListedIsThere
<1>5. ASSUME NEW v \in Unsettled' PROVE AgentRun \in has'[v]
  <2>1. v \in Workspaces /\ ToolInvocation \in has'[v] /\ tool'[v] # "Settled"
    BY <1>5 DEF Unsettled
  <2>2. CASE v # w
    <3>1. has'[v] = has[v]
      BY <1>1, <2>1, <2>2 DEF TypeOK
    <3>2. tool'[v] = tool[v]
      BY <2>1, <2>2 DEF Delete, TypeOK
    <3> QED
      BY <3>1, <3>2, <2>1 DEF LoopIsSafe, WorkHasRun, Unsettled
  <2>3. CASE v = w
    <3>1. ToolInvocation \in has[w] /\ ToolInvocation \notin removed
      BY <1>1, <2>1, <2>3 DEF TypeOK
    <3>2. w \in Unsettled
      BY <1>1, <2>1, <2>3, <3>1 DEF Unsettled
    <3> QED
      BY <1>1, <2>3, <3>1, <3>2 DEF TypeOK, Exposes, LoopIsSafe, WorkHasRun
  <2> QED
    BY <2>2, <2>3
<1> QED
  BY <1>1, <1>4, <1>5 DEF LoopIsSafe, WorkHasRun, ListsInPasses, CallsForListed

LEMMA LoopInvariantInductive == TypeOK /\ LoopInvariant /\ [Next]_vars => LoopInvariant'
<1> SUFFICES ASSUME TypeOK, LoopInvariant, [Next]_vars PROVE LoopInvariant'
  OBVIOUS
<1> USE KindsFacts
<1>1. CASE exposed
  BY <1>1 DEF LoopInvariant, TypeOK, Next, LoopStep, MissionPass, FleetPass, AgentPass,
     OwnerPass, WakeUp, SchedulePass, ListTools, ListRuns, List, VisitTool, StartTool, MissTool,
     ToolReturns, ToolReturnsToNothing, EndRun, CallModel, MissRun, EndAfterCall, CallModelAgain,
     CallTool, FailBeforeTool, MissAfterCall, Restart, RestartBeforeTool, ApplyWorkspace,
     ApplyMission, Apply, Delete, history, vars
<1>2. CASE LoopIsSafe
  <2> USE <1>2
  <2>1. CASE WakeUp
    BY <2>1 DEF WakeUp, LoopInvariant, LoopIsSafe, WorkHasRun, ListsInPasses, CallsForListed,
       ListedIsThere, Unsettled, tree
  <2>2. ASSUME NEW controller \in {"missions", "fleets", "agents"},
               NEW kind \in {Mission, Fleet, Agent}, OwnerPass(controller, kind)
        PROVE  LoopInvariant'
    BY <2>2, PassKeepsLoopSafe DEF OwnerPass, Turn, TypeOK, LoopInvariant
  <2>3. CASE SchedulePass
    BY <2>3, PassKeepsLoopSafe DEF SchedulePass, Turn, TypeOK, LoopInvariant
  <2>4. CASE ListTools \/ ListRuns
    BY <2>4 DEF ListTools, ListRuns, List, Turn, Passed, LoopInvariant, LoopIsSafe, WorkHasRun,
       ListsInPasses, CallsForListed, ListedIsThere, Needed, Unsettled, Scheduled, tree
  <2>5. ASSUME NEW w \in Workspaces, Visiting("tools", w) \/ Visiting("runs", w)
        PROVE  w \in todo /\ AgentRun \in has[w] /\ call = NoCall
    BY <2>5 DEF Visiting, Turn, LoopIsSafe, ListedIsThere, Needed
  <2>6. ASSUME NEW w \in Workspaces, VisitTool(w) \/ EndRun(w)
        PROVE  LoopInvariant'
    BY <2>6, VisitKeepsLoopSafe DEF VisitTool, EndRun, Visiting, Turn, Unsettled, TypeOK,
       LoopInvariant
  <2>7. ASSUME NEW w \in Workspaces, StartTool(w) \/ CallModel(w)
        PROVE  LoopInvariant'
    BY <2>5, <2>7, CallKeepsLoopSafe DEF StartTool, CallModel, Visiting, Turn, Unsettled, TypeOK,
       LoopInvariant, tree
  <2>8. ASSUME NEW w \in Workspaces, MissTool(w) \/ MissRun(w) \/ ToolReturnsToNothing(w)
                                     \/ MissAfterCall(w)
        PROVE  FALSE
    <3>1. CASE MissTool(w) \/ MissRun(w)
      BY <3>1 DEF MissTool, MissRun, Visiting, Turn, ToolVisitSurvives, RunVisitSurvives,
         LoopIsSafe, ListedIsThere, Needed
    <3>2. CASE ToolReturnsToNothing(w)
      BY <3>2 DEF ToolReturnsToNothing, LoopIsSafe, CallsForListed, ListedIsThere, Needed, NoCall
    <3>3. CASE MissAfterCall(w)
      BY <3>3 DEF MissAfterCall, AfterCall, Awaits, RunVisitSurvives, LoopIsSafe, CallsForListed,
         ListedIsThere, Needed, NoCall
    <3> QED
      BY <2>8, <3>1, <3>2, <3>3
  <2>9. ASSUME NEW w \in Workspaces, NEW kind, call = [kind |-> kind, ws |-> w]
        PROVE  w \in todo /\ AgentRun \in has[w] /\ (kind = "controller" <=> Cycle[at] = "tools")
    BY <2>9 DEF LoopIsSafe, CallsForListed, ListedIsThere, Needed, NoCall
  <2>10. ASSUME NEW w \in Workspaces, ToolReturns(w) \/ EndAfterCall(w) \/ FailBeforeTool(w)
         PROVE  LoopInvariant'
    <3>1. AgentRun \in has[w]
      BY <2>9, <2>10 DEF ToolReturns, EndAfterCall, FailBeforeTool, AfterCall, WantsTool, Awaits
    <3> QED
      BY <2>10, <3>1, VisitKeepsLoopSafe DEF ToolReturns, EndAfterCall, FailBeforeTool, AfterCall,
         ToolObserved, Unsettled, TypeOK, LoopInvariant
  <2>11. ASSUME NEW w \in Workspaces, CallModelAgain(w) \/ CallTool(w)
         PROVE  LoopInvariant'
    <3>1. w \in todo /\ AgentRun \in has[w] /\ Cycle[at] # "tools"
      BY <2>9, <2>11 DEF CallModelAgain, CallTool, WantsTool, Awaits
    <3> QED
      BY <2>11, <3>1, CallKeepsLoopSafe DEF CallModelAgain, CallTool, ToolObserved, Unsettled,
         TypeOK, LoopInvariant
  <2>12. ASSUME NEW w \in Workspaces, ApplyWorkspace(w) \/ ApplyMission(w)
         PROVE  LoopInvariant'
    <3>1. /\ UNCHANGED <<run, tool, at, todo, call, alive>>
          /\ \/ has' = [has EXCEPT ![w] = @ \cup {Workspace}]
             \/ has' = [has EXCEPT ![w] = @ \cup {Mission}]
      BY <2>12 DEF ApplyWorkspace, ApplyMission, Apply, loop
    <3>2. ASSUME NEW v \in Workspaces
          PROVE  /\ has[v] \subseteq has'[v]
                 /\ ToolInvocation \in has'[v] => ToolInvocation \in has[v]
      BY <3>1 DEF TypeOK
    <3>3. Needed' = Needed
      BY <3>1 DEF Needed
    <3>4. Unsettled' \subseteq Unsettled
      BY <3>1, <3>2 DEF Unsettled
    <3>5. WorkHasRun'
      BY <3>2, <3>4 DEF LoopIsSafe, WorkHasRun, Unsettled
    <3>6. ListedIsThere'
      BY <3>1, <3>2, <3>3 DEF LoopIsSafe, ListedIsThere, TypeOK
    <3> QED
      BY <3>1, <3>5, <3>6 DEF LoopInvariant, LoopIsSafe, ListsInPasses, CallsForListed
  <2>13. ASSUME NEW w \in Workspaces, NEW kind \in Kinds, Delete(w, kind)
         PROVE  LoopInvariant'
    BY <2>13, DeletionKeepsLoopSafe
  <2>14. CASE Restart
    BY <2>14 DEF Restart, StartedAgain, LoopInvariant, LoopIsSafe, WorkHasRun, ListsInPasses,
       CallsForListed, ListedIsThere, Unsettled, tree
  <2>15. ASSUME NEW w \in Workspaces, RestartBeforeTool(w)
         PROVE  LoopInvariant'
    <3>1. AgentRun \in has[w]
      BY <2>9, <2>15 DEF RestartBeforeTool, WantsTool, Awaits
    <3> QED
      BY <2>15, <3>1 DEF RestartBeforeTool, StartedAgain, TypeOK, LoopInvariant, LoopIsSafe,
         WorkHasRun, ListsInPasses, CallsForListed, ListedIsThere, Unsettled
  <2>16. CASE UNCHANGED vars
    BY <2>16 DEF vars, LoopInvariant, LoopIsSafe, WorkHasRun, ListsInPasses, CallsForListed,
       ListedIsThere, Needed, Unsettled
  <2> QED
    BY <2>1, <2>2, <2>3, <2>4, <2>6, <2>7, <2>8, <2>10, <2>11, <2>12, <2>13, <2>14, <2>15, <2>16
    DEF Next, LoopStep, MissionPass, FleetPass, AgentPass
<1> QED
  BY <1>1, <1>2 DEF LoopInvariant

\* The loop ends only after a user has deleted an AgentRun or ToolInvocation in
\* use: everything else that goes wrong in a visit is caught.
THEOREM SpecLoopDiesOnlyByDeletion == Spec => []LoopDiesOnlyByDeletion
<1>1. Init => LoopInvariant
  BY KindsFacts DEF Init, LoopInvariant, LoopIsSafe, WorkHasRun, ListsInPasses, CallsForListed,
     ListedIsThere, Unsettled
<1>2. LoopInvariant => LoopDiesOnlyByDeletion
  BY DEF LoopInvariant, LoopIsSafe, LoopDiesOnlyByDeletion
<1> QED
  BY <1>1, <1>2, SpecTypeOK, LoopInvariantInductive, PTL DEF Spec
=============================================================================
