----------------------------- MODULE ControlLoop -----------------------------
(***************************************************************************)
(* One process: the tree of owned resources in the store, the loop that    *)
(* run_forever drives over it, and users who apply and delete resources    *)
(* through the API meanwhile.                                              *)
(*                                                                         *)
(* Everything between two awaits is one step.  The API answers while the   *)
(* loop sleeps, and while it awaits a model or a tool in the middle of a   *)
(* pass over resources it has listed before.  What no controller catches   *)
(* ends the loop: its task is never started again, and the API goes on.    *)
(*                                                                         *)
(* Each Workspace holds one Mission with one Fleet, Agent, AgentRun and    *)
(* ToolInvocation, each owned by the one before.  What the controllers     *)
(* make of phases is in MissionHierarchy, what happens inside a run in     *)
(* AgentRunEngine; here only what there is and what is still to be done    *)
(* matters.  No Policy asks for an approval, no spec changes.              *)
(***************************************************************************)
EXTENDS Naturals, FiniteSets

CONSTANTS
  Workspaces,    \* the Workspaces
  MaxDeletions,  \* bound on the deletions by users
  MaxRestarts    \* bound on the restarts of the process

ASSUME BoundsAssumption == MaxDeletions \in Nat /\ MaxRestarts \in Nat

\* A kind is owned by the kind before it.
Workspace == 1
Mission == 2
Fleet == 3
Agent == 4
AgentRun == 5
ToolInvocation == 6
Kinds == Workspace..ToolInvocation

\* The pieces of reconcile_once that matter here, in their order; 0: the loop
\* sleeps. KnowledgeIndexes and Contexts come with the scheduling.
Cycle == <<"missions", "fleets", "agents", "schedule", "tools", "runs",
           "tools", "agents", "fleets", "missions">>

VARIABLES
  has,       \* per Workspace the kinds of resources there are in it
  settled,   \* per Workspace the Mission, Fleet and Agent its controller passes over
  run,       \* per Workspace the AgentRun: Pending, Active or Over
  tool,      \* per Workspace the ToolInvocation: Open, Running or Settled
  at,        \* the piece of the cycle the loop is in
  todo,      \* the Workspaces whose listed resource it has not come to
  call,      \* the call it awaits and for which Workspace
  alive,     \* the loop's task is running
  cut,       \* history: per Workspace the kinds deleted without what they own
  exposed,   \* history: a deletion has hit an AgentRun or ToolInvocation in use
  touched,   \* history: the Workspaces in which something was deleted
  deletions, \* deletions so far
  restarts   \* restarts so far

tree == <<has, settled, run, tool>>
loop == <<at, todo, call, alive>>
history == <<cut, exposed, touched>>
counters == <<deletions, restarts>>
vars == <<has, settled, run, tool, at, todo, call, alive, cut, exposed, touched,
          deletions, restarts>>

NoCall == [kind |-> "none"]
Calls == [kind : {"model", "tool", "controller"}, ws : Workspaces]

TypeOK ==
  /\ has \in [Workspaces -> SUBSET Kinds]
  /\ settled \in [Workspaces -> SUBSET {Mission, Fleet, Agent}]
  /\ run \in [Workspaces -> {"Pending", "Active", "Over"}]
  /\ tool \in [Workspaces -> {"Open", "Running", "Settled"}]
  /\ at \in 0..10
  /\ todo \subseteq Workspaces
  /\ call \in Calls \cup {NoCall}
  /\ alive \in BOOLEAN /\ exposed \in BOOLEAN
  /\ cut \in [Workspaces -> SUBSET {Agent, AgentRun}]
  /\ touched \subseteq Workspaces
  /\ deletions \in 0..MaxDeletions /\ restarts \in 0..MaxRestarts

Init ==
  /\ has = [w \in Workspaces |-> {Workspace}]
  /\ settled = [w \in Workspaces |-> {}]
  /\ run = [w \in Workspaces |-> "Pending"]
  /\ tool = [w \in Workspaces |-> "Open"]
  /\ at = 0 /\ todo = {} /\ call = NoCall
  /\ alive = TRUE
  /\ cut = [w \in Workspaces |-> {}]
  /\ exposed = FALSE /\ touched = {}
  /\ deletions = 0 /\ restarts = 0

-----------------------------------------------------------------------------
(* The loop and the controllers without awaits *)

Turn(controller) == alive /\ at > 0 /\ call = NoCall /\ Cycle[at] = controller
Following == IF at = 10 THEN 0 ELSE at + 1
Passed == at' = Following /\ UNCHANGED <<todo, call, alive>>
Dies == alive' = FALSE /\ todo' = {} /\ call' = NoCall /\ UNCHANGED at

WakeUp ==
  /\ alive /\ at = 0
  /\ at' = 1
  /\ UNCHANGED <<tree, todo, call, alive, history, counters>>

\* The resources of a kind its controller does not pass over.
Due(kind) == {w \in Workspaces : kind \in has[w] /\ kind \notin settled[w]}

\* Where one of them lacks the resource it owns; the controller creates it,
\* under the name that resources it once owned may still refer to.
Lacking(kind) == {w \in Due(kind) : kind + 1 \notin has[w]}

\* An Agent follows its AgentRun, a Fleet its Agents, a Mission its Fleet.
ChildSettled(kind, w) ==
  IF kind = Agent THEN AgentRun \in has[w] /\ run[w] = "Over" ELSE kind + 1 \in settled[w]

OwnerPass(controller, kind) ==
  /\ Turn(controller)
  /\ has' = [w \in Workspaces |->
       IF w \in Lacking(kind) THEN has[w] \cup {kind + 1} ELSE has[w]]
  /\ cut' = [w \in Workspaces |->
       IF w \in Lacking(kind) THEN cut[w] \ {kind + 1} ELSE cut[w]]
  /\ settled' = [w \in Workspaces |->
       IF w \in Due(kind) /\ ChildSettled(kind, w) THEN settled[w] \cup {kind} ELSE settled[w]]
  /\ Passed
  /\ UNCHANGED <<run, tool, exposed, touched, counters>>

MissionPass == OwnerPass("missions", Mission)
FleetPass == OwnerPass("fleets", Fleet)
AgentPass == OwnerPass("agents", Agent)

\* The AgentRuns whose Contexts are Ready get scheduled.
SchedulePass ==
  /\ Turn("schedule")
  /\ \E ready \in SUBSET {w \in Workspaces : AgentRun \in has[w] /\ run[w] = "Pending"} :
       run' = [w \in Workspaces |-> IF w \in ready THEN "Active" ELSE run[w]]
  /\ Passed
  /\ UNCHANGED <<has, settled, tool, history, counters>>

-----------------------------------------------------------------------------
(* The two controllers that await list what they visit, then visit it *)

Unsettled == {w \in Workspaces : ToolInvocation \in has[w] /\ tool[w] # "Settled"}

\* Mutant: the worker leaves out AgentRuns whose Agent is gone.
ScheduledWithAgent ==
  {w \in Workspaces : {Agent, AgentRun} \subseteq has[w] /\ run[w] = "Active"}

Scheduled == {w \in Workspaces : AgentRun \in has[w] /\ run[w] = "Active"}

List(controller, listed) ==
  /\ Turn(controller)
  /\ todo = {}
  /\ IF listed = {} THEN Passed ELSE todo' = listed /\ UNCHANGED <<at, call, alive>>
  /\ UNCHANGED <<tree, history, counters>>

ListTools == List("tools", Unsettled)
ListRuns == List("runs", Scheduled)

Visiting(controller, w) == Turn(controller) /\ w \in todo

\* The pass goes on with what is left of its list, or ends.
Visited(w) == todo' = todo \ {w} /\ at' = IF todo = {w} THEN Following ELSE at

-----------------------------------------------------------------------------
(* ToolInvocationController *)

\* Else the handling of the failure fails as well.
ToolVisitSurvives(w) == {AgentRun, ToolInvocation} \subseteq has[w]

\* It is refused: it is Running already, its run is over, its Agent or its Tool
\* is missing, the runtime is, or a Policy denies it.
VisitTool(w) ==
  /\ Visiting("tools", w)
  /\ ToolVisitSurvives(w)
  /\ tool' = [tool EXCEPT ![w] = "Settled"]
  /\ Visited(w)
  /\ UNCHANGED <<has, settled, run, call, alive, history, counters>>

StartTool(w) ==
  /\ Visiting("tools", w)
  /\ ToolVisitSurvives(w)
  /\ tool[w] = "Open" /\ run[w] # "Over" /\ Agent \in has[w]
  /\ tool' = [tool EXCEPT ![w] = "Running"]
  /\ call' = [kind |-> "controller", ws |-> w]
  /\ UNCHANGED <<has, settled, run, at, todo, alive, history, counters>>

MissTool(w) ==
  /\ Visiting("tools", w)
  /\ ~ToolVisitSurvives(w)
  /\ Dies
  /\ UNCHANGED <<tree, history, counters>>

\* The answer is recorded; the run is not looked at again.
ToolReturns(w) ==
  /\ alive /\ call = [kind |-> "controller", ws |-> w]
  /\ ToolInvocation \in has[w]
  /\ tool' = [tool EXCEPT ![w] = "Settled"]
  /\ call' = NoCall
  /\ Visited(w)
  /\ UNCHANGED <<has, settled, run, alive, history, counters>>

ToolReturnsToNothing(w) ==
  /\ alive /\ call = [kind |-> "controller", ws |-> w]
  /\ ToolInvocation \notin has[w]
  /\ Dies
  /\ UNCHANGED <<tree, history, counters>>

-----------------------------------------------------------------------------
(* LocalAgentRunWorker and the engine *)

\* The engine loads the Agent, the Mission and the Workspace at every step.
Complete(w) == {Workspace, Mission, Agent, AgentRun} \subseteq has[w]

\* Mutant: the worker does not catch what the engine raises.
RunVisitSurvivesComplete(w) == Complete(w)

\* The worker writes whatever went wrong into the AgentRun.
RunVisitSurvives(w) == AgentRun \in has[w]

\* The run succeeds, fails, or is failed by the worker.
EndRun(w) ==
  /\ Visiting("runs", w)
  /\ RunVisitSurvives(w)
  /\ run' = [run EXCEPT ![w] = "Over"]
  /\ Visited(w)
  /\ UNCHANGED <<has, settled, tool, call, alive, history, counters>>

CallModel(w) ==
  /\ Visiting("runs", w)
  /\ Complete(w)
  /\ call' = [kind |-> "model", ws |-> w]
  /\ UNCHANGED <<tree, at, todo, alive, history, counters>>

MissRun(w) ==
  /\ Visiting("runs", w)
  /\ ~RunVisitSurvives(w)
  /\ Dies
  /\ UNCHANGED <<tree, history, counters>>

Awaits(kind, w) == alive /\ call = [kind |-> kind, ws |-> w]

\* The status of the ToolInvocation is written before the run is looked at.
ToolObserved(w) ==
  IF ToolInvocation \in has[w] THEN [tool EXCEPT ![w] = "Settled"] ELSE tool

AfterCall(w) ==
  \/ Awaits("model", w) /\ UNCHANGED tool
  \/ Awaits("tool", w) /\ tool' = ToolObserved(w)

EndAfterCall(w) ==
  /\ RunVisitSurvives(w)
  /\ AfterCall(w)
  /\ run' = [run EXCEPT ![w] = "Over"]
  /\ call' = NoCall
  /\ Visited(w)
  /\ UNCHANGED <<has, settled, alive, history, counters>>

\* After its tool call the run asks the model again.
CallModelAgain(w) ==
  /\ Awaits("tool", w)
  /\ Complete(w) /\ ToolInvocation \in has[w]
  /\ tool' = ToolObserved(w)
  /\ call' = [kind |-> "model", ws |-> w]
  /\ UNCHANGED <<has, settled, run, at, todo, alive, history, counters>>

\* A run makes one tool call; a ToolInvocation of that name that is there
\* already is taken for it.
WantsTool(w) ==
  /\ Awaits("model", w)
  /\ Complete(w)
  /\ ToolInvocation \in has[w] => tool[w] = "Open"

CallTool(w) ==
  /\ WantsTool(w)
  /\ has' = [has EXCEPT ![w] = @ \cup {ToolInvocation}]
  /\ tool' = [tool EXCEPT ![w] = "Running"]
  /\ call' = [kind |-> "tool", ws |-> w]
  /\ UNCHANGED <<settled, run, at, todo, alive, history, counters>>

\* There is no runtime for the tool: the run fails, the ToolInvocation stays.
FailBeforeTool(w) ==
  /\ WantsTool(w)
  /\ has' = [has EXCEPT ![w] = @ \cup {ToolInvocation}]
  /\ run' = [run EXCEPT ![w] = "Over"]
  /\ call' = NoCall
  /\ Visited(w)
  /\ UNCHANGED <<settled, tool, alive, history, counters>>

\* An answer is recorded before the run is missed, a failure is not.
MissAfterCall(w) ==
  /\ ~RunVisitSurvives(w)
  /\ AfterCall(w) \/ (Awaits("tool", w) /\ UNCHANGED tool)
  /\ Dies
  /\ UNCHANGED <<has, settled, run, history, counters>>

-----------------------------------------------------------------------------
(* Users and the operator of the process *)

\* The loop sleeps, awaits or is dead: the API has the process to itself.
UsersTurn == ~alive \/ at = 0 \/ call # NoCall

Apply(w, kind) ==
  /\ UsersTurn
  /\ kind \notin has[w] /\ (kind = Mission => Workspace \in has[w])
  /\ has' = [has EXCEPT ![w] = @ \cup {kind}]
  /\ UNCHANGED <<settled, run, tool, loop, history, counters>>

ApplyWorkspace(w) == Apply(w, Workspace)
ApplyMission(w) == Apply(w, Mission)

\* Mutant: only what the deleted resource itself owns goes with it.
DescendantsNear(w, kind) == {k \in has[w] : k \in {kind, kind + 1}}

\* What is connected to the deleted resource by ownership.
Descendants(w, kind) == {k \in has[w] : k >= kind /\ kind..k \subseteq has[w]}

Removed(w, kind) ==
  CASE kind = Workspace -> has[w]
    [] kind \in {Mission, Fleet} -> Descendants(w, kind)
    [] OTHER -> {kind}

\* The deletion takes what a pass has listed and will look for, or leaves an
\* unsettled ToolInvocation behind without its AgentRun.
Exposes(w, removed) ==
  \/ /\ w \in todo
     /\ AgentRun \in removed \/ (Cycle[at] = "tools" /\ ToolInvocation \in removed)
  \/ AgentRun \in removed /\ w \in Unsettled /\ ToolInvocation \notin removed

Delete(w, kind) ==
  /\ UsersTurn
  /\ deletions < MaxDeletions
  /\ kind \in has[w]
  /\ LET removed == Removed(w, kind) IN
       /\ has' = [has EXCEPT ![w] = @ \ removed]
       /\ settled' = [settled EXCEPT ![w] = @ \ removed]
       /\ run' = IF AgentRun \in removed THEN [run EXCEPT ![w] = "Pending"] ELSE run
       /\ tool' = IF ToolInvocation \in removed THEN [tool EXCEPT ![w] = "Open"] ELSE tool
       /\ exposed' = (exposed \/ Exposes(w, removed))
  /\ cut' = IF kind \in {Agent, AgentRun} THEN [cut EXCEPT ![w] = @ \cup {kind}] ELSE cut
  /\ touched' = touched \cup {w}
  /\ deletions' = deletions + 1
  /\ UNCHANGED <<loop, restarts>>

\* The process ends at any point and is started again with its loop.
StartedAgain ==
  /\ restarts < MaxRestarts
  /\ at' = 0 /\ todo' = {} /\ call' = NoCall /\ alive' = TRUE
  /\ restarts' = restarts + 1

Restart ==
  /\ StartedAgain
  /\ UNCHANGED <<tree, history, deletions>>

\* It ends between the creation of a ToolInvocation and its start.
RestartBeforeTool(w) ==
  /\ WantsTool(w)
  /\ has' = [has EXCEPT ![w] = @ \cup {ToolInvocation}]
  /\ StartedAgain
  /\ UNCHANGED <<settled, run, tool, history, deletions>>

-----------------------------------------------------------------------------
LoopStep ==
  \/ WakeUp \/ MissionPass \/ FleetPass \/ AgentPass \/ SchedulePass
  \/ ListTools \/ ListRuns
  \/ \E w \in Workspaces :
       \/ VisitTool(w) \/ StartTool(w) \/ MissTool(w)
       \/ ToolReturns(w) \/ ToolReturnsToNothing(w)
       \/ EndRun(w) \/ CallModel(w) \/ MissRun(w)
       \/ EndAfterCall(w) \/ CallModelAgain(w) \/ CallTool(w)
       \/ FailBeforeTool(w) \/ MissAfterCall(w)

Next ==
  \/ LoopStep
  \/ Restart
  \/ \E w \in Workspaces :
       \/ ApplyWorkspace(w) \/ ApplyMission(w) \/ RestartBeforeTool(w)
       \/ \E kind \in Kinds : Delete(w, kind)

Spec == Init /\ [][Next]_vars

\* The loop goes on, and every call it awaits ends.
FairSpec == Spec /\ WF_vars(LoopStep)

-----------------------------------------------------------------------------
(* Properties *)

\* No cascade leaves an orphan: a resource whose owner is missing has lost it to
\* the deletion of that very Agent or AgentRun, and with a Workspace all is gone.
OrphansAreCut ==
  \A w \in Workspaces : \A k \in has[w] : k > Workspace => k - 1 \in has[w] \cup cut[w]

\* The loop survives whatever happens to a run and to the resources around it,
\* but for the deletion of an AgentRun or ToolInvocation in use.
LoopDiesOnlyByDeletion == ~alive => exposed

\* A scheduled AgentRun ends, also after restarts and without its Agent, as long
\* as nothing in use was deleted.
RunsEnd ==
  \A w \in Workspaces :
    (AgentRun \in has[w] /\ run[w] = "Active")
      ~> (AgentRun \notin has[w] \/ run[w] = "Over" \/ exposed)

\* What is deleted in one Workspace does not stop the runs of another.
WorkspacesAreIsolated ==
  \A w \in Workspaces :
    (AgentRun \in has[w] /\ run[w] = "Active")
      ~> (AgentRun \notin has[w] \/ run[w] = "Over" \/ w \in touched)
=============================================================================
