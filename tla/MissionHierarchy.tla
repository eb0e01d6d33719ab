-------------------------- MODULE MissionHierarchy --------------------------
(***************************************************************************)
(* One Mission and what the controllers make of it: its Fleet, the Agents  *)
(* of the Fleet, and for the present generation of each Agent one attempt, *)
(* an AgentRun with its Context.  Desired state flows downwards, phases    *)
(* are aggregated upwards.  The attempt of an earlier generation goes on   *)
(* by itself, and no controller of this module reads it any more.          *)
(*                                                                         *)
(* A control plane calls its controllers in a fixed order, one pass per    *)
(* action: no controller of this module awaits anything, so a pass is not  *)
(* interrupted within an event loop.  Several control planes take turns    *)
(* between passes, users and AgentRuns move at any time, and a control     *)
(* plane may die between any two writes of a pass (the Die actions) or     *)
(* between passes, and starts over with the Mission.  What one pass makes  *)
(* of several Agents, Contexts or AgentRuns is independent of their order. *)
(*                                                                         *)
(* AgentRunEngine models what happens inside an AgentRun; here its phase   *)
(* is all that is seen of it.                                              *)
(***************************************************************************)
EXTENDS Naturals, FiniteSets

CONSTANTS
  Planes,        \* the control planes that run concurrently
  Agents,        \* the names of Agents a Fleet may have
  DefaultAgent,  \* the one Agent of a Fleet without template
  MaxEdits       \* bound: how often users change the Mission or its template

ASSUME NamesAssumption == DefaultAgent \in Agents /\ IsFiniteSet(Agents)
ASSUME BoundsAssumption == MaxEdits \in Nat

VARIABLES
  mission,    \* the Mission: generation, status, the query for its Contexts, and
              \* whether it names a template
  template,   \* the FleetTemplate: its generation (0: deleted) and its Agents
  fleet,      \* the Fleet: generation (0: absent), status, annotations, desired Agents
  agent,      \* per name the Agent: generation (0: absent), status, annotation
  attempt,    \* per Agent, of its present generation: the phases of AgentRun and
              \* Context, and the query of the Mission that a Ready Context answers
  index,      \* the phase of the KnowledgeIndex
  at,         \* per control plane, the position in its cycle
  edits       \* how many changes users have made

desired == <<mission, template, edits>>
vars == <<desired, fleet, agent, attempt, index, at>>

Generations == 1..(MaxEdits + 1)

MissionPhases == {"Pending", "Reconciling", "Waiting", "Completed", "Failed"}
ChildPhases == {"Pending", "Running", "Waiting", "Succeeded", "Failed"}
\* Scheduled: any phase of the Execution Engine that needs nobody's decision.
\* WaitingForApproval: that phase, or a pendingApproval in the data.
\* Undecided: it failed, and an approval it asked for is still pending.
RunPhases ==
  {"Absent", "Pending", "Scheduled", "WaitingForApproval", "Succeeded", "Failed", "Undecided"}
IndexPhases == {"Absent", "Pending", "Ready", "Failed"}

\* Stale: the phase is Ready, but of an older generation of the Context.
ContextPhases == {"Absent", "Pending", "Ready", "Stale", "Failed"}

\* The controllers in the order of one reconcile_once.  The worker, between
\* "schedule" and the second half, is the AgentRun actions below.
Cycle == <<"missions", "fleets", "agents", "indexes", "contexts", "schedule",
           "agents", "fleets", "missions">>

MissionRecords ==
  [gen : Generations, obs : Nat, phase : MissionPhases, query : Generations, templated : BOOLEAN]
FleetRecords ==
  [gen : 0..(MaxEdits + 1), obs : Nat, phase : ChildPhases, missionGen : Nat,
   templateGen : Nat, templated : BOOLEAN, agents : SUBSET Agents]
AgentRecords == [gen : 0..(MaxEdits + 1), obs : Nat, phase : ChildPhases, fleetGen : Nat]
AttemptRecords == [run : RunPhases, context : ContextPhases, query : Generations]

TypeOK ==
  /\ mission \in MissionRecords
  /\ template \in [gen : Nat, agents : SUBSET Agents]
  /\ fleet \in FleetRecords
  /\ agent \in [Agents -> AgentRecords]
  /\ attempt \in [Agents -> AttemptRecords]
  /\ index \in IndexPhases
  /\ at \in [Planes -> 1..9]
  /\ edits \in 0..MaxEdits

NoAttempt == [run |-> "Absent", context |-> "Absent", query |-> 1]

Init ==
  /\ \E t \in BOOLEAN :
       mission = [gen |-> 1, obs |-> 0, phase |-> "Pending", query |-> 1, templated |-> t]
  /\ \E names \in SUBSET Agents :
       template = [gen |-> IF names = {} THEN 0 ELSE 1, agents |-> names]
  /\ fleet = [gen |-> 0, obs |-> 0, phase |-> "Pending", missionGen |-> 0,
              templateGen |-> 0, templated |-> FALSE, agents |-> {}]
  /\ agent = [a \in Agents |-> [gen |-> 0, obs |-> 0, phase |-> "Pending", fleetGen |-> 0]]
  /\ attempt = [a \in Agents |-> NoAttempt]
  /\ index = "Absent"
  /\ at = [c \in Planes |-> 1]
  /\ edits = 0

-----------------------------------------------------------------------------
(* What the controllers share.                                             *)

\* is_current: the status speaks of the present generation.
IsCurrent(r) == r.obs = r.gen

\* update_status: the phase, and the generation it speaks of.
WithStatus(r, phase) == [r EXCEPT !.phase = phase, !.obs = r.gen]

\* A settled resource is passed over by its controller.
MissionSettled == mission.phase \in {"Completed", "Failed"} /\ IsCurrent(mission)
Settled(r) == r.phase \in {"Succeeded", "Failed"} /\ IsCurrent(r)

\* It is this controller's turn, and the next one's afterwards.
Turn(c, controller) ==
  /\ Cycle[at[c]] = controller
  /\ at' = [at EXCEPT ![c] = IF @ = 9 THEN 1 ELSE @ + 1]

\* The control plane dies during the pass of this controller.
Die(c, controller) ==
  /\ Cycle[at[c]] = controller
  /\ at' = [at EXCEPT ![c] = 1]

-----------------------------------------------------------------------------
(* MissionController.                                                      *)

TemplateMissing == mission.templated /\ template.gen = 0

\* Mutant: the template's generation is compared although none is named.
FleetMatchesAnyTemplate ==
  /\ fleet.gen > 0
  /\ ~TemplateMissing
  /\ fleet.templated = mission.templated
  /\ fleet.missionGen = mission.gen
  /\ fleet.templateGen = template.gen

\* _fleet_matches_mission: the annotations name what the Fleet was made from.
FleetMatches ==
  /\ fleet.gen > 0
  /\ ~TemplateMissing
  /\ fleet.templated = mission.templated
  /\ fleet.missionGen = mission.gen
  /\ mission.templated => fleet.templateGen = template.gen

\* The Fleet after apply: a new generation with the status of the old.
DesiredFleet ==
  [fleet EXCEPT !.gen = @ + 1,
                !.missionGen = mission.gen,
                !.templated = mission.templated,
                !.templateGen = IF mission.templated THEN template.gen ELSE @,
                !.agents = IF mission.templated THEN template.agents ELSE {DefaultAgent}]

\* Mutant: a waiting Fleet is like a running one.
MissionPhaseWithoutWaiting(phase) ==
  CASE phase = "Succeeded" -> "Completed"
    [] phase = "Failed" -> phase
    [] OTHER -> "Reconciling"

\* _aggregate_mission.
MissionPhaseOf(phase) ==
  CASE phase = "Succeeded" -> "Completed"
    [] phase \in {"Failed", "Waiting"} -> phase
    [] OTHER -> "Reconciling"

SkipMission(c) ==
  /\ Turn(c, "missions")
  /\ MissionSettled
  /\ UNCHANGED <<desired, fleet, agent, attempt, index>>

AggregateFleet(c) ==
  /\ Turn(c, "missions")
  /\ ~MissionSettled
  /\ FleetMatches
  /\ mission' = WithStatus(mission, MissionPhaseOf(fleet.phase))
  /\ UNCHANGED <<template, edits, fleet, agent, attempt, index>>

RejectMission(c) ==
  /\ Turn(c, "missions")
  /\ ~MissionSettled
  /\ TemplateMissing
  /\ mission' = WithStatus(mission, "Failed")
  /\ UNCHANGED <<template, edits, fleet, agent, attempt, index>>

ApplyFleet(c) ==
  /\ Turn(c, "missions")
  /\ ~MissionSettled
  /\ ~FleetMatches /\ ~TemplateMissing
  /\ fleet' = DesiredFleet
  /\ mission' = WithStatus(mission, "Reconciling")
  /\ UNCHANGED <<template, edits, agent, attempt, index>>

\* The Fleet is applied, the Mission's status is not.
DieAfterFleet(c) ==
  /\ Die(c, "missions")
  /\ ~MissionSettled
  /\ ~FleetMatches /\ ~TemplateMissing
  /\ fleet' = DesiredFleet
  /\ UNCHANGED <<desired, agent, attempt, index>>

-----------------------------------------------------------------------------
(* FleetController.                                                        *)

\* Mutant: Agents are applied whether they match or not.
EveryDesired == fleet.agents

\* The desired Agents that are absent or do not match the Fleet.
Outdated == {a \in fleet.agents : agent[a].fleetGen # fleet.gen}

\* The Agent after apply, with the status of the old generation.
AppliedAgent(a) == [agent[a] EXCEPT !.gen = @ + 1, !.fleetGen = fleet.gen]

\* The Agents after some were applied and scheduled.
ScheduledAgents(names) ==
  [a \in Agents |-> IF a \in names THEN WithStatus(AppliedAgent(a), "Pending") ELSE agent[a]]

\* run_name_for_agent: another generation of an Agent has another AgentRun.
NewAttempts(names) == [a \in Agents |-> IF a \in names THEN NoAttempt ELSE attempt[a]]

\* _owned_agents: also those the Fleet no longer desires.
OwnedAgents == {a \in Agents : agent[a].gen > 0}

\* Mutant: the success of an Agent counts for whatever generation it was.
FleetPhaseOfStaleAgents ==
  IF \E a \in OwnedAgents : agent[a].phase = "Failed" THEN "Failed"
  ELSE IF \E a \in OwnedAgents : agent[a].phase = "Waiting" THEN "Waiting"
  ELSE IF \A a \in OwnedAgents : agent[a].phase = "Succeeded" THEN "Succeeded"
  ELSE "Running"

\* _aggregate_fleet.
FleetPhase ==
  IF \E a \in OwnedAgents : agent[a].phase = "Failed" THEN "Failed"
  ELSE IF \E a \in OwnedAgents : agent[a].phase = "Waiting" THEN "Waiting"
  ELSE IF \A a \in OwnedAgents : agent[a].phase = "Succeeded" /\ IsCurrent(agent[a])
    THEN "Succeeded"
  ELSE "Running"

\* There is no Fleet yet, or it is settled.
SkipFleet(c) ==
  /\ Turn(c, "fleets")
  /\ fleet.gen = 0 \/ Settled(fleet)
  /\ UNCHANGED <<desired, fleet, agent, attempt, index>>

\* _resolve_capabilities: only the Agents of a template have Capabilities, and
\* one of these, its Tools or its Models may be missing.
MayBeUnresolvable == fleet.templated

FailFleet(c) ==
  /\ Turn(c, "fleets")
  /\ fleet.gen > 0 /\ ~Settled(fleet)
  /\ MayBeUnresolvable
  /\ fleet' = WithStatus(fleet, "Failed")
  /\ UNCHANGED <<desired, agent, attempt, index>>

ApplyAgents(c) ==
  /\ Turn(c, "fleets")
  /\ fleet.gen > 0 /\ ~Settled(fleet)
  /\ Outdated # {}
  /\ agent' = ScheduledAgents(Outdated)
  /\ attempt' = NewAttempts(Outdated)
  /\ fleet' = WithStatus(fleet, "Running")
  /\ UNCHANGED <<desired, index>>

AggregateAgents(c) ==
  /\ Turn(c, "fleets")
  /\ fleet.gen > 0 /\ ~Settled(fleet)
  /\ Outdated = {}
  /\ fleet' = WithStatus(fleet, FleetPhase)
  /\ UNCHANGED <<desired, agent, attempt, index>>

\* Some Agents are applied, the last of them perhaps without its status.
DieAmongAgents(c) ==
  /\ Die(c, "fleets")
  /\ fleet.gen > 0 /\ ~Settled(fleet)
  /\ \E names \in SUBSET Outdated :
       \/ /\ agent' = ScheduledAgents(names)
          /\ attempt' = NewAttempts(names)
       \/ \E last \in Outdated \ names :
            /\ agent' = [ScheduledAgents(names) EXCEPT ![last] = AppliedAgent(last)]
            /\ attempt' = NewAttempts(names \cup {last})
  /\ UNCHANGED <<desired, fleet, index>>

-----------------------------------------------------------------------------
(* AgentController.                                                        *)

\* The Agents the controller does not pass over.
Unsettled == {a \in OwnedAgents : ~Settled(agent[a])}

\* Mutant: an AgentRun that has failed is created anew by the next pass.
EnsuredAfterFailure(phase) == IF phase \in {"Absent", "Failed"} THEN "Pending" ELSE phase

\* What is absent is created, by _ensure_agent_run and _ensure_context; a
\* Context whose query has changed is applied again and keeps its phase.
Ensured(phase) == IF phase = "Absent" THEN "Pending" ELSE phase

EnsuredIndex == Ensured(index)

EnsuredContext(try) ==
  IF try.context = "Ready" /\ try.query # mission.query THEN "Stale" ELSE Ensured(try.context)

EnsuredAttempts(runs, contexts) ==
  [a \in Agents |->
    [attempt[a] EXCEPT
      !.run = IF a \in runs THEN Ensured(@) ELSE @,
      !.context = IF a \in contexts THEN EnsuredContext(attempt[a]) ELSE @]]

\* Mutant: an AgentRun that did not succeed counts as one in progress.
AgentPhaseWithoutFailure(try) ==
  IF try.context = "Failed" THEN "Failed"
  ELSE CASE try.run = "Succeeded" -> "Succeeded"
         [] try.run = "WaitingForApproval" -> "Waiting"
         [] OTHER -> "Running"

\* _aggregate_agent: a failed Context counts more than any AgentRun.
AgentPhase(try) ==
  IF try.context = "Failed" THEN "Failed"
  ELSE CASE try.run = "Succeeded" -> "Succeeded"
         [] try.run \in {"Failed", "Undecided"} -> "Failed"
         [] try.run = "WaitingForApproval" -> "Waiting"
         [] OTHER -> "Running"

AggregatedAgents(names) ==
  [a \in Agents |-> IF a \in names THEN WithStatus(agent[a], AgentPhase(attempt[a])) ELSE agent[a]]

AgentPass(c) ==
  /\ Turn(c, "agents")
  /\ attempt' = EnsuredAttempts(Unsettled, Unsettled)
  /\ index' = IF Unsettled = {} THEN index ELSE EnsuredIndex
  /\ agent' = AggregatedAgents(Unsettled)
  /\ UNCHANGED <<desired, fleet>>

\* Some Agents are done; the next one's AgentRun, the KnowledgeIndex and its
\* Context may exist already, its status is not written.
DieAmongAttempts(c) ==
  /\ Die(c, "agents")
  /\ \E names \in SUBSET Unsettled :
       /\ agent' = AggregatedAgents(names)
       /\ \E next \in {{}} \cup {{a} : a \in Unsettled \ names} :
          \E contexts \in {names, names \cup next} :
            /\ attempt' = EnsuredAttempts(names \cup next, contexts)
            /\ \/ index' = EnsuredIndex /\ names \cup next # {}
               \/ index' = index /\ contexts = {}
  /\ UNCHANGED <<desired, fleet>>

-----------------------------------------------------------------------------
(* The controllers below the Agents.                                       *)

\* KnowledgeIndexController: Ready if the documents can be loaded.
IndexPass(c) ==
  /\ Turn(c, "indexes")
  /\ IF index = "Absent" THEN index' = index ELSE index' \in {"Ready", "Failed"}
  /\ UNCHANGED <<desired, fleet, agent, attempt>>

\* ContextController: every Context but a Ready one is built, a failed one too.
BuiltContext(try) ==
  IF try.context \in {"Absent", "Ready"} THEN try
  ELSE IF index = "Ready" THEN [try EXCEPT !.context = "Ready", !.query = mission.query]
  ELSE [try EXCEPT !.context = "Failed"]

\* AgentRunController: a Pending AgentRun with a Ready Context is scheduled,
\* whatever has become of its Agent, and of whatever generation the Context is.
StartedRun(try) ==
  IF try.run = "Pending" /\ try.context \in {"Ready", "Stale"}
    THEN [try EXCEPT !.run = "Scheduled"] ELSE try

\* The attempts after some Contexts were built, or some AgentRuns scheduled.
ContextsBuilt(chosen) ==
  [a \in Agents |-> IF a \in chosen THEN BuiltContext(attempt[a]) ELSE attempt[a]]

RunsStarted(chosen) ==
  [a \in Agents |-> IF a \in chosen THEN StartedRun(attempt[a]) ELSE attempt[a]]

ContextPass(c) ==
  /\ Turn(c, "contexts")
  /\ attempt' = ContextsBuilt(Agents)
  /\ UNCHANGED <<desired, fleet, agent, index>>

SchedulePass(c) ==
  /\ Turn(c, "schedule")
  /\ attempt' = RunsStarted(Agents)
  /\ UNCHANGED <<desired, fleet, agent, index>>

\* Some Contexts are built, or some AgentRuns scheduled.
DieAmongContexts(c) ==
  /\ Die(c, "contexts")
  /\ \E chosen \in SUBSET Agents : attempt' = ContextsBuilt(chosen)
  /\ UNCHANGED <<desired, fleet, agent, index>>

DieAmongRuns(c) ==
  /\ Die(c, "schedule")
  /\ \E chosen \in SUBSET Agents : attempt' = RunsStarted(chosen)
  /\ UNCHANGED <<desired, fleet, agent, index>>

\* The control plane dies between two passes.
DieBetweenPasses(c) ==
  /\ at[c] > 1
  /\ Die(c, Cycle[at[c]])
  /\ UNCHANGED <<desired, fleet, agent, attempt, index>>

-----------------------------------------------------------------------------
(* AgentRuns, as AgentRunEngine and the approvals drive them.              *)

RunMoves(a, from, to) ==
  /\ attempt[a].run = from
  /\ attempt' = [attempt EXCEPT ![a].run = to]
  /\ UNCHANGED <<desired, fleet, agent, index, at>>

RunWaits(a) == RunMoves(a, "Scheduled", "WaitingForApproval")
RunResumes(a) == RunMoves(a, "WaitingForApproval", "Scheduled")
RunEnds(a) == \E to \in {"Succeeded", "Failed"} : RunMoves(a, "Scheduled", to)

\* It succeeds although the pendingApproval it carries is still there.
RunEndsUnasked(a) == RunMoves(a, "WaitingForApproval", "Succeeded")

\* Rejected, or cancelled or out of budget while it waits.
RunIsRejected(a) ==
  RunMoves(a, "WaitingForApproval", "Failed") \/ RunMoves(a, "Undecided", "Failed")

\* The worker fails a waiting AgentRun, and a late approval revives it.
RunIsFailed(a) == RunMoves(a, "WaitingForApproval", "Undecided")
RunIsRevived(a) == RunMoves(a, "Undecided", "Scheduled")

-----------------------------------------------------------------------------
(* Users.                                                                  *)

Edit == edits < MaxEdits /\ edits' = edits + 1

\* The Mission is applied again, with or without a template.  The query holds
\* the template's name, and the objective, which may have changed.
EditMission ==
  /\ Edit
  /\ \E t \in BOOLEAN, q \in {mission.query, mission.gen + 1} :
       /\ t # mission.templated => q # mission.query
       /\ mission' = [mission EXCEPT !.gen = @ + 1, !.templated = t, !.query = q]
  /\ UNCHANGED <<template, fleet, agent, attempt, index, at>>

ApplyTemplate ==
  /\ Edit
  /\ \E names \in SUBSET Agents \ {{}} :
       template' = [gen |-> template.gen + 1, agents |-> names]
  /\ UNCHANGED <<mission, fleet, agent, attempt, index, at>>

\* Generations start over when a template is created again.
DeleteTemplate ==
  /\ Edit
  /\ template.gen > 0
  /\ template' = [gen |-> 0, agents |-> {}]
  /\ UNCHANGED <<mission, fleet, agent, attempt, index, at>>

-----------------------------------------------------------------------------
(* The specification.                                                      *)

MissionPass(c) == SkipMission(c) \/ AggregateFleet(c) \/ RejectMission(c) \/ ApplyFleet(c)
FleetPass(c) == SkipFleet(c) \/ FailFleet(c) \/ ApplyAgents(c) \/ AggregateAgents(c)

\* The next controller of reconcile_once.
Reconcile(c) ==
  \/ MissionPass(c) \/ FleetPass(c) \/ AgentPass(c)
  \/ IndexPass(c) \/ ContextPass(c) \/ SchedulePass(c)

ControlPlaneDies(c) ==
  \/ DieAfterFleet(c) \/ DieAmongAgents(c) \/ DieAmongAttempts(c)
  \/ DieAmongContexts(c) \/ DieAmongRuns(c) \/ DieBetweenPasses(c)

UserActs == EditMission \/ ApplyTemplate \/ DeleteTemplate

RunActs(a) ==
  \/ RunWaits(a) \/ RunResumes(a) \/ RunEnds(a) \/ RunEndsUnasked(a)
  \/ RunIsRejected(a) \/ RunIsFailed(a) \/ RunIsRevived(a)

Next ==
  \/ \E c \in Planes : Reconcile(c) \/ ControlPlaneDies(c)
  \/ \E a \in Agents : RunActs(a)
  \/ UserActs

Spec == Init /\ [][Next]_vars

\* run_forever calls the controllers again and again, and comes to the last of
\* them again and again, however often the process dies; the budgets of an
\* AgentRun end it however often it waits.  Nobody need decide an approval.
Fairness ==
  /\ \A c \in Planes : WF_vars(Reconcile(c)) /\ []<>(at[c] = 9)
  /\ \A a \in Agents : SF_vars(RunEnds(a))

FairSpec == Spec /\ Fairness

-----------------------------------------------------------------------------
(* Properties.                                                             *)

\* A Fleet that reports success of its present generation has, for each Agent
\* it desires, an AgentRun that this generation asked for and that succeeded:
\* no stale status of an Agent or of an earlier attempt is taken for it.
SuccessIsEarned ==
  fleet.phase = "Succeeded" /\ IsCurrent(fleet) =>
    \A a \in fleet.agents :
      /\ agent[a].fleetGen = fleet.gen
      /\ attempt[a].run = "Succeeded"

\* No execution attempt without a change of desired state: however often the
\* controllers run, overlap or die, an Agent has at most one AgentRun for each
\* change and one to begin with.
AttemptsAnswerEdits ==
  \A a \in Agents : attempt[a].run # "Absent" => agent[a].gen <= edits + 1

\* One life per generation: an AgentRun is created once, then moves only as
\* AgentRunEngine was shown to move (AgentRunLifecycle), and gives way to another only
\* when its Agent gets a new generation, which never inherits it.  No pass,
\* repeated or broken off, restarts an execution that has begun or ended.
Life(a) == INSTANCE AgentRunLifecycle WITH run <- attempt[a].run

Lives(a) == [Life(a)!Next]_(attempt[a].run) /\ agent'[a].gen = agent[a].gen
Created(a) ==
  attempt[a].run = "Absent" /\ attempt'[a].run = "Pending" /\ agent'[a].gen = agent[a].gen
Replaced(a) == agent'[a].gen = agent[a].gen + 1 /\ attempt'[a].run = "Absent"

OneLifePerGeneration ==
  [][\A a \in Agents : Lives(a) \/ Created(a) \/ Replaced(a)]_<<agent, attempt>>

\* The Mission comes to an end, or to wait for an approval, again and again.
MissionSettles ==
  []<>(mission.phase \in {"Completed", "Failed", "Waiting"} /\ IsCurrent(mission))

\* No failure is lost on its way up: when the AgentRun of an Agent the Fleet
\* desires has failed for good, the Fleet fails, unless it is changed before.
FailureReachesFleet ==
  \A a \in Agents, g \in Generations :
    (/\ fleet.gen = g /\ a \in fleet.agents
     /\ agent[a].fleetGen = g /\ attempt[a].run = "Failed")
      ~> (fleet.gen # g \/ (fleet.phase = "Failed" /\ IsCurrent(fleet)))
=============================================================================
