----------------------- MODULE MissionHierarchyProofs -----------------------
(***************************************************************************)
(* That success is earned and attempts answer edits, for any number of     *)
(* control planes, Agents and edits.  The argument counts: each generation *)
(* of the Fleet answers a change by a user, each generation of an Agent a  *)
(* generation of the Fleet.                                                *)
(***************************************************************************)
EXTENDS MissionHierarchy, TLAPS

\* No status speaks of a generation that does not exist yet.
StatusesBehind ==
  /\ fleet.obs <= fleet.gen
  /\ \A a \in Agents : agent[a].obs <= agent[a].gen

MissionCounted == mission.gen <= edits + 1 /\ mission.query <= mission.gen

\* A Fleet that matches has used up its edit, one that does not has it left.
FleetCounted ==
  /\ fleet.gen <= edits + 1
  /\ ~FleetMatches => fleet.gen <= edits

AgentsCounted ==
  \A a \in Agents :
    /\ agent[a].gen <= agent[a].fleetGen
    /\ agent[a].fleetGen <= fleet.gen
    /\ agent[a].gen = 0 => agent[a].fleetGen = 0

\* An Agent's success is that of its present AgentRun.
AgentSuccessEarned ==
  \A a \in Agents :
    agent[a].phase = "Succeeded" /\ IsCurrent(agent[a]) => attempt[a].run = "Succeeded"

HierarchyInvariant ==
  /\ TypeOK
  /\ StatusesBehind
  /\ MissionCounted
  /\ FleetCounted
  /\ AgentsCounted
  /\ AgentSuccessEarned
  /\ SuccessIsEarned

-----------------------------------------------------------------------------
(* What the steps have in common.                                          *)

\* A pass, finished or not, moves the control plane within its cycle.
LEMMA CycleTyped ==
  ASSUME TypeOK, NEW c \in Planes, NEW controller, Turn(c, controller) \/ Die(c, controller)
  PROVE  at' \in [Planes -> 1..9]
BY DEF TypeOK, Turn, Die

\* A written status is of the present generation and changes nothing else.
LEMMA FleetStatus ==
  ASSUME TypeOK, NEW phase \in ChildPhases
  PROVE  /\ WithStatus(fleet, phase) \in FleetRecords
         /\ WithStatus(fleet, phase).obs = fleet.gen
         /\ WithStatus(fleet, phase).phase = phase
         /\ WithStatus(fleet, phase).gen = fleet.gen
         /\ WithStatus(fleet, phase).missionGen = fleet.missionGen
         /\ WithStatus(fleet, phase).templateGen = fleet.templateGen
         /\ WithStatus(fleet, phase).templated = fleet.templated
         /\ WithStatus(fleet, phase).agents = fleet.agents
<1>1. fleet.gen \in Nat
  BY BoundsAssumption DEF TypeOK, FleetRecords
<1>2. \A n \in Nat : [fleet EXCEPT !.phase = phase, !.obs = n] \in FleetRecords
  BY DEF TypeOK, FleetRecords
<1>3. WithStatus(fleet, phase) \in FleetRecords
  BY <1>1, <1>2 DEF WithStatus
<1> QED
  BY <1>3 DEF TypeOK, FleetRecords, WithStatus

LEMMA MissionStatus ==
  ASSUME TypeOK, NEW phase \in MissionPhases
  PROVE  /\ WithStatus(mission, phase) \in MissionRecords
         /\ WithStatus(mission, phase).obs = mission.gen
         /\ WithStatus(mission, phase).phase = phase
         /\ WithStatus(mission, phase).gen = mission.gen
         /\ WithStatus(mission, phase).query = mission.query
         /\ WithStatus(mission, phase).templated = mission.templated
<1>1. mission.gen \in Nat
  BY BoundsAssumption DEF TypeOK, MissionRecords, Generations
<1>2. \A n \in Nat : [mission EXCEPT !.phase = phase, !.obs = n] \in MissionRecords
  BY DEF TypeOK, MissionRecords, Generations
<1>3. WithStatus(mission, phase) \in MissionRecords
  BY <1>1, <1>2 DEF WithStatus
<1> QED
  BY <1>3 DEF TypeOK, MissionRecords, Generations, WithStatus

LEMMA AgentStatus ==
  ASSUME NEW old \in AgentRecords, NEW phase \in ChildPhases
  PROVE  /\ WithStatus(old, phase) \in AgentRecords
         /\ WithStatus(old, phase).obs = old.gen
         /\ WithStatus(old, phase).phase = phase
         /\ WithStatus(old, phase).gen = old.gen
         /\ WithStatus(old, phase).fleetGen = old.fleetGen
<1>1. old.gen \in Nat
  BY BoundsAssumption DEF AgentRecords
<1>2. \A n \in Nat : [old EXCEPT !.phase = phase, !.obs = n] \in AgentRecords
  BY DEF AgentRecords
<1>3. WithStatus(old, phase) \in AgentRecords
  BY <1>1, <1>2 DEF WithStatus
<1> QED
  BY <1>3 DEF AgentRecords, WithStatus

\* Whether a Fleet matches depends on its provenance only.
LEMMA FleetMatchesKept ==
  ASSUME UNCHANGED <<mission.gen, mission.templated, template>>,
         UNCHANGED <<fleet.gen, fleet.missionGen, fleet.templateGen, fleet.templated>>
  PROVE  FleetMatches' <=> FleetMatches
BY DEF FleetMatches, TemplateMissing

\* Steps that leave Mission, Fleet and Agents alone, and advance the attempts
\* without undoing the success of an AgentRun.
LEMMA AttemptsAdvance ==
  ASSUME HierarchyInvariant, UNCHANGED <<mission, template, edits, fleet, agent>>,
         index' \in IndexPhases,
         at' \in [Planes -> 1..9],
         attempt' \in [Agents -> AttemptRecords],
         \A a \in Agents : attempt[a].run = "Succeeded" => attempt'[a].run = "Succeeded"
  PROVE  HierarchyInvariant'
<1> USE DEF HierarchyInvariant
<1>1. TypeOK' /\ StatusesBehind' /\ MissionCounted'
  BY DEF TypeOK, StatusesBehind, MissionCounted
<1>2. FleetCounted' /\ AgentsCounted'
  BY FleetMatchesKept DEF FleetCounted, AgentsCounted
<1>3. AgentSuccessEarned'
  BY DEF AgentSuccessEarned, IsCurrent
<1>4. SuccessIsEarned'
  BY DEF SuccessIsEarned, IsCurrent, TypeOK, FleetRecords
<1> QED
  BY <1>1, <1>2, <1>3, <1>4

-----------------------------------------------------------------------------
(* Writes of the Mission and the Fleet.                                    *)

LEMMA MissionWritten ==
  ASSUME HierarchyInvariant, NEW phase \in MissionPhases,
         mission' = WithStatus(mission, phase),
         UNCHANGED <<template, edits, fleet, agent, attempt, index>>,
         at' \in [Planes -> 1..9]
  PROVE  HierarchyInvariant'
<1> USE DEF HierarchyInvariant
<1>1. TypeOK' /\ StatusesBehind' /\ MissionCounted'
  BY MissionStatus DEF TypeOK, StatusesBehind, MissionCounted
<1>2. FleetCounted' /\ AgentsCounted'
  BY FleetMatchesKept, MissionStatus DEF FleetCounted, AgentsCounted
<1>3. AgentSuccessEarned' /\ SuccessIsEarned'
  BY DEF AgentSuccessEarned, SuccessIsEarned, IsCurrent
<1> QED
  BY <1>1, <1>2, <1>3

\* The applied Fleet matches, and its status speaks of an earlier generation.
LEMMA FleetApplied ==
  ASSUME HierarchyInvariant, ~FleetMatches, ~TemplateMissing,
         fleet' = DesiredFleet,
         mission' = mission \/ mission' = WithStatus(mission, "Reconciling"),
         UNCHANGED <<template, edits, agent, attempt, index>>,
         at' \in [Planes -> 1..9]
  PROVE  HierarchyInvariant'
<1> USE DEF HierarchyInvariant
<1>1. /\ mission' \in MissionRecords
      /\ mission'.gen = mission.gen /\ mission'.query = mission.query
      /\ mission'.templated = mission.templated
  BY MissionStatus DEF TypeOK, MissionPhases
<1>2. /\ fleet' \in FleetRecords
      /\ fleet'.gen = fleet.gen + 1 /\ fleet'.obs = fleet.obs
      /\ fleet'.missionGen = mission.gen /\ fleet'.templated = mission.templated
      /\ mission.templated => fleet'.templateGen = template.gen
  <2> DEFINE g == fleet.gen + 1
             m == mission.gen
             t == IF mission.templated THEN template.gen ELSE fleet.templateGen
             n == IF mission.templated THEN template.agents ELSE {DefaultAgent}
             d == [fleet EXCEPT !.gen = g, !.missionGen = m, !.templated = mission.templated,
                                !.templateGen = t, !.agents = n]
  <2>1. g \in 0..(MaxEdits + 1) /\ g = fleet.gen + 1
    BY BoundsAssumption DEF TypeOK, FleetRecords, FleetCounted
  <2>2. m \in Nat /\ mission.templated \in BOOLEAN
    BY BoundsAssumption DEF TypeOK, MissionRecords, Generations
  <2>3. t \in Nat /\ (mission.templated => t = template.gen)
    BY DEF TypeOK, FleetRecords
  <2>4. n \in SUBSET Agents
    BY NamesAssumption DEF TypeOK
  <2>5. fleet' = d
    BY DEF DesiredFleet
  <2>6. fleet \in FleetRecords
    BY DEF TypeOK
  <2> HIDE DEF g, m, t, n
  <2>7. d \in FleetRecords
    BY <2>1, <2>2, <2>3, <2>4, <2>6 DEF FleetRecords
  <2>8. d.gen = g /\ d.obs = fleet.obs /\ d.missionGen = m /\ d.templateGen = t
        /\ d.templated = mission.templated
    BY <2>6 DEF FleetRecords
  <2> QED
    BY <2>1, <2>3, <2>5, <2>7, <2>8 DEF m
<1>3. fleet.gen \in Nat /\ fleet.obs \in Nat
  BY BoundsAssumption DEF TypeOK, FleetRecords
<1>4. TypeOK' /\ StatusesBehind' /\ MissionCounted'
  BY <1>1, <1>2, <1>3 DEF TypeOK, StatusesBehind, MissionCounted
<1>5. FleetCounted'
  <2>1. FleetMatches'
    BY <1>1, <1>2, <1>3 DEF FleetMatches, TemplateMissing
  <2> QED
    BY <1>2, <1>3, <2>1, BoundsAssumption DEF FleetCounted, TypeOK
<1>6. AgentsCounted'
  <2> SUFFICES ASSUME NEW a \in Agents PROVE agent[a].fleetGen <= fleet'.gen
    BY DEF AgentsCounted
  <2> QED
    BY <1>2, <1>3 DEF AgentsCounted, TypeOK, AgentRecords
<1>7. AgentSuccessEarned'
  BY DEF AgentSuccessEarned, IsCurrent
<1>8. SuccessIsEarned'
  <2>1. fleet'.obs # fleet'.gen
    BY <1>2, <1>3 DEF StatusesBehind
  <2> QED
    BY <2>1 DEF SuccessIsEarned, IsCurrent
<1> QED
  BY <1>4, <1>5, <1>6, <1>7, <1>8

\* The Fleet's success, when it is written, is earned.
LEMMA FleetWritten ==
  ASSUME HierarchyInvariant, NEW phase \in ChildPhases,
         fleet' = WithStatus(fleet, phase),
         UNCHANGED <<mission, template, edits, agent, attempt, index>>,
         at' \in [Planes -> 1..9],
         phase = "Succeeded" =>
           \A a \in fleet.agents : agent[a].fleetGen = fleet.gen /\ attempt[a].run = "Succeeded"
  PROVE  HierarchyInvariant'
<1> USE DEF HierarchyInvariant
<1>1. TypeOK'
  BY FleetStatus DEF TypeOK
<1>2. fleet.gen \in Nat
  BY BoundsAssumption DEF TypeOK, FleetRecords
<1>3. StatusesBehind' /\ MissionCounted'
  BY <1>2, FleetStatus DEF StatusesBehind, MissionCounted
<1>4. FleetCounted' /\ AgentsCounted'
  BY FleetMatchesKept, FleetStatus DEF FleetCounted, AgentsCounted
<1>5. AgentSuccessEarned' /\ SuccessIsEarned'
  BY FleetStatus DEF AgentSuccessEarned, SuccessIsEarned, IsCurrent
<1> QED
  BY <1>1, <1>3, <1>4, <1>5

\* All desired Agents match and all owned Agents succeeded: the AgentRuns did.
LEMMA AllSucceeded ==
  ASSUME HierarchyInvariant, fleet.gen > 0, Outdated = {}, FleetPhase = "Succeeded"
  PROVE  \A a \in fleet.agents : agent[a].fleetGen = fleet.gen /\ attempt[a].run = "Succeeded"
<1> USE DEF HierarchyInvariant
<1> SUFFICES ASSUME NEW a \in fleet.agents
             PROVE  agent[a].fleetGen = fleet.gen /\ attempt[a].run = "Succeeded"
  OBVIOUS
<1>1. a \in Agents
  BY DEF TypeOK, FleetRecords
<1>2. agent[a].fleetGen = fleet.gen
  BY DEF Outdated
<1>3. a \in OwnedAgents
  BY <1>1, <1>2 DEF OwnedAgents, AgentsCounted, TypeOK, AgentRecords, FleetRecords
<1>4. agent[a].phase = "Succeeded" /\ IsCurrent(agent[a])
  BY <1>3 DEF FleetPhase
<1> QED
  BY <1>1, <1>2, <1>4 DEF AgentSuccessEarned

-----------------------------------------------------------------------------
(* Writes of the Agents and their attempts.                                *)

LEMMA NoAttemptTyped == NoAttempt \in AttemptRecords
BY BoundsAssumption DEF NoAttempt, AttemptRecords, RunPhases, ContextPhases, Generations

\* An applied Agent, with or without its status, answers the Fleet's generation
\* and reports no success.
LEMMA AgentApplied ==
  ASSUME HierarchyInvariant, fleet.gen > 0, NEW a \in Outdated,
         NEW r, r = AppliedAgent(a) \/ r = WithStatus(AppliedAgent(a), "Pending")
  PROVE  /\ r \in AgentRecords
         /\ r.gen = agent[a].gen + 1 /\ r.fleetGen = fleet.gen
         /\ r.gen <= fleet.gen /\ r.obs <= r.gen
         /\ ~(r.phase = "Succeeded" /\ IsCurrent(r))
<1> USE DEF HierarchyInvariant
<1> DEFINE g == agent[a].gen + 1
           f == fleet.gen
           d == [agent[a] EXCEPT !.gen = g, !.fleetGen = f]
<1>1. a \in Agents /\ agent[a].fleetGen # fleet.gen /\ agent[a] \in AgentRecords
  BY DEF Outdated, TypeOK, FleetRecords
<1>2. /\ g \in 0..(MaxEdits + 1) /\ g = agent[a].gen + 1 /\ g <= f
      /\ f \in Nat /\ f = fleet.gen
  <2>1. agent[a].gen \in Nat /\ agent[a].fleetGen \in Nat
    BY <1>1, BoundsAssumption DEF AgentRecords
  <2>2. fleet.gen \in Nat /\ fleet.gen <= MaxEdits + 1
    BY BoundsAssumption DEF TypeOK, FleetRecords
  <2>3. agent[a].gen <= agent[a].fleetGen /\ agent[a].fleetGen <= fleet.gen
    BY <1>1 DEF AgentsCounted
  <2> QED
    BY <1>1, <2>1, <2>2, <2>3, BoundsAssumption
<1>3. agent[a].obs \in Nat /\ agent[a].obs < g
  BY <1>1, BoundsAssumption DEF StatusesBehind, AgentRecords
<1>4. AppliedAgent(a) = d
  BY DEF AppliedAgent
<1> HIDE DEF g, f
<1>5. d \in AgentRecords /\ d.gen = g /\ d.fleetGen = f /\ d.obs = agent[a].obs
  BY <1>1, <1>2 DEF AgentRecords
<1> HIDE DEF d
<1>6. CASE r = AppliedAgent(a)
  BY <1>2, <1>3, <1>4, <1>5, <1>6 DEF IsCurrent
<1>7. CASE r = WithStatus(AppliedAgent(a), "Pending")
  BY <1>2, <1>4, <1>5, <1>7, AgentStatus DEF ChildPhases
<1> QED
  BY <1>6, <1>7

\* FleetController, whether it comes to the end of its Agents or not.
LEMMA AgentsApplied ==
  ASSUME HierarchyInvariant, fleet.gen > 0, ~Settled(fleet),
         NEW names \in SUBSET Outdated,
         agent' \in [Agents -> AgentRecords],
         \A a \in names :
           agent'[a] = AppliedAgent(a) \/ agent'[a] = WithStatus(AppliedAgent(a), "Pending"),
         \A a \in Agents \ names : agent'[a] = agent[a],
         attempt' = NewAttempts(names),
         fleet' = fleet \/ fleet' = WithStatus(fleet, "Running"),
         UNCHANGED <<mission, template, edits, index>>,
         at' \in [Planes -> 1..9]
  PROVE  HierarchyInvariant'
<1> USE DEF HierarchyInvariant
<1>1. /\ fleet' \in FleetRecords
      /\ fleet'.gen = fleet.gen /\ fleet'.missionGen = fleet.missionGen
      /\ fleet'.templateGen = fleet.templateGen /\ fleet'.templated = fleet.templated
      /\ fleet'.agents = fleet.agents
      /\ fleet'.obs <= fleet'.gen
      /\ ~(fleet'.phase = "Succeeded" /\ IsCurrent(fleet'))
  BY FleetStatus, BoundsAssumption
  DEF Settled, IsCurrent, StatusesBehind, TypeOK, FleetRecords, ChildPhases
<1>2. attempt' \in [Agents -> AttemptRecords]
  BY NoAttemptTyped DEF NewAttempts, TypeOK
<1>3. TypeOK' /\ MissionCounted'
  BY <1>1, <1>2 DEF TypeOK, MissionCounted
<1>4. FleetCounted'
  BY <1>1, FleetMatchesKept DEF FleetCounted
<1>5. \A a \in names : /\ agent'[a].gen = agent[a].gen + 1 /\ agent'[a].fleetGen = fleet.gen
                       /\ agent'[a].gen <= fleet.gen /\ agent'[a].obs <= agent'[a].gen
                       /\ ~(agent'[a].phase = "Succeeded" /\ IsCurrent(agent'[a]))
  <2> SUFFICES ASSUME NEW a \in names
               PROVE  /\ agent'[a].gen = agent[a].gen + 1 /\ agent'[a].fleetGen = fleet.gen
                      /\ agent'[a].gen <= fleet.gen /\ agent'[a].obs <= agent'[a].gen
                      /\ ~(agent'[a].phase = "Succeeded" /\ IsCurrent(agent'[a]))
    OBVIOUS
  <2> QED
    BY AgentApplied
<1>6. StatusesBehind'
  BY <1>1, <1>5 DEF StatusesBehind
<1>7. AgentsCounted'
  <2> SUFFICES ASSUME NEW a \in Agents
               PROVE  /\ agent'[a].gen <= agent'[a].fleetGen
                      /\ agent'[a].fleetGen <= fleet'.gen
                      /\ agent'[a].gen = 0 => agent'[a].fleetGen = 0
    BY DEF AgentsCounted
  <2>1. CASE a \in names
    BY <1>1, <1>5, <2>1, BoundsAssumption DEF TypeOK, AgentRecords, FleetRecords
  <2>2. CASE a \notin names
    BY <1>1, <2>2 DEF AgentsCounted
  <2> QED
    BY <2>1, <2>2
<1>8. AgentSuccessEarned'
  <2> SUFFICES ASSUME NEW a \in Agents, agent'[a].phase = "Succeeded", IsCurrent(agent'[a])
               PROVE  attempt'[a].run = "Succeeded"
    BY DEF AgentSuccessEarned, IsCurrent
  <2>1. a \notin names
    BY <1>5
  <2>2. agent'[a] = agent[a] /\ attempt'[a] = attempt[a]
    BY <2>1 DEF NewAttempts
  <2> QED
    BY <2>2 DEF AgentSuccessEarned
<1>9. SuccessIsEarned'
  BY <1>1 DEF SuccessIsEarned, IsCurrent
<1> QED
  BY <1>3, <1>4, <1>6, <1>7, <1>8, <1>9

\* What AgentController does to an attempt keeps the success of its AgentRun.
LEMMA AttemptsEnsured ==
  ASSUME TypeOK, NEW runs, NEW contexts, attempt' = EnsuredAttempts(runs, contexts)
  PROVE  /\ attempt' \in [Agents -> AttemptRecords]
         /\ \A a \in Agents : attempt[a].run = "Succeeded" => attempt'[a].run = "Succeeded"
<1> SUFFICES ASSUME NEW a \in Agents
             PROVE  /\ attempt'[a] \in AttemptRecords
                    /\ attempt[a].run = "Succeeded" => attempt'[a].run = "Succeeded"
  BY DEF EnsuredAttempts
<1> DEFINE run == IF a \in runs THEN Ensured(attempt[a].run) ELSE attempt[a].run
           context == IF a \in contexts THEN EnsuredContext(attempt[a]) ELSE attempt[a].context
<1>1. attempt[a] \in AttemptRecords
  BY DEF TypeOK
<1>2. run \in RunPhases /\ (attempt[a].run = "Succeeded" => run = "Succeeded")
  BY <1>1 DEF AttemptRecords, Ensured, RunPhases
<1>3. context \in ContextPhases
  BY <1>1 DEF AttemptRecords, Ensured, EnsuredContext, ContextPhases
<1>4. attempt'[a] = [attempt[a] EXCEPT !.run = run, !.context = context]
  BY DEF EnsuredAttempts
<1> HIDE DEF run, context
<1> QED
  BY <1>1, <1>2, <1>3, <1>4 DEF AttemptRecords

LEMMA AgentPhaseTyped ==
  ASSUME NEW try \in AttemptRecords
  PROVE  /\ AgentPhase(try) \in ChildPhases
         /\ AgentPhase(try) = "Succeeded" => try.run = "Succeeded"
BY DEF AgentPhase, AttemptRecords, ChildPhases

\* AgentController, whether it comes to the end of its Agents or not.
LEMMA AgentsAggregated ==
  ASSUME HierarchyInvariant, NEW names \in SUBSET Agents,
         agent' = AggregatedAgents(names),
         NEW runs, NEW contexts, attempt' = EnsuredAttempts(runs, contexts),
         UNCHANGED <<mission, template, edits, fleet>>,
         index' \in IndexPhases,
         at' \in [Planes -> 1..9]
  PROVE  HierarchyInvariant'
<1> USE DEF HierarchyInvariant
<1>1. /\ attempt' \in [Agents -> AttemptRecords]
      /\ \A a \in Agents : attempt[a].run = "Succeeded" => attempt'[a].run = "Succeeded"
  BY AttemptsEnsured
<1>2. \A a \in names : /\ agent'[a] \in AgentRecords
                       /\ agent'[a].gen = agent[a].gen /\ agent'[a].obs = agent[a].gen
                       /\ agent'[a].fleetGen = agent[a].fleetGen
                       /\ agent'[a].phase = "Succeeded" => attempt[a].run = "Succeeded"
  <2> SUFFICES ASSUME NEW a \in names
               PROVE  /\ agent'[a] \in AgentRecords
                      /\ agent'[a].gen = agent[a].gen /\ agent'[a].obs = agent[a].gen
                      /\ agent'[a].fleetGen = agent[a].fleetGen
                      /\ agent'[a].phase = "Succeeded" => attempt[a].run = "Succeeded"
    OBVIOUS
  <2>1. agent[a] \in AgentRecords /\ attempt[a] \in AttemptRecords
    BY DEF TypeOK
  <2>2. agent'[a] = WithStatus(agent[a], AgentPhase(attempt[a]))
    BY DEF AggregatedAgents
  <2> QED
    BY <2>1, <2>2, AgentStatus, AgentPhaseTyped
<1>3. \A a \in Agents \ names : agent'[a] = agent[a]
  BY DEF AggregatedAgents
<1>4. agent' \in [Agents -> AgentRecords]
  <2>1. agent' = [a \in Agents |-> agent'[a]]
    BY DEF AggregatedAgents
  <2>2. \A a \in Agents : agent'[a] \in AgentRecords
    BY <1>2, <1>3 DEF TypeOK
  <2> QED
    BY <2>1, <2>2
<1>5. TypeOK' /\ MissionCounted'
  BY <1>1, <1>4 DEF TypeOK, MissionCounted
<1>6. StatusesBehind'
  <2> SUFFICES ASSUME NEW a \in Agents PROVE agent'[a].obs <= agent'[a].gen
    BY DEF StatusesBehind
  <2>1. agent[a].gen \in Nat
    BY BoundsAssumption DEF TypeOK, AgentRecords
  <2> QED
    BY <1>2, <1>3, <2>1 DEF StatusesBehind
<1>7. FleetCounted'
  BY FleetMatchesKept DEF FleetCounted
<1>8. AgentsCounted'
  BY <1>2, <1>3 DEF AgentsCounted
<1>9. AgentSuccessEarned'
  BY <1>1, <1>2, <1>3 DEF AgentSuccessEarned, IsCurrent
<1>10. SuccessIsEarned'
  BY <1>1, <1>2, <1>3 DEF SuccessIsEarned, IsCurrent, TypeOK, FleetRecords
<1> QED
  BY <1>5, <1>6, <1>7, <1>8, <1>9, <1>10

-----------------------------------------------------------------------------
(* The steps below the Agents, of AgentRuns and of users.                  *)

LEMMA ContextsAdvance ==
  ASSUME TypeOK, NEW chosen, attempt' = ContextsBuilt(chosen)
  PROVE  /\ attempt' \in [Agents -> AttemptRecords]
         /\ \A a \in Agents : attempt[a].run = "Succeeded" => attempt'[a].run = "Succeeded"
<1> SUFFICES ASSUME NEW a \in Agents
             PROVE  /\ attempt'[a] \in AttemptRecords
                    /\ attempt[a].run = "Succeeded" => attempt'[a].run = "Succeeded"
  BY DEF ContextsBuilt
<1>1. attempt[a] \in AttemptRecords
  BY DEF TypeOK
<1>2. mission.query \in Generations
  BY DEF TypeOK, MissionRecords
<1>3. BuiltContext(attempt[a]) \in AttemptRecords
  BY <1>1, <1>2 DEF BuiltContext, AttemptRecords, ContextPhases
<1>4. BuiltContext(attempt[a]).run = attempt[a].run
  BY <1>1 DEF BuiltContext, AttemptRecords
<1>5. attempt'[a] = attempt[a] \/ attempt'[a] = BuiltContext(attempt[a])
  BY DEF ContextsBuilt
<1> QED
  BY <1>1, <1>3, <1>4, <1>5

LEMMA RunsAdvance ==
  ASSUME TypeOK, NEW chosen, attempt' = RunsStarted(chosen)
  PROVE  /\ attempt' \in [Agents -> AttemptRecords]
         /\ \A a \in Agents : attempt[a].run = "Succeeded" => attempt'[a].run = "Succeeded"
<1> SUFFICES ASSUME NEW a \in Agents
             PROVE  /\ attempt'[a] \in AttemptRecords
                    /\ attempt[a].run = "Succeeded" => attempt'[a].run = "Succeeded"
  BY DEF RunsStarted
<1>1. attempt[a] \in AttemptRecords
  BY DEF TypeOK
<1>2. StartedRun(attempt[a]) \in AttemptRecords
  BY <1>1 DEF StartedRun, AttemptRecords, RunPhases
<1>3. attempt[a].run = "Succeeded" => StartedRun(attempt[a]) = attempt[a]
  BY DEF StartedRun
<1>4. attempt'[a] = attempt[a] \/ attempt'[a] = StartedRun(attempt[a])
  BY DEF RunsStarted
<1> QED
  BY <1>1, <1>2, <1>3, <1>4

\* An AgentRun that has succeeded does not move.
LEMMA RunMoved ==
  ASSUME TypeOK, NEW a \in Agents, NEW from \in RunPhases \ {"Succeeded"}, NEW to \in RunPhases,
         RunMoves(a, from, to)
  PROVE  /\ attempt' \in [Agents -> AttemptRecords]
         /\ \A b \in Agents : attempt[b].run = "Succeeded" => attempt'[b].run = "Succeeded"
BY DEF TypeOK, RunMoves, AttemptRecords

\* A change of the Mission or its template pays for one generation of the Fleet.
LEMMA Edited ==
  ASSUME HierarchyInvariant, Edit,
         mission' \in MissionRecords, mission'.gen <= edits + 2, mission'.query <= mission'.gen,
         template' \in [gen : Nat, agents : SUBSET Agents],
         UNCHANGED <<fleet, agent, attempt, index, at>>
  PROVE  HierarchyInvariant'
<1> USE DEF HierarchyInvariant
<1>1. edits \in Nat /\ edits' = edits + 1 /\ edits' \in 0..MaxEdits
  BY BoundsAssumption DEF Edit, TypeOK
<1>2. fleet.gen \in Nat
  BY BoundsAssumption DEF TypeOK, FleetRecords
<1>3. mission'.gen \in Nat
  BY BoundsAssumption DEF MissionRecords, Generations
<1>4. TypeOK' /\ StatusesBehind' /\ MissionCounted'
  BY <1>1, <1>3 DEF TypeOK, StatusesBehind, MissionCounted
<1>5. FleetCounted' /\ AgentsCounted'
  BY <1>1, <1>2 DEF FleetCounted, AgentsCounted
<1>6. AgentSuccessEarned' /\ SuccessIsEarned'
  BY DEF AgentSuccessEarned, SuccessIsEarned, IsCurrent
<1> QED
  BY <1>4, <1>5, <1>6

-----------------------------------------------------------------------------
(* The invariant is inductive.                                             *)

LEMMA InitInvariant == Init => HierarchyInvariant
<1> SUFFICES ASSUME Init PROVE HierarchyInvariant
  OBVIOUS
<1>1. TypeOK
  BY NoAttemptTyped, BoundsAssumption
  DEF Init, TypeOK, MissionRecords, FleetRecords, AgentRecords, Generations, MissionPhases,
      ChildPhases, IndexPhases
<1> QED
  BY <1>1
  DEF Init, HierarchyInvariant, StatusesBehind, MissionCounted, FleetCounted, AgentsCounted,
      AgentSuccessEarned, SuccessIsEarned, IsCurrent

LEMMA ReconcileKeeps ==
  ASSUME HierarchyInvariant, NEW c \in Planes, Reconcile(c)
  PROVE  HierarchyInvariant'
<1>1. TypeOK
  BY DEF HierarchyInvariant
<1>2. fleet \in FleetRecords /\ index \in IndexPhases
  BY <1>1 DEF TypeOK
<1>3. CASE SkipMission(c)
  BY <1>1, <1>2, <1>3, CycleTyped, AttemptsAdvance DEF SkipMission, desired, TypeOK
<1>4. CASE AggregateFleet(c)
  <2>1. MissionPhaseOf(fleet.phase) \in MissionPhases
    BY <1>2 DEF MissionPhaseOf, MissionPhases
  <2> QED
    BY <1>1, <1>4, <2>1, CycleTyped, MissionWritten DEF AggregateFleet
<1>5. CASE RejectMission(c)
  BY <1>1, <1>5, CycleTyped, MissionWritten DEF RejectMission, MissionPhases
<1>6. CASE ApplyFleet(c)
  BY <1>1, <1>6, CycleTyped, FleetApplied DEF ApplyFleet
<1>7. CASE SkipFleet(c)
  BY <1>1, <1>2, <1>7, CycleTyped, AttemptsAdvance DEF SkipFleet, desired, TypeOK
<1>8. CASE FailFleet(c)
  BY <1>1, <1>8, CycleTyped, FleetWritten DEF FailFleet, desired, ChildPhases
<1>9. CASE ApplyAgents(c)
  <2>1. \A a \in Outdated : a \in Agents
    BY <1>2 DEF Outdated, FleetRecords
  <2>2. \A a \in Outdated : agent'[a] = WithStatus(AppliedAgent(a), "Pending")
    BY <1>9, <2>1 DEF ApplyAgents, ScheduledAgents
  <2>3. \A a \in Agents \ Outdated : agent'[a] = agent[a]
    BY <1>9 DEF ApplyAgents, ScheduledAgents
  <2>4. agent' \in [Agents -> AgentRecords]
    <3>1. agent' = [a \in Agents |-> agent'[a]]
      BY <1>9 DEF ApplyAgents, ScheduledAgents
    <3>2. \A a \in Agents : agent'[a] \in AgentRecords
      BY <1>1, <1>9, <2>2, <2>3, AgentApplied DEF ApplyAgents, TypeOK
    <3> QED
      BY <3>1, <3>2
  <2> QED
    BY <1>1, <1>9, <2>2, <2>3, <2>4, CycleTyped, AgentsApplied DEF ApplyAgents, desired
<1>10. CASE AggregateAgents(c)
  <2>1. FleetPhase \in ChildPhases
    BY DEF FleetPhase, ChildPhases
  <2> QED
    BY <1>1, <1>10, <2>1, CycleTyped, AllSucceeded, FleetWritten DEF AggregateAgents, desired
<1>11. CASE AgentPass(c)
  <2>1. index' \in IndexPhases
    BY <1>2, <1>11 DEF AgentPass, EnsuredIndex, Ensured, IndexPhases
  <2>2. Unsettled \in SUBSET Agents
    BY DEF Unsettled, OwnedAgents
  <2> QED
    BY <1>1, <1>11, <2>1, <2>2, CycleTyped, AgentsAggregated DEF AgentPass, desired
<1>12. CASE IndexPass(c)
  <2>1. index' \in IndexPhases
    BY <1>2, <1>12 DEF IndexPass, IndexPhases
  <2> QED
    BY <1>1, <1>12, <2>1, CycleTyped, AttemptsAdvance DEF IndexPass, desired, TypeOK
<1>13. CASE ContextPass(c)
  BY <1>1, <1>2, <1>13, CycleTyped, ContextsAdvance, AttemptsAdvance DEF ContextPass, desired
<1>14. CASE SchedulePass(c)
  BY <1>1, <1>2, <1>14, CycleTyped, RunsAdvance, AttemptsAdvance DEF SchedulePass, desired
<1> QED
  BY <1>3, <1>4, <1>5, <1>6, <1>7, <1>8, <1>9, <1>10, <1>11, <1>12, <1>13, <1>14
  DEF Reconcile, MissionPass, FleetPass

LEMMA DeathKeeps ==
  ASSUME HierarchyInvariant, NEW c \in Planes, ControlPlaneDies(c)
  PROVE  HierarchyInvariant'
<1>1. TypeOK
  BY DEF HierarchyInvariant
<1>2. fleet \in FleetRecords /\ index \in IndexPhases
  BY <1>1 DEF TypeOK
<1>3. CASE DieAfterFleet(c)
  BY <1>1, <1>3, CycleTyped, FleetApplied DEF DieAfterFleet, desired
<1>4. CASE DieAmongAgents(c)
  <2>1. PICK names \in SUBSET Outdated :
          \/ /\ agent' = ScheduledAgents(names)
             /\ attempt' = NewAttempts(names)
          \/ \E last \in Outdated \ names :
               /\ agent' = [ScheduledAgents(names) EXCEPT ![last] = AppliedAgent(last)]
               /\ attempt' = NewAttempts(names \cup {last})
    BY <1>4 DEF DieAmongAgents
  <2>2. PICK done \in SUBSET Outdated :
          /\ attempt' = NewAttempts(done)
          /\ agent' = [a \in Agents |-> agent'[a]]
          /\ \A a \in done :
               agent'[a] = AppliedAgent(a) \/ agent'[a] = WithStatus(AppliedAgent(a), "Pending")
          /\ \A a \in Agents \ done : agent'[a] = agent[a]
    <3>1. Outdated \subseteq Agents
      BY <1>2 DEF Outdated, FleetRecords
    <3>2. CASE agent' = ScheduledAgents(names) /\ attempt' = NewAttempts(names)
      <4> WITNESS names \in SUBSET Outdated
      <4> QED
        BY <3>1, <3>2 DEF ScheduledAgents
    <3>3. CASE \E last \in Outdated \ names :
                 /\ agent' = [ScheduledAgents(names) EXCEPT ![last] = AppliedAgent(last)]
                 /\ attempt' = NewAttempts(names \cup {last})
      <4>1. PICK last \in Outdated \ names :
              /\ agent' = [ScheduledAgents(names) EXCEPT ![last] = AppliedAgent(last)]
              /\ attempt' = NewAttempts(names \cup {last})
        BY <3>3
      <4>2. names \cup {last} \in SUBSET Outdated
        BY <4>1
      <4> WITNESS names \cup {last} \in SUBSET Outdated
      <4> QED
        BY <3>1, <4>1 DEF ScheduledAgents
    <3> QED
      BY <2>1, <3>2, <3>3
  <2>3. fleet.gen > 0 /\ ~Settled(fleet)
    BY <1>4 DEF DieAmongAgents
  <2>4. agent' \in [Agents -> AgentRecords]
    <3>1. \A a \in Agents : agent'[a] \in AgentRecords
      BY <1>1, <2>2, <2>3, AgentApplied DEF TypeOK
    <3> QED
      BY <2>2, <3>1
  <2> QED
    BY <1>1, <1>4, <2>2, <2>3, <2>4, CycleTyped, AgentsApplied DEF DieAmongAgents, desired
<1>5. CASE DieAmongAttempts(c)
  <2>1. PICK names \in SUBSET Unsettled :
          /\ agent' = AggregatedAgents(names)
          /\ \E runs, contexts : attempt' = EnsuredAttempts(runs, contexts)
          /\ index' \in {index, EnsuredIndex}
    BY <1>5 DEF DieAmongAttempts
  <2>2. index' \in IndexPhases
    BY <1>2, <2>1 DEF EnsuredIndex, Ensured, IndexPhases
  <2>3. names \in SUBSET Agents
    BY DEF Unsettled, OwnedAgents
  <2> QED
    BY <1>1, <1>5, <2>1, <2>2, <2>3, CycleTyped, AgentsAggregated DEF DieAmongAttempts, desired
<1>6. CASE DieAmongContexts(c)
  BY <1>1, <1>2, <1>6, CycleTyped, ContextsAdvance, AttemptsAdvance
  DEF DieAmongContexts, desired
<1>7. CASE DieAmongRuns(c)
  BY <1>1, <1>2, <1>7, CycleTyped, RunsAdvance, AttemptsAdvance DEF DieAmongRuns, desired
<1>8. CASE DieBetweenPasses(c)
  BY <1>1, <1>2, <1>8, CycleTyped, AttemptsAdvance DEF DieBetweenPasses, desired, TypeOK
<1> QED
  BY <1>3, <1>4, <1>5, <1>6, <1>7, <1>8 DEF ControlPlaneDies

LEMMA RunKeeps ==
  ASSUME HierarchyInvariant, NEW a \in Agents, RunActs(a)
  PROVE  HierarchyInvariant'
<1>1. TypeOK
  BY DEF HierarchyInvariant
<1>2. PICK from \in RunPhases \ {"Succeeded"}, to \in RunPhases : RunMoves(a, from, to)
  BY DEF RunActs, RunWaits, RunResumes, RunEnds, RunEndsUnasked, RunIsRejected, RunIsFailed, RunIsRevived,
         RunPhases
<1> QED
  BY <1>1, <1>2, RunMoved, AttemptsAdvance DEF RunMoves, desired, TypeOK

LEMMA UserKeeps ==
  ASSUME HierarchyInvariant, UserActs
  PROVE  HierarchyInvariant'
<1>1. TypeOK /\ MissionCounted
  BY DEF HierarchyInvariant
<1>2. /\ mission \in MissionRecords
      /\ mission.gen \in Nat /\ mission.query \in Nat /\ edits \in Nat
      /\ mission.gen <= edits + 1 /\ mission.query <= mission.gen
  BY <1>1, BoundsAssumption DEF TypeOK, MissionRecords, Generations, MissionCounted
<1>3. CASE EditMission
  <2>1. PICK t \in BOOLEAN, q \in {mission.query, mission.gen + 1} :
          mission' = [mission EXCEPT !.gen = @ + 1, !.templated = t, !.query = q]
    BY <1>3 DEF EditMission
  <2> DEFINE g == mission.gen + 1
             d == [mission EXCEPT !.gen = g, !.templated = t, !.query = q]
  <2>2. g \in Generations /\ q \in Generations /\ q <= g /\ g <= edits + 2
    BY <1>1, <1>2, <1>3, BoundsAssumption
    DEF EditMission, Edit, TypeOK, MissionRecords, Generations
  <2>3. mission' = d
    BY <2>1
  <2> HIDE DEF g
  <2>4. d \in MissionRecords /\ d.gen = g /\ d.query = q
    BY <1>2, <2>2 DEF MissionRecords
  <2> QED
    BY <1>1, <1>3, <2>2, <2>3, <2>4, Edited DEF EditMission, TypeOK
<1>4. CASE ApplyTemplate
  BY <1>1, <1>2, <1>4, Edited DEF ApplyTemplate, TypeOK
<1>5. CASE DeleteTemplate
  BY <1>1, <1>2, <1>5, Edited DEF DeleteTemplate, TypeOK
<1> QED
  BY <1>3, <1>4, <1>5 DEF UserActs

LEMMA StepInvariant == HierarchyInvariant /\ [Next]_vars => HierarchyInvariant'
<1> SUFFICES ASSUME HierarchyInvariant, [Next]_vars PROVE HierarchyInvariant'
  OBVIOUS
<1>1. CASE Next
  BY <1>1, ReconcileKeeps, DeathKeeps, RunKeeps, UserKeeps DEF Next
<1>2. CASE UNCHANGED vars
  BY <1>2, AttemptsAdvance DEF vars, desired, HierarchyInvariant, TypeOK
<1> QED
  BY <1>1, <1>2

\* The inductive invariant holds throughout.
THEOREM InvariantHolds == Spec => []HierarchyInvariant
BY InitInvariant, StepInvariant, PTL DEF Spec

-----------------------------------------------------------------------------
(* What follows.                                                           *)

\* Every variable keeps its type: the generations of Fleet and Agents are
\* bounded by the changes that users make, whatever crashes and overlaps.
THEOREM HierarchyTyped == Spec => []TypeOK
<1>1. HierarchyInvariant => TypeOK
  BY DEF HierarchyInvariant
<1> QED
  BY <1>1, InvariantHolds, PTL

\* A Fleet that reports success of its present generation has earned it.
THEOREM SuccessIsEarnedAlways == Spec => []SuccessIsEarned
<1>1. HierarchyInvariant => SuccessIsEarned
  BY DEF HierarchyInvariant
<1> QED
  BY <1>1, InvariantHolds, PTL

\* No Agent has more AgentRuns than there were changes of desired state, and one.
THEOREM AttemptsAnswerEditsAlways == Spec => []AttemptsAnswerEdits
<1>1. HierarchyInvariant => AttemptsAnswerEdits
  <2> SUFFICES ASSUME HierarchyInvariant, NEW a \in Agents PROVE agent[a].gen <= edits + 1
    BY DEF AttemptsAnswerEdits
  <2>1. agent[a] \in AgentRecords /\ fleet \in FleetRecords /\ edits \in 0..MaxEdits
    BY DEF HierarchyInvariant, TypeOK
  <2>2. agent[a].gen \in Nat /\ agent[a].fleetGen \in Nat /\ fleet.gen \in Nat /\ edits \in Nat
    BY <2>1, BoundsAssumption DEF AgentRecords, FleetRecords
  <2>3. /\ agent[a].gen <= agent[a].fleetGen /\ agent[a].fleetGen <= fleet.gen
        /\ fleet.gen <= edits + 1
    BY DEF HierarchyInvariant, AgentsCounted, FleetCounted
  <2> QED
    BY <2>2, <2>3
<1> QED
  BY <1>1, InvariantHolds, PTL
-----------------------------------------------------------------------------
(* The lives of AgentRuns.                                                 *)

OneLife(a) == Lives(a) \/ Created(a) \/ Replaced(a)

\* A step of an AgentRun itself is a move of its life.
LEMMA MovesAreLives ==
  ASSUME TypeOK, NEW a \in Agents, RunActs(a), NEW b \in Agents
  PROVE  OneLife(b)
<1>1. agent' = agent /\ attempt \in [Agents -> AttemptRecords]
  BY DEF RunActs, RunWaits, RunResumes, RunEnds, RunEndsUnasked, RunIsRejected, RunIsFailed,
         RunIsRevived, RunMoves, TypeOK
<1>2. CASE a # b
  <2>1. attempt'[b].run = attempt[b].run
    BY <1>1, <1>2 DEF RunActs, RunWaits, RunResumes, RunEnds, RunEndsUnasked, RunIsRejected,
                      RunIsFailed, RunIsRevived, RunMoves
  <2> QED
    BY <1>1, <2>1 DEF OneLife, Lives
<1>3. CASE a = b
  <2>1. \A from, to : RunMoves(b, from, to) => attempt[b].run = from /\ attempt'[b].run = to
    BY <1>1 DEF RunMoves, AttemptRecords
  <2>2. Life(b)!Next
    BY <1>3, <2>1 DEF RunActs, RunWaits, RunResumes, RunEnds, RunEndsUnasked, RunIsRejected,
                 RunIsFailed, RunIsRevived, Life!Next, Life!Moves, Life!Ask, Life!Resume, Life!End,
                 Life!EndUnasked, Life!FailWaiting, Life!FailUndecided, Life!RejectLate, Life!Revive
  <2> QED
    BY <1>1, <2>2 DEF OneLife, Lives
<1> QED
  BY <1>2, <1>3

\* AgentController creates the AgentRuns that are absent, and no others.
LEMMA EnsuredLives ==
  ASSUME TypeOK, NEW names, NEW runs, NEW contexts,
         agent' = AggregatedAgents(names), attempt' = EnsuredAttempts(runs, contexts),
         NEW a \in Agents
  PROVE  OneLife(a)
<1>1. attempt[a] \in AttemptRecords /\ agent[a] \in AgentRecords
  BY DEF TypeOK
<1>2. agent'[a].gen = agent[a].gen
  <2>1. agent'[a] = agent[a] \/ agent'[a] = WithStatus(agent[a], AgentPhase(attempt[a]))
    BY DEF AggregatedAgents
  <2>2. AgentPhase(attempt[a]) \in ChildPhases
    BY <1>1, AgentPhaseTyped
  <2>3. WithStatus(agent[a], AgentPhase(attempt[a])).gen = agent[a].gen
    BY <1>1, <2>2, AgentStatus
  <2> QED
    BY ONLY <2>1, <2>3
<1> DEFINE run == IF a \in runs THEN Ensured(attempt[a].run) ELSE attempt[a].run
           context == IF a \in contexts THEN EnsuredContext(attempt[a]) ELSE attempt[a].context
<1>3. attempt'[a] = [attempt[a] EXCEPT !.run = run, !.context = context]
  BY Zenon DEF EnsuredAttempts
<1>4. run = attempt[a].run \/ (attempt[a].run = "Absent" /\ run = "Pending")
  BY DEF Ensured
<1> HIDE DEF run, context
<1>5. attempt'[a].run = run
  BY <1>1, <1>3 DEF AttemptRecords
<1> QED
  BY <1>2, <1>4, <1>5 DEF OneLife, Lives, Created

\* What is not applied keeps its AgentRun; what is applied gives it up.
LEMMA AppliedLives ==
  ASSUME TypeOK, NEW names \in SUBSET Agents, NEW a \in Agents,
         attempt' = NewAttempts(names),
         a \in names =>
           agent'[a] = AppliedAgent(a) \/ agent'[a] = WithStatus(AppliedAgent(a), "Pending"),
         a \notin names => agent'[a] = agent[a]
  PROVE  OneLife(a)
<1>1. agent[a] \in AgentRecords
  BY DEF TypeOK
<1>2. CASE a \in names
  <2> DEFINE d == [agent[a] EXCEPT !.gen = @ + 1, !.fleetGen = fleet.gen]
  <2>1. d.gen = agent[a].gen + 1 /\ WithStatus(d, "Pending").gen = d.gen
    BY <1>1 DEF AgentRecords, WithStatus
  <2>2. agent'[a].gen = agent[a].gen + 1
    BY <1>2, <2>1 DEF AppliedAgent
  <2>3. attempt'[a].run = "Absent"
    BY <1>2 DEF NewAttempts, NoAttempt
  <2> QED
    BY <2>2, <2>3 DEF OneLife, Replaced
<1>3. CASE a \notin names
  BY <1>3 DEF NewAttempts, OneLife, Lives
<1> QED
  BY <1>2, <1>3

\* ContextController does not touch the AgentRuns.
LEMMA ContextLives ==
  ASSUME TypeOK, NEW chosen, attempt' = ContextsBuilt(chosen), agent' = agent, NEW a \in Agents
  PROVE  OneLife(a)
<1>1. attempt[a] \in AttemptRecords
  BY DEF TypeOK
<1>2. BuiltContext(attempt[a]).run = attempt[a].run
  BY <1>1 DEF BuiltContext, AttemptRecords
<1>3. attempt'[a] = attempt[a] \/ attempt'[a] = BuiltContext(attempt[a])
  BY DEF ContextsBuilt
<1> QED
  BY <1>2, <1>3 DEF OneLife, Lives

\* AgentRunController schedules what is Pending.
LEMMA ScheduleLives ==
  ASSUME TypeOK, NEW chosen, attempt' = RunsStarted(chosen), agent' = agent, NEW a \in Agents
  PROVE  OneLife(a)
<1>1. attempt[a] \in AttemptRecords
  BY DEF TypeOK
<1>2. CASE attempt'[a] = attempt[a]
  BY <1>2 DEF OneLife, Lives
<1>3. CASE attempt'[a] # attempt[a]
  <2>1. attempt[a].run = "Pending" /\ attempt'[a] = [attempt[a] EXCEPT !.run = "Scheduled"]
    BY <1>3 DEF RunsStarted, StartedRun
  <2>2. attempt'[a].run = "Scheduled"
    BY <1>1, <2>1 DEF AttemptRecords
  <2>3. Life(a)!Next
    BY <2>1, <2>2 DEF Life!Next, Life!Schedule, Life!Moves
  <2> QED
    BY <2>3 DEF OneLife, Lives
<1> QED
  BY <1>2, <1>3

\* Every step of every process lets each AgentRun live its life.
LEMMA StepLives ==
  ASSUME TypeOK, [Next]_vars, NEW a \in Agents
  PROVE  OneLife(a)
<1>1. CASE UNCHANGED <<agent, attempt>>
  BY <1>1 DEF OneLife, Lives
<1>2. ASSUME NEW c \in Planes, Reconcile(c)
      PROVE  OneLife(a)
  <2>1. CASE MissionPass(c) \/ SkipFleet(c) \/ FailFleet(c) \/ AggregateAgents(c) \/ IndexPass(c)
    BY <1>1, <2>1 DEF MissionPass, SkipMission, AggregateFleet, RejectMission, ApplyFleet,
                      SkipFleet, FailFleet, AggregateAgents, IndexPass
  <2>2. CASE ApplyAgents(c)
    <3>1. Outdated \subseteq Agents
      BY DEF Outdated, TypeOK, FleetRecords
    <3> QED
      BY <2>2, <3>1, AppliedLives DEF ApplyAgents, ScheduledAgents
  <2>3. CASE AgentPass(c)
    BY <2>3, EnsuredLives DEF AgentPass
  <2>4. CASE ContextPass(c)
    BY <2>4, ContextLives DEF ContextPass
  <2>5. CASE SchedulePass(c)
    BY <2>5, ScheduleLives DEF SchedulePass
  <2> QED
    BY <1>2, <2>1, <2>2, <2>3, <2>4, <2>5 DEF Reconcile, FleetPass
<1>3. ASSUME NEW c \in Planes, ControlPlaneDies(c)
      PROVE  OneLife(a)
  <2>1. CASE DieAfterFleet(c) \/ DieBetweenPasses(c)
    BY <1>1, <2>1 DEF DieAfterFleet, DieBetweenPasses
  <2>2. CASE DieAmongAgents(c)
    <3>1. Outdated \subseteq Agents
      BY DEF Outdated, TypeOK, FleetRecords
    <3>2. PICK names \in SUBSET Outdated :
            \/ /\ agent' = ScheduledAgents(names)
               /\ attempt' = NewAttempts(names)
            \/ \E last \in Outdated \ names :
                 /\ agent' = [ScheduledAgents(names) EXCEPT ![last] = AppliedAgent(last)]
                 /\ attempt' = NewAttempts(names \cup {last})
      BY <2>2 DEF DieAmongAgents
    <3>3. CASE agent' = ScheduledAgents(names) /\ attempt' = NewAttempts(names)
      BY <3>1, <3>3, AppliedLives DEF ScheduledAgents
    <3>4. ASSUME NEW last \in Outdated \ names,
                 agent' = [ScheduledAgents(names) EXCEPT ![last] = AppliedAgent(last)],
                 attempt' = NewAttempts(names \cup {last})
          PROVE  OneLife(a)
      <4>1. names \cup {last} \in SUBSET Agents
        BY <3>1
      <4>2. a \in names \cup {last} =>
              agent'[a] = AppliedAgent(a) \/ agent'[a] = WithStatus(AppliedAgent(a), "Pending")
        BY <3>1, <3>4 DEF ScheduledAgents
      <4>3. a \notin names \cup {last} => agent'[a] = agent[a]
        BY <3>1, <3>4 DEF ScheduledAgents
      <4> QED
        BY <3>4, <4>1, <4>2, <4>3, AppliedLives
    <3> QED
      BY <3>2, <3>3, <3>4
  <2>3. CASE DieAmongAttempts(c)
    BY <2>3, EnsuredLives DEF DieAmongAttempts
  <2>4. CASE DieAmongContexts(c)
    BY <2>4, ContextLives DEF DieAmongContexts
  <2>5. CASE DieAmongRuns(c)
    BY <2>5, ScheduleLives DEF DieAmongRuns
  <2> QED
    BY <1>3, <2>1, <2>2, <2>3, <2>4, <2>5 DEF ControlPlaneDies
<1>4. CASE UserActs
  <2>1. CASE EditMission
    BY <1>1, <2>1 DEF EditMission
  <2>2. CASE ApplyTemplate \/ DeleteTemplate
    BY <1>1, <2>2 DEF ApplyTemplate, DeleteTemplate
  <2> QED
    BY <1>4, <2>1, <2>2 DEF UserActs
<1>5. CASE UNCHANGED vars
  BY <1>1, <1>5 DEF vars
<1> QED
  BY <1>2, <1>3, <1>4, <1>5, MovesAreLives DEF Next

\* Whatever the control planes, the AgentRuns and the users do, an Agent's AgentRun is
\* created once per generation and moves only as AgentRunEngine was proved to move.
THEOREM OneLifePerGenerationHolds == Spec => OneLifePerGeneration
<1>1. TypeOK /\ [Next]_vars => [\A a \in Agents : Lives(a) \/ Created(a) \/ Replaced(a)]_<<agent, attempt>>
  <2> SUFFICES ASSUME TypeOK, [Next]_vars, NEW a \in Agents
               PROVE  Lives(a) \/ Created(a) \/ Replaced(a)
    OBVIOUS
  <2> QED
    BY StepLives DEF OneLife
<1> QED
  BY <1>1, HierarchyTyped, PTL DEF Spec, OneLifePerGeneration
=============================================================================
