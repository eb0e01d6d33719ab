-------------------------- MODULE ApprovalHandover --------------------------
(***************************************************************************)
(* How a run and its approvers hand over to each other: one AgentRun at    *)
(* one action that Policy guards with an Approval and that pauses the run  *)
(* (the write of its Artifact; the model call and the use of a declared    *)
(* tool go the same way).  AgentRunEngine takes this exchange in one step; *)
(* here every read and every write of the store is a step of its own, as   *)
(* it is between the operating system processes that share the database:   *)
(* control planes, and the commands that approve and reject.               *)
(*                                                                         *)
(* Approvals are found by the hash of the action, which names the run but  *)
(* not its uid: they outlive the run, and speak of the next of that name.  *)
(***************************************************************************)
EXTENDS Naturals, FiniteSets

CONSTANTS
  Workers,        \* processes that run a control plane
  Deciders,       \* processes that approve or reject
  Approvals,      \* the names Approvals may get
  NoApproval,     \* no name
  EarlyDecisions, \* whether approvers look for approvals before a run waits for them
  MaxCrashes,     \* bound on the deaths of workers
  MaxDeletions    \* bound on the deletions of the run

ASSUME NamesAssumption == NoApproval \notin Approvals /\ IsFiniteSet(Workers)
ASSUME BoundsAssumption ==
  EarlyDecisions \in BOOLEAN /\ MaxCrashes \in Nat /\ MaxDeletions \in Nat

VARIABLES
  run,       \* the AgentRun: phase, executionState, pendingApproval
  approval,  \* per name the phase of the Approval
  worker,    \* per worker where it is, the approval and the outcome it carries
  decider,   \* per decider where it is, its approval, decision and the phase it read
  performed, \* history: the guarded action has been performed
  disturbed, \* history: a decision was cut short, or the run deleted under it
  crashes,   \* deaths of workers so far
  deletions  \* deletions of the run so far

vars == <<run, approval, worker, decider, performed, disturbed, crashes, deletions>>

Over == {"Succeeded", "Failed"}
Decisions == {"Approved", "Rejected"}
States == {"Finalizing"} \cup Over

TypeOK ==
  /\ run \in [phase : States \cup {"Absent", "WaitingForApproval"}, state : States,
              pending : Approvals \cup {NoApproval}]
  /\ approval \in [Approvals -> {"None", "Pending"} \cup Decisions]
  /\ worker \in [Workers ->
       [at : {"idle", "asking", "creating", "marking", "pausing", "performing",
              "fencing", "settling"},
        approval : Approvals \cup {NoApproval}, outcome : Over]]
  /\ decider \in [Deciders ->
       [at : {"idle", "loaded", "recorded", "returning"},
        approval : Approvals \cup {NoApproval}, decision : Decisions, phase : States]]
  /\ performed \in BOOLEAN /\ disturbed \in BOOLEAN
  /\ crashes \in 0..MaxCrashes /\ deletions \in 0..MaxDeletions

NewRun == [phase |-> "Finalizing", state |-> "Finalizing", pending |-> NoApproval]
IdleWorker == [at |-> "idle", approval |-> NoApproval, outcome |-> "Failed"]
IdleDecider ==
  [at |-> "idle", approval |-> NoApproval, decision |-> "Rejected", phase |-> "Failed"]

Init ==
  /\ run = NewRun
  /\ approval = [a \in Approvals |-> "None"]
  /\ worker = [w \in Workers |-> IdleWorker]
  /\ decider = [d \in Deciders |-> IdleDecider]
  /\ performed = FALSE
  /\ disturbed = FALSE
  /\ crashes = 0
  /\ deletions = 0

-----------------------------------------------------------------------------
(* A worker: the engine at the guarded action. *)

In(phase) == {a \in Approvals : approval[a] = phase}
Asked == {a \in Approvals : approval[a] # "None"}

At(w, place) == worker[w].at = place
Goes(w, place) == worker' = [worker EXCEPT ![w].at = place]
Rests(w) == worker' = [worker EXCEPT ![w] = IdleWorker]

\* The run is where the action is due; it is asked about from here.
Enter(w) ==
  /\ At(w, "idle")
  /\ run.phase = "Finalizing"
  /\ Goes(w, "asking")
  /\ UNCHANGED <<run, approval, decider, performed, disturbed, crashes, deletions>>

\* Mutant: an approval that waits for its decision is not found again.
OpenOfNone == {}

\* _approval_for_action: an open approval is preferred to a decided one.
Open == In("Pending")

\* Mutant: whoever decided, the action goes ahead.
GrantingWhenDecided == In("Approved") \cup In("Rejected")

\* The approvals that let the action go ahead.
Granting == In("Approved")

\* An approval for the action is open: the run waits for that one.
Reuse(w) ==
  /\ At(w, "asking")
  /\ \E a \in Open : worker' = [worker EXCEPT ![w].at = "pausing", ![w].approval = a]
  /\ UNCHANGED <<run, approval, decider, performed, disturbed, crashes, deletions>>

Granted(w) ==
  /\ At(w, "asking")
  /\ Open = {}
  /\ Granting # {}
  /\ Goes(w, "performing")
  /\ UNCHANGED <<run, approval, decider, performed, disturbed, crashes, deletions>>

\* PolicyDenied fails the run.
Refused(w) ==
  /\ At(w, "asking")
  /\ Open = {} /\ Granting = {}
  /\ In("Rejected") # {}
  /\ worker' = [worker EXCEPT ![w].at = "fencing", ![w].outcome = "Failed"]
  /\ UNCHANGED <<run, approval, decider, performed, disturbed, crashes, deletions>>

NotAskedYet(w) ==
  /\ At(w, "asking")
  /\ Open = {} /\ Granting = {} /\ In("Rejected") = {}
  /\ Goes(w, "creating")
  /\ UNCHANGED <<run, approval, decider, performed, disturbed, crashes, deletions>>

\* The Approval is applied, with a name that is not in use.
CreateApproval(w) ==
  /\ At(w, "creating")
  /\ \E a \in Approvals \ Asked :
       /\ approval' = [approval EXCEPT ![a] = "Pending"]
       /\ worker' = [worker EXCEPT ![w].at = "marking", ![w].approval = a]
  /\ UNCHANGED <<run, decider, performed, disturbed, crashes, deletions>>

\* ... and its status is written once more, whatever it has become.
MarkPending(w) ==
  /\ At(w, "marking")
  /\ approval' = [approval EXCEPT ![worker[w].approval] = "Pending"]
  /\ Goes(w, "pausing")
  /\ UNCHANGED <<run, decider, performed, disturbed, crashes, deletions>>

\* _pause_agent_run: neither the run's phase nor the approval is looked at again.
PauseRun(w) ==
  /\ At(w, "pausing")
  /\ run' = IF run.phase = "Absent" THEN run
            ELSE [run EXCEPT !.phase = "WaitingForApproval", !.pending = worker[w].approval]
  /\ Rests(w)
  /\ UNCHANGED <<approval, decider, performed, disturbed, crashes, deletions>>

\* The Artifact is written and recorded.
Perform(w) ==
  /\ At(w, "performing")
  /\ performed' = TRUE
  /\ worker' = [worker EXCEPT ![w].at = "fencing", ![w].outcome = "Succeeded"]
  /\ UNCHANGED <<run, approval, decider, disturbed, crashes, deletions>>

\* _transition looks at the phase and then, in another session, writes it.
Fence(w) ==
  /\ At(w, "fencing")
  /\ IF run.phase = "Finalizing" THEN Goes(w, "settling") ELSE Rests(w)
  /\ UNCHANGED <<run, approval, decider, performed, disturbed, crashes, deletions>>

Settle(w) ==
  /\ At(w, "settling")
  /\ run' = IF run.phase = "Absent" THEN run
            ELSE [run EXCEPT !.phase = worker[w].outcome, !.state = worker[w].outcome]
  /\ Rests(w)
  /\ UNCHANGED <<approval, decider, performed, disturbed, crashes, deletions>>

Die(w) ==
  /\ crashes < MaxCrashes
  /\ ~At(w, "idle")
  /\ Rests(w)
  /\ crashes' = crashes + 1
  /\ UNCHANGED <<run, approval, decider, performed, disturbed, deletions>>

\* The AgentController creates a missing AgentRun again, under its old name, and
\* the run comes to the same action.
Recreate(w) ==
  /\ At(w, "idle")
  /\ run.phase = "Absent"
  /\ run' = NewRun
  /\ UNCHANGED <<approval, worker, decider, performed, disturbed, crashes, deletions>>

-----------------------------------------------------------------------------
(* A decider: one call of ApprovalService.approve or reject (terminate). *)

Is(d, place) == decider[d].at = place
Done(d) == decider' = [decider EXCEPT ![d] = IdleDecider]

\* An approver who goes by the run knows what it waits for.
Known(a) == EarlyDecisions \/ (run.phase = "WaitingForApproval" /\ run.pending = a)

\* _load_pending
Load(d, a, decision) ==
  /\ Is(d, "idle")
  /\ a \in In("Pending")
  /\ Known(a)
  /\ decider' = [decider EXCEPT ![d].at = "loaded", ![d].approval = a,
                                ![d].decision = decision]
  /\ UNCHANGED <<run, approval, worker, performed, disturbed, crashes, deletions>>

\* The decision is written, whatever the approval has become.
Record(d) ==
  /\ Is(d, "loaded")
  /\ approval' = [approval EXCEPT ![decider[d].approval] = decider[d].decision]
  /\ decider' = [decider EXCEPT ![d].at = "recorded"]
  /\ UNCHANGED <<run, worker, performed, disturbed, crashes, deletions>>

\* Mutant: an approved run keeps the phase it has.
PhaseAfterUnchanged(d) == IF decider[d].decision = "Approved" THEN run.phase ELSE "Failed"

\* An approved run returns to the phase its executionState names, also when it
\* is over; a rejected one has failed.
PhaseAfter(d) == IF decider[d].decision = "Approved" THEN run.state ELSE "Failed"

\* The run is read.
ReadRun(d) ==
  /\ Is(d, "recorded")
  /\ IF run.phase = "Absent" THEN Done(d)
     ELSE decider' = [decider EXCEPT ![d].at = "returning", ![d].phase = PhaseAfter(d)]
  /\ UNCHANGED <<run, approval, worker, performed, disturbed, crashes, deletions>>

\* ... and written; the executionState stays what it was.
WriteRun(d) ==
  /\ Is(d, "returning")
  /\ run' = IF run.phase = "Absent" THEN run
            ELSE [run EXCEPT !.phase = decider[d].phase, !.pending = NoApproval]
  /\ Done(d)
  /\ UNCHANGED <<approval, worker, performed, disturbed, crashes, deletions>>

\* The command dies; what it has recorded stays.
Abandon(d) ==
  /\ ~Is(d, "idle")
  /\ Done(d)
  /\ disturbed' = (disturbed \/ ~Is(d, "loaded"))
  /\ UNCHANGED <<run, approval, worker, performed, crashes, deletions>>

\* A user deletes the run; its approvals stay.
DeleteRun ==
  /\ deletions < MaxDeletions
  /\ run.phase # "Absent"
  /\ run' = [NewRun EXCEPT !.phase = "Absent"]
  /\ deletions' = deletions + 1
  /\ disturbed' = (disturbed \/ \E d \in Deciders : ~Is(d, "idle"))
  /\ UNCHANGED <<approval, worker, decider, performed, crashes>>

-----------------------------------------------------------------------------
(* The specification *)

WorkerStep(w) ==
  \/ Enter(w) \/ Reuse(w) \/ Granted(w) \/ Refused(w) \/ NotAskedYet(w)
  \/ CreateApproval(w) \/ MarkPending(w) \/ PauseRun(w)
  \/ Perform(w) \/ Fence(w) \/ Settle(w) \/ Recreate(w)

DeciderStep(d) == Record(d) \/ ReadRun(d) \/ WriteRun(d)

Next ==
  \/ \E w \in Workers : WorkerStep(w) \/ Die(w)
  \/ \E d \in Deciders :
       \/ \E a \in Approvals, decision \in Decisions : Load(d, a, decision)
       \/ DeciderStep(d)
       \/ Abandon(d)
  \/ DeleteRun

Spec == Init /\ [][Next]_vars

\* run_forever visits the run again and again, and a command that is not killed
\* comes to its end. Nobody need decide anything.
Fairness ==
  /\ \A w \in Workers : WF_vars(WorkerStep(w))
  /\ \A d \in Deciders : WF_vars(DeciderStep(d))

FairSpec == Spec /\ Fairness

-----------------------------------------------------------------------------
(* Properties *)

\* An action is asked for once, however often the worker dies between the
\* creation of the approval and the pause of the run, and however often the run
\* is created again; workers of several processes ask at most once each.
AskedOnce == Cardinality(Asked) <= Cardinality(Workers)

\* What was performed is approved for ever: no decision, and no write of the
\* status of an approval, takes back what the action relied on.
PerformedIsApproved == performed => In("Rejected") = {} /\ In("Approved") # {}

\* An approval that is granted takes the run to its end: the worker that paused
\* the run, the approver that resumes it and the next pass miss each other at no
\* point, unless the approver's command dies or the run is deleted meanwhile.
ApprovedRunEnds ==
  In("Approved") # {} ~> (run.phase \in Over \cup {"Absent"} \/ disturbed)
=============================================================================
