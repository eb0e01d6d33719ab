------------------------- MODULE AgentRunRefinement -------------------------
(***************************************************************************)
(* AgentRunEngine implements AgentRunLifecycle: what the AgentController   *)
(* sees of an AgentRun moves as MissionHierarchy lets it move.             *)
(***************************************************************************)
EXTENDS AgentRunEngine

\* An approval that names the run waits for its decision.
OpenApproval == \E g \in Guarded : approvals[g] = [phase |-> "Pending", bound |-> TRUE]

\* Mutant: a run waits only in the phase that says so.
SeenByPhase ==
  CASE phase = "Succeeded" -> "Succeeded"
    [] Terminal /\ phase # "Succeeded" -> IF OpenApproval THEN "Undecided" ELSE "Failed"
    [] phase = "WaitingForApproval" -> "WaitingForApproval"
    [] phase = "Pending" -> "Pending"
    [] OTHER -> "Scheduled"

\* What _aggregate_agent tells apart: the phases that are over come first, then
\* the pendingApproval, whatever phase it comes with.  That a failed run may
\* still be acted on is what the approvals add.
Seen ==
  CASE phase = "Succeeded" -> "Succeeded"
    [] Terminal /\ phase # "Succeeded" -> IF OpenApproval THEN "Undecided" ELSE "Failed"
    [] ~Terminal /\ (phase = "WaitingForApproval" \/ data.pending # NoAction) ->
         "WaitingForApproval"
    [] phase = "Pending" /\ data.pending = NoAction -> "Pending"
    [] OTHER -> "Scheduled"

Lifecycle == INSTANCE AgentRunLifecycle WITH run <- Seen

\* However the engine, a crash, the approvers, a cancellation and time interleave,
\* the AgentController sees the run make only the moves of AgentRunLifecycle: it
\* never goes back to Pending, never leaves Succeeded, and comes back from a
\* failure only through an approval that was open when it failed.
ImplementsLifecycle == Lifecycle!Spec
=============================================================================
