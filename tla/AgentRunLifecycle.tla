------------------------- MODULE AgentRunLifecycle -------------------------
(***************************************************************************)
(* What an AgentRun promises the controllers above it: the few conditions  *)
(* they tell apart, and the moves between them.  AgentRunEngine is shown   *)
(* to implement it (AgentRunRefinement); MissionHierarchy lets the         *)
(* AgentRuns of its Agents make exactly these moves.                       *)
(*                                                                         *)
(*   Pending             nothing has happened                              *)
(*   Scheduled           any phase in which nobody need decide anything    *)
(*   WaitingForApproval  that phase, or a pendingApproval in the data      *)
(*   Undecided           not succeeded, but over; an approval it asked for *)
(*                       is still pending and will act on it when decided  *)
(*   Succeeded, Failed   over for good                                     *)
(***************************************************************************)

VARIABLE run

Conditions ==
  {"Pending", "Scheduled", "WaitingForApproval", "Undecided", "Succeeded", "Failed"}

TypeOK == run \in Conditions

Init == run = "Pending"

Moves(from, to) == run = from /\ run' = to

Schedule == Moves("Pending", "Scheduled")
Ask      == Moves("Scheduled", "WaitingForApproval")
Resume   == Moves("WaitingForApproval", "Scheduled")
End      == \E to \in {"Succeeded", "Failed"} : Moves("Scheduled", to)

\* An approval that a controller asked for leaves the run's pendingApproval
\* behind when it is decided: the run succeeds and still seems to wait.
EndUnasked == Moves("WaitingForApproval", "Succeeded")

\* Rejected, cancelled or out of budget while it waits.
FailWaiting == Moves("WaitingForApproval", "Failed")

\* Over while it waits, with the approval still open: a late rejection ends it
\* for good, a late approval puts it back to work.
FailUndecided == Moves("WaitingForApproval", "Undecided")
RejectLate    == Moves("Undecided", "Failed")
Revive        == Moves("Undecided", "Scheduled")

Next ==
  \/ Schedule \/ Ask \/ Resume \/ End \/ EndUnasked
  \/ FailWaiting \/ FailUndecided \/ RejectLate \/ Revive

Spec == Init /\ [][Next]_run
=============================================================================
