------------------------ MODULE AgentRunEngineClaims ------------------------
(***************************************************************************)
(* What the specification documents under docs/ say of the Execution      *)
(* Engine and the code does not do: TLC finds a run that violates it; the  *)
(* README tells the story.                                                 *)
(***************************************************************************)
EXTENDS AgentRunEngine

\* docs/spec/023-execution-engine.md:67: a worker that completes a tool call
\* moves the run only if the run still waits for that very ToolInvocation.
StaleCompletionFenced ==
  [][\A r \in Reconcilers :
       pc[r] = "tool" /\ pc'[r] # "tool" /\ data' # data =>
         data.state = "WaitingForTool" /\ Awaited(data) = snap[r].n]_vars
=============================================================================
