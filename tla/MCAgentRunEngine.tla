-------------------------- MODULE MCAgentRunEngine --------------------------
(***************************************************************************)
(* Instances of AgentRunEngine for TLC: the policies a run may meet and    *)
(* the symmetry of the reconcilers.                                        *)
(***************************************************************************)
EXTENDS AgentRunEngineClaims, AgentRunRefinement, TLC

\* The policy that has the given effect on every action of a kind.
ByKind(uses, model, tools, write) ==
  [g \in Guarded |-> CASE g[1] = "use" -> uses
                       [] g[1] = "model" -> model
                       [] g[1] = "tool" -> tools
                       [] g[1] = "artifact" -> write]

AllowAll == {ByKind("Allow", "Allow", "Allow", "Allow")}

ApproveTools == {ByKind("Allow", "Allow", "RequireApproval", "Allow")}

ApproveAll == {ByKind("RequireApproval", "RequireApproval", "RequireApproval", "RequireApproval")}

Denials == {ByKind("Deny", "Allow", "Allow", "Allow"),
            ByKind("Allow", "Deny", "Allow", "Allow"),
            ByKind("Allow", "Allow", "Deny", "Allow"),
            ByKind("Allow", "Allow", "Allow", "Deny")}

\* Nothing is asked, everything is asked, one kind of action is asked or denied.
EveryKind == AllowAll \cup ApproveAll \cup ApproveTools \cup Denials

ReconcilerSymmetry == Permutations(Reconcilers)
=============================================================================
