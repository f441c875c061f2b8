---------------------------- MODULE MCWorkspaceInit ----------------------------
(* Instances of WorkspaceInit for TLC: workspaces of one project, one an agent. *)
EXTENDS WorkspaceInit, TLC

CONSTANTS w1, w2, a1, p1, r1, r2, d1, d2, x1, x2

\* Calls are alike, and so are the workspaces that share the repository.
MCSymmetry ==
  Permutations({r1, r2}) \cup Permutations({d1, d2}) \cup Permutations({w1, w2})

MCProjectOf == [w \in Workspace |-> p1]
MCFirstPath == [w \in Workspace |-> x1]
==============================================================================
