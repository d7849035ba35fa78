---------------------------- MODULE MCWorkspaces ----------------------------
(* Workspaces on a small instance. *)
EXTENDS Workspaces, TLC

WorkspacesSymmetry == Permutations(Requests)
=============================================================================
