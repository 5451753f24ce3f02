----------------------------- MODULE MCWorkspace -----------------------------
(* Instances of Workspace for TLC. *)
EXTENDS Workspace
==============================================================================
