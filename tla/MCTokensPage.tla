---------------------------- MODULE MCTokensPage ----------------------------
(* Instances of TokensPage for TLC. *)
EXTENDS TokensPage

CONSTANTS ci, web

OneActive == <<[name |-> ci, state |-> "active"]>>
=============================================================================
