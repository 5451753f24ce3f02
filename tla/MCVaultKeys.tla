----------------------------- MODULE MCVaultKeys -----------------------------
(* Instances of VaultKeys for TLC.                                         *)
EXTENDS VaultKeys, TLC

Symmetry == Permutations(Users) \cup Permutations(Tabs)
=============================================================================
