------------------------- MODULE MCRecoveryRequests -------------------------
(* Instances of RecoveryRequests for TLC: every tab is the one contact's.  *)
EXTENDS RecoveryRequests, TLC

CONSTANT c1

AllOfContact == [t \in ContactTabs |-> c1]

Symmetry == Permutations(Devices) \cup Permutations(Ids) \cup Permutations(ContactTabs)
=============================================================================
