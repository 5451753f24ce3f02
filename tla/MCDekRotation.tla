---------------------------- MODULE MCDekRotation ----------------------------
(* Instances of DekRotation for TLC.                                       *)
EXTENDS DekRotation, TLC

Symmetry ==
    Permutations(Rotators) \cup Permutations(Writers) \cup Permutations(Ids)
        \cup Permutations(Values) \cup Permutations(Names) \cup Permutations(Users)
=============================================================================
