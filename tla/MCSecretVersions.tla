--------------------------- MODULE MCSecretVersions ---------------------------
(* Instances of SecretVersions for TLC.                                    *)
EXTENDS SecretVersions, TLC

Symmetry == Permutations(Clients) \cup Permutations(Ciphertexts) \cup Permutations(Fields)
=============================================================================
