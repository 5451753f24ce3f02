--------------------------- MODULE MCSecretsBoard ---------------------------
(* Instances of SecretsBoard for TLC. *)
EXTENDS SecretsBoard

CONSTANTS n1, n2, dev, prod

Alphabetical == [n \in Names |-> IF n = n1 THEN 1 ELSE 2]
OldInDev == {<<dev, n2>>}
MadeInDev == {<<dev, n1>>}
=============================================================================
