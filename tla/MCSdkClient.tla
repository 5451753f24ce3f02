---------------------------- MODULE MCSdkClient ----------------------------
(* Instances of SdkClient for TLC. *)
EXTENDS SdkClient

CONSTANTS n1, n2, v1, v2, c1, c2

OneEach == [n \in Schema |-> IF n = n1 THEN v1 ELSE v2]
OneOfEachForm == {<<"hex", n1>>, <<"b64", n2>>}
=============================================================================
