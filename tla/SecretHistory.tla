---------------------------- MODULE SecretHistory ----------------------------
(***************************************************************************)
(* What the secret endpoints promise for one secret (one project,          *)
(* environment and name hash): every request takes effect at most once, in *)
(* one step between its call and its answer, and only when it is answered  *)
(* "ok" can the client count on it.  Versions are numbered from 1 without  *)
(* gaps and a rollback restores what its version number stood for.         *)
(***************************************************************************)
EXTENDS Naturals

CONSTANTS
    Clients,      \* callers of the API
    Ciphertexts,  \* ciphertexts (with their nonces)
    MaxVersion,   \* bound: largest version a rollback asks for
    None          \* no secret, no request, no reply

Version == [version : Nat, ct : Ciphertexts]

Requests ==
    [op : {"create", "update"}, ct : Ciphertexts] \cup
    [op : {"rollback"}, version : 1 .. MaxVersion] \cup
    [op : {"delete", "patch"}]

VARIABLES
    cur,          \* the current version, or None
    past,         \* the versions before it
    call,         \* client -> its request
    phase,        \* client -> "idle", "pending" or "done"
    reply         \* client -> the answer to its latest request

vars == <<cur, past, call, phase, reply>>

Init ==
    /\ cur \in {None} \cup [version : {1}, ct : Ciphertexts]
    /\ past = {}
    /\ call = [c \in Clients |-> None]
    /\ phase = [c \in Clients |-> "idle"]
    /\ reply = [c \in Clients |-> None]

Call(c) ==
    /\ phase[c] = "idle"
    /\ \E q \in Requests : call' = [call EXCEPT ![c] = q]
    /\ phase' = [phase EXCEPT ![c] = "pending"]
    /\ reply' = [reply EXCEPT ![c] = None]
    /\ UNCHANGED <<cur, past>>

\* The current version is followed by one with ciphertext ct.
Supersede(ct) ==
    /\ cur' = [version |-> cur.version + 1, ct |-> ct]
    /\ past' = past \cup {cur}

TakeEffect(c) ==
    /\ phase[c] = "pending"
    /\ phase' = [phase EXCEPT ![c] = "done"]
    /\ \/ /\ call[c].op = "create" /\ cur = None
          /\ cur' = [version |-> 1, ct |-> call[c].ct]
          /\ past' = {}
       \/ call[c].op = "update" /\ cur # None /\ Supersede(call[c].ct)
       \/ /\ call[c].op = "rollback" /\ cur # None
          /\ \E v \in past \cup {cur} : v.version = call[c].version /\ Supersede(v.ct)
       \/ call[c].op = "delete" /\ cur # None /\ cur' = None /\ past' = {}
       \/ call[c].op = "patch" /\ cur # None /\ UNCHANGED <<cur, past>>
    /\ UNCHANGED <<call, reply>>

\* A request that took effect may still be answered with an error.
Answer(c) ==
    /\ \/ phase[c] = "done" /\ reply' = [reply EXCEPT ![c] = "ok"]
       \/ phase[c] # "idle" /\ reply' = [reply EXCEPT ![c] = "error"]
    /\ phase' = [phase EXCEPT ![c] = "idle"]
    /\ call' = [call EXCEPT ![c] = None]
    /\ UNCHANGED <<cur, past>>

Next == \E c \in Clients : Call(c) \/ TakeEffect(c) \/ Answer(c)

Spec == Init /\ [][Next]_vars
=============================================================================
