----------------------------- MODULE DekRotation -----------------------------
(***************************************************************************)
(* One project's secrets while its data encryption key (DEK) is rotated.   *)
(*                                                                         *)
(* A rotation is driven by a browser tab (rotateProjectDEK) that fetches   *)
(* every secret, stages each one re-encrypted under a fresh DEK and asks   *)
(* the API to swap key and ciphertexts in one transaction.  Other clients  *)
(* keep creating, updating, rolling back and deleting secrets meanwhile.   *)
(*                                                                         *)
(* Every SQL statement or transaction of a handler is one action; a        *)
(* request and its handler are kept apart (pc and srv), so a handler may   *)
(* run after the tab stopped waiting for it.  A ciphertext is the pair of  *)
(* the DEK that opens it and the value inside; each rotation brings its    *)
(* own DEK and its own rotation_id, both named by the rotating client.     *)
(***************************************************************************)
EXTENDS Integers, FiniteSets

CONSTANTS
    Ids,          \* vault_items.id
    Envs,         \* environments; the client visits them one by one
    Names,        \* secret names (plaintext, known to clients only)
    Values,       \* secret values
    Rotators,     \* browser tabs that run one rotation each
    Writers,      \* other clients (dashboard tabs, SDKs, the CLI)
    Users,        \* organisation members
    InitDek,      \* the DEK the project was created with
    None,         \* "no such thing"
    Gone,         \* a deleted row; its id is never used again
    PageSize,     \* rows GET /secrets returns when no page is asked for
    BatchSize,    \* items of one stage request
    MaxOps,       \* bound: requests each writer issues
    ReadErrors,   \* may GET /secrets and POST /secrets/bulk answer an error
    Lossy,        \* may replies and cancel requests be lost, tabs be closed
    DbFailures    \* may a statement or a COMMIT fail or run into the 30 s timeout

Deks == Rotators \cup {InitDek}
Hashes == [dek : Deks, name : Names]
Ciphertexts == [dek : Deks, val : Values]
Rows == [env : Envs, hash : Hashes, ct : Ciphertexts, version : Nat]
ArchiveRows == [id : Ids, version : Nat, ct : Ciphertexts]

ASSUME ConstantsAssumption ==
    /\ InitDek \notin Rotators
    /\ None \notin Deks \cup Values \cup Ids \cup Ciphertexts \cup Rows
    /\ Gone \notin Rows \cup {None}
    /\ PageSize \in Nat \ {0} /\ BatchSize \in Nat \ {0} /\ MaxOps \in Nat
    /\ {ReadErrors, Lossy, DbFailures} \subseteq BOOLEAN

VARIABLES
    \* The database.
    rows,         \* vault_items: id -> row, None before and Gone after its life
    archive,      \* vault_item_versions
    key,          \* project_vault_keys: the DEK it wraps and dek_version
    grants,       \* project_key_grants: user -> DEK generation it leads to
    vaulted,      \* org members with an identity (a public key)
    rotation,     \* project_rotations: status, or "none" when there is no row
    staged,       \* vault_item_rotations: rotation -> id -> value under its DEK
    \* The rotating tabs.
    pc,           \* where rotateProjectDEK is
    srv,          \* where the handler of its outstanding request is
    oldDek,       \* the cached DEK it decrypts with
    members,      \* the member list it was opened with
    fetch,        \* per environment: "todo", "listed" or "done"
    listed,       \* name hashes the last list request returned
    got,          \* ciphertexts fetched, by id
    todo,         \* ids not sent to be staged yet
    batch,        \* ids of the outstanding stage request
    \* The writing clients and the handler of their outstanding request.
    wpc, wdek, wid, wseen, wct, wops,
    \* History, for the properties only.
    latest,       \* id -> value of the last write that took effect
    exposed,      \* ids written or skipped while a rotation could miss it
    bypassed      \* users granted a key that a rotation could miss

dbVars == <<rows, archive, key, grants, vaulted, rotation, staged>>
clientVars == <<pc, srv, oldDek, members, fetch, listed, got, todo, batch>>
writerVars == <<wpc, wdek, wid, wseen, wct, wops>>
historyVars == <<latest, exposed, bypassed>>
vars == <<dbVars, clientVars, writerVars, historyVars>>

Statuses == {"none", "staging", "committing", "complete", "failed"}
ClientStates == {"idle", "fetching", "starting", "staging", "committing",
                 "cancelling", "done", "failed", "uncancelled", "closed"}
HandlerStates == {"none", "startCheck", "startInsert", "stageCheck", "stageTx", "commit"}

Present(i) == rows[i] \notin {None, Gone}
LiveRows == {i \in Ids : Present(i)}
InEnv(e) == {i \in LiveRows : rows[i].env = e}

\* A member whose grant leads to the current key can unwrap the project DEK.
SomeoneHoldsKey == \E u \in Users : grants[u] = key.dek

NewRow(e, d, n, v) ==
    [env |-> e, hash |-> [dek |-> d, name |-> n], ct |-> [dek |-> d, val |-> v],
     version |-> 1]

\* A row whose ciphertext is replaced.
Rewritten(row, c) ==
    [env |-> row.env, hash |-> row.hash, ct |-> c, version |-> row.version + 1]

-----------------------------------------------------------------------------
(* The project starts with any set of secrets written under its first DEK; *)
(* the unique index keeps their name hashes apart.                         *)

SeedRows == {NewRow(e, InitDek, n, v) : e \in Envs, n \in Names, v \in Values}

Init ==
    /\ rows \in [Ids -> SeedRows \cup {None}]
    /\ \A i, j \in LiveRows :
          i # j => <<rows[i].env, rows[i].hash>> # <<rows[j].env, rows[j].hash>>
    /\ archive = {}
    /\ key = [dek |-> InitDek, version |-> 1]
    /\ vaulted \in SUBSET Users \ {{}}
    /\ grants \in [Users -> {InitDek, None}]
    /\ \A u \in Users : grants[u] = InitDek => u \in vaulted
    /\ SomeoneHoldsKey
    /\ rotation = [r \in Rotators |-> "none"]
    /\ staged = [r \in Rotators |-> [i \in Ids |-> None]]
    /\ pc = [r \in Rotators |-> "idle"]
    /\ srv = [r \in Rotators |-> "none"]
    /\ oldDek = [r \in Rotators |-> None]
    /\ members = [r \in Rotators |-> {}]
    /\ fetch = [r \in Rotators |-> [e \in Envs |-> "todo"]]
    /\ listed = [r \in Rotators |-> {}]
    /\ got = [r \in Rotators |-> [i \in Ids |-> None]]
    /\ todo = [r \in Rotators |-> {}]
    /\ batch = [r \in Rotators |-> {}]
    /\ wpc = [w \in Writers |-> "idle"]
    /\ wdek = [w \in Writers |-> None]
    /\ wid = [w \in Writers |-> None]
    /\ wseen = [w \in Writers |-> None]
    /\ wct = [w \in Writers |-> None]
    /\ wops = [w \in Writers |-> 0]
    /\ latest = [i \in Ids |-> IF Present(i) THEN rows[i].ct.val ELSE None]
    /\ exposed = {}
    /\ bypassed = {}

-----------------------------------------------------------------------------
(* The rotating tab and the handlers it calls.                             *)

Waiting(r) == pc[r] \in {"starting", "staging", "committing"}

\* Rotation r may still commit.
CanCommit(r) ==
    pc[r] \in {"fetching", "starting", "staging", "committing"} \/ srv[r] = "commit"

\* The catch block cancels the rotation only once it knows the rotation_id.
CatchBlock(r) == IF pc[r] = "starting" THEN "uncancelled" ELSE "cancelling"

\* The handler answers with an error, to a tab that may still wait for the reply.
Reject(r) ==
    /\ srv' = [srv EXCEPT ![r] = "none"]
    /\ pc' = [pc EXCEPT ![r] = IF Waiting(r) THEN CatchBlock(r) ELSE pc[r]]

\* The dialog opens with the project DEK and the member list it has cached.
Open(r) ==
    /\ pc[r] = "idle" /\ SomeoneHoldsKey
    /\ pc' = [pc EXCEPT ![r] = "fetching"]
    /\ oldDek' = [oldDek EXCEPT ![r] = key.dek]
    /\ members' = [members EXCEPT ![r] = vaulted]
    /\ UNCHANGED <<dbVars, srv, fetch, listed, got, todo, batch, writerVars, historyVars>>

\* The first page of an environment: all of it, or PageSize of its rows.
FirstPages(e) ==
    IF Cardinality(InEnv(e)) <= PageSize THEN {InEnv(e)}
    ELSE {S \in SUBSET InEnv(e) : Cardinality(S) = PageSize}

\* GET /secrets for one environment.  An error leaves data undefined and reads
\* as an empty list.
ListSecrets(r, e) ==
    /\ pc[r] = "fetching" /\ fetch[r][e] = "todo"
    /\ \A f \in Envs : fetch[r][f] # "listed"
    /\ \E S \in FirstPages(e) \cup (IF ReadErrors THEN {{}} ELSE {}) :
          /\ listed' = [listed EXCEPT ![r] = {rows[i].hash : i \in S}]
          /\ fetch' = [fetch EXCEPT ![r][e] = IF S = {} THEN "done" ELSE "listed"]
          /\ exposed' = exposed \cup (InEnv(e) \ S)
    /\ UNCHANGED <<dbVars, pc, srv, oldDek, members, got, todo, batch, writerVars,
                   latest, bypassed>>

\* POST /secrets/bulk with the listed hashes; again an error reads as empty.
BulkFetch(r, e) ==
    /\ pc[r] = "fetching" /\ fetch[r][e] = "listed"
    /\ \E ok \in (IF ReadErrors THEN BOOLEAN ELSE {TRUE}) :
          LET found == IF ok THEN {i \in InEnv(e) : rows[i].hash \in listed[r]} ELSE {}
          IN  /\ got' = [got EXCEPT ![r] =
                           [i \in Ids |-> IF i \in found THEN rows[i].ct ELSE got[r][i]]]
              /\ exposed' = IF ok THEN exposed ELSE exposed \cup InEnv(e)
    /\ fetch' = [fetch EXCEPT ![r][e] = "done"]
    /\ listed' = [listed EXCEPT ![r] = {}]
    /\ UNCHANGED <<dbVars, pc, srv, oldDek, members, todo, batch, writerVars,
                   latest, bypassed>>

SendStart(r) ==
    /\ pc[r] = "fetching" /\ \A e \in Envs : fetch[r][e] = "done"
    /\ todo' = [todo EXCEPT ![r] = {i \in Ids : got[r][i] # None}]
    /\ pc' = [pc EXCEPT ![r] = "starting"]
    /\ srv' = [srv EXCEPT ![r] = "startCheck"]
    /\ UNCHANGED <<dbVars, oldDek, members, fetch, listed, got, batch, writerVars, historyVars>>

\* StartRotation counts active rotations first and inserts its row later.
StartCheck(r) ==
    /\ srv[r] = "startCheck"
    /\ IF todo[r] = {} \/ \E q \in Rotators : rotation[q] \in {"staging", "committing"}
       THEN Reject(r)
       ELSE srv' = [srv EXCEPT ![r] = "startInsert"] /\ UNCHANGED pc
    /\ UNCHANGED <<dbVars, oldDek, members, fetch, listed, got, todo, batch,
                   writerVars, historyVars>>

\* When only the acknowledgement of the INSERT is lost the row stands, and the
\* handler answers with an error all the same.
StartInsert(r) ==
    /\ srv[r] = "startInsert"
    /\ rotation' = [rotation EXCEPT ![r] = "staging"]
    /\ \/ /\ srv' = [srv EXCEPT ![r] = "none"]
          /\ pc' = [pc EXCEPT ![r] = IF pc[r] = "starting" THEN "staging" ELSE pc[r]]
       \/ DbFailures /\ Reject(r)
    /\ UNCHANGED <<rows, archive, key, grants, vaulted, staged, oldDek, members, fetch,
                   listed, got, todo, batch, writerVars, historyVars>>

\* The next batch, of BatchSize items or the rest.
Batches(r) == {B \in SUBSET todo[r] : Cardinality(B) <= BatchSize
                                       /\ (B = todo[r] \/ Cardinality(B) = BatchSize)}

Opens(r, i) == got[r][i].dek = oldDek[r]

\* A batch is decrypted with the cached DEK, re-encrypted and sent.
SendStage(r) ==
    /\ pc[r] = "staging" /\ srv[r] = "none" /\ todo[r] # {}
    /\ \E B \in Batches(r) :
          /\ \A i \in B : Opens(r, i)
          /\ batch' = [batch EXCEPT ![r] = B]
          /\ todo' = [todo EXCEPT ![r] = @ \ B]
    /\ srv' = [srv EXCEPT ![r] = "stageCheck"]
    /\ UNCHANGED <<dbVars, pc, oldDek, members, fetch, listed, got, writerVars, historyVars>>

\* A ciphertext under another DEK does not open: decrypt throws.
DecryptFails(r) ==
    /\ pc[r] = "staging" /\ srv[r] = "none" /\ todo[r] # {}
    /\ \E B \in Batches(r) : \E i \in B : ~Opens(r, i)
    /\ pc' = [pc EXCEPT ![r] = "cancelling"]
    /\ UNCHANGED <<dbVars, srv, oldDek, members, fetch, listed, got, todo, batch,
                   writerVars, historyVars>>

\* StageRotation reads the status outside its transaction.
StageCheck(r) ==
    /\ srv[r] = "stageCheck"
    /\ IF rotation[r] = "staging"
       THEN srv' = [srv EXCEPT ![r] = "stageTx"] /\ UNCHANGED pc
       ELSE Reject(r)
    /\ UNCHANGED <<dbVars, oldDek, members, fetch, listed, got, todo, batch,
                   writerVars, historyVars>>

\* The transaction fails as a whole when a foreign key does: the rotation was
\* cancelled or an item deleted in the meantime.  It stands although the handler
\* answers with an error when only the acknowledgement of its COMMIT is lost.
StageTx(r) ==
    /\ srv[r] = "stageTx"
    /\ \/ /\ rotation[r] # "none" /\ \A i \in batch[r] : Present(i)
          /\ staged' = [staged EXCEPT ![r] =
                           [i \in Ids |-> IF i \in batch[r] THEN got[r][i].val
                                          ELSE staged[r][i]]]
          /\ \/ srv' = [srv EXCEPT ![r] = "none"] /\ UNCHANGED pc
             \/ DbFailures /\ Reject(r)
       \/ /\ rotation[r] = "none" \/ \E i \in batch[r] : ~Present(i)
          /\ Reject(r) /\ UNCHANGED staged
    /\ UNCHANGED <<rows, archive, key, grants, vaulted, rotation, oldDek, members, fetch,
                   listed, got, todo, batch, writerVars, historyVars>>

\* A statement of start or stage fails or times out: nothing is kept of it.
StatementFails(r) ==
    /\ DbFailures /\ srv[r] \in {"startCheck", "startInsert", "stageCheck", "stageTx"}
    /\ Reject(r)
    /\ UNCHANGED <<dbVars, oldDek, members, fetch, listed, got, todo, batch,
                   writerVars, historyVars>>

\* Mutant: the commit does not wait for the last batches.
SendCommitEarly(r) ==
    /\ pc[r] = "staging" /\ srv[r] = "none"
    /\ pc' = [pc EXCEPT ![r] = "committing"]
    /\ srv' = [srv EXCEPT ![r] = "commit"]
    /\ UNCHANGED <<dbVars, oldDek, members, fetch, listed, got, todo, batch,
                   writerVars, historyVars>>

SendCommit(r) ==
    /\ pc[r] = "staging" /\ srv[r] = "none" /\ todo[r] = {}
    /\ pc' = [pc EXCEPT ![r] = "committing"]
    /\ srv' = [srv EXCEPT ![r] = "commit"]
    /\ UNCHANGED <<dbVars, oldDek, members, fetch, listed, got, todo, batch,
                   writerVars, historyVars>>

\* Mutant: the version of a re-encrypted row stays as it is.
RotatedRowKeepsVersion(r, i) ==
    [rows[i] EXCEPT !.ct = [dek |-> r, val |-> staged[r][i]]]

\* What the commit transaction writes: staged ciphertexts over the current
\* ones, the project key, a grant per listed member; staging rows are removed.
RotatedRow(r, i) ==
    Rewritten(rows[i], [dek |-> r, val |-> staged[r][i]])

\* History of the new grants: each leads to the current key from now on, unless
\* another rotation that does not list the member may still commit.
BypassedAfter(r) ==
    (bypassed \ members[r]) \cup
        {u \in members[r] : \E q \in Rotators \ {r} : CanCommit(q) /\ u \notin members[q]}

\* Mutant: the staging rows are not cleaned up.
ApplyRotationKeepsStaging(r) ==
    /\ rows' = [i \in Ids |-> IF Present(i) /\ staged[r][i] # None
                              THEN RotatedRow(r, i) ELSE rows[i]]
    /\ key' = [dek |-> r, version |-> key.version + 1]
    /\ grants' = [u \in Users |-> IF u \in members[r] THEN r ELSE grants[u]]
    /\ bypassed' = BypassedAfter(r)
    /\ UNCHANGED <<staged, latest, exposed>>

\* Mutant: members who have a grant already keep it.
ApplyRotationInsertsGrants(r) ==
    /\ rows' = [i \in Ids |-> IF Present(i) /\ staged[r][i] # None
                              THEN RotatedRow(r, i) ELSE rows[i]]
    /\ key' = [dek |-> r, version |-> key.version + 1]
    /\ grants' = [u \in Users |-> IF u \in members[r] /\ grants[u] = None
                                  THEN r ELSE grants[u]]
    /\ staged' = [staged EXCEPT ![r] = [i \in Ids |-> None]]
    /\ bypassed' = BypassedAfter(r)
    /\ UNCHANGED <<latest, exposed>>

ApplyRotation(r) ==
    /\ rows' = [i \in Ids |-> IF Present(i) /\ staged[r][i] # None
                              THEN RotatedRow(r, i) ELSE rows[i]]
    /\ key' = [dek |-> r, version |-> key.version + 1]
    /\ grants' = [u \in Users |-> IF u \in members[r] THEN r ELSE grants[u]]
    /\ staged' = [staged EXCEPT ![r] = [i \in Ids |-> None]]
    /\ bypassed' = BypassedAfter(r)
    /\ UNCHANGED <<latest, exposed>>

CommitTx(r) ==
    /\ srv[r] = "commit" /\ rotation[r] = "staging"
    /\ ApplyRotation(r)
    /\ rotation' = [rotation EXCEPT ![r] = "complete"]
    /\ srv' = [srv EXCEPT ![r] = "none"]
    /\ pc' = [pc EXCEPT ![r] = IF pc[r] = "committing" THEN "done" ELSE pc[r]]
    /\ UNCHANGED <<archive, vaulted, oldDek, members, fetch, listed, got, todo, batch,
                   writerVars>>

CommitRefused(r) ==
    /\ srv[r] = "commit" /\ rotation[r] # "staging"
    /\ Reject(r)
    /\ UNCHANGED <<dbVars, oldDek, members, fetch, listed, got, todo, batch,
                   writerVars, historyVars>>

\* A statement or the COMMIT itself fails.  The transaction is rolled back, or,
\* when only the acknowledgement of the COMMIT is lost, it stands; the handler
\* then tries to mark the rotation failed, whatever its status is by now.
CommitFails(r) ==
    /\ DbFailures /\ srv[r] = "commit" /\ rotation[r] = "staging"
    /\ \/ /\ rotation' \in {rotation, [rotation EXCEPT ![r] = "failed"]}
          /\ UNCHANGED <<rows, key, grants, staged, historyVars>>
       \/ /\ \E s \in {"complete", "failed"} : rotation' = [rotation EXCEPT ![r] = s]
          /\ ApplyRotation(r)
    /\ Reject(r)
    /\ UNCHANGED <<archive, vaulted, oldDek, members, fetch, listed, got, todo, batch,
                   writerVars>>

\* Mutant: the DELETE has no status condition.
CancelAnyStatus(r) ==
    /\ pc[r] = "cancelling"
    /\ pc' = [pc EXCEPT ![r] = "failed"]
    /\ rotation' = [rotation EXCEPT ![r] = "none"]
    /\ staged' = [staged EXCEPT ![r] = [i \in Ids |-> None]]
    /\ UNCHANGED <<rows, archive, key, grants, vaulted, srv, oldDek, members, fetch,
                   listed, got, todo, batch, writerVars, historyVars>>

\* Mutant: only a failed rotation is deleted.
CancelFailedOnly(r) ==
    /\ pc[r] = "cancelling"
    /\ pc' = [pc EXCEPT ![r] = "failed"]
    /\ rotation' = [rotation EXCEPT ![r] = IF @ = "failed" THEN "none" ELSE @]
    /\ UNCHANGED <<rows, archive, key, grants, vaulted, staged, srv, oldDek, members,
                   fetch, listed, got, todo, batch, writerVars, historyVars>>

\* The catch block calls CancelRotation once, which deletes a staging or failed
\* rotation and its staging rows with it, and finds nothing to delete otherwise.
\* The request may be lost and the DELETE may fail: the tab ignores either error.
Cancel(r) ==
    /\ pc[r] = "cancelling"
    /\ \/ /\ rotation[r] \in {"staging", "failed"}
          /\ rotation' = [rotation EXCEPT ![r] = "none"]
          /\ staged' = [staged EXCEPT ![r] = [i \in Ids |-> None]]
          /\ pc' = [pc EXCEPT ![r] = "failed"]
       \/ /\ rotation[r] \notin {"staging", "failed"}
          /\ pc' = [pc EXCEPT ![r] = "failed"]
          /\ UNCHANGED <<rotation, staged>>
       \/ /\ Lossy \/ DbFailures
          /\ pc' = [pc EXCEPT ![r] = "uncancelled"]
          /\ UNCHANGED <<rotation, staged>>
    /\ UNCHANGED <<rows, archive, key, grants, vaulted, srv, oldDek, members, fetch,
                   listed, got, todo, batch, writerVars, historyVars>>

\* The connection breaks while the tab waits; the handler may still run.
LoseReply(r) ==
    /\ Lossy /\ srv[r] # "none" /\ Waiting(r)
    /\ pc' = [pc EXCEPT ![r] = CatchBlock(r)]
    /\ UNCHANGED <<dbVars, srv, oldDek, members, fetch, listed, got, todo, batch,
                   writerVars, historyVars>>

\* The tab is closed or reloaded: nothing is cancelled.
CloseTab(r) ==
    /\ Lossy /\ pc[r] \notin {"idle", "done", "failed", "uncancelled", "closed"}
    /\ pc' = [pc EXCEPT ![r] = "closed"]
    /\ UNCHANGED <<dbVars, srv, oldDek, members, fetch, listed, got, todo, batch,
                   writerVars, historyVars>>

RotatorStep(r) ==
    \/ Open(r) \/ SendStart(r) \/ StartCheck(r) \/ StartInsert(r)
    \/ \E e \in Envs : ListSecrets(r, e) \/ BulkFetch(r, e)
    \/ SendStage(r) \/ DecryptFails(r)
    \/ StageCheck(r) \/ StageTx(r) \/ StatementFails(r)
    \/ SendCommit(r) \/ CommitTx(r) \/ CommitRefused(r) \/ CommitFails(r)
    \/ Cancel(r) \/ LoseReply(r) \/ CloseTab(r)

-----------------------------------------------------------------------------
(* The other clients and the secret handlers they call.                    *)

\* A rotation that may still commit has begun to fetch environment e.
Racing(e) == \E r \in Rotators : CanCommit(r) /\ fetch[r][e] # "todo"

\* History of a write of ciphertext c to row i of environment e.
RecordWrite(i, e, c) ==
    /\ latest' = [latest EXCEPT ![i] = c.val]
    /\ exposed' = IF c.dek # key.dek \/ Racing(e) THEN exposed \cup {i}
                  ELSE exposed \ {i}
    /\ UNCHANGED bypassed

\* Loads the project DEK, which the client then caches.
LoadKey(w) ==
    /\ wpc[w] = "idle" /\ wdek[w] # key.dek /\ SomeoneHoldsKey
    /\ wdek' = [wdek EXCEPT ![w] = key.dek]
    /\ UNCHANGED <<dbVars, clientVars, wpc, wid, wseen, wct, wops, historyVars>>

\* A client that has a key begins a request.
Begin(w) ==
    /\ wpc[w] = "idle" /\ wdek[w] # None /\ wops[w] < MaxOps
    /\ wops' = [wops EXCEPT ![w] = @ + 1]

\* Create: the existence check and the unique index allow one row per hash.
CreateSecret(w, i, e, n, v) ==
    /\ Begin(w)
    /\ rows[i] = None
    /\ \A j \in InEnv(e) : rows[j].hash # [dek |-> wdek[w], name |-> n]
    /\ rows' = [rows EXCEPT ![i] = NewRow(e, wdek[w], n, v)]
    /\ RecordWrite(i, e, [dek |-> wdek[w], val |-> v])
    /\ UNCHANGED <<archive, key, grants, vaulted, rotation, staged, clientVars,
                   wpc, wdek, wid, wseen, wct>>

\* Update, first statement: read the current row.
UpdateRead(w, i, v) ==
    /\ Begin(w)
    /\ Present(i)
    /\ wid' = [wid EXCEPT ![w] = i]
    /\ wseen' = [wseen EXCEPT ![w] = rows[i]]
    /\ wct' = [wct EXCEPT ![w] = [dek |-> wdek[w], val |-> v]]
    /\ wpc' = [wpc EXCEPT ![w] = "archive"]
    /\ UNCHANGED <<dbVars, clientVars, wdek, historyVars>>

\* Rollback, first statements: read the current row, then the archived target.
RollbackRead(w, i) ==
    /\ Begin(w)
    /\ Present(i)
    /\ wid' = [wid EXCEPT ![w] = i]
    /\ wseen' = [wseen EXCEPT ![w] = rows[i]]
    /\ wpc' = [wpc EXCEPT ![w] = "target"]
    /\ UNCHANGED <<dbVars, clientVars, wdek, wct, historyVars>>

Idle(w) ==
    /\ wpc' = [wpc EXCEPT ![w] = "idle"]
    /\ wid' = [wid EXCEPT ![w] = None]
    /\ wseen' = [wseen EXCEPT ![w] = None]
    /\ wct' = [wct EXCEPT ![w] = None]

RollbackTarget(w) ==
    /\ wpc[w] = "target"
    /\ \/ \E a \in archive :
             /\ a.id = wid[w]
             /\ wct' = [wct EXCEPT ![w] = a.ct]
             /\ wpc' = [wpc EXCEPT ![w] = "archive"]
             /\ UNCHANGED <<wid, wseen>>
       \/ Idle(w)     \* no such version: 404
    /\ UNCHANGED <<dbVars, clientVars, wdek, wops, historyVars>>

\* Both: archive the row as it was read.  A failing insert is only logged, and it
\* fails when the item is gone.
ArchiveSeen(w) ==
    /\ wpc[w] = "archive"
    /\ \/ /\ Present(wid[w])
          /\ archive' = archive \cup
                {[id |-> wid[w], version |-> wseen[w].version, ct |-> wseen[w].ct]}
       \/ (DbFailures \/ ~Present(wid[w])) /\ UNCHANGED archive
    /\ wpc' = [wpc EXCEPT ![w] = "write"]
    /\ UNCHANGED <<rows, key, grants, vaulted, rotation, staged, clientVars,
                   wdek, wid, wseen, wct, wops, historyVars>>

\* Both: overwrite the row by id, whatever it has become, and leave the archive
\* as it is when that fails.
WriteRow(w) ==
    /\ wpc[w] = "write"
    /\ \/ /\ Present(wid[w])
          /\ rows' = [rows EXCEPT ![wid[w]] = Rewritten(@, wct[w])]
          /\ RecordWrite(wid[w], rows[wid[w]].env, wct[w])
       \/ (DbFailures \/ ~Present(wid[w])) /\ UNCHANGED <<rows, historyVars>>
    /\ Idle(w)
    /\ UNCHANGED <<archive, key, grants, vaulted, rotation, staged, clientVars,
                   wdek, wops>>

\* Delete: versions and staging rows go with the row.
DeleteSecret(w, i) ==
    /\ Begin(w)
    /\ Present(i)
    /\ rows' = [rows EXCEPT ![i] = Gone]
    /\ archive' = {a \in archive : a.id # i}
    /\ staged' = [r \in Rotators |-> [staged[r] EXCEPT ![i] = None]]
    /\ UNCHANGED <<key, grants, vaulted, rotation, clientVars, wpc, wdek, wid, wseen,
                   wct, historyVars>>

\* The settings page lists the members who have a vault; to one who had no grant
\* when the list was read, a client that has the key may give one.
PressGrant(w, u) == Begin(w) /\ u \in vaulted

\* GrantAccess: the Project Vault Key the client has, wrapped for one member.
GrantAccess(w, u) ==
    /\ PressGrant(w, u)
    /\ grants' = [grants EXCEPT ![u] = wdek[w]]
    /\ bypassed' = IF wdek[w] # key.dek
                      \/ \E r \in Rotators : CanCommit(r) /\ u \notin members[r]
                   THEN bypassed \cup {u} ELSE bypassed \ {u}
    /\ UNCHANGED <<rows, archive, key, vaulted, rotation, staged, clientVars, wpc, wdek,
                   wid, wseen, wct, latest, exposed>>

\* A member joins the organisation and sets a vault up.
JoinVault(u) ==
    /\ u \notin vaulted
    /\ vaulted' = vaulted \cup {u}
    /\ UNCHANGED <<rows, archive, key, grants, rotation, staged, clientVars, writerVars,
                   historyVars>>

WriterStep(w) ==
    \/ LoadKey(w)
    \/ \E i \in Ids, e \in Envs, n \in Names, v \in Values : CreateSecret(w, i, e, n, v)
    \/ \E i \in Ids, v \in Values : UpdateRead(w, i, v)
    \/ \E i \in Ids : RollbackRead(w, i) \/ DeleteSecret(w, i)
    \/ RollbackTarget(w) \/ ArchiveSeen(w) \/ WriteRow(w)
    \/ \E u \in Users : GrantAccess(w, u)

Next ==
    \/ \E r \in Rotators : RotatorStep(r)
    \/ \E w \in Writers : WriterStep(w)
    \/ \E u \in Users : JoinVault(u)

Spec == Init /\ [][Next]_vars

\* A tab that stays open runs its promise chain to the end and a handler that
\* was reached finishes; nothing makes a client begin, or its replies get lost.
Progress(r) ==
    \/ SendStart(r) \/ StartCheck(r) \/ StartInsert(r)
    \/ \E e \in Envs : ListSecrets(r, e) \/ BulkFetch(r, e)
    \/ SendStage(r) \/ DecryptFails(r)
    \/ StageCheck(r) \/ StageTx(r) \/ StatementFails(r)
    \/ SendCommit(r) \/ CommitTx(r) \/ CommitRefused(r) \/ CommitFails(r) \/ Cancel(r)

FairSpec == Spec /\ \A r \in Rotators : WF_vars(Progress(r))

-----------------------------------------------------------------------------
(* Properties.                                                             *)

\* Every variable keeps its type.
TypeOK ==
    /\ rows \in [Ids -> Rows \cup {None, Gone}]
    /\ archive \subseteq ArchiveRows
    /\ key \in [dek : Deks, version : Nat]
    /\ grants \in [Users -> Deks \cup {None}]
    /\ vaulted \subseteq Users
    /\ rotation \in [Rotators -> Statuses]
    /\ staged \in [Rotators -> [Ids -> Values \cup {None}]]
    /\ pc \in [Rotators -> ClientStates]
    /\ srv \in [Rotators -> HandlerStates]
    /\ oldDek \in [Rotators -> Deks \cup {None}]
    /\ members \in [Rotators -> SUBSET Users]
    /\ fetch \in [Rotators -> [Envs -> {"todo", "listed", "done"}]]
    /\ listed \in [Rotators -> SUBSET Hashes]
    /\ got \in [Rotators -> [Ids -> Ciphertexts \cup {None}]]
    /\ todo \in [Rotators -> SUBSET Ids]
    /\ batch \in [Rotators -> SUBSET Ids]
    /\ wpc \in [Writers -> {"idle", "target", "archive", "write"}]
    /\ wdek \in [Writers -> Deks \cup {None}]
    /\ wid \in [Writers -> Ids \cup {None}]
    /\ wseen \in [Writers -> Rows \cup {None}]
    /\ wct \in [Writers -> Ciphertexts \cup {None}]
    /\ wops \in [Writers -> Nat]
    /\ latest \in [Ids -> Values \cup {None}]
    /\ exposed \subseteq Ids
    /\ bypassed \subseteq Users

\* A secret that no client wrote and no fetch skipped while a rotation could
\* still commit past it opens with the project's current DEK and holds the last
\* value written: whatever rotations ran, overlapped, failed half way, lost
\* their replies or committed after their tab had given up.
QuietSecretsReadable ==
    \A i \in LiveRows \ exposed :
        rows[i].ct = [dek |-> key.dek, val |-> latest[i]]

\* A member's grant leads to the current key unless it was given from a stale
\* key or during a rotation whose member list lacks that member.
QuietGrantsCurrent ==
    \A u \in Users \ bypassed : grants[u] \in {key.dek, None}

\* dek_version counts the rotations that took effect: none commits twice, none
\* commits after it was cancelled, and cancelling never removes a committed one.
\* (Stated for a database that reports every commit it made.)
VersionCountsRotations ==
    key.version = 1 + Cardinality({r \in Rotators : rotation[r] = "complete"})

\* A rotation that no longer runs holds no staging rows: no stage request lands
\* after the commit that cleaned up, and cancelling leaves nothing behind.
NoOrphanedStaging ==
    \A r \in Rotators : rotation[r] \in {"none", "complete"} =>
        \A i \in Ids : staged[r][i] = None

\* Within a secret, a version number stands for one ciphertext, archived or
\* current, so a rollback by number has one meaning.
VersionIdentifiesCiphertext ==
    /\ \A a, b \in archive : a.id = b.id /\ a.version = b.version => a.ct = b.ct
    /\ \A a \in archive : a.version = rows[a.id].version => a.ct = rows[a.id].ct

\* A rotation always leaves the staging state, so that the project can be rotated
\* again, unless its tab was closed or the one cancel of the catch block was not
\* sent, got lost or failed: no other error, of a read, a reply, a statement or a
\* COMMIT, and no other rotation leaves it there.
EveryRotationSettles ==
    \A r \in Rotators :
        rotation[r] = "staging" ~>
            rotation[r] # "staging" \/ pc[r] \in {"uncancelled", "closed"}
=============================================================================
