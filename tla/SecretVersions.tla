---------------------------- MODULE SecretVersions ----------------------------
(***************************************************************************)
(* The handlers of one secret (one project, environment and name hash),    *)
(* statement by statement.  Each statement commits on its own, so the      *)
(* requests of several clients interleave between them: a handler archives *)
(* and overwrites by the id of a row it read earlier.                      *)
(*                                                                         *)
(* Metadata is the set of its fields that are present; a request changes   *)
(* one field.  A row's id is a number that is never used again.            *)
(***************************************************************************)
EXTENDS Naturals

CONSTANTS
    Clients,      \* callers of the API
    Ciphertexts,  \* ciphertexts (with their nonces)
    Fields,       \* metadata fields
    Ops,          \* bound: the operations clients ask for
    MaxCalls,     \* bound: requests per client
    MaxVersion,   \* bound: largest version a rollback asks for
    DbFailures,   \* may a statement fail
    None          \* no row, no request, no patch, no reply

\* A patch sets one field or removes one (JSON null).
Patches ==
    [put : {{f} : f \in Fields}, drop : {{}}] \cup [put : {{}}, drop : {{f} : f \in Fields}]
Rows == [id : Nat, version : Nat, ct : Ciphertexts, meta : SUBSET Fields]
Archived == [id : Nat, version : Nat, ct : Ciphertexts]
PastVersions == [version : Nat, ct : Ciphertexts]
Replies == {"ok", "badRequest", "notFound", "conflict", "failed"}
Requests ==
    [op : {"create", "setCreate"}, ct : Ciphertexts, fields : {{}} \cup {{f} : f \in Fields}] \cup
    [op : {"update"}, ct : Ciphertexts, meta : Patches \cup {None}] \cup
    [op : {"set"}, ct : Ciphertexts, meta : {None}] \cup
    [op : {"patch"}, meta : Patches] \cup
    [op : {"rollback"}, version : 1 .. MaxVersion] \cup
    [op : {"delete"}]

ASSUME ConstantsAssumption ==
    /\ MaxCalls \in Nat /\ MaxVersion \in Nat
    /\ Ops \subseteq {"create", "update", "set", "patch", "rollback", "delete"}
    /\ DbFailures \in BOOLEAN
    /\ None \notin Rows \cup PastVersions \cup Requests \cup Patches \cup Ciphertexts \cup Replies

VARIABLES
    \* The database.
    row,          \* vault_items: the secret's row, or None
    archive,      \* vault_item_versions
    born,         \* rows inserted so far; the last one's id
    \* The handlers, one per client.
    pc,           \* the next statement of the handler
    req,          \* the request at work
    seen,         \* the row as the handler read it
    target,       \* the archived ciphertext a rollback goes back to
    reply,        \* the answer to the latest request
    calls,        \* requests made
    \* History, for the properties only.
    past,         \* the versions before the current one
    unkept,       \* versions overwritten unread or not archived
    took,         \* has the client's request taken effect
    labels,       \* the fields that all effective requests together leave
    fresh,        \* no metadata change has taken effect since the handler's read
    mixed         \* has metadata been merged into an outdated copy

dbVars == <<row, archive, born>>
handlerVars == <<pc, req, seen, target, reply, calls>>
historyVars == <<past, unkept, took, labels, fresh, mixed>>
vars == <<dbVars, handlerVars, historyVars>>

Steps == {"idle", "check", "insert", "read", "target", "archive", "write", "delete", "finish"}

\* The secret does not exist or has just been created, without metadata.
Init ==
    /\ row \in {None} \cup [id : {1}, version : {1}, ct : Ciphertexts, meta : {{}}]
    /\ archive = {}
    /\ born = IF row = None THEN 0 ELSE 1
    /\ pc = [c \in Clients |-> "idle"]
    /\ req = [c \in Clients |-> None]
    /\ seen = [c \in Clients |-> None]
    /\ target = [c \in Clients |-> None]
    /\ reply = [c \in Clients |-> None]
    /\ calls = [c \in Clients |-> 0]
    /\ past = {} /\ unkept = {}
    /\ took = [c \in Clients |-> FALSE]
    /\ labels = {} /\ mixed = FALSE
    /\ fresh = [c \in Clients |-> FALSE]

-----------------------------------------------------------------------------

GoTo(c, step) == pc' = [pc EXCEPT ![c] = step]

\* The handler answers.  The SDK's set() meets an error of its PUT with a POST,
\* and ignores the answer to that one.
Answer(c, a) ==
    /\ seen' = [seen EXCEPT ![c] = None]
    /\ target' = [target EXCEPT ![c] = None]
    /\ fresh' = [fresh EXCEPT ![c] = FALSE]
    /\ \/ /\ req[c].op = "set" /\ a # "ok"
          /\ req' = [req EXCEPT ![c] = [op |-> "setCreate", ct |-> req[c].ct, fields |-> {}]]
          /\ GoTo(c, "check")
          /\ UNCHANGED <<reply, took>>
       \/ /\ req[c].op # "set" \/ a = "ok"
          /\ reply' = [reply EXCEPT ![c] = IF req[c].op = "setCreate" THEN "ok" ELSE a]
          /\ GoTo(c, "idle")
          /\ req' = [req EXCEPT ![c] = None]
          /\ took' = [took EXCEPT ![c] = FALSE]

\* A request only reads, or fails without having changed anything.
Refuse(c, a) == Answer(c, a) /\ UNCHANGED <<dbVars, calls, past, unkept, labels, mixed>>

StatementFails(c) ==
    /\ DbFailures /\ pc[c] \in {"read", "insert", "write", "delete", "finish"}
    /\ Refuse(c, "failed")

FirstStep(op) ==
    CASE op = "create" -> "check" [] op = "delete" -> "delete" [] OTHER -> "read"

Call(c) ==
    /\ pc[c] = "idle" /\ calls[c] < MaxCalls
    /\ \E q \in Requests :
          /\ q.op \in Ops
          /\ req' = [req EXCEPT ![c] = q]
          /\ GoTo(c, FirstStep(q.op))
    /\ calls' = [calls EXCEPT ![c] = @ + 1]
    /\ reply' = [reply EXCEPT ![c] = None]
    /\ UNCHANGED <<dbVars, seen, target, historyVars>>

\* Create looks for a row first; a failing query passes for an absent row.
CreateCheck(c) ==
    /\ pc[c] = "check"
    /\ \/ row # None /\ Refuse(c, "conflict")
       \/ /\ row = None \/ DbFailures
          /\ GoTo(c, "insert")
          /\ UNCHANGED <<dbVars, req, seen, target, reply, calls, historyVars>>

\* The unique index admits one row.
CreateInsert(c) ==
    /\ pc[c] = "insert"
    /\ \/ row # None /\ Refuse(c, "failed")
       \/ /\ row = None
          /\ row' = [id |-> born + 1, version |-> 1, ct |-> req[c].ct, meta |-> req[c].fields]
          /\ born' = born + 1
          /\ seen' = [seen EXCEPT ![c] = row']
          /\ GoTo(c, "finish")
          /\ took' = [took EXCEPT ![c] = TRUE]
          /\ labels' = req[c].fields /\ mixed' = FALSE
          /\ UNCHANGED <<archive, req, target, reply, calls, past, unkept, fresh>>

\* Mutant: an update archives nothing.
NextStepNoArchive(op) ==
    CASE op = "rollback" -> "target" [] op \in {"patch", "update"} -> "write" [] OTHER -> "archive"

NextStep(op) ==
    CASE op = "rollback" -> "target" [] op = "patch" -> "write" [] OTHER -> "archive"

\* Update, PatchMetadata and Rollback read the row by its name hash.
Read(c) ==
    /\ pc[c] = "read"
    /\ \/ row = None /\ Refuse(c, "notFound")
       \/ /\ row # None
          /\ seen' = [seen EXCEPT ![c] = row]
          /\ GoTo(c, NextStep(req[c].op))
          /\ fresh' = [fresh EXCEPT ![c] = TRUE]
          /\ UNCHANGED <<dbVars, req, target, reply, calls, past, unkept, took, labels, mixed>>

HasPatch(c) == req[c].op \in {"update", "patch"} /\ req[c].meta # None

\* The merged metadata may have a value no field allows, or be too large; it is
\* rejected before the archive is written.
RejectMetadata(c) ==
    /\ pc[c] \in {"archive", "write"} /\ HasPatch(c)
    /\ pc[c] = "write" => req[c].op = "patch"
    /\ Refuse(c, "badRequest")

\* Rollback's target: any archived row of that version.
FindTarget(c) ==
    /\ pc[c] = "target"
    /\ \/ /\ \E a \in archive :
                /\ a.id = seen[c].id /\ a.version = req[c].version
                /\ target' = [target EXCEPT ![c] = a.ct]
          /\ GoTo(c, "archive")
          /\ UNCHANGED <<dbVars, req, seen, reply, calls, historyVars>>
       \/ /\ DbFailures \/ ~ \E a \in archive : a.id = seen[c].id /\ a.version = req[c].version
          /\ Refuse(c, "notFound")

\* Mutant: statements go by the name hash instead of the id.
StillThereByName(c) == row # None

\* The row that the handler read still exists; it may have changed.
StillThere(c) == row # None /\ row.id = seen[c].id

\* The row as it was read is archived; a failing insert is only logged.  It fails
\* when the row is gone.
ArchiveSeen(c) ==
    /\ pc[c] = "archive"
    /\ \/ /\ StillThere(c)
          /\ archive' = archive \cup
                {[id |-> seen[c].id, version |-> seen[c].version, ct |-> seen[c].ct]}
          /\ UNCHANGED unkept
       \/ /\ DbFailures \/ ~StillThere(c)
          /\ unkept' = IF StillThere(c) THEN unkept \cup {seen[c].version} ELSE unkept
          /\ UNCHANGED archive
    /\ GoTo(c, "write")
    /\ UNCHANGED <<row, born, req, seen, target, reply, calls, past, took, labels, fresh, mixed>>

\* Shallow merge of a patch into metadata m.
Merge(m, patch) == (m \ patch.drop) \cup patch.put

\* Mutant: metadata is always written back.
WrittenMetaToo(c) ==
    LET meta == IF HasPatch(c) THEN Merge(seen[c].meta, req[c].meta) ELSE seen[c].meta
    IN  IF req[c].op = "patch"
        THEN [id |-> row.id, version |-> row.version, ct |-> row.ct, meta |-> meta]
        ELSE [id |-> row.id, version |-> row.version + 1, meta |-> meta,
              ct |-> IF req[c].op = "rollback" THEN target[c] ELSE req[c].ct]

\* The row a write leaves: it has the ciphertext of the request or of the
\* rollback's target, and the patch merged into the metadata as it was read.
Written(c) ==
    LET meta == IF HasPatch(c) THEN Merge(seen[c].meta, req[c].meta) ELSE row.meta
    IN  IF req[c].op = "patch"
        THEN [id |-> row.id, version |-> row.version, ct |-> row.ct, meta |-> meta]
        ELSE [id |-> row.id, version |-> row.version + 1, meta |-> meta,
              ct |-> IF req[c].op = "rollback" THEN target[c] ELSE req[c].ct]

\* History of a write.
RecordWrite(c) ==
    /\ took' = [took EXCEPT ![c] = TRUE]
    /\ IF req[c].op = "patch" THEN UNCHANGED <<past, unkept>>
       ELSE /\ past' = past \cup {[version |-> row.version, ct |-> row.ct]}
            /\ unkept' = IF seen[c].version = row.version THEN unkept
                         ELSE unkept \cup {row.version}
    /\ IF ~HasPatch(c) THEN UNCHANGED <<labels, fresh, mixed>>
       ELSE /\ mixed' = (mixed \/ ~fresh[c])
            /\ labels' = IF mixed' THEN {} ELSE Merge(labels, req[c].meta)
            /\ fresh' = [d \in Clients |-> FALSE]

\* The UPDATE goes by the id of the row that was read.  When that row is gone it
\* changes nothing, without an error.
Write(c) ==
    /\ pc[c] = "write"
    /\ GoTo(c, "finish")
    /\ \/ /\ StillThere(c)
          /\ row' = Written(c)
          /\ RecordWrite(c)
       \/ ~StillThere(c) /\ UNCHANGED <<row, historyVars>>
    /\ UNCHANGED <<archive, born, req, seen, target, reply, calls>>

\* Delete; the archived versions go with the row.
Delete(c) ==
    /\ pc[c] = "delete"
    /\ \/ row = None /\ Refuse(c, "notFound")
       \/ /\ row # None
          /\ row' = None /\ archive' = {}
          /\ GoTo(c, "finish")
          /\ past' = {} /\ unkept' = {} /\ labels' = {} /\ mixed' = FALSE
          /\ took' = [took EXCEPT ![c] = TRUE]
          /\ UNCHANGED <<born, req, seen, target, reply, calls, fresh>>

\* The row is fetched again, by its id, for the answer; a delete just answers.
Finish(c) ==
    /\ pc[c] = "finish"
    /\ IF req[c].op = "delete" \/ StillThere(c)
       THEN Refuse(c, "ok") ELSE Refuse(c, "failed")

Next ==
    \E c \in Clients :
        \/ Call(c) \/ StatementFails(c) \/ CreateCheck(c) \/ CreateInsert(c)
        \/ Read(c) \/ RejectMetadata(c) \/ FindTarget(c) \/ ArchiveSeen(c)
        \/ Write(c) \/ Delete(c) \/ Finish(c)

Spec == Init /\ [][Next]_vars

-----------------------------------------------------------------------------
(* Properties.                                                             *)

\* Every variable keeps its type.
TypeOK ==
    /\ row \in Rows \cup {None}
    /\ archive \subseteq Archived
    /\ born \in Nat
    /\ pc \in [Clients -> Steps]
    /\ req \in [Clients -> Requests \cup {None}]
    /\ seen \in [Clients -> Rows \cup {None}]
    /\ target \in [Clients -> Ciphertexts \cup {None}]
    /\ reply \in [Clients -> Replies \cup {None}]
    /\ calls \in [Clients -> Nat]
    /\ past \subseteq PastVersions
    /\ unkept \subseteq Nat
    /\ took \in [Clients -> BOOLEAN]
    /\ labels \subseteq Fields
    /\ fresh \in [Clients -> BOOLEAN]
    /\ mixed \in BOOLEAN

Known(v, ct) == [id |-> row.id, version |-> v, ct |-> ct] \in archive

\* A superseded version can be restored unless its archiving failed or another
\* request overwrote it unread.
QuietVersionsKept ==
    row # None => \A p \in past : p.version \in unkept \/ Known(p.version, p.ct)

\* No field is lost or comes back while no request merges its patch into
\* metadata that another one has changed since: updates without metadata and
\* rollbacks leave it alone.
QuietMetadata == row # None /\ ~mixed => row.meta = labels

\* Seen from its callers, the secret behaves as SecretHistory says: whatever the
\* statements interleave with, each request takes effect at most once and as a
\* whole, "ok" means that it did, and a rollback restores the ciphertext its
\* version number stood for.
Plain(q) ==
    IF q = None THEN None
    ELSE CASE q.op \in {"create", "update"} -> [op |-> q.op, ct |-> q.ct]
           [] q.op = "rollback" -> q
           [] OTHER -> [op |-> q.op]

Promise == INSTANCE SecretHistory WITH
    cur <- IF row = None THEN None ELSE [version |-> row.version, ct |-> row.ct],
    call <- [c \in Clients |-> Plain(req[c])],
    phase <- [c \in Clients |-> IF pc[c] = "idle" THEN "idle"
                                ELSE IF took[c] THEN "done" ELSE "pending"],
    reply <- [c \in Clients |-> IF reply[c] \in {None, "ok"} THEN reply[c] ELSE "error"]

KeepsPromise == Promise!Spec
=============================================================================
