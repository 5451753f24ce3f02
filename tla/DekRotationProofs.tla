-------------------------- MODULE DekRotationProofs --------------------------
(***************************************************************************)
(* Proofs about DekRotation for any sets of secrets, tabs, clients and     *)
(* users, any page and batch size, with or without errors and lost         *)
(* replies.                                                                *)
(*                                                                         *)
(* The properties are not inductive.  A commit keeps the secrets readable  *)
(* because every quiet secret has been staged with its last value, which   *)
(* holds because it was in a batch, because it was fetched, because it was *)
(* listed: QuietSecretFollowed says how far a rotation has come with each  *)
(* secret, and Phases which request can be outstanding in which state of   *)
(* the tab.                                                                *)
(***************************************************************************)
EXTENDS DekRotation, FiniteSetTheorems, TLAPS

-----------------------------------------------------------------------------
(* The inductive invariants.                                               *)

\* What the requests under way have been given: ids in a batch were fetched, and a
\* handler holds what its earlier statements read.
RequestsFilled ==
    /\ \A r \in Rotators : \A i \in todo[r] \cup batch[r] : got[r][i] # None
    /\ \A w \in Writers :
          /\ wpc[w] # "idle" => wid[w] \in Ids
          /\ wpc[w] \in {"target", "archive"} => wseen[w] \in Rows
          /\ wpc[w] \in {"archive", "write"} => wct[w] \in Ciphertexts

TypeInv == TypeOK /\ RequestsFilled

\* The request that can be outstanding in each state of a tab; a request may
\* outlive the tab's interest in its reply.
Phase(r) ==
    /\ pc[r] \in {"idle", "fetching", "done"} => srv[r] = "none"
    /\ pc[r] = "idle" => \A e \in Envs : fetch[r][e] = "todo"
    /\ pc[r] = "starting" => srv[r] \in {"startCheck", "startInsert"}
    /\ pc[r] = "staging" => srv[r] \in {"none", "stageCheck", "stageTx"}
    /\ pc[r] = "committing" => srv[r] = "commit"
    /\ pc[r] \in {"starting", "staging", "committing"} \/ srv[r] = "commit" =>
          \A e \in Envs : fetch[r][e] = "done"
    /\ rotation[r] = "complete" =>
          srv[r] = "none" /\ pc[r] \in {"done", "cancelling", "failed", "uncancelled", "closed"}
    /\ \A e, f \in Envs : fetch[r][e] = "listed" /\ fetch[r][f] = "listed" => e = f

Phases == \A r \in Rotators : Phase(r)

\* How far rotation r has come with the quiet secret i.
Followed(r, i) ==
    /\ fetch[r][rows[i].env] = "listed" => rows[i].hash \in listed[r]
    /\ fetch[r][rows[i].env] = "done" => got[r][i] # None /\ got[r][i].val = latest[i]
    /\ pc[r] = "starting" => i \in todo[r]
    /\ pc[r] = "staging" => \/ i \in todo[r]
                            \/ srv[r] # "none" /\ i \in batch[r]
                            \/ staged[r][i] = latest[i]
    /\ srv[r] = "commit" /\ rotation[r] = "staging" => staged[r][i] = latest[i]

QuietSecretFollowed ==
    \A r \in Rotators : CanCommit(r) => \A i \in LiveRows \ exposed : Followed(r, i)

\* Every rotation that may commit lists the quiet grant holders.
GrantHoldersListed ==
    /\ \A u \in Users : grants[u] # None => u \in vaulted
    /\ \A r \in Rotators : members[r] \subseteq vaulted
    /\ \A r \in Rotators : CanCommit(r) =>
          \A u \in Users \ bypassed : grants[u] # None => u \in members[r]

\* The ciphertexts on record under a version number besides the current ones: the
\* archived, and those a handler has read and will archive.
Held(w) == [id |-> wid[w], version |-> wseen[w].version, ct |-> wseen[w].ct]

Holds(w) == wpc[w] \in {"target", "archive"} /\ Present(wid[w])

OnRecord == archive \cup {Held(w) : w \in {x \in Writers : Holds(x)}}

VersionsAgree ==
    /\ \A a \in archive : Present(a.id)
    /\ \A a \in OnRecord : /\ a.version <= rows[a.id].version
                           /\ a.version = rows[a.id].version => a.ct = rows[a.id].ct
    /\ \A a, b \in OnRecord : a.id = b.id /\ a.version = b.version => a.ct = b.ct
    /\ \A w \in Writers : wpc[w] # "idle" => rows[wid[w]] # None

SecretsInv == QuietSecretFollowed /\ QuietSecretsReadable
GrantsInv == GrantHoldersListed /\ QuietGrantsCurrent

-----------------------------------------------------------------------------
(* Types.                                                                  *)

LEMMA InitType == Init => TypeInv
<1> SUFFICES ASSUME Init PROVE TypeInv
  OBVIOUS
<1>1. InitDek \in Deks /\ SeedRows \subseteq Rows
  BY DEF SeedRows, NewRow, Rows, Hashes, Ciphertexts, Deks
<1>2. rows \in [Ids -> Rows \cup {None, Gone}]
  BY <1>1 DEF Init
<1>3. latest \in [Ids -> Values \cup {None}]
  <2>1. \A i \in Ids : Present(i) => rows[i].ct.val \in Values
    BY DEF Init, Present, SeedRows, NewRow
  <2> QED BY <2>1 DEF Init
<1>4. key \in [dek : Deks, version : Nat] /\ grants \in [Users -> Deks \cup {None}]
  BY <1>1 DEF Init
<1> QED
  BY <1>2, <1>3, <1>4
  DEF Init, TypeInv, TypeOK, RequestsFilled, Statuses, ClientStates, HandlerStates, ArchiveRows

\* What a rejected request leaves in place.
LEMMA RejectType ==
    ASSUME TypeOK, NEW r \in Rotators, Reject(r)
    PROVE  pc' \in [Rotators -> ClientStates] /\ srv' \in [Rotators -> HandlerStates]
BY DEF TypeOK, Reject, CatchBlock, ClientStates, HandlerStates

LEMMA ApplyType ==
    ASSUME TypeOK, NEW r \in Rotators, ApplyRotation(r)
    PROVE  /\ rows' \in [Ids -> Rows \cup {None, Gone}]
           /\ key' \in [dek : Deks, version : Nat]
           /\ grants' \in [Users -> Deks \cup {None}]
           /\ staged' \in [Rotators -> [Ids -> Values \cup {None}]]
           /\ bypassed' \subseteq Users
           /\ latest' = latest /\ exposed' = exposed
<1>1. r \in Deks
  BY DEF Deks
<1>2. ASSUME NEW i \in Ids, Present(i), staged[r][i] # None
      PROVE  RotatedRow(r, i) \in Rows
  <2>1. rows[i] \in Rows /\ staged[r][i] \in Values
    BY <1>2 DEF TypeOK, Present
  <2> QED BY <1>1, <2>1 DEF RotatedRow, Rewritten, Rows, Ciphertexts
<1>3. rows' \in [Ids -> Rows \cup {None, Gone}]
  BY <1>2 DEF TypeOK, ApplyRotation
<1>4. key' \in [dek : Deks, version : Nat] /\ grants' \in [Users -> Deks \cup {None}]
  BY <1>1 DEF TypeOK, ApplyRotation
<1>5. staged' \in [Rotators -> [Ids -> Values \cup {None}]]
  BY DEF TypeOK, ApplyRotation
<1>6. bypassed' \subseteq Users
  BY DEF TypeOK, ApplyRotation, BypassedAfter
<1> QED
  BY <1>3, <1>4, <1>5, <1>6 DEF ApplyRotation

LEMMA RotatorType ==
    ASSUME TypeInv, NEW r \in Rotators, RotatorStep(r)
    PROVE  TypeInv'
<1> USE DEF TypeInv, TypeOK, RequestsFilled, dbVars, clientVars, writerVars, historyVars
<1>1. CASE Open(r)
  BY <1>1 DEF Open, ClientStates
<1>2. CASE SendStart(r)
  BY <1>2 DEF SendStart, ClientStates, HandlerStates
<1>3. CASE StartCheck(r)
  BY <1>3, RejectType DEF StartCheck, HandlerStates
<1>4. CASE StartInsert(r)
  BY <1>4, RejectType DEF StartInsert, ClientStates, HandlerStates, Statuses
<1>5. ASSUME NEW e \in Envs, ListSecrets(r, e) PROVE TypeInv'
  <2>1. PICK S \in FirstPages(e) \cup (IF ReadErrors THEN {{}} ELSE {}) :
          /\ listed' = [listed EXCEPT ![r] = {rows[i].hash : i \in S}]
          /\ fetch' = [fetch EXCEPT ![r][e] = IF S = {} THEN "done" ELSE "listed"]
          /\ exposed' = exposed \cup (InEnv(e) \ S)
    BY <1>5 DEF ListSecrets
  <2>2. S \subseteq InEnv(e) /\ InEnv(e) \subseteq Ids
    BY DEF FirstPages, InEnv, LiveRows
  <2>3. \A i \in S : rows[i].hash \in Hashes
    BY <2>2 DEF InEnv, LiveRows, Present, Rows
  <2>4. listed' \in [Rotators -> SUBSET Hashes]
    BY <2>1, <2>3
  <2> QED BY <1>5, <2>1, <2>2, <2>4 DEF ListSecrets
<1>6. ASSUME NEW e \in Envs, BulkFetch(r, e) PROVE TypeInv'
  <2>1. InEnv(e) \subseteq Ids /\ \A i \in InEnv(e) : rows[i].ct \in Ciphertexts
    BY DEF InEnv, LiveRows, Present, Rows
  <2>2. got' \in [Rotators -> [Ids -> Ciphertexts \cup {None}]] /\ exposed' \subseteq Ids
    BY <1>6, <2>1 DEF BulkFetch
  <2>3. \A q \in Rotators, i \in Ids : got[q][i] # None => got'[q][i] # None
    BY <1>6, <2>1, ConstantsAssumption DEF BulkFetch
  <2> QED BY <1>6, <2>2, <2>3 DEF BulkFetch
<1>7. CASE SendStage(r)
  <2>1. PICK B \in SUBSET todo[r] : /\ batch' = [batch EXCEPT ![r] = B]
                                    /\ todo' = [todo EXCEPT ![r] = @ \ B]
    BY <1>7 DEF SendStage, Batches
  <2>2. batch' \in [Rotators -> SUBSET Ids] /\ todo' \in [Rotators -> SUBSET Ids]
    BY <2>1
  <2>3. \A q \in Rotators : todo'[q] \cup batch'[q] \subseteq todo[q] \cup batch[q]
    BY <2>1
  <2> QED BY <1>7, <2>2, <2>3 DEF SendStage, HandlerStates
<1>18. CASE DecryptFails(r)
  BY <1>18 DEF DecryptFails, ClientStates
<1>8. CASE StageCheck(r)
  BY <1>8, RejectType DEF StageCheck, HandlerStates
<1>9. CASE StageTx(r)
  <2>1. \A i \in batch[r] : got[r][i].val \in Values
    BY DEF Ciphertexts
  <2> DEFINE restaged == [i \in Ids |-> IF i \in batch[r] THEN got[r][i].val
                                        ELSE staged[r][i]]
  <2>4. restaged \in [Ids -> Values \cup {None}]
    BY <2>1
  <2>5. staged' = staged \/ staged' = [staged EXCEPT ![r] = restaged]
    BY <1>9 DEF StageTx
  <2> HIDE DEF restaged
  <2>2. staged' \in [Rotators -> [Ids -> Values \cup {None}]]
    BY <2>4, <2>5
  <2>3. pc' \in [Rotators -> ClientStates] /\ srv' \in [Rotators -> HandlerStates]
    BY <1>9, RejectType DEF StageTx, HandlerStates
  <2> QED BY <1>9, <2>2, <2>3 DEF StageTx
<1>10. CASE StatementFails(r)
  BY <1>10, RejectType DEF StatementFails
<1>11. CASE SendCommit(r)
  BY <1>11 DEF SendCommit, ClientStates, HandlerStates
<1>12. CASE CommitTx(r)
  BY <1>12, ApplyType DEF CommitTx, ClientStates, HandlerStates, Statuses
<1>13. CASE CommitRefused(r)
  BY <1>13, RejectType DEF CommitRefused
<1>14. CASE CommitFails(r)
  <2>1. rotation' \in [Rotators -> Statuses]
    <3>1. \/ rotation' = rotation
          \/ \E s \in {"complete", "failed"} : rotation' = [rotation EXCEPT ![r] = s]
      BY <1>14 DEF CommitFails
    <3> QED
      BY <3>1 DEF Statuses
  <2>2. CASE UNCHANGED <<rows, key, grants, staged, historyVars>>
    BY <1>14, <2>1, <2>2, RejectType DEF CommitFails
  <2>3. CASE ApplyRotation(r)
    BY <1>14, <2>1, <2>3, RejectType, ApplyType DEF CommitFails
  <2> QED
    BY <1>14, <2>2, <2>3 DEF CommitFails
<1>15. CASE Cancel(r)
  <2>0. rotation' = rotation \/ rotation' = [rotation EXCEPT ![r] = "none"]
    BY <1>15 DEF Cancel
  <2>1. rotation' \in [Rotators -> Statuses]
    BY <2>0 DEF Statuses
  <2>2. CASE UNCHANGED staged
    BY <1>15, <2>1, <2>2 DEF Cancel, ClientStates
  <2>3. CASE staged' = [staged EXCEPT ![r] = [i \in Ids |-> None]]
    <3>1. [i \in Ids |-> None] \in [Ids -> Values \cup {None}]
      OBVIOUS
    <3>2. staged' \in [Rotators -> [Ids -> Values \cup {None}]]
      BY <2>3, <3>1
    <3> QED BY <1>15, <2>1, <3>2 DEF Cancel, ClientStates
  <2> QED BY <1>15, <2>2, <2>3 DEF Cancel
<1>16. CASE LoseReply(r)
  BY <1>16 DEF LoseReply, CatchBlock, ClientStates
<1>17. CASE CloseTab(r)
  BY <1>17 DEF CloseTab, ClientStates
<1> QED
  BY <1>1, <1>2, <1>3, <1>4, <1>5, <1>6, <1>7, <1>8, <1>9, <1>10, <1>11, <1>12,
     <1>13, <1>14, <1>15, <1>16, <1>17, <1>18 DEF RotatorStep

LEMMA WriterType ==
    ASSUME TypeInv, NEW w \in Writers, WriterStep(w)
    PROVE  TypeInv'
<1> USE DEF TypeInv, TypeOK, RequestsFilled, dbVars, clientVars, writerVars, historyVars
<1>1. CASE LoadKey(w)
  BY <1>1, ConstantsAssumption DEF LoadKey
<1>2. ASSUME NEW i \in Ids, NEW e \in Envs, NEW n \in Names, NEW v \in Values,
             CreateSecret(w, i, e, n, v)
      PROVE  TypeInv'
  <2>1. wdek[w] \in Deks
    BY <1>2 DEF CreateSecret, Begin
  <2>2. NewRow(e, wdek[w], n, v) \in Rows
    BY <2>1 DEF NewRow, Rows, Hashes, Ciphertexts
  <2>3. rows' \in [Ids -> Rows \cup {None, Gone}]
    BY <1>2, <2>2 DEF CreateSecret
  <2>4. latest' \in [Ids -> Values \cup {None}] /\ exposed' \subseteq Ids
    BY <1>2 DEF CreateSecret, RecordWrite
  <2>5. wops' \in [Writers -> Nat]
    BY <1>2 DEF CreateSecret, Begin
  <2> QED BY <1>2, <2>3, <2>4, <2>5 DEF CreateSecret, RecordWrite
<1>3. ASSUME NEW i \in Ids, NEW v \in Values, UpdateRead(w, i, v) PROVE TypeInv'
  <2>1. rows[i] \in Rows /\ [dek |-> wdek[w], val |-> v] \in Ciphertexts
    BY <1>3 DEF UpdateRead, Present, Begin, Ciphertexts
  <2>2. wops' \in [Writers -> Nat]
    BY <1>3 DEF UpdateRead, Begin
  <2> QED BY <1>3, <2>1, <2>2 DEF UpdateRead
<1>4. ASSUME NEW i \in Ids, RollbackRead(w, i) PROVE TypeInv'
  <2>1. rows[i] \in Rows
    BY <1>4 DEF RollbackRead, Present
  <2>2. wops' \in [Writers -> Nat]
    BY <1>4 DEF RollbackRead, Begin
  <2> QED BY <1>4, <2>1, <2>2 DEF RollbackRead
<1>5. ASSUME NEW i \in Ids, DeleteSecret(w, i) PROVE TypeInv'
  BY <1>5 DEF DeleteSecret, Begin
<1>6. CASE RollbackTarget(w)
  <2>1. \A a \in archive : a.ct \in Ciphertexts
    BY DEF ArchiveRows
  <2>2. CASE Idle(w)
    BY <1>6, <2>2 DEF RollbackTarget, Idle
  <2>3. ASSUME NEW a \in archive, wct' = [wct EXCEPT ![w] = a.ct],
               wpc' = [wpc EXCEPT ![w] = "archive"], UNCHANGED <<wid, wseen>>
        PROVE  TypeInv'
    BY <1>6, <2>1, <2>3 DEF RollbackTarget
  <2> QED BY <1>6, <2>2, <2>3 DEF RollbackTarget
<1>7. CASE ArchiveSeen(w)
  <2>1. [id |-> wid[w], version |-> wseen[w].version, ct |-> wseen[w].ct] \in ArchiveRows
    BY <1>7 DEF ArchiveSeen, ArchiveRows, Rows
  <2>2. archive' \subseteq ArchiveRows
    BY <1>7, <2>1 DEF ArchiveSeen
  <2> QED BY <1>7, <2>2 DEF ArchiveSeen
<1>8. CASE WriteRow(w)
  <2>1. wid[w] \in Ids /\ wct[w] \in Ciphertexts
    BY <1>8 DEF WriteRow
  <2>2. CASE /\ Present(wid[w])
             /\ rows' = [rows EXCEPT ![wid[w]] = Rewritten(@, wct[w])]
             /\ RecordWrite(wid[w], rows[wid[w]].env, wct[w])
    <3>1. rows[wid[w]] \in Rows
      BY <2>1, <2>2 DEF Present
    <3>2. Rewritten(rows[wid[w]], wct[w]) \in Rows
      BY <2>1, <3>1 DEF Rewritten, Rows
    <3>3. rows' \in [Ids -> Rows \cup {None, Gone}]
      BY <2>2, <3>2
    <3>4. latest' \in [Ids -> Values \cup {None}] /\ exposed' \subseteq Ids
      BY <2>1, <2>2 DEF RecordWrite, Ciphertexts
    <3> QED BY <1>8, <2>2, <3>3, <3>4 DEF WriteRow, RecordWrite, Idle
  <2>3. CASE UNCHANGED <<rows, historyVars>>
    BY <1>8, <2>3 DEF WriteRow, Idle
  <2> QED BY <1>8, <2>2, <2>3 DEF WriteRow
<1>9. ASSUME NEW u \in Users, GrantAccess(w, u) PROVE TypeInv'
  <2>1. wops' \in [Writers -> Nat] /\ wdek[w] \in Deks
    BY <1>9 DEF GrantAccess, PressGrant, Begin
  <2>2. grants' \in [Users -> Deks \cup {None}] /\ bypassed' \subseteq Users
    BY <1>9, <2>1 DEF GrantAccess, PressGrant
  <2> QED BY <1>9, <2>1, <2>2 DEF GrantAccess, PressGrant, Begin
<1> QED
  BY <1>1, <1>2, <1>3, <1>4, <1>5, <1>6, <1>7, <1>8, <1>9 DEF WriterStep

LEMMA NextType == TypeInv /\ [Next]_vars => TypeInv'
<1> SUFFICES ASSUME TypeInv, [Next]_vars PROVE TypeInv'
  OBVIOUS
<1>1. ASSUME NEW u \in Users, JoinVault(u) PROVE TypeInv'
  BY <1>1 DEF JoinVault, TypeInv, TypeOK, RequestsFilled, clientVars, writerVars, historyVars
<1>2. CASE UNCHANGED vars
  BY <1>2 DEF vars, dbVars, clientVars, writerVars, historyVars, TypeInv, TypeOK, RequestsFilled
<1> QED
  BY <1>1, <1>2, RotatorType, WriterType DEF Next

\* In every reachable state each variable has its type and every request under
\* way holds what its earlier steps read.
THEOREM TypeCorrect == Spec => []TypeOK
<1>1. Spec => []TypeInv
  BY InitType, NextType, PTL DEF Spec
<1>2. TypeInv => TypeOK
  BY DEF TypeInv
<1> QED BY <1>1, <1>2, PTL

-----------------------------------------------------------------------------
(* Phases.                                                                 *)

\* A commit keeps rows alive, where they are, and gives each staged one the
\* staged value under the new key.
LEMMA ApplyRows ==
    ASSUME TypeInv, NEW r \in Rotators, ApplyRotation(r), NEW i \in Ids
    PROVE  /\ ~Present(i) => rows'[i] = rows[i]
           /\ Present(i) => /\ rows'[i] \in Rows
                            /\ rows'[i].env = rows[i].env
                            /\ rows'[i].hash = rows[i].hash
           /\ Present(i) /\ staged[r][i] # None =>
                 /\ rows'[i].ct = [dek |-> r, val |-> staged[r][i]]
                 /\ rows'[i].version = rows[i].version + 1
           /\ Present(i) /\ staged[r][i] = None => rows'[i] = rows[i]
<1>1. rows'[i] = IF Present(i) /\ staged[r][i] # None THEN RotatedRow(r, i) ELSE rows[i]
  BY DEF ApplyRotation
<1>2. Present(i) => rows[i] \in Rows
  BY DEF TypeInv, TypeOK, Present
<1>3. rows' \in [Ids -> Rows \cup {None, Gone}]
  BY ApplyType DEF TypeInv
<1>4. Present(i) /\ staged[r][i] # None => RotatedRow(r, i) \in Rows
  <2> SUFFICES ASSUME Present(i), staged[r][i] # None PROVE RotatedRow(r, i) \in Rows
    OBVIOUS
  <2>1. staged[r][i] \in Values /\ r \in Deks
    BY DEF TypeInv, TypeOK, Deks
  <2> QED BY <1>2, <2>1 DEF RotatedRow, Rewritten, Rows, Ciphertexts
<1> QED
  BY <1>1, <1>2, <1>4 DEF RotatedRow, Rewritten

\* A step of tab r is no step of another tab, and leaves the secrets in place.
LEMMA RotatorFrame ==
    ASSUME TypeInv, NEW r \in Rotators, RotatorStep(r)
    PROVE  /\ \A q \in Rotators \ {r} :
                 /\ pc'[q] = pc[q] /\ srv'[q] = srv[q] /\ rotation'[q] = rotation[q]
                 /\ staged'[q] = staged[q] /\ members'[q] = members[q]
                 /\ fetch'[q] = fetch[q] /\ listed'[q] = listed[q]
                 /\ got'[q] = got[q] /\ todo'[q] = todo[q] /\ batch'[q] = batch[q]
           /\ latest' = latest /\ exposed \subseteq exposed' /\ vaulted' = vaulted
           /\ \A i \in Ids : Present(i)' = Present(i)
           /\ \A i \in LiveRows : /\ rows'[i].env = rows[i].env
                                  /\ rows'[i].hash = rows[i].hash
<1> USE DEF TypeInv, TypeOK, dbVars, clientVars, writerVars, historyVars, Present, LiveRows
<1>1. CASE Open(r)
  BY <1>1 DEF Open
<1>2. CASE SendStart(r)
  BY <1>2 DEF SendStart
<1>3. CASE StartCheck(r)
  BY <1>3 DEF StartCheck, Reject
<1>4. CASE StartInsert(r)
  BY <1>4 DEF StartInsert, Reject, Waiting, CatchBlock
<1>5. CASE \E e \in Envs : ListSecrets(r, e)
  BY <1>5 DEF ListSecrets
<1>6. CASE \E e \in Envs : BulkFetch(r, e)
  BY <1>6 DEF BulkFetch
<1>7. CASE SendStage(r)
  BY <1>7 DEF SendStage
<1>8. CASE DecryptFails(r)
  BY <1>8 DEF DecryptFails
<1>9. CASE StageCheck(r)
  BY <1>9 DEF StageCheck, Reject
<1>10. CASE StageTx(r)
  BY <1>10 DEF StageTx, Reject
<1>11. CASE StatementFails(r)
  BY <1>11 DEF StatementFails, Reject
<1>12. CASE SendCommit(r)
  BY <1>12 DEF SendCommit
<1>13. ASSUME ApplyRotation(r)
       PROVE  /\ latest' = latest /\ exposed \subseteq exposed'
              /\ \A i \in Ids : Present(i)' = Present(i)
              /\ \A i \in LiveRows : /\ rows'[i].env = rows[i].env
                                     /\ rows'[i].hash = rows[i].hash
              /\ \A q \in Rotators \ {r} : staged'[q] = staged[q]
  <2>1. latest' = latest /\ exposed' = exposed
        /\ \A q \in Rotators \ {r} : staged'[q] = staged[q]
    BY <1>13 DEF ApplyRotation
  <2>2. None \notin Rows /\ Gone \notin Rows
    BY ConstantsAssumption
  <2> QED BY <1>13, <2>1, <2>2, ApplyRows
<1>14. CASE CommitTx(r)
  BY <1>13, <1>14 DEF CommitTx
<1>15. CASE CommitRefused(r)
  BY <1>15 DEF CommitRefused, Reject
<1>16. CASE CommitFails(r)
  <2>1. CASE UNCHANGED <<rows, key, grants, staged, historyVars>>
    BY <1>16, <2>1 DEF CommitFails, Reject
  <2>2. CASE ApplyRotation(r)
    BY <1>13, <1>16, <2>2 DEF CommitFails, Reject
  <2> QED BY <1>16, <2>1, <2>2 DEF CommitFails
<1>17. CASE Cancel(r)
  BY <1>17 DEF Cancel
<1>18. CASE LoseReply(r)
  BY <1>18 DEF LoseReply
<1>19. CASE CloseTab(r)
  BY <1>19 DEF CloseTab
<1> QED
  BY <1>1, <1>2, <1>3, <1>4, <1>5, <1>6, <1>7, <1>8, <1>9, <1>10, <1>11, <1>12,
     <1>14, <1>15, <1>16, <1>17, <1>18, <1>19 DEF RotatorStep

LEMMA RotatorPhase ==
    ASSUME TypeInv, Phases, NEW r \in Rotators, RotatorStep(r)
    PROVE  Phase(r)'
<1>0. Phase(r)
  BY DEF Phases
<1> USE <1>0 DEF TypeInv, TypeOK, dbVars, clientVars, writerVars, historyVars, Phase
<1>1. CASE Open(r)
  BY <1>1 DEF Open
<1>2. CASE SendStart(r)
  BY <1>2 DEF SendStart
<1>3. CASE StartCheck(r)
  BY <1>3 DEF StartCheck, Reject, Waiting, CatchBlock
<1>4. CASE StartInsert(r)
  BY <1>4 DEF StartInsert, Reject, Waiting, CatchBlock
<1>5. CASE \E e \in Envs : ListSecrets(r, e)
  BY <1>5 DEF ListSecrets
<1>6. CASE \E e \in Envs : BulkFetch(r, e)
  BY <1>6 DEF BulkFetch
<1>7. CASE SendStage(r)
  BY <1>7 DEF SendStage
<1>8. CASE DecryptFails(r)
  BY <1>8 DEF DecryptFails
<1>9. CASE StageCheck(r)
  BY <1>9 DEF StageCheck, Reject, Waiting, CatchBlock
<1>10. CASE StageTx(r)
  BY <1>10 DEF StageTx, Reject, Waiting, CatchBlock
<1>11. CASE StatementFails(r)
  BY <1>11 DEF StatementFails, Reject, Waiting, CatchBlock
<1>12. CASE SendCommit(r)
  BY <1>12 DEF SendCommit
<1>13. CASE CommitTx(r)
  BY <1>13 DEF CommitTx, ClientStates
<1>14. CASE CommitRefused(r)
  BY <1>14 DEF CommitRefused, Reject, Waiting, CatchBlock
<1>15. CASE CommitFails(r)
  <2>1. /\ srv'[r] = "none" /\ pc[r] \notin {"idle", "fetching", "done", "starting", "staging"}
        /\ pc'[r] = IF pc[r] = "committing" THEN "cancelling" ELSE pc[r]
        /\ UNCHANGED fetch
    BY <1>15 DEF CommitFails, Reject, Waiting, CatchBlock
  <2>2. pc'[r] \in {"cancelling", "failed", "uncancelled", "closed"}
    BY <2>1 DEF ClientStates
  <2> QED
    BY <2>1, <2>2
<1>16. CASE Cancel(r)
  BY <1>16 DEF Cancel
<1>17. CASE LoseReply(r)
  BY <1>17 DEF LoseReply, Waiting, CatchBlock
<1>18. CASE CloseTab(r)
  BY <1>18 DEF CloseTab
<1> QED
  BY <1>1, <1>2, <1>3, <1>4, <1>5, <1>6, <1>7, <1>8, <1>9, <1>10, <1>11, <1>12,
     <1>13, <1>14, <1>15, <1>16, <1>17, <1>18 DEF RotatorStep

\* The other clients touch a tab's variables only by deleting a staged item.
LEMMA WriterFrame ==
    ASSUME NEW w \in Writers, WriterStep(w)
    PROVE  UNCHANGED clientVars /\ UNCHANGED rotation /\ UNCHANGED vaulted
BY DEF WriterStep, LoadKey, CreateSecret, UpdateRead, RollbackRead, DeleteSecret,
       RollbackTarget, ArchiveSeen, WriteRow, GrantAccess, PressGrant, dbVars

LEMMA NextPhases == TypeInv /\ Phases /\ [Next]_vars => Phases'
<1> SUFFICES ASSUME TypeInv, Phases, [Next]_vars, NEW q \in Rotators PROVE Phase(q)'
  BY DEF Phases
<1>1. CASE \E r \in Rotators : RotatorStep(r)
  <2> PICK r \in Rotators : RotatorStep(r)
    BY <1>1
  <2>1. CASE q = r
    BY <2>1, RotatorPhase
  <2>2. CASE q # r
    BY <2>2, RotatorFrame DEF Phases, Phase
  <2> QED BY <2>1, <2>2
<1>2. CASE \E w \in Writers : WriterStep(w)
  BY <1>2, WriterFrame DEF Phases, Phase, clientVars
<1>3. CASE \E u \in Users : JoinVault(u)
  BY <1>3 DEF JoinVault, Phases, Phase, clientVars
<1>4. CASE UNCHANGED vars
  BY <1>4 DEF vars, dbVars, clientVars, Phases, Phase
<1> QED
  BY <1>1, <1>2, <1>3, <1>4 DEF Next

LEMMA InitPhases == Init => Phases
BY DEF Init, Phases, Phase

-----------------------------------------------------------------------------
(* Quiet secrets.                                                          *)

\* What the invariant says of one quiet secret and a rotation that may commit.
LEMMA QuietFacts ==
    ASSUME TypeInv, SecretsInv, NEW i \in LiveRows \ exposed
    PROVE  /\ i \in Ids /\ rows[i] \in Rows /\ latest[i] \in Values /\ latest[i] # None
           /\ rows[i].env \in Envs
           /\ rows[i].ct = [dek |-> key.dek, val |-> latest[i]]
           /\ \A r \in Rotators : CanCommit(r) => Followed(r, i)
<1>1. i \in Ids /\ rows[i] \in Rows
  BY DEF LiveRows, Present, TypeInv, TypeOK
<1>2. rows[i].ct = [dek |-> key.dek, val |-> latest[i]]
  BY DEF SecretsInv, QuietSecretsReadable
<1>3. latest[i] = rows[i].ct.val
  BY <1>2
<1>4. latest[i] \in Values /\ latest[i] # None
  BY <1>1, <1>3, ConstantsAssumption DEF Rows, Ciphertexts
<1> QED
  BY <1>1, <1>2, <1>4 DEF Rows, SecretsInv, QuietSecretFollowed

\* A rotation keeps every quiet secret in sight, step by step.
LEMMA RotatorFollows ==
    ASSUME TypeInv, Phases, SecretsInv, NEW r \in Rotators, RotatorStep(r),
           CanCommit(r)', NEW i \in LiveRows' \ exposed'
    PROVE  Followed(r, i)'
<1>1. /\ i \in LiveRows \ exposed /\ rows'[i].env = rows[i].env
      /\ rows'[i].hash = rows[i].hash /\ latest'[i] = latest[i]
  BY RotatorFrame DEF LiveRows
<1>2. /\ i \in Ids /\ rows[i].env \in Envs /\ latest[i] # None /\ latest[i] \in Values
      /\ rows[i].ct.val = latest[i] /\ rows[i] \in Rows
      /\ CanCommit(r) => Followed(r, i)
  <2>1. rows[i].ct = [dek |-> key.dek, val |-> latest[i]]
    BY <1>1, QuietFacts
  <2>2. rows[i].ct.val = latest[i]
    BY <2>1
  <2> QED BY <1>1, <2>2, QuietFacts
<1>3. Phase(r)
  BY DEF Phases
<1> USE <1>1, <1>2, <1>3
    DEF TypeInv, TypeOK, dbVars, clientVars, writerVars, historyVars, CanCommit, Followed
<1>4. CASE Open(r)
  BY <1>4 DEF Open, Phase
<1>5. CASE SendStart(r)
  BY <1>5 DEF SendStart, Phase
<1>6. CASE StartCheck(r)
  BY <1>6 DEF StartCheck, Reject, Waiting, CatchBlock, Phase
<1>7. CASE StartInsert(r)
  BY <1>7 DEF StartInsert, Reject, Waiting, CatchBlock, Phase
<1>8. ASSUME NEW e \in Envs, ListSecrets(r, e) PROVE Followed(r, i)'
  <2>1. PICK S \in FirstPages(e) \cup (IF ReadErrors THEN {{}} ELSE {}) :
          /\ listed' = [listed EXCEPT ![r] = {rows[j].hash : j \in S}]
          /\ fetch' = [fetch EXCEPT ![r][e] = IF S = {} THEN "done" ELSE "listed"]
          /\ exposed' = exposed \cup (InEnv(e) \ S)
    BY <1>8 DEF ListSecrets
  <2>2. CASE rows[i].env = e
    <3>1. i \in S
      BY <2>1, <2>2 DEF InEnv
    <3>2. fetch'[r][e] = "listed"
      BY <2>1, <3>1
    <3>3. rows'[i].hash \in listed'[r]
      BY <2>1, <3>1
    <3> QED BY <1>8, <2>2, <3>2, <3>3 DEF ListSecrets, Phase
  <2>3. CASE rows[i].env # e
    BY <1>8, <2>1, <2>3 DEF ListSecrets, Phase
  <2> QED BY <2>2, <2>3
<1>9. ASSUME NEW e \in Envs, BulkFetch(r, e) PROVE Followed(r, i)'
  <2>1. PICK ok \in (IF ReadErrors THEN BOOLEAN ELSE {TRUE}) :
          LET found == IF ok THEN {j \in InEnv(e) : rows[j].hash \in listed[r]} ELSE {}
          IN  /\ got' = [got EXCEPT ![r] =
                           [j \in Ids |-> IF j \in found THEN rows[j].ct ELSE got[r][j]]]
              /\ exposed' = IF ok THEN exposed ELSE exposed \cup InEnv(e)
    BY <1>9 DEF BulkFetch
  <2>2. CASE rows[i].env = e
    <3>1. i \in InEnv(e)
      BY <2>2 DEF InEnv
    <3>2. ok /\ rows[i].hash \in listed[r]
      BY <1>9, <2>1, <2>2, <3>1 DEF BulkFetch, Phase
    <3>3. got'[r][i] = rows[i].ct
      BY <2>1, <3>1, <3>2
    <3>4. got'[r][i] # None
      BY <3>3, ConstantsAssumption DEF Rows
    <3> QED BY <1>9, <2>2, <3>3, <3>4 DEF BulkFetch, Phase
  <2>3. CASE rows[i].env # e
    <3>1. got'[r][i] = got[r][i]
      BY <2>1, <2>3 DEF InEnv
    <3>2. fetch[r][rows[i].env] # "listed"
      BY <1>9, <2>3 DEF BulkFetch, Phase
    <3> QED BY <1>9, <2>3, <3>1, <3>2 DEF BulkFetch, Phase
  <2> QED BY <2>2, <2>3
<1>10. CASE SendStage(r)
  <2>1. PICK B \in SUBSET todo[r] : /\ batch' = [batch EXCEPT ![r] = B]
                                    /\ todo' = [todo EXCEPT ![r] = @ \ B]
    BY <1>10 DEF SendStage, Batches
  <2> QED BY <1>10, <2>1 DEF SendStage, Phase
<1>11. CASE DecryptFails(r)
  BY <1>11 DEF DecryptFails, Phase
<1>12. CASE StageCheck(r)
  BY <1>12 DEF StageCheck, Reject, Waiting, CatchBlock, Phase
<1>13. CASE StageTx(r)
  <2>1. CASE Reject(r)
    BY <1>13, <2>1 DEF StageTx, Reject, Waiting, CatchBlock, Phase
  <2>2. CASE /\ staged' = [staged EXCEPT ![r] =
                            [j \in Ids |-> IF j \in batch[r] THEN got[r][j].val
                                           ELSE staged[r][j]]]
             /\ srv' = [srv EXCEPT ![r] = "none"]
             /\ UNCHANGED pc
    <3>1. staged'[r][i] = IF i \in batch[r] THEN got[r][i].val ELSE staged[r][i]
      BY <2>2
    <3> QED BY <1>13, <2>2, <3>1 DEF StageTx, Phase
  <2> QED BY <1>13, <2>1, <2>2 DEF StageTx
<1>14. CASE StatementFails(r)
  BY <1>14 DEF StatementFails, Reject, Waiting, CatchBlock, Phase
<1>15. CASE SendCommit(r)
  BY <1>15 DEF SendCommit, Phase
<1>16. CASE CommitTx(r)
  BY <1>16 DEF CommitTx, Phase
<1>17. CASE CommitRefused(r)
  BY <1>17 DEF CommitRefused, Reject, Waiting, CatchBlock, Phase
<1>18. CASE CommitFails(r)
  BY <1>18 DEF CommitFails, Reject, Waiting, CatchBlock, Phase
<1>19. CASE Cancel(r)
  BY <1>19 DEF Cancel, Phase
<1>20. CASE LoseReply(r)
  BY <1>20 DEF LoseReply, Waiting, CatchBlock, Phase
<1>21. CASE CloseTab(r)
  BY <1>21 DEF CloseTab, Phase
<1> QED
  BY <1>4, <1>5, <1>6, <1>7, <1>8, <1>9, <1>10, <1>11, <1>12, <1>13, <1>14, <1>15,
     <1>16, <1>17, <1>18, <1>19, <1>20, <1>21 DEF RotatorStep

\* A commit gives every quiet secret its last value under the new key.
LEMMA ApplyReadable ==
    ASSUME TypeInv, SecretsInv, NEW r \in Rotators, srv[r] = "commit",
           rotation[r] = "staging", ApplyRotation(r)
    PROVE  QuietSecretsReadable'
<1> SUFFICES ASSUME NEW i \in LiveRows' \ exposed'
             PROVE  rows'[i].ct = [dek |-> key'.dek, val |-> latest'[i]]
  BY DEF QuietSecretsReadable
<1>1. latest' = latest /\ exposed' = exposed /\ key'.dek = r
  BY DEF ApplyRotation
<1>2. i \in LiveRows \ exposed
  BY <1>1, ApplyRows DEF LiveRows, Present
<1>3. Followed(r, i) /\ latest[i] # None
  BY <1>2, QuietFacts DEF CanCommit
<1>4. staged[r][i] = latest[i] /\ staged[r][i] # None
  BY <1>3 DEF Followed
<1> QED
  BY <1>1, <1>2, <1>4, ApplyRows DEF LiveRows

LEMMA RotatorReadable ==
    ASSUME TypeInv, SecretsInv, NEW r \in Rotators, RotatorStep(r)
    PROVE  QuietSecretsReadable'
<1>1. CASE UNCHANGED <<rows, key>>
  BY <1>1, RotatorFrame DEF SecretsInv, QuietSecretsReadable, LiveRows
<1>2. CASE CommitTx(r)
  BY <1>2, ApplyReadable DEF CommitTx
<1>3. CASE CommitFails(r)
  BY <1>1, <1>3, ApplyReadable DEF CommitFails
<1>4. ASSUME ~CommitTx(r), ~CommitFails(r) PROVE UNCHANGED <<rows, key>>
  BY <1>4 DEF RotatorStep, Open, SendStart, StartCheck, StartInsert, ListSecrets, BulkFetch,
       SendStage, DecryptFails, StageCheck, StageTx, StatementFails, SendCommit,
       CommitRefused, Cancel, LoseReply, CloseTab, dbVars
<1> QED
  BY <1>1, <1>2, <1>3, <1>4

\* A row that a client writes is quiet only under the current key and when no
\* rotation that may commit has come to its environment.
LEMMA WriteKeeps ==
    ASSUME TypeInv, Phases, SecretsInv, NEW j \in Ids, NEW row \in Rows,
           rows' = [rows EXCEPT ![j] = row], RecordWrite(j, row.env, row.ct),
           UNCHANGED <<key, rotation, staged, clientVars>>
    PROVE  SecretsInv'
<1>1. \A i \in Ids \ {j} : rows'[i] = rows[i] /\ latest'[i] = latest[i]
                           /\ (i \in exposed' <=> i \in exposed)
  BY DEF RecordWrite, TypeInv, TypeOK
<1>2. rows'[j] = row /\ latest'[j] = row.ct.val
  BY DEF RecordWrite, TypeInv, TypeOK
<1>3. ASSUME NEW i \in LiveRows' \ exposed', i # j
      PROVE  i \in LiveRows \ exposed
  BY <1>1, <1>3 DEF LiveRows, Present
<1>4. j \notin exposed' => row.ct.dek = key.dek /\ ~Racing(row.env)
  BY DEF RecordWrite
<1>5. QuietSecretsReadable'
  <2> SUFFICES ASSUME NEW i \in LiveRows' \ exposed'
               PROVE  rows'[i].ct = [dek |-> key'.dek, val |-> latest'[i]]
    BY DEF QuietSecretsReadable
  <2>1. CASE i = j
    BY <1>2, <1>4, <2>1 DEF Rows, Ciphertexts
  <2>2. CASE i # j
    <3>1. i \in LiveRows \ exposed /\ i \in Ids
      BY <1>3, <2>2 DEF LiveRows
    <3>2. rows[i].ct = [dek |-> key.dek, val |-> latest[i]]
      BY <3>1, QuietFacts
    <3> QED BY <1>1, <2>2, <3>1, <3>2
  <2> QED BY <2>1, <2>2
<1>6. QuietSecretFollowed'
  <2> SUFFICES ASSUME NEW r \in Rotators, CanCommit(r)', NEW i \in LiveRows' \ exposed'
               PROVE  Followed(r, i)'
    BY DEF QuietSecretFollowed
  <2>1. CanCommit(r)
    BY DEF CanCommit, clientVars
  <2>2. CASE i = j
    <3>1. row.env \in Envs /\ fetch[r][row.env] = "todo"
      BY <1>4, <2>1, <2>2 DEF Racing, Rows
    <3>2. pc[r] \notin {"starting", "staging"} /\ srv[r] # "commit"
      BY <3>1 DEF Phases, Phase
    <3> QED BY <1>2, <2>2, <3>1, <3>2 DEF Followed, clientVars
  <2>3. CASE i # j
    <3>1. i \in LiveRows \ exposed /\ i \in Ids
      BY <1>3, <2>3 DEF LiveRows
    <3>2. Followed(r, i)
      BY <2>1, <3>1, QuietFacts
    <3> QED BY <1>1, <2>3, <3>1, <3>2 DEF Followed, clientVars
  <2> QED BY <2>2, <2>3
<1> QED
  BY <1>5, <1>6 DEF SecretsInv

LEMMA WriterSecrets ==
    ASSUME TypeInv, Phases, SecretsInv, NEW w \in Writers, WriterStep(w)
    PROVE  SecretsInv'
<1>1. CASE UNCHANGED <<rows, key, rotation, staged, clientVars, latest, exposed>>
  BY <1>1 DEF SecretsInv, QuietSecretFollowed, QuietSecretsReadable, Followed, LiveRows,
     Present, CanCommit, clientVars
<1>2. ASSUME NEW i \in Ids, NEW e \in Envs, NEW n \in Names, NEW v \in Values,
             CreateSecret(w, i, e, n, v)
      PROVE  SecretsInv'
  <2> DEFINE row == NewRow(e, wdek[w], n, v)
  <2>1. wdek[w] \in Deks
    BY <1>2 DEF CreateSecret, Begin, TypeInv, TypeOK
  <2>2. row \in Rows /\ row.env = e /\ row.ct = [dek |-> wdek[w], val |-> v]
    BY <2>1 DEF NewRow, Rows, Hashes, Ciphertexts
  <2>3. /\ rows' = [rows EXCEPT ![i] = row] /\ RecordWrite(i, row.env, row.ct)
        /\ UNCHANGED <<key, rotation, staged, clientVars>>
    BY <1>2, <2>2 DEF CreateSecret
  <2> HIDE DEF row
  <2> QED BY <2>2, <2>3, WriteKeeps
<1>3. CASE WriteRow(w)
  <2>1. CASE UNCHANGED <<rows, historyVars>>
    BY <1>1, <1>3, <2>1 DEF WriteRow, historyVars
  <2>2. CASE /\ Present(wid[w])
             /\ rows' = [rows EXCEPT ![wid[w]] = Rewritten(@, wct[w])]
             /\ RecordWrite(wid[w], rows[wid[w]].env, wct[w])
    <3> DEFINE row == Rewritten(rows[wid[w]], wct[w])
    <3>1. wid[w] \in Ids /\ wct[w] \in Ciphertexts
      BY <1>3 DEF WriteRow, TypeInv, RequestsFilled
    <3>2. rows[wid[w]] \in Rows
      BY <2>2, <3>1 DEF Present, TypeInv, TypeOK
    <3>3. row \in Rows /\ row.env = rows[wid[w]].env /\ row.ct = wct[w]
      BY <3>1, <3>2 DEF Rewritten, Rows
    <3>4. /\ rows' = [rows EXCEPT ![wid[w]] = row] /\ RecordWrite(wid[w], row.env, row.ct)
          /\ UNCHANGED <<key, rotation, staged, clientVars>>
      BY <1>3, <2>2, <3>3 DEF WriteRow
    <3> HIDE DEF row
    <3> QED BY <3>1, <3>3, <3>4, WriteKeeps
  <2> QED BY <1>3, <2>1, <2>2 DEF WriteRow
<1>4. ASSUME NEW j \in Ids, DeleteSecret(w, j) PROVE SecretsInv'
  <2>1. /\ \A i \in Ids \ {j} : rows'[i] = rows[i]
        /\ \A r \in Rotators, i \in Ids \ {j} : staged'[r][i] = staged[r][i]
        /\ ~Present(j)'
        /\ UNCHANGED <<key, rotation, clientVars, latest, exposed>>
    BY <1>4 DEF DeleteSecret, Present, TypeInv, TypeOK, historyVars
  <2>2. LiveRows' \subseteq LiveRows \ {j}
    BY <2>1 DEF LiveRows, Present
  <2> QED BY <2>1, <2>2 DEF SecretsInv, QuietSecretFollowed, QuietSecretsReadable,
     Followed, LiveRows, CanCommit, clientVars
<1>5. ASSUME \/ LoadKey(w) \/ RollbackTarget(w) \/ ArchiveSeen(w)
             \/ \E i \in Ids, v \in Values : UpdateRead(w, i, v)
             \/ \E i \in Ids : RollbackRead(w, i)
             \/ \E u \in Users : GrantAccess(w, u)
      PROVE  UNCHANGED <<rows, key, rotation, staged, clientVars, latest, exposed>>
  BY <1>5 DEF LoadKey, RollbackTarget, ArchiveSeen, UpdateRead, RollbackRead, GrantAccess,
     PressGrant,
     dbVars, historyVars
<1> QED
  BY <1>1, <1>2, <1>3, <1>4, <1>5 DEF WriterStep

LEMMA NextSecrets == TypeInv /\ Phases /\ SecretsInv /\ [Next]_vars => SecretsInv'
<1> SUFFICES ASSUME TypeInv, Phases, SecretsInv, [Next]_vars PROVE SecretsInv'
  OBVIOUS
<1>1. CASE \E r \in Rotators : RotatorStep(r)
  <2> PICK r \in Rotators : RotatorStep(r)
    BY <1>1
  <2>1. QuietSecretFollowed'
    <3> SUFFICES ASSUME NEW q \in Rotators, CanCommit(q)', NEW i \in LiveRows' \ exposed'
                 PROVE  Followed(q, i)'
      BY DEF QuietSecretFollowed
    <3>1. CASE q = r
      BY <3>1, RotatorFollows
    <3>2. CASE q # r
      <4>1. i \in LiveRows \ exposed /\ i \in Ids /\ CanCommit(q)
        BY <3>2, RotatorFrame DEF LiveRows, CanCommit
      <4>2. Followed(q, i)
        BY <4>1, QuietFacts
      <4> QED BY <3>2, <4>1, <4>2, RotatorFrame DEF Followed
    <3> QED BY <3>1, <3>2
  <2> QED BY <2>1, RotatorReadable DEF SecretsInv
<1>2. CASE \E u \in Users : JoinVault(u)
  BY <1>2 DEF JoinVault, SecretsInv, QuietSecretFollowed, QuietSecretsReadable, Followed,
     LiveRows, Present, CanCommit, clientVars, historyVars
<1>3. CASE UNCHANGED vars
  BY <1>3 DEF vars, dbVars, clientVars, historyVars, SecretsInv, QuietSecretFollowed,
     QuietSecretsReadable, Followed, LiveRows, Present, CanCommit
<1> QED
  BY <1>1, <1>2, <1>3, WriterSecrets DEF Next

LEMMA InitSecrets == Init => SecretsInv
<1> SUFFICES ASSUME Init PROVE SecretsInv
  OBVIOUS
<1>1. QuietSecretFollowed
  BY DEF Init, QuietSecretFollowed, CanCommit
<1>2. QuietSecretsReadable
  <2> SUFFICES ASSUME NEW i \in LiveRows PROVE rows[i].ct = [dek |-> key.dek, val |-> latest[i]]
    BY DEF QuietSecretsReadable
  <2>1. i \in Ids /\ Present(i) /\ rows[i] \in SeedRows
    BY DEF LiveRows, Present, Init
  <2>2. rows[i].ct.dek = InitDek /\ rows[i].ct = [dek |-> rows[i].ct.dek, val |-> rows[i].ct.val]
    BY <2>1 DEF SeedRows, NewRow
  <2> QED BY <2>1, <2>2 DEF Init
<1> QED
  BY <1>1, <1>2 DEF SecretsInv

\* Whatever rotations ran, overlapped, failed or lost their replies, a secret that
\* no write and no skipped page exposed opens with the current key and holds the
\* last value written.
THEOREM RotationKeepsSecrets == Spec => []QuietSecretsReadable
<1>1. Spec => [](TypeInv /\ Phases /\ SecretsInv)
  BY InitType, NextType, InitPhases, NextPhases, InitSecrets, NextSecrets, PTL DEF Spec
<1>2. SecretsInv => QuietSecretsReadable
  BY DEF SecretsInv
<1> QED BY <1>1, <1>2, PTL

-----------------------------------------------------------------------------
(* Grants.                                                                 *)

LEMMA ApplyGrants ==
    ASSUME TypeInv, GrantsInv, NEW r \in Rotators, CanCommit(r), ApplyRotation(r),
           UNCHANGED <<members, vaulted>>, \A q \in Rotators : CanCommit(q)' => CanCommit(q)
    PROVE  GrantsInv'
<1> USE DEF TypeInv, TypeOK, GrantsInv, GrantHoldersListed, QuietGrantsCurrent
<1>1. /\ key'.dek = r
      /\ \A u \in Users : grants'[u] = IF u \in members[r] THEN r ELSE grants[u]
      /\ bypassed' = BypassedAfter(r)
  BY DEF ApplyRotation
<1>2. \A u \in Users \ bypassed' : u \notin members[r] => u \notin bypassed /\ grants[u] = None
  BY <1>1 DEF BypassedAfter
<1>3. \A u \in Users \ bypassed' : u \in members[r] =>
        \A q \in Rotators : CanCommit(q) => u \in members[q]
  BY <1>1 DEF BypassedAfter
<1>4. QuietGrantsCurrent'
  BY <1>1, <1>2
<1>5. \A u \in Users : grants'[u] # None => u \in vaulted'
  BY <1>1
<1>6. ASSUME NEW q \in Rotators, CanCommit(q)', NEW u \in Users \ bypassed', grants'[u] # None
      PROVE  u \in members'[q]
  BY <1>1, <1>2, <1>3, <1>6
<1> QED
  BY <1>4, <1>5, <1>6

LEMMA RotatorGrants ==
    ASSUME TypeInv, Phases, GrantsInv, NEW r \in Rotators, RotatorStep(r)
    PROVE  GrantsInv'
<1> USE DEF TypeInv, TypeOK
<1>1. CASE Open(r)
  BY <1>1 DEF Open, GrantsInv, GrantHoldersListed, QuietGrantsCurrent, CanCommit, dbVars,
     historyVars
<1>2. ASSUME ~Open(r)
      PROVE  members' = members /\ \A q \in Rotators : CanCommit(q)' => CanCommit(q)
  <2>1. members' = members
    BY <1>2 DEF RotatorStep, SendStart, StartCheck, StartInsert, ListSecrets, BulkFetch,
       SendStage, DecryptFails, StageCheck, StageTx, StatementFails, SendCommit, CommitTx,
       CommitFails, CommitRefused, Cancel, LoseReply, CloseTab
  <2>2. \A q \in Rotators \ {r} : CanCommit(q)' = CanCommit(q)
    BY RotatorFrame DEF CanCommit
  <2>3. CASE \E e \in Envs : ListSecrets(r, e) \/ BulkFetch(r, e)
    BY <2>1, <2>2, <2>3 DEF ListSecrets, BulkFetch, CanCommit
  <2>4. CASE \/ SendStart(r) \/ StartInsert(r) \/ SendStage(r) \/ DecryptFails(r)
            \/ SendCommit(r) \/ CommitTx(r) \/ Cancel(r) \/ LoseReply(r) \/ CloseTab(r)
    BY <2>1, <2>2, <2>4 DEF SendStart, StartInsert, SendStage, DecryptFails, SendCommit,
       CommitTx, Cancel, LoseReply, CloseTab, Reject, CatchBlock, Waiting, CanCommit
  <2>5. CASE StartCheck(r) \/ StageCheck(r) \/ StageTx(r)
    BY <2>1, <2>2, <2>5 DEF StartCheck, StageCheck, StageTx, Reject, CatchBlock, Waiting,
       CanCommit
  <2>6. CASE StatementFails(r) \/ CommitFails(r) \/ CommitRefused(r)
    BY <2>1, <2>2, <2>6 DEF StatementFails, CommitFails, CommitRefused, Reject, CatchBlock,
       Waiting, CanCommit
  <2> QED BY <1>2, <2>3, <2>4, <2>5, <2>6 DEF RotatorStep
<1>3. CASE ~Open(r) /\ UNCHANGED <<key, grants, vaulted, bypassed>>
  BY <1>2, <1>3 DEF GrantsInv, GrantHoldersListed, QuietGrantsCurrent
<1>4. CASE CommitTx(r)
  BY <1>1, <1>2, <1>4, ApplyGrants DEF CommitTx, CanCommit
<1>5. CASE CommitFails(r)
  <2>1. CASE ApplyRotation(r)
    BY <1>1, <1>2, <1>5, <2>1, ApplyGrants DEF CommitFails, CanCommit
  <2>2. CASE UNCHANGED <<rows, key, grants, staged, historyVars>>
    BY <1>1, <1>3, <1>5, <2>2 DEF CommitFails, historyVars
  <2> QED BY <1>5, <2>1, <2>2 DEF CommitFails
<1>6. ASSUME ~Open(r), ~CommitTx(r), ~CommitFails(r)
      PROVE  UNCHANGED <<key, grants, vaulted, bypassed>>
  BY <1>6 DEF RotatorStep, SendStart, StartCheck, StartInsert, ListSecrets, BulkFetch,
     SendStage, DecryptFails, StageCheck, StageTx, StatementFails, SendCommit,
     CommitRefused, Cancel, LoseReply, CloseTab, dbVars, historyVars
<1> QED
  BY <1>1, <1>3, <1>4, <1>5, <1>6

LEMMA NextGrants == TypeInv /\ Phases /\ GrantsInv /\ [Next]_vars => GrantsInv'
<1> SUFFICES ASSUME TypeInv, Phases, GrantsInv, [Next]_vars PROVE GrantsInv'
  OBVIOUS
<1> USE DEF TypeInv, TypeOK, GrantsInv, GrantHoldersListed, QuietGrantsCurrent, CanCommit
<1>1. CASE UNCHANGED <<key, grants, vaulted, bypassed, clientVars>>
  BY <1>1 DEF clientVars
<1>2. CASE \E u \in Users : JoinVault(u)
  BY <1>2 DEF JoinVault, clientVars, historyVars
<1>3. ASSUME NEW w \in Writers, NEW u \in Users, GrantAccess(w, u) PROVE GrantsInv'
  BY <1>3 DEF GrantAccess, PressGrant, Begin, clientVars
<1>4. ASSUME NEW w \in Writers, WriterStep(w), \A u \in Users : ~GrantAccess(w, u)
      PROVE  UNCHANGED <<key, grants, vaulted, bypassed, clientVars>>
  BY <1>4 DEF WriterStep, LoadKey, CreateSecret, UpdateRead, RollbackRead, DeleteSecret,
     RollbackTarget, ArchiveSeen, WriteRow, RecordWrite, dbVars, historyVars
<1>5. UNCHANGED vars => UNCHANGED <<key, grants, vaulted, bypassed, clientVars>>
  BY DEF vars, dbVars, historyVars
<1> QED
  BY <1>1, <1>2, <1>3, <1>4, <1>5, RotatorGrants DEF Next

LEMMA InitGrants == Init => GrantsInv
BY DEF Init, GrantsInv, GrantHoldersListed, QuietGrantsCurrent, CanCommit

\* Outside grants made from a stale key or behind a rotation's back, everyone who
\* has a grant can open the project after any sequence of rotations.
THEOREM RotationKeepsGrants == Spec => []QuietGrantsCurrent
<1>1. Spec => [](TypeInv /\ Phases /\ GrantsInv)
  BY InitType, NextType, InitPhases, NextPhases, InitGrants, NextGrants, PTL DEF Spec
<1>2. GrantsInv => QuietGrantsCurrent
  BY DEF GrantsInv
<1> QED BY <1>1, <1>2, PTL

-----------------------------------------------------------------------------
(* Rotation records.                                                       *)

LEMMA NextStaging ==
    TypeInv /\ Phases /\ NoOrphanedStaging /\ [Next]_vars => NoOrphanedStaging'
<1> SUFFICES ASSUME TypeInv, Phases, NoOrphanedStaging, [Next]_vars,
                    NEW q \in Rotators, rotation'[q] \in {"none", "complete"}, NEW i \in Ids
             PROVE  staged'[q][i] = None
  BY DEF NoOrphanedStaging
<1> USE DEF TypeInv, TypeOK
<1>1. rotation[q] \in {"none", "complete"} => staged[q][i] = None
  BY DEF NoOrphanedStaging
<1>2. CASE UNCHANGED <<rotation, staged>>
  BY <1>1, <1>2
<1>3. ASSUME NEW r \in Rotators, RotatorStep(r) PROVE staged'[q][i] = None
  <2>1. CASE q # r
    BY <1>1, <1>3, <2>1, RotatorFrame
  <2>2. CASE q = r /\ StageTx(r)
    BY <1>1, <2>2 DEF StageTx, Reject, Phases, Phase
  <2>3. CASE q = r /\ (CommitTx(r) \/ CommitFails(r))
    BY <1>1, <2>3 DEF CommitTx, CommitFails, ApplyRotation
  <2>4. CASE q = r /\ Cancel(r)
    BY <1>1, <2>4 DEF Cancel
  <2>5. CASE q = r /\ StartInsert(r)
    BY <2>5 DEF StartInsert, Reject
  <2>6. ASSUME ~StageTx(r), ~CommitTx(r), ~CommitFails(r), ~Cancel(r), ~StartInsert(r)
        PROVE  UNCHANGED <<rotation, staged>>
    BY <1>3, <2>6 DEF RotatorStep, Open, SendStart, StartCheck, ListSecrets, BulkFetch,
       SendStage, DecryptFails, StageCheck, StatementFails, SendCommit, CommitRefused,
       LoseReply, CloseTab, dbVars
  <2> QED BY <1>2, <1>3, <2>1, <2>2, <2>3, <2>4, <2>5, <2>6 DEF RotatorStep
<1>4. ASSUME NEW w \in Writers, WriterStep(w) PROVE staged'[q][i] = None
  <2>1. UNCHANGED rotation
    BY <1>4, WriterFrame
  <2>2. staged'[q][i] \in {staged[q][i], None}
    <3>1. CASE \E j \in Ids : DeleteSecret(w, j)
      BY <3>1 DEF DeleteSecret
    <3>2. ASSUME \A j \in Ids : ~DeleteSecret(w, j) PROVE UNCHANGED staged
      BY <1>4, <3>2 DEF WriterStep, LoadKey, CreateSecret, UpdateRead, RollbackRead,
         RollbackTarget, ArchiveSeen, WriteRow, GrantAccess, PressGrant, dbVars
    <3> QED BY <3>1, <3>2
  <2> QED BY <1>1, <2>1, <2>2
<1>5. (\E u \in Users : JoinVault(u)) \/ UNCHANGED vars => UNCHANGED <<rotation, staged>>
  BY DEF JoinVault, vars, dbVars
<1> QED
  BY <1>2, <1>3, <1>4, <1>5 DEF Next

\* No staging row outlives its rotation, however requests and replies race.
THEOREM StagingIsCleanedUp == Spec => []NoOrphanedStaging
<1>1. Init => NoOrphanedStaging
  BY DEF Init, NoOrphanedStaging
<1>2. Spec => [](TypeInv /\ Phases /\ NoOrphanedStaging)
  BY <1>1, InitType, NextType, InitPhases, NextPhases, NextStaging, PTL DEF Spec
<1> QED BY <1>2, PTL

Completed == {r \in Rotators : rotation[r] = "complete"}

\* Only a commit replaces the key or completes a rotation.
LEMMA CountKept ==
    ASSUME TypeInv, Phases, [Next]_vars, \A r \in Rotators : ~CommitTx(r) /\ ~CommitFails(r)
    PROVE  UNCHANGED key /\ Completed' = Completed
<1> USE DEF TypeInv, TypeOK
<1>1. ASSUME NEW r \in Rotators, RotatorStep(r)
      PROVE  UNCHANGED key /\ Completed' = Completed
  <2>1. UNCHANGED key
    BY <1>1 DEF RotatorStep, Open, SendStart, StartCheck, StartInsert, ListSecrets,
       BulkFetch, SendStage, DecryptFails, StageCheck, StageTx, StatementFails, SendCommit,
       CommitRefused, Cancel, LoseReply, CloseTab, dbVars
  <2>2. \/ UNCHANGED rotation
        \/ rotation[r] # "complete" /\ \E s \in {"staging", "none"} :
              rotation' = [rotation EXCEPT ![r] = s]
    BY <1>1 DEF RotatorStep, Open, SendStart, StartCheck, StartInsert, ListSecrets,
       BulkFetch, SendStage, DecryptFails, StageCheck, StageTx, StatementFails, SendCommit,
       CommitRefused, Cancel, LoseReply, CloseTab, dbVars, Phases, Phase
  <2> QED BY <2>1, <2>2 DEF Completed
<1>2. ASSUME NEW w \in Writers, WriterStep(w) PROVE UNCHANGED key /\ Completed' = Completed
  <2>1. UNCHANGED rotation
    BY <1>2, WriterFrame
  <2>2. UNCHANGED key
    BY <1>2 DEF WriterStep, LoadKey, CreateSecret, UpdateRead, RollbackRead, DeleteSecret,
       RollbackTarget, ArchiveSeen, WriteRow, GrantAccess, PressGrant, dbVars
  <2> QED BY <2>1, <2>2 DEF Completed
<1>3. (\E u \in Users : JoinVault(u)) \/ UNCHANGED vars =>
         UNCHANGED key /\ Completed' = Completed
  BY DEF JoinVault, vars, dbVars, Completed
<1> QED
  BY <1>1, <1>2, <1>3 DEF Next

\* A rotation that is completed was not, and it is one more.
LEMMA OneMore ==
    ASSUME IsFiniteSet(Rotators), TypeInv, NEW r \in Rotators, rotation[r] = "staging"
    PROVE  /\ IsFiniteSet(Completed) /\ Cardinality(Completed) \in Nat
           /\ Cardinality(Completed \cup {r}) = Cardinality(Completed) + 1
<1>1. IsFiniteSet(Completed) /\ r \notin Completed
  BY FS_Subset DEF Completed
<1> QED BY <1>1, FS_AddElement, FS_CardinalityType

LEMMA NextVersionCount ==
    ASSUME IsFiniteSet(Rotators), DbFailures = FALSE
    PROVE  TypeInv /\ Phases /\ VersionCountsRotations /\ [Next]_vars => VersionCountsRotations'
<1> SUFFICES ASSUME TypeInv, Phases, VersionCountsRotations, [Next]_vars
             PROVE  VersionCountsRotations'
  OBVIOUS
<1>1. key.version = 1 + Cardinality(Completed)
  BY DEF VersionCountsRotations, Completed
<1>2. SUFFICES key'.version = 1 + Cardinality(Completed')
  BY DEF VersionCountsRotations, Completed
<1>3. CASE UNCHANGED key /\ Completed' = Completed
  BY <1>1, <1>3
<1>4. ASSUME NEW r \in Rotators, CommitTx(r)
      PROVE  key'.version = 1 + Cardinality(Completed')
  <2>1. Completed' = Completed \cup {r} /\ rotation[r] = "staging"
    BY <1>4 DEF Completed, CommitTx, TypeInv, TypeOK
  <2>2. key'.version = key.version + 1
    BY <1>4 DEF CommitTx, ApplyRotation
  <2> QED BY <1>1, <2>1, <2>2, OneMore
<1>5. \A r \in Rotators : ~CommitFails(r)
  BY DEF CommitFails
<1> QED
  BY <1>3, <1>4, <1>5, CountKept

\* There are never more rotations recorded as complete than there were
\* replacements of the key (dek_version starts at 1, each replacement adds 1).
CompletedReplacedKey == 1 + Cardinality(Completed) <= key.version

LEMMA NextReplaced ==
    ASSUME IsFiniteSet(Rotators), TypeInv, Phases, CompletedReplacedKey, [Next]_vars
    PROVE  CompletedReplacedKey'
<1> DEFINE n == Cardinality(Completed)
           v == key.version
<1>1. v \in Nat
  BY DEF TypeInv, TypeOK
<1>2. 1 + n <= v
  BY DEF CompletedReplacedKey
<1>3. CASE UNCHANGED key /\ Completed' = Completed
  BY <1>2, <1>3 DEF CompletedReplacedKey
<1>4. ASSUME NEW r \in Rotators, CommitTx(r) \/ CommitFails(r) PROVE CompletedReplacedKey'
  <2>1. rotation[r] = "staging"
    BY <1>4 DEF CommitTx, CommitFails
  <2>2. n \in Nat /\ Cardinality(Completed \cup {r}) = n + 1
    BY <2>1, OneMore
  <2>3. \/ Completed' = Completed /\ key'.version \in {v, v + 1}
        \/ Completed' = Completed \cup {r} /\ key'.version = v + 1
    <3>1. CASE UNCHANGED key /\ rotation' \in {rotation, [rotation EXCEPT ![r] = "failed"]}
      BY <2>1, <3>1 DEF Completed, TypeInv, TypeOK
    <3>2. CASE ApplyRotation(r) /\ \E s \in {"complete", "failed"} :
                  rotation' = [rotation EXCEPT ![r] = s]
      <4>1. key'.version = v + 1
        BY <3>2 DEF ApplyRotation
      <4>2. Completed' = Completed \/ Completed' = Completed \cup {r}
        BY <2>1, <3>2 DEF Completed, TypeInv, TypeOK
      <4> QED BY <4>1, <4>2
    <3> QED BY <1>4, <3>1, <3>2 DEF CommitTx, CommitFails
  <2>4. CASE Completed' = Completed /\ key'.version \in {v, v + 1}
    <3>1. 1 + n <= key'.version
      BY <1>1, <1>2, <2>2, <2>4
    <3> QED BY <2>4, <3>1 DEF CompletedReplacedKey
  <2>5. CASE Completed' = Completed \cup {r} /\ key'.version = v + 1
    <3>1. Cardinality(Completed') = n + 1
      BY <2>2, <2>5
    <3>2. 1 + (n + 1) <= key'.version
      BY <1>1, <1>2, <2>2, <2>5
    <3> QED BY <3>1, <3>2 DEF CompletedReplacedKey
  <2> QED BY <2>3, <2>4, <2>5
<1> QED BY <1>3, <1>4, CountKept

\* With a database that reports its commits, every rotation takes effect at most
\* once, and the project's dek_version counts them.
THEOREM RotationsAreCounted ==
    ASSUME IsFiniteSet(Rotators), DbFailures = FALSE
    PROVE  Spec => []VersionCountsRotations
<1>1. Init => VersionCountsRotations
  <2> SUFFICES ASSUME Init PROVE VersionCountsRotations
    OBVIOUS
  <2>1. {r \in Rotators : rotation[r] = "complete"} = {}
    BY DEF Init
  <2>2. Cardinality({r \in Rotators : rotation[r] = "complete"}) = 0
    BY <2>1, FS_EmptySet
  <2>3. key.version = 1
    BY DEF Init
  <2> QED BY <2>2, <2>3 DEF VersionCountsRotations
<1>2. TypeInv /\ Phases /\ VersionCountsRotations /\ [Next]_vars => VersionCountsRotations'
  BY NextVersionCount
<1>3. Spec => [](TypeInv /\ Phases /\ VersionCountsRotations)
  BY <1>1, <1>2, InitType, NextType, InitPhases, NextPhases, PTL DEF Spec
<1> QED BY <1>3, PTL

\* Each rotation recorded as complete stands for a replacement of the key of its
\* own, also when statements and acknowledgements of a COMMIT are lost: such a
\* failure can leave behind a rotation that took effect and is called failed
\* (projects.go, CommitRotation), never the other way round.
THEOREM CompleteMeansReplaced ==
    ASSUME IsFiniteSet(Rotators)
    PROVE  Spec => []CompletedReplacedKey
<1>1. Init => CompletedReplacedKey
  <2> SUFFICES ASSUME Init PROVE CompletedReplacedKey
    OBVIOUS
  <2>1. Completed = {} /\ key.version = 1
    BY DEF Init, Completed
  <2>2. Cardinality(Completed) = 0
    BY <2>1, FS_EmptySet
  <2> QED BY <2>1, <2>2 DEF CompletedReplacedKey
<1>2. TypeInv /\ Phases /\ CompletedReplacedKey /\ [Next]_vars => CompletedReplacedKey'
  BY NextReplaced
<1>3. Spec => [](TypeInv /\ Phases /\ CompletedReplacedKey)
  BY <1>1, <1>2, InitType, NextType, InitPhases, NextPhases, PTL DEF Spec
<1> QED BY <1>3, PTL

-----------------------------------------------------------------------------
(* Version numbers.                                                        *)

LEMMA RecordFacts ==
    ASSUME TypeInv, VersionsAgree
    PROVE  /\ \A a \in OnRecord : a.id \in Ids /\ Present(a.id) /\ a.version \in Nat
           /\ \A i \in Ids : Present(i) => rows[i] \in Rows /\ rows[i].version \in Nat
<1> USE DEF TypeInv, TypeOK, RequestsFilled
<1>1. \A i \in Ids : Present(i) => rows[i] \in Rows /\ rows[i].version \in Nat
  BY DEF Present, Rows
<1>2. \A a \in archive : a.id \in Ids /\ Present(a.id) /\ a.version \in Nat
  BY DEF ArchiveRows, VersionsAgree
<1>3. ASSUME NEW w \in Writers, Holds(w)
      PROVE  Held(w).id \in Ids /\ Present(Held(w).id) /\ Held(w).version \in Nat
  BY <1>3 DEF Holds, Held, Rows
<1> QED
  BY <1>1, <1>2, <1>3 DEF OnRecord

\* A step that puts nothing on record and changes a row only under a higher version.
LEMMA VersionsKept ==
    ASSUME TypeInv, VersionsAgree, OnRecord' \subseteq OnRecord,
           \A a \in OnRecord' : Present(a.id)',
           \A w \in Writers : wpc'[w] # "idle" => rows'[wid'[w]] # None,
           \A i \in Ids : Present(i) /\ Present(i)' =>
              rows'[i] = rows[i] \/ rows'[i].version = rows[i].version + 1
    PROVE  VersionsAgree'
<1>1. ASSUME NEW a \in OnRecord'
      PROVE  /\ a.version <= rows'[a.id].version
             /\ a.version = rows'[a.id].version => a.ct = rows'[a.id].ct
  <2>1. /\ a \in OnRecord /\ a.id \in Ids /\ Present(a.id) /\ a.version \in Nat
        /\ rows[a.id].version \in Nat /\ Present(a.id)'
    BY <1>1, RecordFacts
  <2>2. /\ a.version <= rows[a.id].version
        /\ a.version = rows[a.id].version => a.ct = rows[a.id].ct
    BY <2>1 DEF VersionsAgree
  <2>3. rows'[a.id] = rows[a.id] \/ rows'[a.id].version = rows[a.id].version + 1
    BY <2>1 DEF Present
  <2> QED BY <2>1, <2>2, <2>3
<1>2. \A a, b \in OnRecord' : a.id = b.id /\ a.version = b.version => a.ct = b.ct
  BY DEF VersionsAgree
<1>3. \A a \in archive' : Present(a.id)'
  BY DEF OnRecord
<1> QED
  BY <1>1, <1>2, <1>3 DEF VersionsAgree

\* A request that reads row i puts its current ciphertext on record.
LEMMA VersionRead ==
    ASSUME TypeInv, VersionsAgree, NEW w \in Writers, NEW i \in Ids, Present(i),
           wid' = [wid EXCEPT ![w] = i], wseen' = [wseen EXCEPT ![w] = rows[i]],
           \A x \in Writers \ {w} : wpc'[x] = wpc[x], UNCHANGED <<rows, archive>>
    PROVE  VersionsAgree'
<1> DEFINE now == [id |-> i, version |-> rows[i].version, ct |-> rows[i].ct]
<1>1. \A a \in OnRecord' : a \in OnRecord \/ a = now
  <2>1. ASSUME NEW x \in Writers, Holds(x)'
        PROVE  Held(x)' \in OnRecord \/ Held(x)' = now
    BY <2>1 DEF Holds, Held, OnRecord, Present, TypeInv, TypeOK
  <2> QED BY <2>1 DEF OnRecord
<1>2. \A a \in OnRecord : /\ a.version <= rows[a.id].version
                          /\ a.version = rows[a.id].version => a.ct = rows[a.id].ct
  BY DEF VersionsAgree
<1>3. \A x \in Writers : wpc'[x] # "idle" => rows'[wid'[x]] # None
  BY DEF VersionsAgree, Present, TypeInv, TypeOK
<1>4. now.version = rows[now.id].version /\ now.ct = rows[now.id].ct /\ now.id = i
      /\ rows[i].version \in Nat
  BY RecordFacts
<1> HIDE DEF now
<1>5. \A a \in OnRecord' : /\ a.version <= rows'[a.id].version
                           /\ a.version = rows'[a.id].version => a.ct = rows'[a.id].ct
  BY <1>1, <1>2, <1>4
<1>6. \A a, b \in OnRecord' : a.id = b.id /\ a.version = b.version => a.ct = b.ct
  BY <1>1, <1>2, <1>4 DEF VersionsAgree
<1>7. \A a \in archive' : Present(a.id)'
  BY DEF VersionsAgree, Present
<1> QED
  BY <1>3, <1>5, <1>6, <1>7 DEF VersionsAgree

LEMMA RotatorVersions ==
    ASSUME TypeInv, VersionsAgree, NEW r \in Rotators, RotatorStep(r)
    PROVE  VersionsAgree'
<1>1. UNCHANGED <<archive, wpc, wid, wseen>>
  BY DEF RotatorStep, Open, SendStart, StartCheck, StartInsert, ListSecrets, BulkFetch,
     SendStage, DecryptFails, StageCheck, StageTx, StatementFails, SendCommit, CommitTx,
     CommitRefused, CommitFails, Cancel, LoseReply, CloseTab, dbVars, writerVars
<1>2. UNCHANGED rows \/ ApplyRotation(r)
  BY DEF RotatorStep, Open, SendStart, StartCheck, StartInsert, ListSecrets, BulkFetch,
     SendStage, DecryptFails, StageCheck, StageTx, StatementFails, SendCommit, CommitTx,
     CommitRefused, CommitFails, Cancel, LoseReply, CloseTab, dbVars
<1>3. \A i \in Ids : /\ Present(i)' = Present(i)
                     /\ ~Present(i) => rows'[i] = rows[i]
                     /\ rows'[i] = rows[i] \/ rows'[i].version = rows[i].version + 1
  BY <1>2, ApplyRows, RotatorFrame
<1>4. \A w \in Writers : wpc[w] # "idle" => wid[w] \in Ids /\ rows[wid[w]] # None
  BY DEF TypeInv, RequestsFilled, VersionsAgree
<1>5. \A w \in Writers : wpc'[w] # "idle" => rows'[wid'[w]] # None
  BY <1>1, <1>3, <1>4 DEF Present
<1>6. OnRecord' \subseteq OnRecord
  <2>1. ASSUME NEW w \in Writers, Holds(w)' PROVE Holds(w) /\ Held(w)' = Held(w)
    BY <1>1, <1>3, <1>4, <2>1 DEF Holds, Held, Present
  <2> QED BY <1>1, <2>1 DEF OnRecord
<1>7. \A a \in OnRecord' : Present(a.id)'
  BY <1>3, <1>6, RecordFacts
<1> QED
  BY <1>3, <1>5, <1>6, <1>7, VersionsKept

LEMMA WriterVersions ==
    ASSUME TypeInv, VersionsAgree, NEW w \in Writers, WriterStep(w)
    PROVE  VersionsAgree'
<1>0. \A x \in Writers : wpc[x] # "idle" => wid[x] \in Ids /\ rows[wid[x]] # None
  BY DEF TypeInv, RequestsFilled, VersionsAgree
<1>1. CASE UNCHANGED <<rows, archive, wpc, wid, wseen>>
  BY <1>1 DEF VersionsAgree, Present, OnRecord, Holds, Held
<1>2. ASSUME NEW i \in Ids, NEW v \in Values, UpdateRead(w, i, v) PROVE VersionsAgree'
  BY <1>2, VersionRead DEF UpdateRead, dbVars, TypeInv, TypeOK
<1>3. ASSUME NEW i \in Ids, RollbackRead(w, i) PROVE VersionsAgree'
  BY <1>3, VersionRead DEF RollbackRead, dbVars, TypeInv, TypeOK
<1>4. ASSUME NEW i \in Ids, NEW e \in Envs, NEW n \in Names, NEW v \in Values,
             CreateSecret(w, i, e, n, v)
      PROVE  VersionsAgree'
  <2>1. wdek[w] \in Deks
    BY <1>4 DEF CreateSecret, Begin, TypeInv, TypeOK
  <2>2. NewRow(e, wdek[w], n, v) \in Rows
    BY <2>1 DEF NewRow, Rows, Hashes, Ciphertexts
  <2>3. /\ rows' = [rows EXCEPT ![i] = NewRow(e, wdek[w], n, v)] /\ rows[i] = None
        /\ UNCHANGED <<archive, wpc, wid, wseen>>
    BY <1>4 DEF CreateSecret
  <2>4. /\ \A j \in Ids \ {i} : rows'[j] = rows[j]
        /\ rows'[i] \in Rows /\ rows'[i] # None /\ ~Present(i)
    BY <2>2, <2>3, ConstantsAssumption DEF Present, TypeInv, TypeOK
  <2>5. \A x \in Writers : wpc'[x] # "idle" => rows'[wid'[x]] # None /\ wid[x] # i
    BY <1>0, <2>3, <2>4
  <2>6. OnRecord' \subseteq OnRecord
    <3>1. ASSUME NEW x \in Writers, Holds(x)' PROVE Holds(x) /\ Held(x)' = Held(x)
      BY <1>0, <2>3, <2>4, <2>5, <3>1 DEF Holds, Held, Present
    <3> QED BY <2>3, <3>1 DEF OnRecord
  <2>7. \A a \in OnRecord' : Present(a.id)'
    BY <2>4, <2>6, RecordFacts DEF Present
  <2> QED BY <2>4, <2>5, <2>6, <2>7, VersionsKept
<1>5. ASSUME NEW i \in Ids, DeleteSecret(w, i) PROVE VersionsAgree'
  <2>1. /\ \A j \in Ids \ {i} : rows'[j] = rows[j]
        /\ rows'[i] = Gone /\ rows'[i] # None /\ ~Present(i)'
        /\ archive' = {a \in archive : a.id # i} /\ UNCHANGED <<wpc, wid, wseen>>
    BY <1>5, ConstantsAssumption DEF DeleteSecret, Present, TypeInv, TypeOK
  <2>2. \A x \in Writers : wpc'[x] # "idle" => rows'[wid'[x]] # None
    BY <1>0, <2>1
  <2>3. ASSUME NEW x \in Writers, Holds(x)'
        PROVE  Holds(x) /\ Held(x)' = Held(x) /\ Held(x).id # i
    BY <1>0, <2>1, <2>3 DEF Holds, Held, Present
  <2>4. OnRecord' \subseteq OnRecord /\ \A a \in OnRecord' : a.id # i
    BY <2>1, <2>3 DEF OnRecord
  <2>5. \A a \in OnRecord' : Present(a.id)'
    BY <2>1, <2>4, RecordFacts DEF Present
  <2> QED BY <2>1, <2>2, <2>4, <2>5, VersionsKept DEF Present
<1>6. ASSUME UNCHANGED rows, \A x \in Writers \ {w} : wpc'[x] = wpc[x],
             \A x \in Writers \ {w} : wid'[x] = wid[x] /\ wseen'[x] = wseen[x],
             Holds(w)' => Holds(w) /\ Held(w)' = Held(w), archive' \subseteq OnRecord,
             wpc'[w] # "idle" => wpc[w] # "idle" /\ wid'[w] = wid[w]
      PROVE  VersionsAgree'
  <2>1. OnRecord' \subseteq OnRecord
    <3>1. ASSUME NEW x \in Writers, Holds(x)' PROVE Holds(x) /\ Held(x)' = Held(x)
      BY <1>6, <3>1 DEF Holds, Held, Present
    <3> QED BY <1>6, <3>1 DEF OnRecord
  <2>2. \A a \in OnRecord' : Present(a.id)'
    BY <1>6, <2>1, RecordFacts DEF Present
  <2>3. \A x \in Writers : wpc'[x] # "idle" => rows'[wid'[x]] # None
    BY <1>0, <1>6
  <2> QED BY <1>6, <2>1, <2>2, <2>3, VersionsKept
<1>7. CASE RollbackTarget(w)
  <2>1. archive \subseteq OnRecord
    BY DEF OnRecord
  <2>2. CASE Idle(w)
    BY <1>6, <1>7, <2>1, <2>2 DEF RollbackTarget, Idle, Holds, dbVars, TypeInv, TypeOK
  <2>3. CASE wpc' = [wpc EXCEPT ![w] = "archive"] /\ UNCHANGED <<wid, wseen>>
    BY <1>6, <1>7, <2>1, <2>3 DEF RollbackTarget, Holds, Held, Present, dbVars, TypeInv, TypeOK
  <2> QED BY <1>7, <2>2, <2>3 DEF RollbackTarget
<1>8. CASE ArchiveSeen(w)
  <2>1. wpc' = [wpc EXCEPT ![w] = "write"] /\ UNCHANGED <<rows, wid, wseen>>
    BY <1>8 DEF ArchiveSeen
  <2>2. ~Holds(w)'
    BY <2>1 DEF Holds, TypeInv, TypeOK
  <2>3. archive' \subseteq OnRecord
    <3>1. Present(wid[w]) => Held(w) \in OnRecord
      BY <1>8 DEF ArchiveSeen, OnRecord, Holds
    <3>2. \/ UNCHANGED archive
          \/ Present(wid[w]) /\ archive' = archive \cup {Held(w)}
      BY <1>8 DEF ArchiveSeen, Held
    <3>3. archive \subseteq OnRecord
      BY DEF OnRecord
    <3> QED BY <3>1, <3>2, <3>3
  <2> QED BY <1>6, <1>8, <2>1, <2>2, <2>3 DEF ArchiveSeen, TypeInv, TypeOK
<1>9. CASE WriteRow(w)
  <2>1. /\ wpc' = [wpc EXCEPT ![w] = "idle"] /\ archive' = archive
        /\ \A x \in Writers \ {w} : wid'[x] = wid[x] /\ wseen'[x] = wseen[x]
        /\ wid[w] \in Ids /\ wct[w] \in Ciphertexts
    BY <1>9 DEF WriteRow, Idle, TypeInv, TypeOK, RequestsFilled
  <2>2. CASE UNCHANGED rows
    BY <1>6, <2>1, <2>2 DEF Holds, OnRecord, TypeInv, TypeOK
  <2>3. CASE /\ Present(wid[w])
             /\ rows' = [rows EXCEPT ![wid[w]] = Rewritten(@, wct[w])]
    <3> DEFINE i == wid[w]
    <3>1. /\ Rewritten(rows[i], wct[w]) \in Rows
          /\ Rewritten(rows[i], wct[w]).version = rows[i].version + 1
      BY <2>1, <2>3, RecordFacts DEF Rewritten, Rows
    <3>2. rows'[i] = Rewritten(rows[i], wct[w]) /\ \A j \in Ids \ {i} : rows'[j] = rows[j]
      BY <2>1, <2>3 DEF TypeInv, TypeOK
    <3> HIDE DEF i
    <3>3. \A j \in Ids : /\ Present(j)' = Present(j)
                         /\ rows[j] # None => rows'[j] # None
                         /\ rows'[j] = rows[j] \/ rows'[j].version = rows[j].version + 1
      <4>1. rows'[i] \in Rows /\ Present(i)
        BY <2>3, <3>1, <3>2 DEF i
      <4>2. rows'[i] # None /\ rows'[i] # Gone
        BY <4>1, ConstantsAssumption
      <4> QED BY <3>1, <3>2, <4>1, <4>2 DEF Present
    <3>4. ASSUME NEW x \in Writers, Holds(x)' PROVE Holds(x) /\ Held(x)' = Held(x)
      BY <1>0, <2>1, <3>3, <3>4 DEF Holds, Held, Present, TypeInv, TypeOK
    <3>5. OnRecord' \subseteq OnRecord
      BY <2>1, <3>4 DEF OnRecord
    <3>6. \A a \in OnRecord' : Present(a.id)'
      BY <3>3, <3>5, RecordFacts
    <3>7. \A x \in Writers : wpc'[x] # "idle" => rows'[wid'[x]] # None
      BY <1>0, <2>1, <3>3 DEF TypeInv, TypeOK
    <3> QED BY <3>3, <3>5, <3>6, <3>7, VersionsKept
  <2> QED BY <1>9, <2>2, <2>3 DEF WriteRow
<1>10. ASSUME LoadKey(w) \/ \E u \in Users : GrantAccess(w, u)
       PROVE  UNCHANGED <<rows, archive, wpc, wid, wseen>>
  BY <1>10 DEF LoadKey, GrantAccess, PressGrant, dbVars
<1> QED
  BY <1>1, <1>2, <1>3, <1>4, <1>5, <1>7, <1>8, <1>9, <1>10 DEF WriterStep

LEMMA NextVersions == TypeInv /\ VersionsAgree /\ [Next]_vars => VersionsAgree'
<1> SUFFICES ASSUME TypeInv, VersionsAgree, [Next]_vars PROVE VersionsAgree'
  OBVIOUS
<1>1. CASE UNCHANGED <<rows, archive, wpc, wid, wseen>>
  BY <1>1 DEF VersionsAgree, Present, OnRecord, Holds, Held
<1>2. (\E u \in Users : JoinVault(u)) \/ UNCHANGED vars =>
         UNCHANGED <<rows, archive, wpc, wid, wseen>>
  BY DEF JoinVault, vars, dbVars, writerVars
<1> QED
  BY <1>1, <1>2, RotatorVersions, WriterVersions DEF Next

\* A version number of a secret means one ciphertext, whoever archives it twice and
\* whatever rotation runs in between.
THEOREM VersionsAreUnambiguous == Spec => []VersionIdentifiesCiphertext
<1>1. Init => VersionsAgree
  BY DEF Init, VersionsAgree, OnRecord, Holds
<1>2. Spec => [](TypeInv /\ VersionsAgree)
  BY <1>1, InitType, NextType, NextVersions, PTL DEF Spec
<1>3. VersionsAgree => VersionIdentifiesCiphertext
  BY DEF VersionsAgree, VersionIdentifiesCiphertext, OnRecord
<1> QED BY <1>2, <1>3, PTL
=============================================================================
