------------------------ MODULE SecretVersionsProofs ------------------------
(***************************************************************************)
(* Proofs about SecretVersions for any sets of clients, ciphertexts and    *)
(* metadata fields, and any number of requests.                            *)
(*                                                                         *)
(* The properties rest on what a handler still knows when it acts: as long *)
(* as the row it read exists, under the same id, the row it read is one of *)
(* the versions so far, and so is the rollback's target.  Ids are not used *)
(* again, so a row that is gone stays gone for the handler.                *)
(***************************************************************************)
EXTENDS SecretVersions, TLAPS

-----------------------------------------------------------------------------
(* The inductive invariants.                                               *)

\* What a handler has when it comes to each statement.
Stage(c) ==
    /\ pc[c] = "idle" <=> req[c] = None
    /\ pc[c] \in {"check", "insert"} => req[c].op \in {"create", "setCreate"}
    /\ pc[c] = "read" => req[c].op \in {"update", "set", "patch", "rollback"}
    /\ pc[c] = "target" => req[c].op = "rollback"
    /\ pc[c] = "archive" => req[c].op \in {"update", "set", "rollback"}
    /\ pc[c] = "write" => req[c].op \in {"update", "set", "patch", "rollback"}
    /\ pc[c] = "delete" => req[c].op = "delete"
    /\ pc[c] \in {"target", "archive", "write"} => seen[c] # None
    /\ pc[c] = "finish" => req[c].op = "delete" \/ seen[c] # None
    /\ pc[c] \in {"archive", "write"} /\ req[c].op = "rollback" => target[c] # None
    /\ seen[c] # None => pc[c] \in {"target", "archive", "write", "finish"}
    /\ target[c] # None => pc[c] \in {"archive", "write", "finish"}
                           /\ req[c].op = "rollback" /\ seen[c] # None

TypeInv == TypeOK /\ \A c \in Clients : Stage(c)

\* The versions of the secret so far.
Cur == [version |-> row.version, ct |-> row.ct]
Versions == past \cup {Cur}

\* Ids are given out in order, and only versions of the row that exists are
\* archived.
RowInv ==
    /\ row # None => row.id = born
    /\ row = None => archive = {} /\ past = {}
    /\ \A a \in archive : a.id = row.id /\ [version |-> a.version, ct |-> a.ct] \in Versions
    /\ row # None => \A p \in past : p.version < row.version

\* What a handler has read is one of the versions, while the row exists.
Knows(c) ==
    /\ seen[c] # None => seen[c].id <= born
    /\ StillThere(c) /\ seen[c] # None =>
          [version |-> seen[c].version, ct |-> seen[c].ct] \in Versions
    /\ StillThere(c) /\ target[c] # None =>
          [version |-> req[c].version, ct |-> target[c]] \in Versions

KnowsInv == RowInv /\ \A c \in Clients : Knows(c)

-----------------------------------------------------------------------------
(* Types.                                                                  *)

LEMMA RequestFacts ==
    ASSUME NEW q \in Requests
    PROVE  /\ q # None
           /\ q.op \in {"create", "setCreate"} => q.ct \in Ciphertexts /\ q.fields \subseteq Fields
           /\ q.op \in {"update", "set"} => q.ct \in Ciphertexts
           /\ q.op \in {"update", "patch"} /\ q.meta # None => q.meta \in Patches
           /\ q.op = "rollback" => q.version \in Nat
           /\ q.op \in {"create", "setCreate", "update", "set", "patch", "rollback", "delete"}
BY ConstantsAssumption DEF Requests

LEMMA InitType == Init => TypeInv
<1> SUFFICES ASSUME Init PROVE TypeInv
  OBVIOUS
<1>1. row \in Rows \cup {None} /\ born \in Nat
  BY DEF Init, Rows
<1>2. TypeOK
  BY <1>1 DEF Init, TypeOK, Steps
<1>3. ASSUME NEW c \in Clients PROVE Stage(c)
  BY DEF Init, Stage
<1> QED BY <1>2, <1>3 DEF TypeInv

LEMMA AnswerType ==
    ASSUME TypeInv, NEW c \in Clients, NEW a \in Replies, pc[c] # "idle",
           req[c].op = "set" => req[c].ct \in Ciphertexts,
           Refuse(c, a)
    PROVE  TypeInv'
<1> USE DEF TypeInv, TypeOK, Refuse, Answer, GoTo, Steps, dbVars
<1>1. ASSUME req[c].op = "set", a # "ok" PROVE TypeInv'
  <2>1. [op |-> "setCreate", ct |-> req[c].ct, fields |-> {}] \in Requests
    BY <1>1 DEF Requests
  <2>2. TypeOK'
    BY <1>1, <2>1
  <2>3. [op |-> "setCreate", ct |-> req[c].ct, fields |-> {}] # None
    BY <2>1, RequestFacts
  <2>4. Stage(c)'
    BY <1>1, <2>3 DEF Stage
  <2>5. ASSUME NEW d \in Clients \ {c} PROVE Stage(d)'
    BY <1>1 DEF Stage
  <2> QED BY <2>2, <2>4, <2>5
<1>2. ASSUME req[c].op # "set" \/ a = "ok" PROVE TypeInv'
  <2>1. TypeOK'
    BY <1>2 DEF Replies
  <2>2. ASSUME NEW d \in Clients PROVE Stage(d)'
    BY <1>2 DEF Stage
  <2> QED BY <2>1, <2>2
<1> QED BY <1>1, <1>2

LEMMA WrittenType ==
    ASSUME TypeInv, NEW c \in Clients, pc[c] = "write", row # None
    PROVE  Written(c) \in Rows
<1>1. /\ row \in Rows /\ seen[c] \in Rows /\ req[c] \in Requests
      /\ req[c].op \in {"update", "set", "patch", "rollback"}
      /\ req[c].op = "rollback" => target[c] \in Ciphertexts
  BY DEF TypeInv, TypeOK, Stage
<1>2. HasPatch(c) => Merge(seen[c].meta, req[c].meta) \in SUBSET Fields
  BY <1>1, RequestFacts DEF HasPatch, Merge, Rows, Patches
<1> QED BY <1>1, <1>2, RequestFacts DEF Written, Rows

LEMMA StepType ==
    ASSUME TypeInv, NEW c \in Clients
    PROVE  /\ Call(c) => TypeInv'
           /\ StatementFails(c) => TypeInv'
           /\ CreateCheck(c) => TypeInv'
           /\ CreateInsert(c) => TypeInv'
           /\ Read(c) => TypeInv'
           /\ RejectMetadata(c) => TypeInv'
           /\ FindTarget(c) => TypeInv'
           /\ ArchiveSeen(c) => TypeInv'
           /\ Write(c) => TypeInv'
           /\ Delete(c) => TypeInv'
           /\ Finish(c) => TypeInv'
<1>0. pc[c] # "idle" => req[c] \in Requests
  BY DEF TypeInv, TypeOK, Stage
<1>r. ASSUME NEW a \in Replies, pc[c] # "idle", Refuse(c, a) PROVE TypeInv'
  BY <1>0, <1>r, AnswerType, RequestFacts
<1> USE DEF GoTo, dbVars, historyVars
<1>1. ASSUME Call(c) PROVE TypeInv'
  <2>1. PICK q \in Requests : /\ q.op \in Ops
                              /\ req' = [req EXCEPT ![c] = q]
                              /\ GoTo(c, FirstStep(q.op))
    BY <1>1 DEF Call
  <2>2. q.op \in {"create", "update", "set", "patch", "rollback", "delete"} /\ q # None
    BY <2>1, ConstantsAssumption, RequestFacts
  <2>3. /\ FirstStep(q.op) \in {"check", "delete", "read"}
        /\ FirstStep(q.op) = "check" => q.op = "create"
        /\ FirstStep(q.op) = "delete" => q.op = "delete"
        /\ FirstStep(q.op) = "read" => q.op \in {"update", "set", "patch", "rollback"}
    BY <2>2 DEF FirstStep
  <2>4. TypeOK'
    BY <1>1, <2>1, <2>3 DEF Call, TypeInv, TypeOK, Steps
  <2>5. ASSUME NEW d \in Clients PROVE Stage(d)'
    BY <1>1, <2>1, <2>2, <2>3 DEF Call, TypeInv, TypeOK, Stage
  <2> QED BY <2>4, <2>5 DEF TypeInv
<1>2. ASSUME StatementFails(c) PROVE TypeInv'
  BY <1>2, <1>r DEF StatementFails, Replies
<1>3. ASSUME CreateCheck(c) PROVE TypeInv'
  <2>1. CASE Refuse(c, "conflict")
    BY <1>3, <2>1, <1>r DEF CreateCheck, Replies
  <2>2. CASE ~Refuse(c, "conflict")
    <3>1. TypeOK'
      BY <1>3, <2>2 DEF CreateCheck, TypeInv, TypeOK, Steps
    <3>2. ASSUME NEW d \in Clients PROVE Stage(d)'
      BY <1>3, <2>2 DEF CreateCheck, TypeInv, TypeOK, Stage
    <3> QED BY <3>1, <3>2 DEF TypeInv
  <2> QED BY <2>1, <2>2
<1>4. ASSUME CreateInsert(c) PROVE TypeInv'
  <2>1. CASE Refuse(c, "failed")
    BY <1>4, <2>1, <1>r DEF CreateInsert, Replies
  <2>2. CASE ~Refuse(c, "failed")
    <3>1. req[c].ct \in Ciphertexts /\ req[c].fields \subseteq Fields
      BY <1>0, <1>4, RequestFacts DEF CreateInsert, TypeInv, Stage
    <3>2. row' \in Rows
      BY <1>4, <2>2, <3>1 DEF CreateInsert, Rows, TypeInv, TypeOK
    <3>3. TypeOK'
      <4>1. born' \in Nat /\ labels' \subseteq Fields
        BY <1>4, <2>2, <3>1 DEF CreateInsert, TypeInv, TypeOK
      <4>4. mixed' \in BOOLEAN
        BY <1>4, <2>2 DEF CreateInsert
      <4>2. pc' \in [Clients -> Steps] /\ took' \in [Clients -> BOOLEAN]
        BY <1>4, <2>2 DEF CreateInsert, TypeInv, TypeOK, Steps
      <4>3. seen' \in [Clients -> Rows \cup {None}]
        BY <1>4, <2>2, <3>2 DEF CreateInsert, TypeInv, TypeOK
      <4> QED BY <1>4, <2>2, <3>2, <4>1, <4>2, <4>3, <4>4 DEF CreateInsert, TypeInv, TypeOK
    <3>4. row' # None
      BY <3>2, ConstantsAssumption
    <3>5. ASSUME NEW d \in Clients PROVE Stage(d)'
      BY <1>4, <2>2, <3>4 DEF CreateInsert, TypeInv, TypeOK, Stage
    <3> QED BY <3>3, <3>5 DEF TypeInv
  <2> QED BY <2>1, <2>2
<1>5. ASSUME Read(c) PROVE TypeInv'
  <2>1. CASE Refuse(c, "notFound")
    BY <1>5, <2>1, <1>r DEF Read, Replies
  <2>2. CASE ~Refuse(c, "notFound")
    <3>1. /\ req[c].op \in {"update", "set", "patch", "rollback"}
          /\ NextStep(req[c].op) \in {"target", "archive", "write"}
          /\ req[c].op = "rollback" => NextStep(req[c].op) = "target"
          /\ req[c].op = "patch" => NextStep(req[c].op) = "write"
          /\ req[c].op \in {"update", "set"} => NextStep(req[c].op) = "archive"
      BY <1>5 DEF Read, TypeInv, Stage, NextStep
    <3>2. TypeOK'
      <4>1. pc' \in [Clients -> Steps]
        BY <1>5, <2>2, <3>1 DEF Read, TypeInv, TypeOK, Steps
      <4>2. seen' \in [Clients -> Rows \cup {None}] /\ fresh' \in [Clients -> BOOLEAN]
        BY <1>5, <2>2 DEF Read, TypeInv, TypeOK
      <4> QED BY <1>5, <2>2, <4>1, <4>2 DEF Read, TypeInv, TypeOK
    <3>3. ASSUME NEW d \in Clients PROVE Stage(d)'
      BY <1>5, <2>2, <3>1 DEF Read, TypeInv, TypeOK, Stage
    <3> QED BY <3>2, <3>3 DEF TypeInv
  <2> QED BY <2>1, <2>2
<1>6. ASSUME RejectMetadata(c) PROVE TypeInv'
  BY <1>6, <1>r DEF RejectMetadata, Replies
<1>7. ASSUME FindTarget(c) PROVE TypeInv'
  <2>1. CASE Refuse(c, "notFound")
    BY <1>7, <2>1, <1>r DEF FindTarget, Replies
  <2>2. CASE ~Refuse(c, "notFound")
    <3>1. PICK a \in archive : target' = [target EXCEPT ![c] = a.ct]
      BY <1>7, <2>2 DEF FindTarget
    <3>2. a.ct \in Ciphertexts /\ a.ct # None
      BY <3>1, ConstantsAssumption DEF TypeInv, TypeOK, Archived
    <3>3. TypeOK'
      BY <1>7, <2>2, <3>1, <3>2 DEF FindTarget, TypeInv, TypeOK, Steps
    <3>4. ASSUME NEW d \in Clients PROVE Stage(d)'
      BY <1>7, <2>2, <3>1, <3>2 DEF FindTarget, TypeInv, TypeOK, Stage
    <3> QED BY <3>3, <3>4 DEF TypeInv
  <2> QED BY <2>1, <2>2
<1>8. ASSUME ArchiveSeen(c) PROVE TypeInv'
  <2>1. seen[c] \in Rows
    BY <1>8 DEF ArchiveSeen, TypeInv, TypeOK, Stage
  <2>2. archive' \subseteq Archived /\ unkept' \subseteq Nat
    BY <1>8, <2>1 DEF ArchiveSeen, TypeInv, TypeOK, Rows, Archived
  <2>3. TypeOK'
    BY <1>8, <2>2 DEF ArchiveSeen, TypeInv, TypeOK, Steps
  <2>4. ASSUME NEW d \in Clients PROVE Stage(d)'
    BY <1>8 DEF ArchiveSeen, TypeInv, TypeOK, Stage
  <2> QED BY <2>3, <2>4 DEF TypeInv
<1>9. ASSUME Write(c) PROVE TypeInv'
  <2>1. row' \in Rows \cup {None}
    BY <1>9, WrittenType DEF Write, StillThere, TypeInv, TypeOK
  <2>2. /\ past' \subseteq PastVersions /\ unkept' \subseteq Nat
        /\ labels' \subseteq Fields /\ mixed' \in BOOLEAN
        /\ fresh' \in [Clients -> BOOLEAN] /\ took' \in [Clients -> BOOLEAN]
    <3>1. CASE ~StillThere(c)
      BY <1>9, <3>1 DEF Write, TypeInv, TypeOK
    <3>2. CASE StillThere(c)
      <4>1. row \in Rows /\ req[c] \in Requests
        BY <1>0, <1>9, <3>2 DEF Write, StillThere, TypeInv, TypeOK
      <4>2. HasPatch(c) => Merge(labels, req[c].meta) \subseteq Fields
        BY <4>1, RequestFacts DEF HasPatch, Merge, Patches, TypeInv, TypeOK
      <4>0. RecordWrite(c)
        BY <1>9, <3>2 DEF Write
      <4>3. past' \subseteq PastVersions
        BY <4>0, <4>1 DEF RecordWrite, Rows, PastVersions, TypeInv, TypeOK
      <4>7. unkept' \subseteq Nat
        BY <4>0, <4>1 DEF RecordWrite, Rows, TypeInv, TypeOK
      <4>4. mixed' \in BOOLEAN
        BY <1>9, <3>2 DEF Write, RecordWrite, TypeInv, TypeOK
      <4>5. fresh' \in [Clients -> BOOLEAN]
        BY <4>0 DEF RecordWrite, TypeInv, TypeOK
      <4>8. took' \in [Clients -> BOOLEAN]
        BY <4>0 DEF RecordWrite, TypeInv, TypeOK
      <4>6. labels' \subseteq Fields
        BY <1>9, <3>2, <4>2 DEF Write, RecordWrite, TypeInv, TypeOK
      <4> QED BY <4>3, <4>4, <4>5, <4>6, <4>7, <4>8
    <3> QED BY <3>1, <3>2
  <2>3. TypeOK'
    BY <1>9, <2>1, <2>2 DEF Write, TypeInv, TypeOK, Steps
  <2>4. ASSUME NEW d \in Clients PROVE Stage(d)'
    BY <1>9 DEF Write, TypeInv, TypeOK, Stage
  <2> QED BY <2>3, <2>4 DEF TypeInv
<1>10. ASSUME Delete(c) PROVE TypeInv'
  <2>1. CASE Refuse(c, "notFound")
    BY <1>10, <2>1, <1>r DEF Delete, Replies
  <2>2. CASE ~Refuse(c, "notFound")
    <3>1. TypeOK'
      BY <1>10, <2>2 DEF Delete, TypeInv, TypeOK, Steps
    <3>2. ASSUME NEW d \in Clients PROVE Stage(d)'
      BY <1>10, <2>2 DEF Delete, TypeInv, TypeOK, Stage
    <3> QED BY <3>1, <3>2 DEF TypeInv
  <2> QED BY <2>1, <2>2
<1>11. ASSUME Finish(c) PROVE TypeInv'
  BY <1>11, <1>r DEF Finish, Replies
<1> QED BY <1>1, <1>2, <1>3, <1>4, <1>5, <1>6, <1>7, <1>8, <1>9, <1>10, <1>11

LEMMA NextType == TypeInv /\ [Next]_vars => TypeInv'
<1> SUFFICES ASSUME TypeInv, [Next]_vars PROVE TypeInv'
  OBVIOUS
<1>1. CASE Next
  BY <1>1, StepType DEF Next
<1>2. CASE UNCHANGED vars
  BY <1>2 DEF vars, dbVars, handlerVars, historyVars, TypeInv, TypeOK, Stage
<1> QED BY <1>1, <1>2

\* The variables of the handlers, the database and the history keep their types.
THEOREM TypeCorrect == Spec => []TypeOK
<1>1. TypeInv => TypeOK
  BY DEF TypeInv
<1> QED BY <1>1, InitType, NextType, PTL DEF Spec

-----------------------------------------------------------------------------
(* What the handlers know.                                                 *)

\* A request that is turned down leaves database and versions alone.
LEMMA RefuseKnows ==
    ASSUME TypeInv, KnowsInv, NEW c \in Clients, NEW a, Refuse(c, a)
    PROVE  KnowsInv'
<1> USE DEF Refuse, Answer, dbVars, TypeInv, TypeOK
<1>1. row' = row /\ archive' = archive /\ born' = born /\ past' = past
  OBVIOUS
<1>2. Versions' = Versions /\ RowInv'
  BY <1>1 DEF KnowsInv, RowInv, Versions, Cur
<1>3. seen'[c] = None /\ target'[c] = None
  OBVIOUS
<1>4. ASSUME NEW d \in Clients \ {c} PROVE Knows(d)'
  BY <1>1, <1>2 DEF Knows, StillThere, KnowsInv
<1> QED BY <1>2, <1>3, <1>4 DEF KnowsInv, Knows

\* The database after a write: the same row, and all its versions so far.
LEMMA KnowsMore ==
    ASSUME TypeInv, KnowsInv, NEW d \in Clients,
           row # None, row' # None, row'.id = row.id, born' = born, Versions \subseteq Versions',
           req'[d] = req[d], seen'[d] = seen[d], target'[d] = target[d]
    PROVE  Knows(d)'
BY DEF KnowsInv, Knows, StillThere

LEMMA StepKnows ==
    ASSUME TypeInv, TypeInv', KnowsInv, NEW c \in Clients
    PROVE  /\ Call(c) => KnowsInv'
           /\ StatementFails(c) => KnowsInv'
           /\ CreateCheck(c) => KnowsInv'
           /\ CreateInsert(c) => KnowsInv'
           /\ Read(c) => KnowsInv'
           /\ RejectMetadata(c) => KnowsInv'
           /\ FindTarget(c) => KnowsInv'
           /\ ArchiveSeen(c) => KnowsInv'
           /\ Write(c) => KnowsInv'
           /\ Delete(c) => KnowsInv'
           /\ Finish(c) => KnowsInv'
<1> USE DEF dbVars, historyVars, GoTo
<1>s. ASSUME UNCHANGED <<dbVars, past>> PROVE RowInv' /\ Versions' = Versions
  BY <1>s DEF KnowsInv, RowInv, Versions, Cur
<1>o. ASSUME UNCHANGED <<dbVars, past>>, NEW d \in Clients,
             req'[d] = req[d], seen'[d] = seen[d], target'[d] = target[d]
      PROVE  Knows(d)'
  BY <1>o, <1>s DEF KnowsInv, Knows, StillThere
<1>1. ASSUME Call(c) PROVE KnowsInv'
  <2>1. UNCHANGED <<dbVars, past, seen, target>> /\ pc[c] = "idle"
    BY <1>1 DEF Call
  <2>2. seen[c] = None /\ target[c] = None
    BY <2>1 DEF TypeInv, Stage
  <2>3. Knows(c)'
    BY <2>1, <2>2 DEF Knows
  <2>4. ASSUME NEW d \in Clients \ {c} PROVE Knows(d)'
    BY <1>1, <2>1, <1>o DEF Call, TypeInv, TypeOK
  <2> QED BY <2>1, <2>3, <2>4, <1>s DEF KnowsInv
<1>2. ASSUME StatementFails(c) PROVE KnowsInv'
  BY <1>2, RefuseKnows DEF StatementFails
<1>3. ASSUME CreateCheck(c) PROVE KnowsInv'
  <2>1. CASE Refuse(c, "conflict")
    BY <2>1, RefuseKnows
  <2>2. CASE UNCHANGED <<dbVars, req, seen, target, past>>
    BY <2>2, <1>s, <1>o DEF KnowsInv
  <2> QED BY <1>3, <2>1, <2>2 DEF CreateCheck
<1>4. ASSUME CreateInsert(c) PROVE KnowsInv'
  <2>1. CASE Refuse(c, "failed")
    BY <2>1, RefuseKnows
  <2>2. CASE ~Refuse(c, "failed")
    <3>1. /\ row = None /\ born' = born + 1 /\ born \in Nat
          /\ row' = [id |-> born + 1, version |-> 1, ct |-> req[c].ct, meta |-> req[c].fields]
          /\ seen' = [seen EXCEPT ![c] = row']
          /\ UNCHANGED <<archive, req, target, past>> /\ pc[c] = "insert"
      BY <1>4, <2>2 DEF CreateInsert, TypeInv, TypeOK
    <3>2. archive = {} /\ past = {}
      BY <3>1 DEF KnowsInv, RowInv
    <3>3. RowInv'
      BY <3>1, <3>2 DEF RowInv, TypeInv, TypeOK, Rows
    <3>4. Knows(c)'
      BY <3>1 DEF Knows, Versions, Cur, TypeInv, TypeOK, Stage
    <3>5. ASSUME NEW d \in Clients \ {c} PROVE Knows(d)'
      <4>1. CASE seen[d] = None
        <5>1. target[d] = None /\ seen'[d] = None /\ target'[d] = None
          BY <3>1, <4>1 DEF TypeInv, TypeOK, Stage
        <5> QED BY <5>1 DEF Knows
      <4>2. CASE seen[d] # None
        <5>1. seen'[d] = seen[d] /\ seen[d] \in Rows
          BY <3>1, <4>2 DEF TypeInv, TypeOK
        <5>2. seen[d].id <= born /\ seen[d].id \in Nat
          BY <4>2, <5>1 DEF KnowsInv, Knows, Rows
        <5> QED BY <3>1, <5>1, <5>2 DEF Knows, StillThere
      <4> QED BY <4>1, <4>2
    <3> QED BY <3>3, <3>4, <3>5 DEF KnowsInv
  <2> QED BY <2>1, <2>2
<1>5. ASSUME Read(c) PROVE KnowsInv'
  <2>1. CASE Refuse(c, "notFound")
    BY <2>1, RefuseKnows
  <2>2. CASE ~Refuse(c, "notFound")
    <3>1. /\ row # None /\ row \in Rows /\ seen' = [seen EXCEPT ![c] = row]
          /\ UNCHANGED <<dbVars, req, target, past>> /\ target[c] = None
      BY <1>5, <2>2 DEF Read, TypeInv, TypeOK, Stage
    <3>2. Knows(c)'
      BY <3>1 DEF Knows, Versions, Cur, KnowsInv, RowInv, Rows, TypeInv, TypeOK
    <3>3. ASSUME NEW d \in Clients \ {c} PROVE Knows(d)'
      BY <3>1, <1>o DEF TypeInv, TypeOK
    <3> QED BY <3>1, <3>2, <3>3, <1>s DEF KnowsInv
  <2> QED BY <2>1, <2>2
<1>6. ASSUME RejectMetadata(c) PROVE KnowsInv'
  BY <1>6, RefuseKnows DEF RejectMetadata
<1>7. ASSUME FindTarget(c) PROVE KnowsInv'
  <2>1. CASE Refuse(c, "notFound")
    BY <2>1, RefuseKnows
  <2>2. CASE ~Refuse(c, "notFound")
    <3>1. PICK a \in archive : /\ a.id = seen[c].id /\ a.version = req[c].version
                                /\ target' = [target EXCEPT ![c] = a.ct]
      BY <1>7, <2>2 DEF FindTarget
    <3>2. UNCHANGED <<dbVars, req, seen, past>>
      BY <1>7, <2>2 DEF FindTarget
    <3>3. [version |-> req[c].version, ct |-> a.ct] \in Versions
      BY <3>1 DEF KnowsInv, RowInv
    <3>4. Knows(c)'
      BY <3>1, <3>2, <3>3, <1>s DEF KnowsInv, Knows, StillThere, TypeInv, TypeOK
    <3>5. ASSUME NEW d \in Clients \ {c} PROVE Knows(d)'
      BY <3>1, <3>2, <1>o DEF TypeInv, TypeOK
    <3> QED BY <3>2, <3>4, <3>5, <1>s DEF KnowsInv
  <2> QED BY <2>1, <2>2
<1>8. ASSUME ArchiveSeen(c) PROVE KnowsInv'
  <2>1. UNCHANGED <<row, born, past, req, seen, target>> /\ seen[c] # None
    BY <1>8 DEF ArchiveSeen, TypeInv, Stage
  <2>2. Versions' = Versions
    BY <2>1 DEF Versions, Cur
  <2>3. ASSUME NEW a \in archive'
        PROVE  row # None /\ a.id = row.id /\ [version |-> a.version, ct |-> a.ct] \in Versions
    <3>1. CASE a \in archive
      BY <3>1 DEF KnowsInv, RowInv
    <3>2. CASE a \notin archive
      <4>1. /\ StillThere(c)
            /\ a = [id |-> seen[c].id, version |-> seen[c].version, ct |-> seen[c].ct]
        BY <1>8, <3>2, <2>3 DEF ArchiveSeen
      <4> QED BY <2>1, <4>1 DEF KnowsInv, Knows, StillThere
    <3> QED BY <3>1, <3>2
  <2>4. RowInv'
    BY <2>1, <2>2, <2>3 DEF KnowsInv, RowInv
  <2>5. ASSUME NEW d \in Clients PROVE Knows(d)'
    BY <2>1, <2>2 DEF KnowsInv, Knows, StillThere
  <2> QED BY <2>4, <2>5 DEF KnowsInv
<1>9. ASSUME Write(c) PROVE KnowsInv'
  <2>1. UNCHANGED <<archive, born, req, seen, target>>
    BY <1>9 DEF Write
  <2>2. CASE ~StillThere(c)
    BY <1>9, <2>1, <2>2, <1>s, <1>o DEF Write, KnowsInv
  <2>3. CASE StillThere(c)
    <3>1. row \in Rows /\ row # None /\ row' = Written(c) /\ RecordWrite(c)
      BY <1>9, <2>3 DEF Write, StillThere, TypeInv, TypeOK
    <3>2. row' \in Rows /\ row' # None /\ row'.id = row.id
      BY <1>9, <3>1, WrittenType, ConstantsAssumption DEF Write, Written
    <3>3. CASE req[c].op = "patch"
      <4>1. Cur' = Cur /\ past' = past
        BY <3>1, <3>3 DEF Written, RecordWrite, Cur
      <4>2. RowInv'
        BY <2>1, <3>1, <3>2, <4>1 DEF KnowsInv, RowInv, Versions, Cur
      <4> QED BY <2>1, <3>1, <3>2, <4>1, <4>2, KnowsMore DEF KnowsInv, Versions
    <3>4. CASE req[c].op # "patch"
      <4>1. row'.version = row.version + 1 /\ past' = past \cup {Cur}
        BY <3>1, <3>4 DEF Written, RecordWrite, Cur
      <4>2. Versions \subseteq Versions'
        BY <4>1 DEF Versions
      <4>3. \A p \in past' : p.version < row'.version
        <5>1. ASSUME NEW p \in past PROVE p.version < row'.version
          BY <3>1, <4>1, <5>1 DEF KnowsInv, RowInv, Rows, PastVersions, TypeInv, TypeOK
        <5>2. Cur.version < row'.version
          BY <3>1, <4>1 DEF Cur, Rows
        <5> QED BY <4>1, <5>1, <5>2
      <4>4. RowInv'
        BY <2>1, <3>1, <3>2, <4>2, <4>3 DEF KnowsInv, RowInv
      <4> QED BY <2>1, <3>1, <3>2, <4>2, <4>4, KnowsMore DEF KnowsInv
    <3> QED BY <3>3, <3>4
  <2> QED BY <2>2, <2>3
<1>10. ASSUME Delete(c) PROVE KnowsInv'
  <2>1. CASE Refuse(c, "notFound")
    BY <2>1, RefuseKnows
  <2>2. CASE ~Refuse(c, "notFound")
    <3>1. row' = None /\ archive' = {} /\ past' = {} /\ UNCHANGED <<born, seen>>
      BY <1>10, <2>2 DEF Delete
    <3> QED BY <3>1 DEF KnowsInv, RowInv, Knows, StillThere
  <2> QED BY <2>1, <2>2
<1>11. ASSUME Finish(c) PROVE KnowsInv'
  BY <1>11, RefuseKnows DEF Finish
<1> QED BY <1>1, <1>2, <1>3, <1>4, <1>5, <1>6, <1>7, <1>8, <1>9, <1>10, <1>11

LEMMA NextKnows == TypeInv /\ KnowsInv /\ [Next]_vars => KnowsInv'
<1> SUFFICES ASSUME TypeInv, KnowsInv, [Next]_vars PROVE KnowsInv'
  OBVIOUS
<1>1. TypeInv'
  BY NextType
<1>2. CASE Next
  BY <1>1, <1>2, StepKnows DEF Next
<1>3. CASE UNCHANGED vars
  BY <1>3 DEF vars, dbVars, handlerVars, historyVars, KnowsInv, RowInv, Knows, StillThere,
              Versions, Cur
<1> QED BY <1>2, <1>3

LEMMA InitKnows == Init => KnowsInv
BY DEF Init, KnowsInv, RowInv, Knows

-----------------------------------------------------------------------------
(* Versions and metadata.                                                  *)

\* A handler about to overwrite the version it read has archived it, or failed to.
Keeps(c) ==
    pc[c] = "write" /\ req[c].op # "patch" /\ StillThere(c) =>
        seen[c].version \in unkept \/ Known(seen[c].version, seen[c].ct)

KeptInv == QuietVersionsKept /\ \A c \in Clients : Keeps(c)

\* A handler's copy of the metadata is good until a patch takes effect.
Good(c) == fresh[c] /\ seen[c] # None /\ StillThere(c) => seen[c].meta = row.meta

MetaInv == QuietMetadata /\ \A c \in Clients : Good(c)

\* A row that is inserted is not the one another handler has read.
LEMMA InsertFacts ==
    ASSUME TypeInv, KnowsInv, NEW c \in Clients, CreateInsert(c), ~Refuse(c, "failed")
    PROVE  /\ row = None /\ past' = {} /\ archive' = {}
           /\ row' = [id |-> born + 1, version |-> 1, ct |-> req[c].ct, meta |-> req[c].fields]
           /\ \A d \in Clients \ {c} : seen[d] # None => ~StillThere(d)'
<1>1. /\ row = None /\ past' = past /\ archive' = archive /\ born \in Nat
      /\ row' = [id |-> born + 1, version |-> 1, ct |-> req[c].ct, meta |-> req[c].fields]
      /\ seen' = [seen EXCEPT ![c] = row']
  BY DEF CreateInsert, TypeInv, TypeOK
<1>2. ASSUME NEW d \in Clients \ {c}, seen[d] # None PROVE ~StillThere(d)'
  <2>1. seen'[d] = seen[d] /\ seen[d] \in Rows
    BY <1>1, <1>2 DEF TypeInv, TypeOK
  <2>2. seen[d].id <= born /\ seen[d].id \in Nat
    BY <1>2, <2>1 DEF KnowsInv, Knows, Rows
  <2> QED BY <1>1, <2>1, <2>2 DEF StillThere
<1> QED BY <1>1, <1>2 DEF KnowsInv, RowInv

LEMMA StepKept ==
    ASSUME TypeInv, TypeInv', KnowsInv, KeptInv, NEW c \in Clients
    PROVE  /\ Call(c) => KeptInv'
           /\ StatementFails(c) => KeptInv'
           /\ CreateCheck(c) => KeptInv'
           /\ CreateInsert(c) => KeptInv'
           /\ Read(c) => KeptInv'
           /\ RejectMetadata(c) => KeptInv'
           /\ FindTarget(c) => KeptInv'
           /\ ArchiveSeen(c) => KeptInv'
           /\ Write(c) => KeptInv'
           /\ Delete(c) => KeptInv'
           /\ Finish(c) => KeptInv'
<1> USE DEF dbVars, historyVars, GoTo
<1>s. ASSUME UNCHANGED <<row, archive, past, unkept>>,
             pc' \in [Clients -> Steps], pc'[c] # "write" \/ req'[c].op = "patch",
             \A d \in Clients \ {c} : pc'[d] = pc[d] /\ req'[d] = req[d] /\ seen'[d] = seen[d]
      PROVE  KeptInv'
  BY <1>s DEF KeptInv, QuietVersionsKept, Keeps, StillThere, Known
<1>r. ASSUME NEW a, Refuse(c, a) PROVE KeptInv'
  <2>1. pc'[c] \in {"idle", "check"}
    BY <1>r DEF Refuse, Answer, TypeInv, TypeOK
  <2> QED BY <1>r, <1>s, <2>1 DEF Refuse, Answer, TypeInv, TypeOK
<1>1. ASSUME Call(c) PROVE KeptInv'
  <2>1. PICK q \in Requests : /\ q.op \in Ops
                              /\ req' = [req EXCEPT ![c] = q]
                              /\ pc' = [pc EXCEPT ![c] = FirstStep(q.op)]
    BY <1>1 DEF Call
  <2>2. pc'[c] # "write"
    <3>1. FirstStep(q.op) # "write"
      BY <2>1, ConstantsAssumption DEF FirstStep
    <3> QED BY <2>1, <3>1 DEF TypeInv, TypeOK
  <2> QED BY <1>1, <1>s, <2>1, <2>2 DEF Call, TypeInv, TypeOK
<1>2. ASSUME StatementFails(c) PROVE KeptInv'
  BY <1>2, <1>r DEF StatementFails
<1>3. ASSUME CreateCheck(c) PROVE KeptInv'
  <2>1. CASE Refuse(c, "conflict")
    BY <2>1, <1>r
  <2>2. CASE ~Refuse(c, "conflict")
    BY <1>3, <2>2, <1>s DEF CreateCheck, TypeInv, TypeOK
  <2> QED BY <2>1, <2>2
<1>4. ASSUME CreateInsert(c) PROVE KeptInv'
  <2>1. CASE Refuse(c, "failed")
    BY <2>1, <1>r
  <2>2. CASE ~Refuse(c, "failed")
    <3>1. ASSUME NEW d \in Clients PROVE Keeps(d)'
      <4>1. CASE d = c
        BY <1>4, <2>2, <4>1 DEF CreateInsert, Keeps, TypeInv, TypeOK
      <4>2. CASE d # c /\ pc[d] = "write"
        BY <1>4, <2>2, <4>2, InsertFacts DEF Keeps, TypeInv, Stage
      <4>3. CASE d # c /\ pc[d] # "write"
        BY <1>4, <2>2, <4>3 DEF CreateInsert, Keeps, TypeInv, TypeOK
      <4> QED BY <4>1, <4>2, <4>3
    <3> QED BY <1>4, <2>2, <3>1, InsertFacts DEF KeptInv, QuietVersionsKept
  <2> QED BY <2>1, <2>2
<1>5. ASSUME Read(c) PROVE KeptInv'
  <2>1. CASE Refuse(c, "notFound")
    BY <2>1, <1>r
  <2>2. CASE ~Refuse(c, "notFound")
    <3>1. /\ pc' = [pc EXCEPT ![c] = NextStep(req[c].op)]
          /\ seen' = [seen EXCEPT ![c] = row]
          /\ UNCHANGED <<row, archive, past, unkept, req>>
      BY <1>5, <2>2 DEF Read
    <3>2. NextStep(req[c].op) # "write" \/ req[c].op = "patch"
      BY DEF NextStep
    <3> QED BY <3>1, <3>2, <1>s DEF TypeInv, TypeOK
  <2> QED BY <2>1, <2>2
<1>6. ASSUME RejectMetadata(c) PROVE KeptInv'
  BY <1>6, <1>r DEF RejectMetadata
<1>7. ASSUME FindTarget(c) PROVE KeptInv'
  <2>1. CASE Refuse(c, "notFound")
    BY <2>1, <1>r
  <2>2. CASE ~Refuse(c, "notFound")
    BY <1>7, <2>2, <1>s DEF FindTarget, TypeInv, TypeOK
  <2> QED BY <2>1, <2>2
<1>8. ASSUME ArchiveSeen(c) PROVE KeptInv'
  <2>1. /\ UNCHANGED <<row, past, req, seen>>
        /\ archive \subseteq archive' /\ unkept \subseteq unkept'
    BY <1>8 DEF ArchiveSeen
  <2>2. Keeps(c)'
    BY <1>8, <2>1 DEF ArchiveSeen, Keeps, Known, StillThere
  <2>3. ASSUME NEW d \in Clients \ {c} PROVE Keeps(d)'
    <3>1. pc'[d] = pc[d]
      BY <1>8 DEF ArchiveSeen, TypeInv, TypeOK
    <3> QED BY <2>1, <3>1 DEF KeptInv, Keeps, Known, StillThere
  <2>4. QuietVersionsKept'
    BY <2>1 DEF KeptInv, QuietVersionsKept, Known
  <2> QED BY <2>2, <2>3, <2>4 DEF KeptInv
<1>9. ASSUME Write(c) PROVE KeptInv'
  <2>0. pc'[c] # "write" /\ \A d \in Clients \ {c} : pc'[d] = pc[d]
    BY <1>9 DEF Write, TypeInv, TypeOK
  <2>1. UNCHANGED <<archive, req, seen>>
    BY <1>9 DEF Write
  <2>2. CASE ~StillThere(c)
    BY <1>9, <2>0, <2>1, <2>2, <1>s DEF Write, TypeInv, TypeOK
  <2>3. CASE StillThere(c)
    <3>1. row \in Rows /\ row # None /\ row' = Written(c) /\ RecordWrite(c)
      BY <1>9, <2>3 DEF Write, StillThere, TypeInv, TypeOK
    <3>2. row' # None /\ row'.id = row.id
      BY <1>9, <3>1, WrittenType, ConstantsAssumption DEF Write, Written
    <3>3. unkept \subseteq unkept'
      BY <3>1 DEF RecordWrite
    <3>4. ASSUME NEW d \in Clients PROVE Keeps(d)'
      BY <2>0, <2>1, <3>1, <3>2, <3>3 DEF KeptInv, Keeps, StillThere, Known
    <3>5. ASSUME NEW p \in past' PROVE p.version \in unkept' \/ Known(p.version, p.ct)'
      <4>1. CASE p \in past
        BY <2>1, <3>1, <3>2, <3>3, <4>1 DEF KeptInv, QuietVersionsKept, Known
      <4>2. CASE p \notin past
        <5>1. p = Cur /\ req[c].op # "patch"
          BY <3>1, <3>5, <4>2 DEF RecordWrite, Cur
        <5>2. CASE seen[c].version # row.version
          BY <3>1, <5>1, <5>2 DEF RecordWrite, Cur
        <5>3. CASE seen[c].version = row.version
          <6>1. /\ [version |-> seen[c].version, ct |-> seen[c].ct] \in Versions
                /\ seen[c] # None
            BY <1>9, <2>3 DEF Write, KnowsInv, Knows, TypeInv, Stage
          <6>2. [version |-> seen[c].version, ct |-> seen[c].ct] \notin past
            BY <3>1, <5>3 DEF KnowsInv, RowInv, Rows
          <6>3. seen[c].ct = row.ct
            BY <6>1, <6>2 DEF Versions, Cur
          <6>4. row.version \in unkept \/ Known(row.version, row.ct)
            BY <1>9, <2>3, <5>1, <5>3, <6>3 DEF Write, KeptInv, Keeps
          <6> QED BY <2>1, <3>2, <3>3, <5>1, <6>4 DEF Known, Cur
        <5> QED BY <5>2, <5>3
      <4> QED BY <4>1, <4>2
    <3> QED BY <3>4, <3>5 DEF KeptInv, QuietVersionsKept
  <2> QED BY <2>2, <2>3
<1>10. ASSUME Delete(c) PROVE KeptInv'
  <2>1. CASE Refuse(c, "notFound")
    BY <2>1, <1>r
  <2>2. CASE ~Refuse(c, "notFound")
    BY <1>10, <2>2 DEF Delete, KeptInv, QuietVersionsKept, Keeps, StillThere
  <2> QED BY <2>1, <2>2
<1>11. ASSUME Finish(c) PROVE KeptInv'
  BY <1>11, <1>r DEF Finish
<1> QED BY <1>1, <1>2, <1>3, <1>4, <1>5, <1>6, <1>7, <1>8, <1>9, <1>10, <1>11

LEMMA NextKept == TypeInv /\ KnowsInv /\ KeptInv /\ [Next]_vars => KeptInv'
<1> SUFFICES ASSUME TypeInv, KnowsInv, KeptInv, [Next]_vars PROVE KeptInv'
  OBVIOUS
<1>1. TypeInv'
  BY NextType
<1>2. CASE Next
  BY <1>1, <1>2, StepKept DEF Next
<1>3. CASE UNCHANGED vars
  BY <1>3 DEF vars, dbVars, handlerVars, historyVars, KeptInv, QuietVersionsKept, Keeps,
              StillThere, Known
<1> QED BY <1>2, <1>3

\* However the statements of any number of requests interleave and fail, a
\* superseded version can be restored unless its archiving failed or it was
\* overwritten unread.
THEOREM SupersededVersionsKept == Spec => []QuietVersionsKept
<1>1. Init => KeptInv
  BY DEF Init, KeptInv, QuietVersionsKept, Keeps
<1>2. KeptInv => QuietVersionsKept
  BY DEF KeptInv
<1> QED BY <1>1, <1>2, InitType, NextType, InitKnows, NextKnows, NextKept, PTL DEF Spec

LEMMA StepMeta ==
    ASSUME TypeInv, TypeInv', KnowsInv, MetaInv, NEW c \in Clients
    PROVE  /\ Call(c) => MetaInv'
           /\ StatementFails(c) => MetaInv'
           /\ CreateCheck(c) => MetaInv'
           /\ CreateInsert(c) => MetaInv'
           /\ Read(c) => MetaInv'
           /\ RejectMetadata(c) => MetaInv'
           /\ FindTarget(c) => MetaInv'
           /\ ArchiveSeen(c) => MetaInv'
           /\ Write(c) => MetaInv'
           /\ Delete(c) => MetaInv'
           /\ Finish(c) => MetaInv'
<1> USE DEF dbVars, historyVars, GoTo
<1>s. ASSUME UNCHANGED <<row, labels, mixed>>,
             Good(c)',
             \A d \in Clients \ {c} : fresh'[d] = fresh[d] /\ seen'[d] = seen[d]
      PROVE  MetaInv'
  BY <1>s DEF MetaInv, QuietMetadata, Good, StillThere
<1>u. ASSUME UNCHANGED <<row, labels, mixed, fresh, seen>> PROVE MetaInv'
  BY <1>u DEF MetaInv, QuietMetadata, Good, StillThere
<1>r. ASSUME NEW a, Refuse(c, a) PROVE MetaInv'
  <2>1. seen'[c] = None
    BY <1>r DEF Refuse, Answer, TypeInv, TypeOK
  <2>2. Good(c)'
    BY <2>1 DEF Good
  <2> QED BY <1>r, <1>s, <2>2 DEF Refuse, Answer, TypeInv, TypeOK
<1>1. ASSUME Call(c) PROVE MetaInv'
  BY <1>1, <1>u DEF Call
<1>2. ASSUME StatementFails(c) PROVE MetaInv'
  BY <1>2, <1>r DEF StatementFails
<1>3. ASSUME CreateCheck(c) PROVE MetaInv'
  BY <1>3, <1>r, <1>u DEF CreateCheck
<1>4. ASSUME CreateInsert(c) PROVE MetaInv'
  <2>1. CASE Refuse(c, "failed")
    BY <2>1, <1>r
  <2>2. CASE ~Refuse(c, "failed")
    <3>1. seen' = [seen EXCEPT ![c] = row'] /\ labels' = req[c].fields
      BY <1>4, <2>2 DEF CreateInsert
    <3>2. row'.meta = labels'
      BY <1>4, <2>2, <3>1, InsertFacts
    <3>3. ASSUME NEW d \in Clients PROVE Good(d)'
      <4>1. CASE d = c
        BY <3>1, <4>1 DEF Good, TypeInv, TypeOK
      <4>2. CASE d # c
        BY <1>4, <2>2, <3>1, <4>2, InsertFacts DEF Good, TypeInv, TypeOK
      <4> QED BY <4>1, <4>2
    <3> QED BY <3>2, <3>3 DEF MetaInv, QuietMetadata
  <2> QED BY <2>1, <2>2
<1>5. ASSUME Read(c) PROVE MetaInv'
  <2>1. CASE Refuse(c, "notFound")
    BY <2>1, <1>r
  <2>2. CASE ~Refuse(c, "notFound")
    <3>1. /\ seen' = [seen EXCEPT ![c] = row] /\ fresh' = [fresh EXCEPT ![c] = TRUE]
          /\ UNCHANGED <<row, labels, mixed>>
      BY <1>5, <2>2 DEF Read
    <3>2. Good(c)'
      BY <3>1 DEF Good, TypeInv, TypeOK
    <3> QED BY <3>1, <3>2, <1>s DEF TypeInv, TypeOK
  <2> QED BY <2>1, <2>2
<1>6. ASSUME RejectMetadata(c) PROVE MetaInv'
  BY <1>6, <1>r DEF RejectMetadata
<1>7. ASSUME FindTarget(c) PROVE MetaInv'
  BY <1>7, <1>r, <1>u DEF FindTarget
<1>8. ASSUME ArchiveSeen(c) PROVE MetaInv'
  BY <1>8, <1>u DEF ArchiveSeen
<1>9. ASSUME Write(c) PROVE MetaInv'
  <2>1. UNCHANGED seen /\ seen[c] # None
    BY <1>9 DEF Write, TypeInv, Stage
  <2>2. CASE ~StillThere(c)
    BY <1>9, <2>1, <2>2, <1>u DEF Write
  <2>3. CASE StillThere(c)
    <3>1. row \in Rows /\ row # None /\ row' = Written(c) /\ RecordWrite(c)
      BY <1>9, <2>3 DEF Write, StillThere, TypeInv, TypeOK
    <3>2. row'.id = row.id
      BY <3>1 DEF Written
    <3>3. CASE HasPatch(c)
      <4>1. row'.meta = Merge(seen[c].meta, req[c].meta)
        BY <3>1, <3>3 DEF Written
      <4>2. fresh' = [d \in Clients |-> FALSE]
        BY <3>1, <3>3 DEF RecordWrite
      <4>3. ASSUME ~mixed' PROVE row'.meta = labels'
        <5>1. ~mixed /\ fresh[c] /\ labels' = Merge(labels, req[c].meta)
          BY <3>1, <3>3, <4>3 DEF RecordWrite
        <5>2. seen[c].meta = labels
          BY <2>1, <2>3, <3>1, <5>1 DEF MetaInv, QuietMetadata, Good
        <5> QED BY <4>1, <5>1, <5>2
      <4> QED BY <4>2, <4>3 DEF MetaInv, QuietMetadata, Good
    <3>4. CASE ~HasPatch(c)
      <4>1. row'.meta = row.meta /\ UNCHANGED <<labels, fresh, mixed>>
        BY <3>1, <3>4 DEF Written, RecordWrite
      <4> QED BY <2>1, <3>1, <3>2, <4>1 DEF MetaInv, QuietMetadata, Good, StillThere
    <3> QED BY <3>3, <3>4
  <2> QED BY <2>2, <2>3
<1>10. ASSUME Delete(c) PROVE MetaInv'
  <2>1. CASE Refuse(c, "notFound")
    BY <2>1, <1>r
  <2>2. CASE ~Refuse(c, "notFound")
    BY <1>10, <2>2 DEF Delete, MetaInv, QuietMetadata, Good, StillThere
  <2> QED BY <2>1, <2>2
<1>11. ASSUME Finish(c) PROVE MetaInv'
  BY <1>11, <1>r DEF Finish
<1> QED BY <1>1, <1>2, <1>3, <1>4, <1>5, <1>6, <1>7, <1>8, <1>9, <1>10, <1>11

LEMMA NextMeta == TypeInv /\ KnowsInv /\ MetaInv /\ [Next]_vars => MetaInv'
<1> SUFFICES ASSUME TypeInv, KnowsInv, MetaInv, [Next]_vars PROVE MetaInv'
  OBVIOUS
<1>1. TypeInv'
  BY NextType
<1>2. CASE Next
  BY <1>1, <1>2, StepMeta DEF Next
<1>3. CASE UNCHANGED vars
  BY <1>3 DEF vars, dbVars, handlerVars, historyVars, MetaInv, QuietMetadata, Good, StillThere
<1> QED BY <1>2, <1>3

\* Updates without metadata, rollbacks and failing statements leave the metadata
\* alone: while no patch is merged into an outdated copy, the metadata is what
\* all patches together leave.
THEOREM MetadataFollowsPatches == Spec => []QuietMetadata
<1>1. Init => MetaInv
  BY DEF Init, MetaInv, QuietMetadata, Good
<1>2. MetaInv => QuietMetadata
  BY DEF MetaInv
<1> QED BY <1>1, <1>2, InitType, NextType, InitKnows, NextKnows, NextMeta, PTL DEF Spec

-----------------------------------------------------------------------------
(* SecretVersions implements SecretHistory, as long as no client uses the  *)
(* SDK's set(), which is two requests and not one.                         *)

\* A request takes effect with the statement that changes the row, and what a
\* handler answers with "ok" has taken effect: if it had found the row gone, it
\* would still be gone.
Effect(c) ==
    /\ pc[c] # "finish" => ~took[c]
    /\ pc[c] = "finish" => took[c] \/ (req[c].op # "delete" /\ ~StillThere(c))
    /\ pc[c] # "idle" => req[c].op \notin {"set", "setCreate"}

EffectInv == \A c \in Clients : Effect(c)

LEMMA StepEffect ==
    ASSUME "set" \notin Ops, TypeInv, TypeInv', KnowsInv, EffectInv, NEW c \in Clients
    PROVE  /\ Call(c) => EffectInv'
           /\ StatementFails(c) => EffectInv'
           /\ CreateCheck(c) => EffectInv'
           /\ CreateInsert(c) => EffectInv'
           /\ Read(c) => EffectInv'
           /\ RejectMetadata(c) => EffectInv'
           /\ FindTarget(c) => EffectInv'
           /\ ArchiveSeen(c) => EffectInv'
           /\ Write(c) => EffectInv'
           /\ Delete(c) => EffectInv'
           /\ Finish(c) => EffectInv'
<1> USE DEF dbVars, historyVars, GoTo
<1>s. ASSUME UNCHANGED row, Effect(c)',
             \A d \in Clients \ {c} : /\ pc'[d] = pc[d] /\ req'[d] = req[d]
                                      /\ seen'[d] = seen[d] /\ took'[d] = took[d]
      PROVE  EffectInv'
  BY <1>s DEF EffectInv, Effect, StillThere
<1>b. ASSUME UNCHANGED <<row, req, took>>, pc' \in [Clients -> Steps],
             pc[c] \notin {"idle", "finish"}, pc'[c] # "finish",
             \A d \in Clients \ {c} : pc'[d] = pc[d] /\ seen'[d] = seen[d]
      PROVE  EffectInv'
  BY <1>b DEF EffectInv, Effect, StillThere
<1>r. ASSUME NEW a, pc[c] # "idle", Refuse(c, a) PROVE EffectInv'
  <2>1. req[c].op # "set"
    BY <1>r DEF EffectInv, Effect
  <2>2. pc'[c] = "idle" /\ took'[c] = FALSE
    BY <1>r, <2>1 DEF Refuse, Answer, TypeInv, TypeOK
  <2>3. Effect(c)'
    BY <2>2 DEF Effect
  <2> QED BY <1>r, <1>s, <2>1, <2>3 DEF Refuse, Answer, TypeInv, TypeOK
<1>1. ASSUME Call(c) PROVE EffectInv'
  <2>1. PICK q \in Requests : /\ q.op \in Ops
                              /\ req' = [req EXCEPT ![c] = q]
                              /\ pc' = [pc EXCEPT ![c] = FirstStep(q.op)]
    BY <1>1 DEF Call
  <2>2. FirstStep(q.op) # "finish" /\ q.op \notin {"set", "setCreate"}
    BY <2>1, ConstantsAssumption DEF FirstStep
  <2>3. Effect(c)'
    BY <1>1, <2>1, <2>2 DEF Call, EffectInv, Effect, TypeInv, TypeOK
  <2> QED BY <1>1, <1>s, <2>1, <2>3 DEF Call, TypeInv, TypeOK
<1>2. ASSUME StatementFails(c) PROVE EffectInv'
  BY <1>2, <1>r DEF StatementFails
<1>3. ASSUME CreateCheck(c) PROVE EffectInv'
  BY <1>3, <1>r, <1>b DEF CreateCheck, TypeInv, TypeOK
<1>4. ASSUME CreateInsert(c) PROVE EffectInv'
  <2>1. CASE Refuse(c, "failed")
    BY <1>4, <2>1, <1>r DEF CreateInsert
  <2>2. CASE ~Refuse(c, "failed")
    <3>1. /\ pc[c] = "insert" /\ pc' = [pc EXCEPT ![c] = "finish"]
          /\ took' = [took EXCEPT ![c] = TRUE] /\ seen' = [seen EXCEPT ![c] = row']
          /\ UNCHANGED req
      BY <1>4, <2>2 DEF CreateInsert
    <3>2. Effect(c)'
      BY <3>1 DEF EffectInv, Effect, TypeInv, TypeOK
    <3>3. ASSUME NEW d \in Clients \ {c} PROVE Effect(d)'
      BY <1>4, <2>2, <3>1, InsertFacts DEF EffectInv, Effect, TypeInv, TypeOK, Stage
    <3> QED BY <3>2, <3>3 DEF EffectInv
  <2> QED BY <2>1, <2>2
<1>5. ASSUME Read(c) PROVE EffectInv'
  <2>1. CASE Refuse(c, "notFound")
    BY <1>5, <2>1, <1>r DEF Read
  <2>2. CASE ~Refuse(c, "notFound")
    <3>1. /\ pc[c] = "read" /\ pc' = [pc EXCEPT ![c] = NextStep(req[c].op)]
          /\ seen' = [seen EXCEPT ![c] = row] /\ UNCHANGED <<row, req, took>>
      BY <1>5, <2>2 DEF Read
    <3>2. NextStep(req[c].op) # "finish"
      BY DEF NextStep
    <3> QED BY <3>1, <3>2, <1>b DEF TypeInv, TypeOK
  <2> QED BY <2>1, <2>2
<1>6. ASSUME RejectMetadata(c) PROVE EffectInv'
  BY <1>6, <1>r DEF RejectMetadata
<1>7. ASSUME FindTarget(c) PROVE EffectInv'
  BY <1>7, <1>r, <1>b DEF FindTarget, TypeInv, TypeOK
<1>8. ASSUME ArchiveSeen(c) PROVE EffectInv'
  BY <1>8, <1>b DEF ArchiveSeen, TypeInv, TypeOK
<1>9. ASSUME Write(c) PROVE EffectInv'
  <2>1. /\ pc[c] = "write" /\ pc' = [pc EXCEPT ![c] = "finish"] /\ UNCHANGED <<req, seen>>
        /\ req[c].op # "delete"
    BY <1>9 DEF Write, TypeInv, Stage
  <2>2. CASE ~StillThere(c)
    <3>1. UNCHANGED <<row, took>>
      BY <1>9, <2>2 DEF Write
    <3>2. Effect(c)'
      BY <2>1, <2>2, <3>1 DEF EffectInv, Effect, StillThere, TypeInv, TypeOK
    <3> QED BY <2>1, <3>1, <3>2, <1>s DEF TypeInv, TypeOK
  <2>3. CASE StillThere(c)
    <3>1. row # None /\ row'.id = row.id /\ took' = [took EXCEPT ![c] = TRUE]
      BY <1>9, <2>3 DEF Write, StillThere, Written, RecordWrite
    <3>2. Effect(c)'
      BY <2>1, <3>1 DEF EffectInv, Effect, TypeInv, TypeOK
    <3>3. ASSUME NEW d \in Clients \ {c} PROVE Effect(d)'
      BY <2>1, <3>1 DEF EffectInv, Effect, StillThere, TypeInv, TypeOK
    <3> QED BY <3>2, <3>3 DEF EffectInv
  <2> QED BY <2>2, <2>3
<1>10. ASSUME Delete(c) PROVE EffectInv'
  <2>1. CASE Refuse(c, "notFound")
    BY <1>10, <2>1, <1>r DEF Delete
  <2>2. CASE ~Refuse(c, "notFound")
    BY <1>10, <2>2 DEF Delete, EffectInv, Effect, StillThere, TypeInv, TypeOK
  <2> QED BY <2>1, <2>2
<1>11. ASSUME Finish(c) PROVE EffectInv'
  BY <1>11, <1>r DEF Finish
<1> QED BY <1>1, <1>2, <1>3, <1>4, <1>5, <1>6, <1>7, <1>8, <1>9, <1>10, <1>11

LEMMA NextEffect ==
    ASSUME "set" \notin Ops, TypeInv, KnowsInv, EffectInv, [Next]_vars
    PROVE  EffectInv'
<1>1. TypeInv'
  BY NextType
<1>2. CASE Next
  BY <1>1, <1>2, StepEffect DEF Next
<1>3. CASE UNCHANGED vars
  BY <1>3 DEF vars, dbVars, handlerVars, historyVars, EffectInv, Effect, StillThere
<1> QED BY <1>2, <1>3

LEMMA PlainFacts ==
    ASSUME NEW q \in Requests, q.op \notin {"set", "setCreate"}
    PROVE  /\ Plain(q) \in Promise!Requests
           /\ Plain(q).op = q.op
           /\ q.op \in {"create", "update"} => Plain(q).ct = q.ct
           /\ q.op = "rollback" => Plain(q).version = q.version
<1>1. q # None /\ q.op \in {"create", "update", "patch", "rollback", "delete"}
  BY RequestFacts
<1>2. CASE q.op \in {"create", "update"}
  <2>1. Plain(q) = [op |-> q.op, ct |-> q.ct]
    BY <1>1, <1>2 DEF Plain
  <2>2. q.ct \in Ciphertexts
    BY <1>2, RequestFacts
  <2> QED BY <1>2, <2>1, <2>2 DEF Promise!Requests
<1>3. CASE q.op = "rollback"
  <2>1. Plain(q) = q
    BY <1>1, <1>3 DEF Plain
  <2>2. q \in [op : {"rollback"}, version : 1 .. MaxVersion]
    BY <1>3 DEF Requests
  <2> QED BY <1>3, <2>1, <2>2 DEF Promise!Requests
<1>4. CASE q.op \in {"patch", "delete"}
  <2>1. Plain(q) = [op |-> q.op]
    BY <1>1, <1>4 DEF Plain
  <2> QED BY <1>4, <2>1 DEF Promise!Requests
<1> QED BY <1>1, <1>2, <1>3, <1>4

LEMMA StepPromise ==
    ASSUME "set" \notin Ops, TypeInv, TypeInv', KnowsInv, EffectInv, EffectInv',
           NEW c \in Clients
    PROVE  /\ Call(c) => [Promise!Next]_Promise!vars
           /\ StatementFails(c) => [Promise!Next]_Promise!vars
           /\ CreateCheck(c) => [Promise!Next]_Promise!vars
           /\ CreateInsert(c) => [Promise!Next]_Promise!vars
           /\ Read(c) => [Promise!Next]_Promise!vars
           /\ RejectMetadata(c) => [Promise!Next]_Promise!vars
           /\ FindTarget(c) => [Promise!Next]_Promise!vars
           /\ ArchiveSeen(c) => [Promise!Next]_Promise!vars
           /\ Write(c) => [Promise!Next]_Promise!vars
           /\ Delete(c) => [Promise!Next]_Promise!vars
           /\ Finish(c) => [Promise!Next]_Promise!vars
<1> USE DEF dbVars, historyVars, GoTo
<1> DEFINE cur == IF row = None THEN None ELSE [version |-> row.version, ct |-> row.ct]
           call == [d \in Clients |-> Plain(req[d])]
           phase == [d \in Clients |-> IF pc[d] = "idle" THEN "idle"
                                        ELSE IF took[d] THEN "done" ELSE "pending"]
           answer == [d \in Clients |-> IF reply[d] \in {None, "ok"} THEN reply[d] ELSE "error"]
\* A statement between call and answer that changes no row.
<1>u. ASSUME UNCHANGED <<row, past, req, took, reply>>, pc[c] # "idle", pc'[c] # "idle",
             \A d \in Clients \ {c} : pc'[d] = pc[d]
      PROVE  [Promise!Next]_Promise!vars
  <2>1. phase' = phase
    BY <1>u
  <2>2. cur' = cur /\ call' = call /\ answer' = answer
    BY <1>u
  <2> QED BY <1>u, <2>1, <2>2 DEF Promise!vars
\* An answer; "ok" when the request took effect.
<1>r. ASSUME NEW a \in Replies, pc[c] # "idle", a = "ok" => took[c], Refuse(c, a)
      PROVE  [Promise!Next]_Promise!vars
  <2>1. /\ UNCHANGED <<row, past>> /\ pc' = [pc EXCEPT ![c] = "idle"]
        /\ req' = [req EXCEPT ![c] = None] /\ reply' = [reply EXCEPT ![c] = a]
        /\ took' = [took EXCEPT ![c] = FALSE]
    BY <1>r DEF Refuse, Answer, EffectInv, Effect
  <2>2. phase' = [phase EXCEPT ![c] = "idle"]
    BY <2>1 DEF TypeInv, TypeOK
  <2>3. call' = [call EXCEPT ![c] = None]
    <3>1. Plain(None) = None
      BY DEF Plain
    <3> QED BY <2>1, <3>1 DEF TypeInv, TypeOK
  <2>4. answer' = [answer EXCEPT ![c] = IF a = "ok" THEN "ok" ELSE "error"]
    <3>1. a # None \/ a = "ok"
      BY ConstantsAssumption
    <3> QED BY <2>1, <3>1 DEF TypeInv, TypeOK
  <2>5. phase[c] # "idle" /\ (a = "ok" => phase[c] = "done")
    BY <1>r
  <2>6. cur' = cur /\ past' = past
    BY <2>1
  <2>7. Promise!Answer(c)
    BY <2>2, <2>3, <2>4, <2>5, <2>6 DEF Promise!Answer
  <2> QED BY <2>7 DEF Promise!Next
\* A statement that makes the request take effect.
<1>e. ASSUME UNCHANGED <<req, reply>>, pc[c] \notin {"idle", "finish"}, pc'[c] = "finish",
             took'[c] = TRUE,
             \A d \in Clients \ {c} : pc'[d] = pc[d] /\ took'[d] = took[d],
             \/ call[c].op = "create" /\ cur = None
                 /\ cur' = [version |-> 1, ct |-> call[c].ct] /\ past' = {}
             \/ call[c].op = "update" /\ cur # None
                 /\ cur' = [version |-> cur.version + 1, ct |-> call[c].ct]
                 /\ past' = past \cup {cur}
             \/ /\ call[c].op = "rollback" /\ cur # None
                /\ \E v \in past \cup {cur} :
                      /\ v.version = call[c].version
                      /\ cur' = [version |-> cur.version + 1, ct |-> v.ct]
                      /\ past' = past \cup {cur}
             \/ call[c].op = "delete" /\ cur # None /\ cur' = None /\ past' = {}
             \/ call[c].op = "patch" /\ cur # None /\ UNCHANGED <<cur, past>>
      PROVE  [Promise!Next]_Promise!vars
  <2>1. ~took[c]
    BY <1>e DEF EffectInv, Effect
  <2>2. phase[c] = "pending" /\ phase' = [phase EXCEPT ![c] = "done"]
    BY <1>e, <2>1
  <2>3. call' = call /\ answer' = answer
    BY <1>e
  <2> HIDE DEF cur, call, phase, answer
  <2>4. Promise!TakeEffect(c)
    BY <1>e, <2>2, <2>3 DEF Promise!TakeEffect, Promise!Supersede, cur, call, phase, answer
  <2> QED BY <2>4 DEF Promise!Next
<1>1. ASSUME Call(c) PROVE [Promise!Next]_Promise!vars
  <2>1. PICK q \in Requests : /\ q.op \in Ops
                              /\ req' = [req EXCEPT ![c] = q]
                              /\ pc' = [pc EXCEPT ![c] = FirstStep(q.op)]
    BY <1>1 DEF Call
  <2>2. FirstStep(q.op) # "idle" /\ q.op \notin {"set", "setCreate"}
    BY <2>1, ConstantsAssumption DEF FirstStep
  <2>3. /\ UNCHANGED <<row, past, took>> /\ reply' = [reply EXCEPT ![c] = None]
        /\ pc[c] = "idle"
    BY <1>1 DEF Call
  <2>4. phase[c] = "idle" /\ phase' = [phase EXCEPT ![c] = "pending"]
    BY <2>1, <2>2, <2>3 DEF TypeInv, TypeOK, EffectInv, Effect
  <2>5. call' = [call EXCEPT ![c] = Plain(q)] /\ Plain(q) \in Promise!Requests
    BY <2>1, <2>2, PlainFacts DEF TypeInv, TypeOK
  <2>6. answer' = [answer EXCEPT ![c] = None]
    BY <2>3 DEF TypeInv, TypeOK
  <2>7. cur' = cur /\ past' = past
    BY <2>3
  <2>8. Promise!Call(c)
    BY <2>4, <2>5, <2>6, <2>7 DEF Promise!Call
  <2> QED BY <2>8 DEF Promise!Next
<1>2. ASSUME StatementFails(c) PROVE [Promise!Next]_Promise!vars
  BY <1>2, <1>r DEF StatementFails, Replies
<1>3. ASSUME CreateCheck(c) PROVE [Promise!Next]_Promise!vars
  <2>1. CASE Refuse(c, "conflict")
    BY <1>3, <2>1, <1>r DEF CreateCheck, Replies
  <2>2. CASE ~Refuse(c, "conflict")
    BY <1>3, <2>2, <1>u DEF CreateCheck, TypeInv, TypeOK
  <2> QED BY <2>1, <2>2
<1>4. ASSUME CreateInsert(c) PROVE [Promise!Next]_Promise!vars
  <2>1. CASE Refuse(c, "failed")
    BY <1>4, <2>1, <1>r DEF CreateInsert, Replies
  <2>2. CASE ~Refuse(c, "failed")
    <3>1. /\ pc[c] = "insert" /\ pc' = [pc EXCEPT ![c] = "finish"]
          /\ took' = [took EXCEPT ![c] = TRUE] /\ UNCHANGED <<req, reply>>
      BY <1>4, <2>2 DEF CreateInsert
    <3>2. row' # None
      BY <1>4, <2>2 DEF CreateInsert, TypeInv, TypeOK, Stage
    <3>3. req[c] \in Requests /\ req[c].op = "create"
      BY <3>1 DEF TypeInv, TypeOK, Stage, EffectInv, Effect
    <3>4. call[c].op = "create" /\ call[c].ct = req[c].ct
      BY <3>3, PlainFacts
    <3>5. cur = None /\ cur' = [version |-> 1, ct |-> call[c].ct] /\ past' = {}
      BY <1>4, <2>2, <3>2, <3>4, InsertFacts
    <3> HIDE DEF cur, call
    <3> QED BY <3>1, <3>4, <3>5, <1>e DEF TypeInv, TypeOK
  <2> QED BY <2>1, <2>2
<1>5. ASSUME Read(c) PROVE [Promise!Next]_Promise!vars
  <2>1. CASE Refuse(c, "notFound")
    BY <1>5, <2>1, <1>r DEF Read, Replies
  <2>2. CASE ~Refuse(c, "notFound")
    <3>1. /\ pc[c] = "read" /\ pc' = [pc EXCEPT ![c] = NextStep(req[c].op)]
          /\ UNCHANGED <<row, past, req, took, reply>>
      BY <1>5, <2>2 DEF Read
    <3>2. NextStep(req[c].op) # "idle"
      BY DEF NextStep
    <3> QED BY <3>1, <3>2, <1>u DEF TypeInv, TypeOK
  <2> QED BY <2>1, <2>2
<1>6. ASSUME RejectMetadata(c) PROVE [Promise!Next]_Promise!vars
  BY <1>6, <1>r DEF RejectMetadata, Replies
<1>7. ASSUME FindTarget(c) PROVE [Promise!Next]_Promise!vars
  <2>1. CASE Refuse(c, "notFound")
    BY <1>7, <2>1, <1>r DEF FindTarget, Replies
  <2>2. CASE ~Refuse(c, "notFound")
    BY <1>7, <2>2, <1>u DEF FindTarget, TypeInv, TypeOK
  <2> QED BY <2>1, <2>2
<1>8. ASSUME ArchiveSeen(c) PROVE [Promise!Next]_Promise!vars
  BY <1>8, <1>u DEF ArchiveSeen, TypeInv, TypeOK
<1>9. ASSUME Write(c) PROVE [Promise!Next]_Promise!vars
  <2>1. /\ pc[c] = "write" /\ pc' = [pc EXCEPT ![c] = "finish"] /\ UNCHANGED <<req, reply>>
        /\ seen[c] # None
    BY <1>9 DEF Write, TypeInv, Stage
  <2>2. CASE ~StillThere(c)
    BY <1>9, <2>1, <2>2, <1>u DEF Write, TypeInv, TypeOK
  <2>3. CASE StillThere(c)
    <3>1. /\ row # None /\ row \in Rows /\ row' = Written(c) /\ RecordWrite(c)
          /\ took' = [took EXCEPT ![c] = TRUE]
      BY <1>9, <2>3 DEF Write, StillThere, RecordWrite, TypeInv, TypeOK
    <3>2. row' # None
      BY <2>1, <3>1, WrittenType, ConstantsAssumption
    <3>3. req[c] \in Requests /\ req[c].op \in {"update", "patch", "rollback"}
      BY <2>1 DEF TypeInv, TypeOK, Stage, EffectInv, Effect
    <3>4. /\ call[c].op = req[c].op
          /\ req[c].op = "update" => call[c].ct = req[c].ct
          /\ req[c].op = "rollback" => call[c].version = req[c].version
      BY <3>3, PlainFacts
    <3>5. cur = Cur /\ cur # None /\ cur' = Cur'
      <4>1. cur = Cur /\ cur' = Cur'
        BY <3>1, <3>2 DEF Cur
      <4>2. Cur \in PastVersions
        BY <3>1 DEF Cur, Rows, PastVersions
      <4> QED BY <4>1, <4>2, ConstantsAssumption
    <3>6. CASE req[c].op = "patch"
      <4>1. cur' = cur /\ past' = past
        BY <3>1, <3>5, <3>6 DEF Written, RecordWrite, Cur
      <4> HIDE DEF cur, call
      <4> QED BY <2>1, <3>1, <3>4, <3>5, <3>6, <4>1, <1>e DEF TypeInv, TypeOK
    <3>7. CASE req[c].op = "update"
      <4>1. /\ cur' = [version |-> cur.version + 1, ct |-> call[c].ct]
            /\ past' = past \cup {cur}
        BY <3>1, <3>4, <3>5, <3>7 DEF Written, RecordWrite, Cur
      <4> HIDE DEF cur, call
      <4> QED BY <2>1, <3>1, <3>4, <3>5, <3>7, <4>1, <1>e DEF TypeInv, TypeOK
    <3>8. CASE req[c].op = "rollback"
      <4>1. target[c] # None
        BY <2>1, <3>8 DEF TypeInv, Stage
      <4> DEFINE v == [version |-> req[c].version, ct |-> target[c]]
      <4>2. v \in past \cup {cur}
        BY <2>3, <3>5, <4>1 DEF KnowsInv, Knows, Versions
      <4>3. /\ cur' = [version |-> cur.version + 1, ct |-> v.ct]
            /\ past' = past \cup {cur} /\ v.version = call[c].version
        BY <3>1, <3>4, <3>5, <3>8 DEF Written, RecordWrite, Cur
      <4> HIDE DEF cur, call, v
      <4> QED BY <2>1, <3>1, <3>4, <3>5, <3>8, <4>2, <4>3, <1>e DEF TypeInv, TypeOK
    <3> QED BY <3>3, <3>6, <3>7, <3>8
  <2> QED BY <2>2, <2>3
<1>10. ASSUME Delete(c) PROVE [Promise!Next]_Promise!vars
  <2>1. CASE Refuse(c, "notFound")
    BY <1>10, <2>1, <1>r DEF Delete, Replies
  <2>2. CASE ~Refuse(c, "notFound")
    <3>1. /\ pc[c] = "delete" /\ pc' = [pc EXCEPT ![c] = "finish"]
          /\ took' = [took EXCEPT ![c] = TRUE] /\ UNCHANGED <<req, reply>>
          /\ row # None /\ row' = None /\ past' = {}
      BY <1>10, <2>2 DEF Delete
    <3>2. req[c] \in Requests /\ req[c].op = "delete"
      BY <3>1 DEF TypeInv, TypeOK, Stage
    <3>3. call[c].op = "delete"
      BY <3>2, PlainFacts
    <3>4. cur' = None /\ cur # None
      <4>1. [version |-> row.version, ct |-> row.ct] \in PastVersions
        BY <3>1 DEF Rows, PastVersions, TypeInv, TypeOK
      <4> QED BY <3>1, <4>1, ConstantsAssumption
    <3> HIDE DEF cur, call
    <3> QED BY <3>1, <3>3, <3>4, <1>e DEF TypeInv, TypeOK
  <2> QED BY <2>1, <2>2
<1>11. ASSUME Finish(c) PROVE [Promise!Next]_Promise!vars
  <2>1. CASE Refuse(c, "ok") /\ took[c]
    BY <1>11, <2>1, <1>r DEF Finish, Replies
  <2>2. CASE Refuse(c, "failed")
    BY <1>11, <2>2, <1>r DEF Finish, Replies
  <2> QED BY <1>11, <2>1, <2>2 DEF Finish, EffectInv, Effect
<1> QED BY <1>1, <1>2, <1>3, <1>4, <1>5, <1>6, <1>7, <1>8, <1>9, <1>10, <1>11

LEMMA NextPromise ==
    ASSUME "set" \notin Ops, TypeInv, KnowsInv, EffectInv, [Next]_vars
    PROVE  [Promise!Next]_Promise!vars
<1>1. TypeInv' /\ EffectInv'
  BY NextType, NextEffect
<1>2. CASE Next
  BY <1>1, <1>2, StepPromise DEF Next
<1>3. CASE UNCHANGED vars
  BY <1>3 DEF vars, dbVars, handlerVars, historyVars, Promise!vars
<1> QED BY <1>2, <1>3

LEMMA InitPromise == Init => Promise!Init
<1> SUFFICES ASSUME Init PROVE Promise!Init
  OBVIOUS
<1>1. Plain(None) = None
  BY DEF Plain
<1>2. [c \in Clients |-> Plain(req[c])] = [c \in Clients |-> None]
  BY <1>1 DEF Init
<1>3. row # None => row.version = 1 /\ row.ct \in Ciphertexts
  BY DEF Init
<1> QED BY <1>2, <1>3 DEF Init, Promise!Init

\* The handlers keep the promise of SecretHistory: each request takes effect at
\* most once and as a whole, whatever its statements interleave with and
\* whichever of them fail; "ok" means that it did; and a rollback restores the
\* ciphertext its version number stood for.
THEOREM HandlersKeepPromise ==
    ASSUME "set" \notin Ops
    PROVE  Spec => KeepsPromise
<1>1. Init => EffectInv
  BY DEF Init, EffectInv, Effect
<1>2. TypeInv /\ KnowsInv /\ EffectInv /\ [Next]_vars => EffectInv'
  BY NextEffect
<1>3. TypeInv /\ KnowsInv /\ EffectInv /\ [Next]_vars => [Promise!Next]_Promise!vars
  BY NextPromise
<1> QED
  BY <1>1, <1>2, <1>3, InitType, NextType, InitKnows, NextKnows, InitPromise, PTL
  DEF Spec, KeepsPromise, Promise!Spec
=============================================================================
