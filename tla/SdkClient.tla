------------------------------ MODULE SdkClient ------------------------------
(***************************************************************************)
(* One program that reads a project through the SDK: an application that   *)
(* keeps a ZEnv instance, a `vite build`, or a Vite dev server whose       *)
(* plugin polls for changed secrets and restarts the server.  Other        *)
(* clients store, delete and re-encrypt secrets, and revoke the token,     *)
(* between the requests of a load.                                         *)
(*                                                                         *)
(* A row is found by its hash: the name, the DEK the name was hashed       *)
(* with, and the text form the client sent it in.  The SDK sends "hex",    *)
(* the dashboard "b64", and the API takes both for base64, so the two      *)
(* never meet.                                                             *)
(***************************************************************************)
EXTENDS Naturals, Sequences, FiniteSetsExt, SequencesExt

CONSTANTS
    Names,       \* secret names
    Schema,      \* the names the program declares
    Values,      \* secret values
    Invalid,     \* the values the schema rejects
    PageSize,    \* rows on a page of the list
    MaxWrites,   \* bound: rows stored or deleted by others
    MaxDek,      \* bound: rotations of the project's DEK
    Programs,    \* the programs of a run: "app", "build", "serve"
    Written,     \* bound: the hashes others store, as forms and names
    Asking,      \* bound: calls of the application in flight at once
    Polling,     \* bound: polls of the plugin in flight at once
    Initial,     \* the values stored at first
    None

ASSUME ConstantsAssumption ==
    /\ Schema \subseteq Names /\ Schema # {} /\ IsFiniteSet(Names)
    /\ Invalid \subseteq Values /\ MaxWrites \in Nat /\ MaxDek \in Nat /\ PageSize \in Nat \ {0}
    /\ Programs \subseteq {"app", "build", "serve"}
    /\ "config" \notin Asking \cup Polling /\ Written \subseteq {"hex", "b64"} \X Names
    /\ Initial \in [Schema -> Values]

VARIABLES
    store,       \* the rows of the project's environment
    dek,         \* the project's DEK
    token,       \* "active" or "revoked"
    network,     \* "unsteady", or "steady" from some moment on
    writes,      \* writes of the other clients
    program,     \* which program runs, and whether it validates values
    cached,      \* the DEK the application's instance keeps, or None
    call,        \* call[c]: a call of the SDK in progress, or None
    vite         \* the dev server or build

project == <<store, dek, token, writes>>
vars == <<store, dek, token, network, writes, program, cached, call, vite>>

Callers == Asking \cup Polling \cup {"config"}
Deks == 0..MaxDek

\* hashName keyed by a DEK and sent as hexadecimal text.
Hash(n, d) == [form |-> "hex", name |-> n, key |-> d]
Hashes == [form : {"hex", "b64"}, name : Names, key : Deks]
Rows == [id : Hashes, value : Values, dek : Deks]
Secrets == UNION {[S -> Values] : S \in SUBSET Names}
NoSecrets == [n \in {} |-> None]

Calls ==
    [kind : {"load", "all", "get", "select", "config", "poll"},
     names : SUBSET Names, key : Deks \cup {None}, phase : {"crypto", "list", "rows", "answered"},
     asked : SUBSET Hashes, result : Secrets \cup {None},
     base : Secrets \cup {None}, late : BOOLEAN, stored : SUBSET Rows]

\* Mutant: the check of the revocation is left out.
TokenKnown == token \in {"active", "revoked"}

\* Validity of the service token, as each request's middleware reads it.
TokenAccepted == token = "active"

------------------------------------------------------------------------------
(* A call of the SDK: the crypto of the project unless it is cached, the    *)
(* list when there is no schema, then one bulk request.                     *)

\* The hashes a call asks for once it has the key.
HashesOf(names, d) == {Hash(n, d) : n \in names}

NewCall(kind, names, key, base) ==
    [kind |-> kind, names |-> names, key |-> key,
     phase |-> IF key = None THEN "crypto" ELSE IF kind = "all" THEN "list" ELSE "rows",
     asked |-> IF key = None THEN {} ELSE HashesOf(names, key),
     result |-> NoSecrets, base |-> base, late |-> token = "revoked", stored |-> {}]

\* The call k once it has the key and knows what to ask for next.
Asks(k, key, phase, asked) ==
    [kind |-> k.kind, names |-> k.names, key |-> key, phase |-> phase, asked |-> asked,
     result |-> k.result, base |-> k.base, late |-> k.late, stored |-> k.stored]

\* The call k with its end: the secrets made of the rows, or an error.
Ended(k, secrets, rows) ==
    [kind |-> k.kind, names |-> k.names, key |-> k.key, phase |-> "answered", asked |-> k.asked,
     result |-> secrets, base |-> k.base, late |-> k.late, stored |-> rows]

\* A request the token does not pass.  The check and the handler's one statement are one step:
\* a revocation between the two has the same outcome as one right after them.
Refuse(c) ==
    /\ call[c] # None
    /\ call[c].phase # "answered" /\ ~TokenAccepted
    /\ call' = [call EXCEPT ![c] = Ended(call[c], None, {})]
    /\ UNCHANGED <<project, network, program, cached, vite>>

\* initCrypto: the instance keeps what it unwrapped; a plugin's instance dies with its call.
ServeCrypto(c) ==
    /\ call[c] # None /\ TokenAccepted
    /\ call[c].phase = "crypto"
    /\ cached' = IF program.kind = "app" THEN dek ELSE cached
    /\ LET next == IF call[c].kind = "all" THEN "list" ELSE "rows"
       IN  call' = [call EXCEPT ![c] = Asks(call[c], dek, next, HashesOf(call[c].names, dek))]
    /\ UNCHANGED <<project, network, program, vite>>

\* A load without a schema asks for what the first page of the list returned.
ServeList(c) ==
    /\ call[c] # None /\ TokenAccepted
    /\ call[c].phase = "list"
    /\ LET rows == Cardinality(store)
       IN  \E page \in kSubset(IF rows < PageSize THEN rows ELSE PageSize, store) :
             LET next == IF page = {} THEN "answered" ELSE "rows"
             IN  call' = [call EXCEPT ![c] = Asks(call[c], call[c].key, next, {r.id : r \in page})]
    /\ UNCHANGED <<project, network, program, cached, vite>>

Missing(asked, rows) == \E h \in asked : ~\E r \in rows : r.id = h
Undecryptable(key, rows) == \E r \in rows : r.dek # key

\* Mutant: the i-th row of the answer is taken for the i-th name asked for.
ByPosition(names, answer) ==
    LET order == SetToSeq(names)
    IN  IF Len(order) # Len(answer) THEN {}
        ELSE {[n \in names |-> answer[CHOOSE i \in DOMAIN order : order[i] = n].value]}

\* The value of each name: the rows of the answer are paired with the names by their hash.
ByHash(names, answer) ==
    LET Found(n) == {i \in DOMAIN answer : answer[i].id.name = n}
    IN  {f \in [{answer[i].id.name : i \in DOMAIN answer} -> Values] :
            \A n \in DOMAIN f : \E i \in Found(n) : f[n] = answer[i].value}

\* validateValues over what was decrypted.
Rejected(secrets) == program.validates /\ \E n \in DOMAIN secrets : secrets[n] \in Invalid

\* What the SDK makes of an answer (None: an error): one missing name, one row under another
\* key or one invalid value fails the call.
Decrypted(c, answer) ==
    IF \/ Missing(call[c].asked, Range(answer))
       \/ Undecryptable(call[c].key, Range(answer))
    THEN {None}
    ELSE {IF call[c].kind # "all" /\ Rejected(f) THEN None ELSE f : f \in ByHash(call[c].names, answer)}

\* BulkFetch, one statement whose rows come in any order; get asks for one row.
ServeRows(c) ==
    /\ call[c] # None /\ TokenAccepted
    /\ call[c].phase = "rows"
    /\ \E answer \in SetToSeqs({r \in store : r.id \in call[c].asked}) :
         \E secrets \in Decrypted(c, answer) :
            call' = [call EXCEPT ![c] = Ended(call[c], secrets, Range(answer))]
    /\ UNCHANGED <<project, network, program, cached, vite>>

\* A request is lost, or the API or its database answers with an error.
Fail(c) ==
    /\ network = "unsteady"
    /\ call[c] # None
    /\ call[c].phase # "answered"
    /\ call' = [call EXCEPT ![c] = Ended(call[c], None, {})]
    /\ UNCHANGED <<project, network, program, cached, vite>>

------------------------------------------------------------------------------
(* An application.                                                           *)

\* load(), with a schema or without one; get(name) and select(names) refuse names the schema
\* does not declare before they ask for anything.
Call(c, kind, names) ==
    /\ program.kind = "app" /\ c \in Asking /\ call[c] = None
    /\ call' = [call EXCEPT ![c] = NewCall(kind, names, cached, None)]
    /\ UNCHANGED <<project, network, program, cached, vite>>

Load(c) == Call(c, "load", Schema)
LoadAll(c) == Call(c, "all", {})
Get(c) == \E n \in Schema : Call(c, "get", {n})
Select(c) == \E S \in SUBSET Schema : S # {} /\ Call(c, "select", S)

\* The caller has the values or the error.
Return(c) ==
    /\ program.kind = "app" /\ call[c] # None
    /\ call[c].phase = "answered"
    /\ call' = [call EXCEPT ![c] = None]
    /\ UNCHANGED <<project, network, program, cached, vite>>

------------------------------------------------------------------------------
(* The Vite plugin.  A restart makes a new plugin instance, whose config()  *)
(* fetches the secrets again; the old server and its timer live until then. *)

Server(phase, base, defines) == [phase |-> phase, base |-> base, defines |-> defines]

\* Mutant: a failed fetch is a warning in a build, too.
ConfigWarns(c) ==
    LET secrets == IF call[c].result = None THEN NoSecrets ELSE call[c].result
    IN  vite' = Server(IF program.kind = "build" THEN "built" ELSE "up", secrets, secrets)

\* The end of config(): a build aborts without its secrets, a dev server starts with none;
\* configureServer starts the polling with what this instance was configured with.
Config(c) ==
    LET secrets == IF call[c].result = None THEN NoSecrets ELSE call[c].result
    IN  IF program.kind = "build"
        THEN vite' = IF call[c].result = None THEN Server("aborted", vite.base, vite.defines)
                     ELSE Server("built", secrets, secrets)
        ELSE vite' = Server("up", secrets, secrets)

ReceiveConfig ==
    /\ call["config"] # None
    /\ call["config"].phase = "answered"
    /\ Config("config")
    /\ call' = [call EXCEPT !["config"] = None]
    /\ UNCHANGED <<project, network, program, cached>>

\* The interval fires whether or not the last poll has ended.
Tick(c) ==
    /\ program.kind = "serve" /\ vite.phase \in {"up", "restarting"}
    /\ c \in Polling /\ call[c] = None
    /\ call' = [call EXCEPT ![c] = NewCall("poll", Schema, None, vite.base)]
    /\ UNCHANGED <<project, network, program, cached, vite>>

\* Mutant: only a different number of keys is a change.
KeysChanged(prev, next) == Cardinality(DOMAIN prev) # Cardinality(DOMAIN next)

secretsChanged(prev, next) ==
    \/ Cardinality(DOMAIN prev) # Cardinality(DOMAIN next)
    \/ \E n \in DOMAIN prev : n \notin DOMAIN next \/ prev[n] # next[n]

\* A poll compares with the secrets its own plugin instance started with, and restarts the
\* server; a restart asked for while one is under way joins it.
ReceivePoll(c) ==
    /\ call[c] # None /\ call[c].kind = "poll"
    /\ call[c].phase = "answered"
    /\ IF /\ call[c].result # None /\ vite.phase = "up"
          /\ secretsChanged(call[c].base, call[c].result)
       THEN /\ call' = [call EXCEPT ![c] = None, !["config"] = NewCall("config", Schema, None, None)]
            /\ vite' = Server("restarting", vite.base, vite.defines)
       ELSE /\ call' = [call EXCEPT ![c] = None]
            /\ UNCHANGED vite
    /\ UNCHANGED <<project, network, program, cached>>

------------------------------------------------------------------------------
(* The other clients of the project, and the network.                       *)

\* The dashboard or another SDK stores a value under the current DEK.
Put(h, v) ==
    /\ writes < MaxWrites /\ writes' = writes + 1
    /\ h.key = dek /\ <<h.form, h.name>> \in Written
    /\ store' = {r \in store : r.id # h} \cup {[id |-> h, value |-> v, dek |-> dek]}
    /\ UNCHANGED <<dek, token, network, program, cached, call, vite>>

Drop(r) ==
    /\ writes < MaxWrites /\ writes' = writes + 1
    /\ store' = store \ {r}
    /\ UNCHANGED <<dek, token, network, program, cached, call, vite>>

\* A rotation re-encrypts every value and leaves the hashes of the names as they are.
Rotate ==
    /\ dek < MaxDek /\ dek' = dek + 1
    /\ store' = {[id |-> r.id, value |-> r.value, dek |-> dek + 1] : r \in store}
    /\ UNCHANGED <<token, network, writes, program, cached, call, vite>>

Revoke ==
    /\ token = "active" /\ token' = "revoked"
    /\ UNCHANGED <<store, dek, network, writes, program, cached, call, vite>>

Settle ==
    /\ network = "unsteady" /\ network' = "steady"
    /\ UNCHANGED <<project, program, cached, call, vite>>

------------------------------------------------------------------------------
Init ==
    /\ store = {[id |-> Hash(n, 0), value |-> Initial[n], dek |-> 0] : n \in Schema}
    /\ dek = 0 /\ token = "active" /\ network = "unsteady" /\ writes = 0
    /\ \E k \in Programs, b \in BOOLEAN :
         /\ b => k = "app"
         /\ program = [kind |-> k, validates |-> b]
    /\ cached = None
    /\ call = [c \in Callers |-> IF c = "config" /\ program.kind # "app"
                                 THEN NewCall("config", Schema, None, None) ELSE None]
    /\ vite = Server(IF program.kind = "app" THEN "none" ELSE "starting", NoSecrets, NoSecrets)

\* A step of a call, or of the program that waits for it.
Progress(c) ==
    \/ Refuse(c) \/ ServeCrypto(c) \/ ServeList(c) \/ ServeRows(c) \/ Fail(c) \/ ReceivePoll(c)

Next ==
    \/ \E c \in Callers : Progress(c)
    \/ \E c \in Asking : Load(c) \/ LoadAll(c) \/ Get(c) \/ Select(c) \/ Return(c)
    \/ \E c \in Polling : Tick(c)
    \/ ReceiveConfig
    \/ \E h \in Hashes, v \in Values : Put(h, v)
    \/ \E r \in store : Drop(r)
    \/ Rotate \/ Revoke \/ Settle

\* Requests are answered or fail, the event loop runs what has arrived, and the timer fires.
Spec ==
    /\ Init /\ [][Next]_vars
    /\ \A c \in Callers : WF_vars(Progress(c))
    /\ WF_vars(ReceiveConfig)
    /\ WF_vars(\E c \in Polling : Tick(c))

------------------------------------------------------------------------------
\* Every variable keeps its shape.
TypeOK ==
    /\ store \subseteq Rows /\ dek \in Deks /\ token \in {"active", "revoked"}
    /\ network \in {"unsteady", "steady"} /\ writes \in 0..MaxWrites
    /\ program \in [kind : Programs, validates : BOOLEAN]
    /\ cached \in Deks \cup {None}
    /\ call \in [Callers -> Calls \cup {None}]
    /\ vite \in [phase : {"none", "starting", "up", "restarting", "built", "aborted"},
                 base : Secrets, defines : Secrets]

Answered(c) == call[c] # None /\ call[c].phase = "answered" /\ call[c].result # None

\* Whatever is written, deleted, re-encrypted or delayed around a load, the values it returns
\* are values of their own names that were stored together at one moment; with a schema no name
\* is left out.
LoadedAsStored ==
    \A c \in Callers : Answered(c) =>
        /\ call[c].names \subseteq DOMAIN call[c].result
        /\ \A n \in DOMAIN call[c].result :
             \E r \in call[c].stored :
                /\ r.id.name = n /\ r.value = call[c].result[n]
                /\ n \in call[c].names => r.id = Hash(n, call[c].key)

\* A call begun after its token was revoked returns no values, although the instance may have
\* kept the project's key from before.
RevokedMeansNoAnswers ==
    \A c \in Callers : Answered(c) => ~call[c].late

\* A build that completes has every declared secret to put in the bundle: it never ships one
\* undefined because the API could not be reached, the token was revoked or a name was missing.
BuildHasSecrets == vite.phase = "built" => DOMAIN vite.defines = Schema

\* Every name the program declares is stored under the current key, in the form the SDK asks for.
Findable == \A n \in Schema : \E r \in store : r.id = Hash(n, dek)

\* The dev server defines the declared secrets as stored now.
DefinesCurrent ==
    /\ vite.phase = "up" /\ DOMAIN vite.defines = Schema
    /\ \A n \in Schema : \E r \in store : r.id = Hash(n, dek) /\ r.value = vite.defines[n]

\* A dev server catches up: once the network stays up, the token good and the declared secrets
\* in place, the server comes to run with the values stored, whatever polls, restarts and failed
\* starts came before, and stops restarting.
DefinesCatchUp ==
    <>[](program.kind = "serve" /\ network = "steady" /\ TokenAccepted /\ Findable)
        => <>[]DefinesCurrent
==============================================================================
