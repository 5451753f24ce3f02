---------------------------- MODULE SecretsBoard ----------------------------
(***************************************************************************)
(* The dashboard's secrets page: one tab, its query cache, and a project   *)
(* whose secrets other clients write too.  A query is asked, answered by   *)
(* the API and stored in three steps, so that writes fall between them; a  *)
(* query nobody watches keeps its old data.                                *)
(*                                                                         *)
(* A value is [env, name, at]: what write number at of env stored.  What   *)
(* the API answers carries the number of writes it has seen.  Names are    *)
(* the secrets' hashes too: a name has the same hash in every environment. *)
(***************************************************************************)
EXTENDS Naturals, Sequences, FiniteSets, FiniteSetsExt

CONSTANTS
    Envs,         \* environments
    Names,        \* secret names
    Place,        \* the order of the names in the table
    Old,          \* the secrets (environment, name) that exist at first, in two versions
    MaxWrites,    \* bound: writes to the project
    MaxVersion,   \* bound: the version rolled back to
    Kinds,        \* bound: what is opened on a row
    Made,         \* bound: the secrets (environment, name) this tab creates
    Actions,      \* bound: what the user does
    None

ASSUME ConstantsAssumption ==
    /\ IsFiniteSet(Names)
    /\ Place \in [Names -> Nat] /\ \A m, n \in Names : Place[m] = Place[n] => m = n
    /\ MaxWrites \in Nat /\ Old \cup Made \subseteq Envs \X Names
    /\ MaxVersion \in Nat
    /\ Kinds \subseteq {"row", "sheet", "edit", "delete"}
    /\ Actions \subseteq {"create", "import", "save", "delete", "rollback"}

Key(query, e, n) == [query |-> query, env |-> e, name |-> n]

\* Mutant: a payload's key leaves the environment out.
PayloadKeyOfName(e, n) == Key("payload", CHOOSE x \in Envs : TRUE, n)

\* Query keys: the history's has no environment.
ListKey(e) == Key("list", e, None)
PayloadKey(e, n) == Key("payload", e, n)
VersionsKey(n) == Key("versions", None, n)

Keys ==
    {ListKey(e) : e \in Envs} \cup {PayloadKey(e, n) : e \in Envs, n \in Names}
    \cup {VersionsKey(n) : n \in Names}

\* What a query returns.
Values == [env : Envs, name : Names, at : Nat \ {0}]
Histories == [of : Envs, current : Nat \ {0}]
Answers(k) ==
    IF k.query = "list" THEN SUBSET Names
    ELSE IF k.query = "payload" THEN Values
    ELSE Histories

\* What the API answered, what the cache keeps of it, and what was asked.
Reply(data, asOf) == [data |-> data, asOf |-> asOf]
Entry(data, asOf, fresh) == [data |-> data, asOf |-> asOf, fresh |-> fresh]
Request(e, answer) == [env |-> e, answer |-> answer]
Asked(e) == Request(e, None)

Replies(k) == [data : Answers(k) \cup {None}, asOf : Nat]
Entries(k) == [data : Answers(k), asOf : Nat, fresh : BOOLEAN]
Requests(k) == [env : Envs, answer : Replies(k) \cup {None}]

\* What the user is at, and a name typed in a dialog.
Focus(kind, n, slot, typed, moved) ==
    [kind |-> kind, name |-> n, slot |-> slot, typed |-> typed, moved |-> moved]
At(kind, n, slot) == Focus(kind, n, slot, None, FALSE)
NoFocus == At("none", None, 0)

Typed == [env : Envs, name : Names]
Focuses ==
    [kind : {"none", "row", "sheet", "edit", "delete"}, name : Names \cup {None},
     slot : Nat, typed : Typed \cup {None}, moved : BOOLEAN]

\* A mutation, with a note of what the user acted on.
Mutation(op, e, n, note, phase, open) ==
    [op |-> op, env |-> e, name |-> n, note |-> note, phase |-> phase, open |-> open]
SaveNotes == [base : Values, known : Values]
DeleteNotes == [typed : Typed, moved : BOOLEAN]
RollbackNotes == [version : 1..MaxVersion]
Mutations ==
    [op : Actions, env : Envs, name : Names, note : SaveNotes \cup DeleteNotes \cup RollbackNotes,
     phase : {"sent", "settled"}, open : BOOLEAN]

\* None is none of the data it stands beside.
ASSUME NoneAssumption ==
    /\ None \notin Names \cup Envs \cup Values \cup Typed \cup Mutations
    /\ \A k \in Keys : None \notin Replies(k) \cup Entries(k) \cup Requests(k)

VARIABLES
    \* The project.
    store,        \* store[e][n]: the versions of a secret, the current one last
    clock,        \* writes to each environment
    \* The tab.
    env,          \* the active environment
    cache,        \* cache[k]: the data of a query, or None
    fly,          \* fly[k]: the request of a query, or None
    focus,        \* the dialog, sheet or row the user is at
    form,         \* the value the edit form was filled with
    pend,         \* the mutation at work
    \* History, for the properties only.
    acked         \* acked[k]: this tab's latest finished write that query k must show

vars == <<store, clock, env, cache, fly, focus, form, pend, acked>>
project == <<store, clock>>

---------------------------------------------------------------------------
\* The page, as a function of the environment e, the focus f and the cache c.

\* The table shows what the list query has, in the order of Place.
Listed(e, c) == IF c[ListKey(e)] = None THEN {} ELSE c[ListKey(e)].data
SlotOf(n, e, c) == Cardinality({m \in Listed(e, c) : Place[m] <= Place[n]})
InSlot(i, e, c) == {n \in Listed(e, c) : SlotOf(n, e, c) = i}

\* The secret a dialog is about.  A row of the table, and the delete dialog in
\* it, is known by its place.
Target(e, f, c) ==
    IF f.kind = "delete" THEN CHOOSE n \in InSlot(f.slot, e, c) : TRUE ELSE f.name

Shown(e, f, c) ==
    IF f.kind = "none" THEN None ELSE c[PayloadKey(e, Target(e, f, c))]

\* The queries the page watches.
Watched(e, f, c) ==
    {ListKey(e)}
    \cup (IF f.kind = "none" \/ (f.kind = "delete" /\ Shown(e, f, c) # None) THEN {}
          ELSE {PayloadKey(e, Target(e, f, c))})
    \cup (IF f.kind = "sheet" /\ Shown(e, f, c) # None THEN {VersionsKey(f.name)} ELSE {})

\* Mutant: the form keeps the value it was opened with.
FormOfFirst(e, f, c) ==
    IF f.kind # "edit" \/ Shown(e, f, c) = None THEN None
    ELSE IF form # None /\ form.env = e THEN form ELSE Shown(e, f, c).data

\* The edit form follows the payload it was given.
FormOf(e, f, c) ==
    IF f.kind = "edit" /\ Shown(e, f, c) # None THEN Shown(e, f, c).data ELSE None

Stale(c, k) == ~(c[k] # None /\ c[k].fresh)

\* Of the queries, those watched now keep their requests and others drop theirs; one
\* that is watched anew sends one if its data is missing, invalidated or old (staleTime).
Mount(e, now, opened, c, inFlight, old) ==
    [k \in Keys |->
        IF k \notin now THEN None
        ELSE IF k \in opened /\ (Stale(c, k) \/ k \in old) THEN Asked(e)
        ELSE inFlight[k]]

\* A place past the end of the table has no dialog.
Settled(e, f, c) ==
    IF f.kind = "delete" /\ InSlot(f.slot, e, c) = {} THEN NoFocus ELSE f

\* The page with environment e, focus f, cache c and requests inFlight.
Render(e, f, c, inFlight) ==
    LET g == Settled(e, f, c)
        now == Watched(e, g, c)
        opened == now \ Watched(env, focus, cache)
    IN /\ env' = e /\ focus' = g /\ cache' = c
       /\ \E old \in SUBSET {k \in opened : ~Stale(c, k)} :
              fly' = Mount(e, now, opened, c, inFlight, old)
       /\ form' = FormOf(e, g, c)

Init ==
    /\ store = [e \in Envs |-> [n \in Names |->
           IF <<e, n>> \in Old THEN [i \in 1 .. 2 |-> [env |-> e, name |-> n, at |-> i]] ELSE <<>>]]
    /\ clock = [e \in Envs |-> IF \E n \in Names : <<e, n>> \in Old THEN 2 ELSE 0]
    /\ env \in Envs
    /\ cache = [k \in Keys |-> None]
    /\ fly = [k \in Keys |-> IF k = ListKey(env) THEN Asked(env) ELSE None]
    /\ focus = NoFocus /\ form = None /\ pend = None
    /\ acked = [k \in Keys |-> 0]

\* Bound: so many more writes fit.
Room(writes) == MapThenSumSet(LAMBDA e : clock[e], Envs) + writes <= MaxWrites

---------------------------------------------------------------------------
\* Queries.

\* What the API answers to the query k asked for environment e, or None.
Answer(k, e) ==
    IF k.query = "list" THEN {n \in Names : store[e][n] # <<>>}
    ELSE LET versions == store[e][k.name]
         IN IF versions = <<>> THEN None
            ELSE IF k.query = "versions" THEN [of |-> e, current |-> Len(versions)]
            ELSE versions[Len(versions)]

AnswerQuery(k) ==
    /\ fly[k] # None /\ fly[k].answer = None
    /\ LET e == fly[k].env
           reply == Reply(Answer(k, e), IF k.query = "versions" THEN 0 ELSE clock[e])
       IN fly' = [fly EXCEPT ![k] = Request(e, reply)]
    /\ UNCHANGED <<project, env, cache, focus, form, pend, acked>>

\* Mutant: the error of a secret that is gone is stored like an answer.
StoreAnyAnswer(k) ==
    /\ fly[k] # None /\ fly[k].answer # None
    /\ Render(env, focus,
              [cache EXCEPT ![k] = Entry(fly[k].answer.data, fly[k].answer.asOf, TRUE)],
              [fly EXCEPT ![k] = None])
    /\ UNCHANGED <<project, pend, acked>>

\* The answer is stored; a secret that is gone is an error and keeps the data.
StoreAnswer(k) ==
    /\ fly[k] # None /\ fly[k].answer # None
    /\ LET a == fly[k].answer
           c == IF a.data = None THEN cache
                ELSE [cache EXCEPT ![k] = Entry(a.data, a.asOf, TRUE)]
       IN Render(env, focus, c, [fly EXCEPT ![k] = None])
    /\ UNCHANGED <<project, pend, acked>>

QueryFails(k) ==
    /\ fly[k] # None /\ fly[k].answer = None
    /\ fly' = [fly EXCEPT ![k] = None]
    /\ UNCHANGED <<project, env, cache, focus, form, pend, acked>>

\* The window gets the focus, and a query on the page whose data is missing,
\* invalidated or old is asked again.
Refetch(k) ==
    /\ k \in Watched(env, focus, cache) /\ fly[k] = None
    /\ fly' = [fly EXCEPT ![k] = Asked(env)]
    /\ UNCHANGED <<project, env, cache, focus, form, pend, acked>>

---------------------------------------------------------------------------
\* The user.  A dialog covers the rest of the page.

SwitchEnv(e) ==
    /\ focus.kind = "none" /\ e # env
    /\ Render(e, focus, cache, fly)
    /\ UNCHANGED <<project, pend, acked>>

\* The preferences arrive, once each time the layout is mounted, whatever is open.
\* (What is open is taken to stay so while the list of e is loading.)
Hydrate(e) ==
    /\ focus.kind # "none" /\ e # env
    /\ Render(e, Focus(focus.kind, focus.name, focus.slot, focus.typed, TRUE), cache, fly)
    /\ UNCHANGED <<project, pend, acked>>

\* A row is hovered, opened in the sheet, or edited.
Open(kind, n) ==
    /\ kind \in Kinds /\ focus.kind = "none"
    /\ n \in Listed(env, cache)
    /\ Render(env, At(kind, n, 0), cache, fly)
    /\ UNCHANGED <<project, pend, acked>>

\* The sheet has its content, and its buttons, once the payload is there.
SheetShows == focus.kind = "sheet" /\ Shown(env, focus, cache) # None

EditFromSheet ==
    /\ "edit" \in Kinds /\ SheetShows
    /\ Render(env, Focus("edit", focus.name, focus.slot, focus.typed, focus.moved), cache, fly)
    /\ UNCHANGED <<project, pend, acked>>

OpenDelete(n) ==
    /\ "delete" \in Kinds /\ focus.kind = "none" /\ n \in Listed(env, cache)
    /\ Render(env, At("delete", None, SlotOf(n, env, cache)), cache, fly)
    /\ UNCHANGED <<project, pend, acked>>

\* The user copies the name the dialog asks for.
TypeName ==
    /\ focus.kind \in {"delete", "sheet"} /\ Shown(env, focus, cache) # None
    /\ LET typed == [env |-> env, name |-> Target(env, focus, cache)]
       IN focus' = Focus(focus.kind, focus.name, focus.slot, typed, focus.moved)
    /\ UNCHANGED <<project, env, cache, fly, form, pend, acked>>

\* Closing a dialog does not stop its mutation.
Close ==
    /\ focus.kind # "none"
    /\ Render(env, NoFocus, cache, fly)
    /\ pend' = IF pend = None THEN None
               ELSE Mutation(pend.op, pend.env, pend.name, pend.note, pend.phase, FALSE)
    /\ UNCHANGED <<project, acked>>

---------------------------------------------------------------------------
\* Mutations: sent, then served by the API and settled by the tab in one step
\* (what happens in between happens as well before or after).

Send(op, n, more) ==
    /\ op \in Actions /\ pend = None
    /\ pend' = Mutation(op, env, n, more, "sent", TRUE)
    /\ UNCHANGED <<project, env, cache, fly, focus, form, acked>>

\* The note of a save: the value in the form, and the one the tab knows by now.
Save ==
    /\ focus.kind = "edit" /\ form # None
    /\ Send("save", focus.name, [base |-> form, known |-> Shown(env, focus, cache).data])

\* Mutant: once a name is typed the button is never disabled again.
ConfirmedOnce == focus.typed # None /\ Shown(env, focus, cache) # None

\* The button waits for the name of the secret the dialog now shows.
Confirmed ==
    /\ focus.typed # None
    /\ Shown(env, focus, cache) # None
    /\ focus.typed.name = Target(env, focus, cache)

\* From a row's dialog or from the sheet's.
Delete ==
    /\ focus.kind \in {"delete", "sheet"} /\ Confirmed
    /\ Send("delete", Target(env, focus, cache),
            [typed |-> focus.typed, moved |-> focus.moved])

\* The sheet lists the versions before the current one.
Rollback(v) ==
    /\ SheetShows
    /\ cache[VersionsKey(focus.name)] # None
    /\ v < cache[VersionsKey(focus.name)].data.current
    /\ Send("rollback", focus.name, [version |-> v])

Refused ==
    LET versions == store[pend.env][pend.name]
    IN IF pend.op = "rollback" THEN pend.note.version >= Len(versions) ELSE versions = <<>>

\* The versions of n once it is written for the at-th time in environment e.
Written(e, n, at) ==
    IF pend.op = "delete" THEN <<>>
    ELSE IF pend.op = "rollback" THEN Append(store[e][n], store[e][n][pend.note.version])
    ELSE Append(store[e][n], [env |-> e, name |-> n, at |-> at])

\* The queries under an environment's prefix.
Prefix(e) == {ListKey(e)} \cup {PayloadKey(e, n) : n \in Names}

Outdated(k, K) ==
    IF k \in K /\ cache[k] # None THEN Entry(cache[k].data, cache[k].asOf, FALSE) ELSE cache[k]

\* Mutant: a request under way is not dropped.
InvalidateKeepingRequests(K) ==
    /\ cache' = [k \in Keys |-> Outdated(k, K)]
    /\ fly' = [k \in Keys |->
           IF k \in K \cap Watched(env, focus, cache) /\ fly[k] = None THEN Asked(env) ELSE fly[k]]

\* A query that loads for the first time is not asked again: its request is joined.
Joins(k) == cache[k] = None /\ fly[k] # None

\* The queries K are invalidated: those on the page are asked again, and the
\* request of one that has data already is dropped.
Invalidate(K) ==
    /\ cache' = [k \in Keys |-> Outdated(k, K)]
    /\ fly' = [k \in Keys |->
           IF k \in K \cap Watched(env, focus, cache) /\ ~Joins(k) THEN Asked(env) ELSE fly[k]]

\* The queries that tell of the names S of e.
Telling(e, S) == {ListKey(e)} \cup {PayloadKey(e, n) : n \in S}

\* The tab hears of the writes to the names S of e, the last one number at.  A
\* first load may have been answered before them and is not counted.
Hears(e, S, at) ==
    acked' = [k \in Keys |-> IF k \in Telling(e, S) /\ ~Joins(k) THEN at ELSE acked[k]]

Serve ==
    /\ pend # None /\ pend.phase = "sent" /\ ~Refused /\ Room(1)
    /\ LET e == pend.env  n == pend.name  at == clock[e] + 1
       IN /\ store' = [store EXCEPT ![e] = [store[e] EXCEPT ![n] = Written(e, n, at)]]
          /\ clock' = [clock EXCEPT ![e] = at]
          /\ Hears(e, {n}, at)
          /\ Invalidate(Prefix(e) \cup (IF pend.op = "rollback" THEN {VersionsKey(n)} ELSE {}))
    /\ pend' = Mutation(pend.op, pend.env, pend.name, pend.note, "settled", pend.open)
    /\ UNCHANGED <<env, focus, form>>

\* A refusal, or a request that is lost.  A lost answer is like another client's write.
MutationFails ==
    /\ pend # None /\ pend.phase = "sent"
    /\ pend' = None
    /\ UNCHANGED <<project, env, cache, fly, focus, form, acked>>

\* The names S are created, and the queries K invalidated.  Nothing can be done
\* on the page meanwhile.
Post(S, K) ==
    /\ focus.kind = "none" /\ pend = None
    /\ \A n \in S : <<env, n>> \in Made /\ store[env][n] = <<>>
    /\ Room(Cardinality(S))
    /\ LET at == clock[env] + Cardinality(S)
           created(n) == <<[env |-> env, name |-> n, at |-> at]>>
       IN /\ clock' = [clock EXCEPT ![env] = at]
          /\ store' = [store EXCEPT ![env] =
                 [n \in Names |-> IF n \in S THEN created(n) ELSE store[env][n]]]
          /\ Hears(env, S, at)
    /\ Invalidate(K)
    /\ UNCHANGED <<env, focus, form, pend>>

Create(n) == "create" \in Actions /\ Post({n}, Prefix(env))

\* The entries of an import that did not exist; every environment is invalidated.
Import(S) ==
    /\ "import" \in Actions /\ S # {}
    /\ Post(S, UNION {Prefix(e) : e \in Envs})

\* Once the queries are back the dialog of the mutation closes, if it is open still.
Finish ==
    /\ pend # None /\ pend.phase = "settled"
    /\ \A k \in Prefix(pend.env) : fly[k] = None
    /\ pend' = None
    /\ Render(env, IF pend.open /\ pend.op # "rollback" THEN NoFocus ELSE focus, cache, fly)
    /\ UNCHANGED <<project, acked>>

---------------------------------------------------------------------------
\* Other clients: the CLI, an SDK, another member's tab.

OthersWrite(e, n, versions) ==
    /\ Room(1)
    /\ store' = [store EXCEPT ![e] = [store[e] EXCEPT ![n] = versions]]
    /\ clock' = [clock EXCEPT ![e] = @ + 1]
    /\ UNCHANGED <<env, cache, fly, focus, form, pend, acked>>

OthersPut(e, n) ==
    OthersWrite(e, n, Append(store[e][n], [env |-> e, name |-> n, at |-> clock[e] + 1]))
OthersDelete(e, n) == store[e][n] # <<>> /\ OthersWrite(e, n, <<>>)

Next ==
    \/ \E k \in Keys : AnswerQuery(k) \/ StoreAnswer(k) \/ QueryFails(k) \/ Refetch(k)
    \/ \E e \in Envs : SwitchEnv(e) \/ Hydrate(e)
    \/ \E n \in Names : \E kind \in {"row", "sheet", "edit"} : Open(kind, n)
    \/ EditFromSheet
    \/ TypeName \/ Close
    \/ \E n \in Names : OpenDelete(n) \/ Create(n)
    \/ \E S \in SUBSET Names : Import(S)
    \/ Save \/ Delete \/ Serve \/ MutationFails \/ Finish
    \/ \E v \in 1 .. MaxVersion : Rollback(v)
    \/ \E e \in Envs, n \in Names : OthersPut(e, n) \/ OthersDelete(e, n)

Spec == Init /\ [][Next]_vars

---------------------------------------------------------------------------
\* Properties.

\* TYPES: the cache holds under a key what that query's function returns, a
\* delete dialog stands on a row there is, and a mutation is one of the page's
\* five (queries/secrets.ts, secrets.tsx).
TypeOK ==
    /\ store \in [Envs -> [Names -> Seq(Values)]]
    /\ clock \in [Envs -> Nat]
    /\ env \in Envs
    /\ DOMAIN cache = Keys /\ \A k \in Keys : cache[k] \in Entries(k) \cup {None}
    /\ DOMAIN fly = Keys /\ \A k \in Keys : fly[k] \in Requests(k) \cup {None}
    /\ focus \in Focuses
    /\ focus.kind = "delete" => InSlot(focus.slot, env, cache) # {}
    /\ form \in Values \cup {None}
    /\ pend \in Mutations \cup {None}
    /\ acked \in [Keys -> Nat]

\* The decrypted value shown for a secret is one it had in the environment it is
\* shown for, whatever requests were under way when the environment changed
\* (secretPayloadQueryOptions).
ValuesOfTheirSecret ==
    \A e \in Envs, n \in Names :
        LET c == cache[PayloadKey(e, n)] IN c # None => c.data.env = e /\ c.data.name = n

\* A list or payload that counts as fresh was read after the tab's own latest
\* finished write of a secret it tells of: an answer that was under way during the
\* write never comes back as the newer one (onSuccess of the mutations).  The one
\* exception is a query that was loading for the first time when the write
\* finished: its request is joined, and what it stores as fresh may lack the write.
OwnWritesShow ==
    \A k \in Keys : cache[k] # None /\ cache[k].fresh => cache[k].asOf >= acked[k]

\* An edit that is saved started from the newest version this tab has read, in
\* the environment it is saved to: a version fetched while the dialog is open is
\* put into the form and not overwritten unseen (EditSecretDialog).
SavesWhatTheFormShowed ==
    pend # None /\ pend.op = "save" =>
        pend.note.base = pend.note.known /\ pend.note.base.env = pend.env

\* What is deleted is the secret whose name was typed, though the rows may move
\* under the dialog; its environment is the one it was typed in, unless the
\* preferences changed the environment under the dialog (DeleteSecretButton).
DeletesWhatWasTyped ==
    pend # None /\ pend.op = "delete" =>
        /\ pend.name = pend.note.typed.name
        /\ pend.note.moved \/ pend.note.typed.env = pend.env

=============================================================================
