----------------------------- MODULE VaultKeys -----------------------------
(***************************************************************************)
(* The vault keys of the users who share one browser: setting a vault up,  *)
(* unlocking and locking it, regenerating the Recovery Kit, recovering     *)
(* with its words, naming a trusted contact and changing the vault key on  *)
(* another device.  A tab keeps the unlocked keys in memory; all tabs of   *)
(* the browser share one session cookie, and the server takes the account  *)
(* of a request from the cookie that arrives with it.                      *)
(***************************************************************************)
EXTENDS Naturals, FiniteSets

CONSTANTS
    Users,      \* accounts
    Tabs,       \* tabs of the browser
    Keys,       \* what users type as Vault Key
    None,       \* no row, no session, nothing held
    Lossy,      \* may replies be lost and tabs be reloaded
    DbFailures, \* may a statement of the API fail
    MaxFresh    \* bound: random values generated

ASSUME ConstantsAssumption ==
    /\ None \notin Users \cup Keys \cup Nat
    /\ Lossy \in BOOLEAN /\ DbFailures \in BOOLEAN /\ MaxFresh \in Nat

VARIABLES
    identity,   \* identities: the vault of each user
    contact,    \* trusted_contacts: the DEK wrapped for the user's contact
    cookie,     \* the browser's session: its user
    flag,       \* Redis: that session is vault-unlocked
    fresh,      \* random values generated: salts, DEKs and recovery words
    page,       \* the page a tab shows
    me,         \* a tab's cached answer of GET /auth/me
    store,      \* the keys in a tab's memory
    held,       \* the DEK a recovering tab has unwrapped with the words
    req,        \* a tab's outstanding request and how far the server is with it
    change,     \* the change of a user's key that another device has under way
    shown,      \* history: recovery words a user has been shown
    lost,       \* history: words stored by a request whose answer was lost
    crossed     \* history: users for whom a tab sent another user's DEK

rows == <<identity, contact>>
history == <<shown, lost, crossed>>
vars == <<identity, contact, cookie, flag, fresh, page, me, store, held, req,
          change, shown, lost, crossed>>

----------------------------------------------------------------------------
(* Types.  A DEK is the number it was generated with; "owner" is whose     *)
(* vault it came from, which no code knows.                                *)

Deks == [owner : Users, dek : Nat]
Vaults == [key : Keys, salt : Nat, dek : Nat, priv : BOOLEAN,
           kit : [words : Nat, dek : Nat], disabled : BOOLEAN]
Pages == {"login", "setup", "unlock", "app", "gate", "verify", "generating",
          "words", "newkey", "setting-up"}
Idle == [kind |-> "none", at |-> "none"]
Requests ==
    [kind : {"setup", "unlock", "verify", "kit", "words", "recover", "contact"},
     at : {"sent", "checked", "ok"}, user : Users \cup {None},
     key : Keys \cup {None}, salt : Nat, held : Deks \cup {None}]

Memories == [user : Users, salt : Nat \cup {None}]
Changes == [key : Keys, salt : Nat, dek : Nat]

\* None is none of the values it stands in for.
ASSUME NoneAssumption == None \notin Vaults \cup Deks \cup Memories \cup Changes

TypeOK ==
    /\ identity \in [Users -> Vaults \cup {None}]
    /\ contact \in [Users -> Nat \cup {None}]
    /\ cookie \in Users \cup {None} /\ flag \in BOOLEAN /\ fresh \in Nat
    /\ page \in [Tabs -> Pages]
    /\ me \in [Tabs -> Memories \cup {None}]
    /\ store \in [Tabs -> Deks \cup {None}]
    /\ held \in [Tabs -> Deks \cup {None}]
    /\ req \in [Tabs -> Requests \cup {Idle}]
    /\ change \in [Users -> Changes \cup {None}]
    /\ shown \subseteq Nat /\ lost \subseteq Nat
    /\ crossed \subseteq Users

Init ==
    /\ identity = [u \in Users |-> None] /\ contact = [u \in Users |-> None]
    /\ cookie = None /\ flag = FALSE /\ fresh = 0
    /\ page = [t \in Tabs |-> "login"] /\ me = [t \in Tabs |-> None]
    /\ store = [t \in Tabs |-> None] /\ held = [t \in Tabs |-> None]
    /\ req = [t \in Tabs |-> Idle] /\ change = [u \in Users |-> None]
    /\ shown = {} /\ lost = {} /\ crossed = {}

----------------------------------------------------------------------------
(* Sessions and navigation.                                                *)

HasVault(u) == identity[u] # None

\* GET /auth/me now: the session's user and, once there is a vault, its salt.
MeOf(u) == [user |-> u, salt |-> IF HasVault(u) THEN identity[u].salt ELSE None]

Me == IF cookie = None THEN None ELSE MeOf(cookie)

\* Where the guards of the routes let a tab go that has m and s.
Where(m, s) == IF m = None THEN "login"
               ELSE IF m.salt = None THEN "setup"
               ELSE IF s = None THEN "unlock" ELSE "app"

Quiet(t) == req[t] = Idle

\* A navigation asks the guards; they take /auth/me from the cache while it is
\* fresh enough, which the user's pace decides, and fetch it otherwise.
Navigate(t) ==
    /\ Quiet(t) /\ page[t] \in {"setup", "unlock", "app", "gate", "verify", "words"}
    /\ \E m \in {Me} \cup ({me[t]} \ {None}) :
          /\ me' = [me EXCEPT ![t] = m]
          /\ page' = [page EXCEPT ![t] = Where(m, store[t])]
    /\ UNCHANGED <<rows, cookie, flag, fresh, store, held, req, change, history>>

\* Signing in replaces the session of the whole browser; this tab alone
\* forgets what it cached of the last one.
Login(t, u) ==
    /\ Quiet(t) /\ page[t] = "login"
    /\ cookie' = u /\ flag' = FALSE
    /\ me' = [me EXCEPT ![t] = MeOf(u)]
    /\ page' = [page EXCEPT ![t] = Where(MeOf(u), store[t])]
    /\ UNCHANGED <<rows, fresh, store, held, req, change, history>>

SignOut(t) ==
    /\ Quiet(t) /\ page[t] \in {"unlock", "app"}
    /\ cookie' = None /\ flag' = FALSE
    /\ store' = [store EXCEPT ![t] = None]
    /\ me' = [me EXCEPT ![t] = None]
    /\ page' = [page EXCEPT ![t] = "login"]
    /\ UNCHANGED <<rows, fresh, held, req, change, history>>

\* "Lock vault": the session's flag, and the keys of this tab only.
Lock(t) ==
    /\ Quiet(t) /\ page[t] = "app"
    /\ flag' = FALSE
    /\ store' = [store EXCEPT ![t] = None]
    /\ page' = [page EXCEPT ![t] = "unlock"]
    /\ UNCHANGED <<rows, cookie, fresh, me, held, req, change, history>>

\* A session ends after its 24 hours.
Expire ==
    /\ cookie # None
    /\ cookie' = None /\ flag' = FALSE
    /\ UNCHANGED <<rows, fresh, page, me, store, held, req, change, history>>

----------------------------------------------------------------------------
(* What a tab sends.                                                       *)

\* Mutant: a new DEK is wrapped where the old one must be carried on.
SendNewDek(t, kind, k, salt, h) ==
    req' = [req EXCEPT ![t] = [kind |-> kind, at |-> "sent", user |-> None,
                               key |-> k, salt |-> salt,
                               held |-> IF h = None THEN None ELSE [h EXCEPT !.dek = salt]]]

Send(t, kind, k, salt, h) ==
    req' = [req EXCEPT ![t] = [kind |-> kind, at |-> "sent", user |-> None,
                               key |-> k, salt |-> salt, held |-> h]]

\* A new random value: salt, recovery words and, at set-up, the DEK.
Generate == fresh < MaxFresh /\ fresh' = fresh + 1

\* The form for a vault key and the one for recovery words, ready for input; a
\* user can only type words that were on a screen.
KeyForm(t, p) == Quiet(t) /\ page[t] = p
WordsForm(t, w) == Quiet(t) /\ page[t] = "words" /\ w \in shown

SubmitSetup(t, k) ==
    /\ KeyForm(t, "setup") /\ Generate
    /\ Send(t, "setup", k, fresh, None)
    /\ UNCHANGED <<rows, cookie, flag, page, me, store, held, change, history>>

\* The unlock page derives with the salt it has cached.
SubmitUnlock(t, k) ==
    /\ KeyForm(t, "unlock") /\ me[t] # None /\ me[t].salt # None
    /\ Send(t, "unlock", k, me[t].salt, None)
    /\ UNCHANGED <<rows, cookie, flag, fresh, page, me, store, held, change, history>>

\* Regenerate: the key is verified with the endpoint that unlocks.
OpenVerify(t) ==
    /\ Quiet(t) /\ page[t] = "app"
    /\ page' = [page EXCEPT ![t] = "verify"]
    /\ UNCHANGED <<rows, cookie, flag, fresh, me, store, held, req, change, history>>

SubmitVerify(t, k) ==
    /\ KeyForm(t, "verify") /\ me[t] # None /\ me[t].salt # None
    /\ Send(t, "verify", k, me[t].salt, None)
    /\ UNCHANGED <<rows, cookie, flag, fresh, page, me, store, held, change, history>>

\* "Forgot Vault Key?": the recovery pages have no guard.
OpenRecover(t) ==
    /\ Quiet(t) /\ page[t] = "unlock"
    /\ page' = [page EXCEPT ![t] = "words"]
    /\ UNCHANGED <<rows, cookie, flag, fresh, me, store, held, req, change, history>>

SubmitWords(t, w) ==
    /\ WordsForm(t, w)
    /\ Send(t, "words", None, w, None)
    /\ UNCHANGED <<rows, cookie, flag, fresh, page, me, store, held, change, history>>

SubmitNewKey(t, k) ==
    /\ KeyForm(t, "newkey") /\ Generate
    /\ Send(t, "recover", k, fresh, held[t])
    /\ page' = [page EXCEPT ![t] = "setting-up"]
    /\ UNCHANGED <<rows, cookie, flag, me, store, held, change, history>>

\* The DEK in memory is wrapped for the contact's public key.
SubmitContact(t) ==
    /\ Quiet(t) /\ page[t] = "app" /\ store[t] # None
    /\ Send(t, "contact", None, 0, store[t])
    /\ UNCHANGED <<rows, cookie, flag, fresh, page, me, store, held, change, history>>

----------------------------------------------------------------------------
(* The handlers.                                                           *)

\* The request q of the user u with the DEK h, further on; a row's fields.
Past(q, at, u, h) == [kind |-> q.kind, at |-> at, user |-> u, key |-> q.key,
                      salt |-> q.salt, held |-> h]
Vault(k, salt, d, priv, kit, off) ==
    [key |-> k, salt |-> salt, dek |-> d, priv |-> priv, kit |-> kit, disabled |-> off]
Kit(w, d) == [words |-> w, dek |-> d]

Reached(t, at, h) == req' = [req EXCEPT ![t] = Past(@, at, cookie, h)]

\* An error leaves the page as it is; the pages "generating" and "setting-up"
\* have no way on and stay busy.
Refused(t) ==
    /\ req' = [req EXCEPT ![t] = Idle]
    /\ UNCHANGED <<rows, flag, crossed>>

\* The DEK that the row of the session's user gives out.
OwnDek(d) == [owner |-> cookie, dek |-> d]

\* Sending a DEK of another account than the one the cookie names by now.
Crossing(t) == crossed' = crossed \cup
    (IF req[t].held # None /\ req[t].held.owner # cookie THEN {cookie} ELSE {})

ArriveSetup(t) ==
    /\ req[t].kind = "setup"
    /\ IF HasVault(cookie) THEN Refused(t)
       ELSE Reached(t, "checked", None) /\ UNCHANGED <<rows, flag, crossed>>

\* The hash of the submitted key and salt against the row's.
ArriveUnlock(t) ==
    /\ req[t].kind \in {"unlock", "verify"}
    /\ IF /\ HasVault(cookie)
          /\ identity[cookie].key = req[t].key /\ identity[cookie].salt = req[t].salt
       THEN /\ flag' = TRUE
            \* the page cannot decrypt a private key that is not there
            /\ IF req[t].kind = "unlock" /\ ~identity[cookie].priv
               THEN req' = [req EXCEPT ![t] = Idle]
               ELSE Reached(t, "ok", OwnDek(identity[cookie].dek))
            /\ UNCHANGED <<rows, crossed>>
       ELSE Refused(t)

\* The kit is fetched; the tab tries the words it was given.
ArriveWords(t) ==
    /\ req[t].kind = "words"
    /\ IF /\ HasVault(cookie) /\ ~identity[cookie].disabled
          /\ identity[cookie].kit.words = req[t].salt
       THEN /\ Reached(t, "ok", OwnDek(identity[cookie].kit.dek))
            /\ UNCHANGED <<rows, flag, crossed>>
       ELSE Refused(t)

\* Both look the row up before they write; a contact needs the unlocked session.
ArriveKitOrContact(t) ==
    /\ req[t].kind \in {"kit", "contact"}
    /\ IF HasVault(cookie) /\ ~identity[cookie].disabled /\ (req[t].kind = "kit" \/ flag)
       THEN /\ Reached(t, "checked", req[t].held) /\ Crossing(t)
            /\ UNCHANGED <<rows, flag>>
       ELSE Refused(t)

\* One UPDATE with what the tab sent, an empty private key included; it
\* succeeds even when there is no row.
ArriveRecover(t) ==
    /\ req[t].kind = "recover"
    /\ identity' = IF ~HasVault(cookie) THEN identity ELSE
         [identity EXCEPT ![cookie] =
            Vault(req[t].key, req[t].salt, req[t].held.dek, FALSE,
                  Kit(req[t].salt, req[t].held.dek), @.disabled)]
    /\ Reached(t, "ok", req[t].held) /\ Crossing(t)
    /\ UNCHANGED <<contact, flag>>

Arrive(t) ==
    /\ req[t].at = "sent"
    /\ IF cookie = None THEN Refused(t)
       ELSE \/ ArriveSetup(t) \/ ArriveUnlock(t) \/ ArriveWords(t)
            \/ ArriveKitOrContact(t) \/ ArriveRecover(t)
    /\ UNCHANGED <<cookie, fresh, page, me, store, held, change, shown, lost>>

\* Mutant: the vault is stored with an upsert.
InsertVaultUpsert(t) ==
    LET u == req[t].user n == req[t].salt IN
    /\ req[t].kind = "setup" /\ req[t].at = "checked"
    /\ identity' = [identity EXCEPT ![u] =
                       Vault(req[t].key, n, n, TRUE, Kit(n, n), FALSE)]
    /\ req' = [req EXCEPT ![t] = Past(@, "ok", u, [owner |-> u, dek |-> n])]
    /\ UNCHANGED <<contact, cookie, flag, fresh, page, me, store, held, change, history>>

\* A second row for the same user violates the unique constraint.
InsertVault(t) ==
    LET u == req[t].user n == req[t].salt IN
    /\ req[t].kind = "setup" /\ req[t].at = "checked"
    /\ IF HasVault(u)
       THEN req' = [req EXCEPT ![t] = Idle] /\ UNCHANGED <<identity, flag>>
       ELSE /\ identity' = [identity EXCEPT ![u] =
                               Vault(req[t].key, n, n, TRUE, Kit(n, n), FALSE)]
            /\ req' = [req EXCEPT ![t] = Past(@, "ok", u, [owner |-> u, dek |-> n])]
            \* the session that asked is unlocked, unless a sign-in replaced it
            /\ flag' \in {flag, flag \/ cookie = u}
    /\ UNCHANGED <<contact, cookie, fresh, page, me, store, held, change, history>>

StoreKit(t) ==
    /\ req[t].kind = "kit" /\ req[t].at = "checked"
    /\ identity' = [identity EXCEPT ![req[t].user] =
                       Vault(@.key, @.salt, @.dek, @.priv,
                             Kit(req[t].salt, req[t].held.dek), @.disabled)]
    /\ req' = [req EXCEPT ![t] = Past(@, "ok", @.user, @.held)]
    /\ UNCHANGED <<contact, cookie, flag, fresh, page, me, store, held, change, history>>

StoreContact(t) ==
    /\ req[t].kind = "contact" /\ req[t].at = "checked"
    /\ contact' = [contact EXCEPT ![req[t].user] = req[t].held.dek]
    /\ req' = [req EXCEPT ![t] = Idle]
    /\ UNCHANGED <<identity, cookie, flag, fresh, page, me, store, held, change, history>>

StatementFails(t) ==
    /\ DbFailures /\ req[t].at \in {"sent", "checked"}
    /\ req' = [req EXCEPT ![t] = Idle]
    /\ UNCHANGED <<rows, cookie, flag, fresh, page, me, store, held, change, history>>

DisableRecovery(t) ==
    /\ page[t] = "app" /\ cookie # None /\ HasVault(cookie)
    /\ identity' = [identity EXCEPT ![cookie] =
                       Vault(@.key, @.salt, @.dek, @.priv, @.kit, ~@.disabled)]
    /\ UNCHANGED <<contact, cookie, flag, fresh, page, me, store, held, req, change, history>>

RemoveContact(t) ==
    /\ page[t] = "app" /\ flag /\ contact[cookie] # None
    /\ contact' = [contact EXCEPT ![cookie] = None]
    /\ UNCHANGED <<identity, cookie, flag, fresh, page, me, store, held, req, change, history>>

\* ChangeVaultKey for a client on another device that knows the key: the
\* handler compares with the row it read, then overwrites the row by id.
ChangeCheck(u, k) ==
    /\ change[u] = None /\ HasVault(u) /\ identity[u].priv /\ Generate
    /\ change' = [change EXCEPT ![u] = [key |-> k, salt |-> fresh, dek |-> identity[u].dek]]
    /\ UNCHANGED <<rows, cookie, flag, page, me, store, held, req, history>>

ChangeWrite(u) ==
    /\ change[u] # None
    /\ identity' = [identity EXCEPT ![u] =
          Vault(change[u].key, change[u].salt, change[u].dek, TRUE, @.kit, @.disabled)]
    /\ change' = [change EXCEPT ![u] = None]
    /\ UNCHANGED <<contact, cookie, flag, fresh, page, me, store, held, req, history>>

----------------------------------------------------------------------------
(* What a tab does with the answer.                                        *)

NewWords(kind) == kind \in {"setup", "kit", "recover"}

Done(t) == req' = [req EXCEPT ![t] = Idle]

\* Keys are in memory, the words are on the screen.
AnswerSetup(t) ==
    /\ req[t].kind = "setup" /\ req[t].at = "ok"
    /\ store' = [store EXCEPT ![t] = req[t].held]
    /\ page' = [page EXCEPT ![t] = "gate"]
    /\ shown' = shown \cup {req[t].salt}
    /\ Done(t)
    /\ UNCHANGED <<rows, cookie, flag, fresh, me, held, change, lost, crossed>>

AnswerUnlock(t) ==
    /\ req[t].kind = "unlock" /\ req[t].at = "ok"
    /\ store' = [store EXCEPT ![t] = req[t].held]
    /\ page' = [page EXCEPT ![t] = Where(me[t], req[t].held)]
    /\ Done(t)
    /\ UNCHANGED <<rows, cookie, flag, fresh, me, held, change, history>>

\* The verified DEK is wrapped with new words at once.
AnswerVerify(t) ==
    /\ req[t].kind = "verify" /\ req[t].at = "ok" /\ Generate
    /\ page' = [page EXCEPT ![t] = "generating"]
    /\ Send(t, "kit", None, fresh, req[t].held)
    /\ UNCHANGED <<rows, cookie, flag, me, store, held, change, history>>

AnswerWords(t) ==
    /\ req[t].kind = "words" /\ req[t].at = "ok"
    /\ held' = [held EXCEPT ![t] = req[t].held]
    /\ page' = [page EXCEPT ![t] = "newkey"]
    /\ Done(t)
    /\ UNCHANGED <<rows, cookie, flag, fresh, me, store, change, history>>

\* Mutant: the regenerated kit is not put on the screen.
AnswerNewWordsUnseen(t) ==
    /\ req[t].kind \in {"kit", "recover"} /\ req[t].at = "ok"
    /\ page' = [page EXCEPT ![t] = "gate"]
    /\ Done(t)
    /\ UNCHANGED <<rows, cookie, flag, fresh, me, store, held, change, history>>

AnswerNewWords(t) ==
    /\ req[t].kind \in {"kit", "recover"} /\ req[t].at = "ok"
    /\ shown' = shown \cup {req[t].salt}
    /\ page' = [page EXCEPT ![t] = "gate"]
    /\ Done(t)
    /\ UNCHANGED <<rows, cookie, flag, fresh, me, store, held, change, lost, crossed>>

LoseReply(t) ==
    /\ Lossy /\ req[t].at = "ok"
    /\ req' = [req EXCEPT ![t] = Idle]
    /\ lost' = lost \cup (IF NewWords(req[t].kind) THEN {req[t].salt} ELSE {})
    /\ UNCHANGED <<rows, cookie, flag, fresh, page, me, store, held, change,
                   shown, crossed>>

\* A reload empties the tab's memory.
Reload(t) ==
    /\ Lossy /\ Quiet(t)
    /\ store' = [store EXCEPT ![t] = None] /\ held' = [held EXCEPT ![t] = None]
    /\ me' = [me EXCEPT ![t] = Me]
    /\ page' = [page EXCEPT ![t] = Where(Me, None)]
    /\ UNCHANGED <<rows, cookie, flag, fresh, req, change, history>>

----------------------------------------------------------------------------
Submit(t) ==
    \/ \E k \in Keys : \/ SubmitSetup(t, k) \/ SubmitUnlock(t, k)
                       \/ SubmitVerify(t, k) \/ SubmitNewKey(t, k)
    \/ OpenVerify(t) \/ OpenRecover(t) \/ SubmitContact(t)
    \/ \E w \in shown : SubmitWords(t, w)

Handle(t) ==
    \/ Arrive(t) \/ InsertVault(t) \/ StoreKit(t) \/ StoreContact(t)
    \/ StatementFails(t) \/ DisableRecovery(t) \/ RemoveContact(t)

Answer(t) ==
    \/ AnswerSetup(t) \/ AnswerUnlock(t) \/ AnswerVerify(t) \/ AnswerWords(t)
    \/ AnswerNewWords(t) \/ LoseReply(t) \/ Reload(t)

Move(t) ==
    \/ Navigate(t) \/ SignOut(t) \/ Lock(t)
    \/ \E u \in Users : Login(t, u)

Next ==
    \/ \E t \in Tabs : Submit(t) \/ Handle(t) \/ Answer(t) \/ Move(t)
    \/ \E u \in Users : ChangeWrite(u) \/ \E k \in Keys : ChangeCheck(u, k)
    \/ Expire

Spec == Init /\ [][Next]_vars

----------------------------------------------------------------------------
(* Properties.                                                             *)

\* The DEK of a vault is settled when the vault is set up: two tabs that set
\* it up at once, recovery and a change of key in any order leave every
\* unlocked tab with the DEK that the row holds (queries/auth.ts, auth.go).
TabsHoldTheirDek ==
    \A t \in Tabs : store[t] # None /\ store[t].owner \notin crossed =>
        /\ HasVault(store[t].owner)
        /\ store[t].dek = identity[store[t].owner].dek

\* Kit and trusted contact open the vault they belong to, however often it was
\* regenerated or recovered meanwhile (recovery.go, routes/recover/kit.tsx).
BackupsOpenVault ==
    \A u \in Users \ crossed : HasVault(u) =>
        /\ identity[u].kit.dek = identity[u].dek
        /\ contact[u] \in {None, identity[u].dek}

\* The words of the stored kit have been on a screen, will be when the answer
\* arrives, or were in an answer that was lost (RecoveryKitModal.tsx).
KitWordsReachUser ==
    \A u \in Users : HasVault(u) =>
        \/ identity[u].kit.words \in shown \cup lost
        \/ \E t \in Tabs : /\ NewWords(req[t].kind) /\ req[t].at = "ok"
                           /\ req[t].salt = identity[u].kit.words

\* The vaults of a step that keeps every DEK, but for those where a tab has sent
\* another account's DEK.
KeepsDeks ==
    \A u \in Users : HasVault(u) =>
        u \in crossed' \/ (identity'[u] # None /\ identity'[u].dek = identity[u].dek)

\* No step replaces the DEK of a vault that exists, or removes it: neither a
\* recovery, nor a change of key that was checked before it, nor another tab's
\* set-up (auth.go, recovery.go).
DekIsForLife == [][KeepsDeks]_vars

\* What the recovery pages promise, "Choose a recovery method to regain access to
\* your secrets" (routes/recover/index.tsx): a vault opens with the key it was
\* last given.  Unlocking needs the private key as well as the DEK.
VaultsOpen == \A u \in Users : HasVault(u) => identity[u].priv
=============================================================================
