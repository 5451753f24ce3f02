---------------------------- MODULE VaultProofs ----------------------------
(***************************************************************************)
(* Proofs about VaultKeys, for any sets of users, tabs and keys and any    *)
(* number of random values, and about RecoveryRequests, for any number of  *)
(* devices, tabs, contacts and requests; both with or without failures.    *)
(*                                                                         *)
(* A DEK travels: from a row to a tab's memory, into a request, into a     *)
(* kit, a contact's copy or another device's change, and back into a row.  *)
(* The invariant follows it: wherever a DEK is carried it is still the one *)
(* that its owner's row holds, as long as no tab has sent another user's   *)
(* DEK under the owner's session.                                          *)
(*                                                                         *)
(* Recovery by a contact takes two arguments.  A request that gets as far  *)
(* as an approval has waited, and so has every call that saw it there;     *)
(* nothing undoes the waiting.  And as long as no two calls about a        *)
(* request meet, the one under way knows what the row says: it has         *)
(* replaced nothing yet, or it is the one that did.                        *)
(***************************************************************************)
EXTENDS VaultKeys, RecoveryRequests, TLAPS


----------------------------------------------------------------------------
(* The inductive invariants.                                               *)

\* What a request carries at each stage, where the rows are id.
Fits(q, id) ==
    /\ q.at \in {"checked", "ok"} => q.user \in Users
    /\ q.kind \in {"setup", "unlock", "verify", "recover"} => q.key \in Keys
    /\ q.kind \in {"kit", "recover", "contact"} => q.held \in Deks
    /\ q.at = "ok" => q.held \in Deks
    /\ q.kind \in {"kit", "contact"} /\ q.at = "checked" => id[q.user] # None

\* A tab on the page for a new key has unwrapped a DEK.
Shape(t) == Fits(req[t], identity) /\ (page[t] = "newkey" => held[t] \in Deks)

\* The flag belongs to a session, and a change to a vault.
Sessions ==
    /\ flag => cookie # None
    /\ \A u \in Users : change[u] # None => HasVault(u)

TypeInv == TypeOK /\ Sessions /\ \A t \in Tabs : Shape(t)

\* The DEK h is the one that its owner's row in id holds, unless DEKs were
\* crossed there.
Genuine(h, id, cr) ==
    h # None /\ h.owner \notin cr => id[h.owner] # None /\ id[h.owner].dek = h.dek

\* Every DEK a tab carries is genuine, and a request past its checks carries
\* that of the user it was checked for.
Carried(t) ==
    /\ Genuine(store[t], identity, crossed)
    /\ Genuine(held[t], identity, crossed)
    /\ req[t] # Idle => Genuine(req[t].held, identity, crossed)
    /\ req[t].kind \in {"kit", "contact"} /\ req[t].at = "checked"
          /\ req[t].user \notin crossed => req[t].held.owner = req[t].user

\* The copies of a vault's DEK: kit, contact and the change under way.
Backed(u) ==
    u \notin crossed =>
        /\ HasVault(u) => identity[u].kit.dek = identity[u].dek
        /\ contact[u] # None => HasVault(u) /\ contact[u] = identity[u].dek
        /\ change[u] # None => change[u].dek = identity[u].dek

DekInv == (\A t \in Tabs : Carried(t)) /\ (\A u \in Users : Backed(u))


----------------------------------------------------------------------------
(* Types.                                                                  *)

LEMMA InitType == Init => TypeInv
<1> SUFFICES ASSUME Init PROVE TypeInv
  OBVIOUS
<1>1. TypeOK
  BY DEF Init, TypeOK, Pages
<1>2. Sessions /\ \A t \in Tabs : Shape(t)
  BY DEF Init, Sessions, Shape, Fits, Idle
<1> QED BY <1>1, <1>2 DEF TypeInv

LEMMA MoveType == ASSUME TypeInv, NEW t \in Tabs, Move(t) PROVE TypeInv'
<1> USE ConstantsAssumption, NoneAssumption
    DEF TypeInv, TypeOK, Sessions, Shape, Fits, rows, history, HasVault, MeOf, Me, Where, Pages,
       Requests, Idle,
           Quiet, Deks, Vaults, Memories, Changes
<1>1. ASSUME Navigate(t) PROVE TypeInv'
  <2>1. PICK m \in {Me} \cup ({me[t]} \ {None}) :
            me' = [me EXCEPT ![t] = m] /\ page' = [page EXCEPT ![t] = Where(m, store[t])]
    BY <1>1 DEF Navigate
  <2>2. m \in Memories \cup {None}
    OBVIOUS
  <2>3. page' \in [Tabs -> Pages] /\ \A s \in Tabs : page'[s] = "newkey" => page[s] = "newkey"
    BY <2>1
  <2> QED BY <1>1, <2>1, <2>2, <2>3 DEF Navigate
<1>2. ASSUME SignOut(t) PROVE TypeInv'
  BY <1>2 DEF SignOut
<1>3. ASSUME Lock(t) PROVE TypeInv'
  BY <1>3 DEF Lock
<1>4. ASSUME NEW u \in Users, Login(t, u) PROVE TypeInv'
  BY <1>4 DEF Login
<1> QED BY <1>1, <1>2, <1>3, <1>4 DEF Move

LEMMA SubmitType == ASSUME TypeInv, NEW t \in Tabs, Submit(t) PROVE TypeInv'
<1> USE ConstantsAssumption, NoneAssumption
    DEF TypeInv, TypeOK, Sessions, Shape, Fits, rows, history, HasVault, MeOf, Me, Where, Pages,
       Requests, Idle,
           Quiet, Deks, Vaults, Memories, Changes,
           Generate, Send, KeyForm, WordsForm
<1>1. ASSUME NEW k \in Keys, SubmitSetup(t, k) PROVE TypeInv'
  BY <1>1 DEF SubmitSetup
<1>2. ASSUME NEW k \in Keys, SubmitUnlock(t, k) PROVE TypeInv'
  BY <1>2 DEF SubmitUnlock
<1>3. ASSUME NEW k \in Keys, SubmitVerify(t, k) PROVE TypeInv'
  BY <1>3 DEF SubmitVerify
<1>4. ASSUME NEW k \in Keys, SubmitNewKey(t, k) PROVE TypeInv'
  BY <1>4 DEF SubmitNewKey
<1>5. ASSUME OpenVerify(t) PROVE TypeInv'
  BY <1>5 DEF OpenVerify
<1>6. ASSUME OpenRecover(t) PROVE TypeInv'
  BY <1>6 DEF OpenRecover
<1>7. ASSUME SubmitContact(t) PROVE TypeInv'
  BY <1>7 DEF SubmitContact
<1>8. ASSUME NEW w \in shown, SubmitWords(t, w) PROVE TypeInv'
  BY <1>8 DEF SubmitWords
<1> QED BY <1>1, <1>2, <1>3, <1>4, <1>5, <1>6, <1>7, <1>8 DEF Submit

\* A row that is written is a row, and nobody loses theirs.
LEMMA RowWritten ==
    ASSUME TypeOK, NEW u \in Users, NEW v \in Vaults, identity' = [identity EXCEPT ![u] = v]
    PROVE  /\ identity' \in [Users -> Vaults \cup {None}]
           /\ identity'[u] = v /\ \A x \in Users : x # u => identity'[x] = identity[x]
           /\ \A x \in Users : HasVault(x) => HasVault(x)'
<1>1. identity \in [Users -> Vaults \cup {None}] /\ v # None
  BY NoneAssumption DEF TypeOK
<1> HIDE DEF Vaults
<1> QED BY <1>1 DEF HasVault

\* The fields of a row that is written,
LEMMA VaultFields ==
    ASSUME NEW k \in Keys, NEW s \in Nat, NEW d \in Nat, NEW p \in BOOLEAN,
           NEW w \in Nat, NEW e \in Nat, NEW o \in BOOLEAN
    PROVE  /\ Vault(k, s, d, p, Kit(w, e), o) \in Vaults
           /\ Vault(k, s, d, p, Kit(w, e), o).dek = d
           /\ Vault(k, s, d, p, Kit(w, e), o).kit.dek = e
           /\ Vault(k, s, d, p, Kit(w, e), o).kit.words = w
  BY DEF Vault, Kit, Vaults

\* and of one that is there.
LEMMA RowRead ==
    ASSUME TypeOK, NEW u \in Users, HasVault(u)
    PROVE  /\ identity[u] \in Vaults
           /\ identity[u].key \in Keys /\ identity[u].salt \in Nat /\ identity[u].dek \in Nat
           /\ identity[u].priv \in BOOLEAN /\ identity[u].disabled \in BOOLEAN
           /\ identity[u].kit.words \in Nat /\ identity[u].kit.dek \in Nat
           /\ identity[u].kit = Kit(identity[u].kit.words, identity[u].kit.dek)
<1>1. identity[u] \in Vaults
  BY DEF TypeOK, HasVault
<1>2. identity[u].kit \in [words : Nat, dek : Nat]
  BY <1>1 DEF Vaults
<1> QED BY <1>1, <1>2 DEF Vaults, Kit

\* The fields of a request that has got further.
LEMMA PastFields ==
    ASSUME NEW q \in Requests, NEW at \in {"checked", "ok"}, NEW u \in Users,
           NEW h \in Deks \cup {None}
    PROVE  /\ Past(q, at, u, h) \in Requests
           /\ Past(q, at, u, h).kind = q.kind /\ Past(q, at, u, h).at = at
           /\ Past(q, at, u, h).user = u /\ Past(q, at, u, h).key = q.key
           /\ Past(q, at, u, h).salt = q.salt /\ Past(q, at, u, h).held = h
  BY DEF Past, Requests

\* What the server writes, and that nobody loses a vault, are all that a handler
\* needs to show of its request's new form.
LEMMA HandlerType ==
    ASSUME TypeInv, NEW t \in Tabs, NEW q \in Requests \cup {Idle},
           req' = [req EXCEPT ![t] = q], Fits(q, identity'),
           identity' \in [Users -> Vaults \cup {None}],
           \A x \in Users : HasVault(x) => HasVault(x)',
           flag' \in BOOLEAN, flag' => cookie # None, crossed' \subseteq Users,
           UNCHANGED <<contact, cookie, fresh, page, me, store, held, change, shown, lost>>
    PROVE  TypeInv'
<1>1. TypeOK'
  <2> HIDE DEF Requests, Vaults, Deks, Memories, Changes, Pages, Idle
  <2> QED BY DEF TypeInv, TypeOK
<1>2. Sessions'
  <2> HIDE DEF HasVault
  <2> QED BY DEF TypeInv, Sessions
<1>3. ASSUME NEW s \in Tabs PROVE Shape(s)'
  <2>1. held'[s] = held[s] /\ page'[s] = page[s] /\ Shape(s)
    BY DEF TypeInv
  <2>2. CASE s = t
    <3>1. req'[s] = q
      BY <2>2 DEF TypeInv, TypeOK
    <3> QED BY <2>1, <2>2, <3>1 DEF Shape
  <2>3. CASE s # t
    <3>1. req'[s] = req[s] /\ req[s] \in Requests \cup {Idle}
      BY <2>3 DEF TypeInv, TypeOK
    <3>2. CASE req[s] = Idle
      BY <2>1, <3>1, <3>2 DEF Shape, Fits, Idle
    <3>3. CASE req[s] \in Requests
      <4>1. req[s].kind \in {"kit", "contact"} /\ req[s].at = "checked"
            => identity'[req[s].user] # None
        BY <2>1, <3>3 DEF Shape, Fits, HasVault
      <4> QED BY <2>1, <3>1, <4>1 DEF Shape, Fits
    <3> QED BY <3>1, <3>2, <3>3
  <2> QED BY <2>2, <2>3
<1> QED BY <1>1, <1>2, <1>3 DEF TypeInv

\* The user of a request and the one of the session, where they are needed.
LEMMA Callers ==
    ASSUME TypeInv, NEW t \in Tabs, req[t].at # "none"
    PROVE  /\ req[t] \in Requests /\ req[t].salt \in Nat /\ req[t].held \in Deks \cup {None}
           /\ req[t].at \in {"sent", "checked", "ok"}
           /\ req[t].kind \in {"setup", "unlock", "verify", "kit", "words", "recover", "contact"}
           /\ Fits(req[t], identity)
  BY DEF TypeInv, TypeOK, Shape, Requests, Idle

LEMMA ArriveType ==
    ASSUME TypeInv, NEW t \in Tabs, Arrive(t)
    PROVE  TypeInv'
<1> DEFINE q == req[t]
<1>1. /\ q \in Requests /\ q.salt \in Nat /\ q.held \in Deks \cup {None}
      /\ q.kind \in {"setup", "unlock", "verify", "kit", "words", "recover", "contact"}
      /\ Fits(q, identity)
  BY Callers DEF Arrive
<1>2. /\ TypeOK /\ cookie \in Users \cup {None} /\ flag \in BOOLEAN /\ (flag => cookie # None)
      /\ crossed \subseteq Users /\ identity \in [Users -> Vaults \cup {None}]
  BY DEF TypeInv, TypeOK, Sessions
<1> DEFINE Rest == UNCHANGED <<cookie, fresh, page, me, store, held, change, shown, lost>>
<1>3. ASSUME Refused(t), Rest PROVE TypeInv'
  <2>1. Fits(Idle, identity') /\ \A x \in Users : HasVault(x) => HasVault(x)'
    BY <1>3 DEF Refused, Fits, Idle, rows, HasVault
  <2> QED BY <1>2, <1>3, <2>1, HandlerType DEF Refused, rows
<1>4. CASE cookie # None /\ Rest
  <2>0. cookie \in Users
    BY <1>2, <1>4
  <2>1. ASSUME ArriveSetup(t) PROVE TypeInv'
    <3>1. CASE Reached(t, "checked", None) /\ UNCHANGED <<rows, flag, crossed>>
      <4>1. Past(q, "checked", cookie, None) \in Requests
            /\ Fits(Past(q, "checked", cookie, None), identity')
        BY <1>1, <2>0, <2>1, PastFields DEF Fits, ArriveSetup
      <4> QED BY <1>2, <1>4, <3>1, <4>1, HandlerType DEF Reached, rows, HasVault
    <3> QED BY <1>3, <1>4, <2>1, <3>1 DEF ArriveSetup
  <2>2. ASSUME ArriveUnlock(t) PROVE TypeInv'
    <3> DEFINE h == OwnDek(identity[cookie].dek)
    <3>1. CASE HasVault(cookie) /\ flag' = TRUE /\ UNCHANGED <<rows, crossed>>
      <4>1. CASE req' = [req EXCEPT ![t] = Idle]
        BY <1>2, <1>4, <3>1, <4>1, HandlerType DEF rows, HasVault, Fits, Idle
      <4>2. CASE Reached(t, "ok", h)
        <5>1. h \in Deks
          BY <1>2, <2>0, <3>1, RowRead DEF OwnDek, Deks
        <5>2. Past(q, "ok", cookie, h) \in Requests /\ Fits(Past(q, "ok", cookie, h), identity')
          BY <1>1, <2>0, <2>2, <5>1, PastFields DEF Fits, ArriveUnlock
        <5> QED BY <1>2, <1>4, <3>1, <4>2, <5>2, HandlerType DEF Reached, rows, HasVault
      <4> QED BY <2>2, <3>1, <4>1, <4>2, <1>3, <1>4 DEF ArriveUnlock
    <3> QED BY <1>3, <1>4, <2>2, <3>1 DEF ArriveUnlock
  <2>3. ASSUME ArriveWords(t) PROVE TypeInv'
    <3> DEFINE h == OwnDek(identity[cookie].kit.dek)
    <3>1. CASE HasVault(cookie) /\ Reached(t, "ok", h) /\ UNCHANGED <<rows, flag, crossed>>
      <4>1. h \in Deks
        BY <1>2, <2>0, <3>1, RowRead DEF OwnDek, Deks
      <4>2. Past(q, "ok", cookie, h) \in Requests /\ Fits(Past(q, "ok", cookie, h), identity')
        BY <1>1, <2>0, <2>3, <4>1, PastFields DEF Fits, ArriveWords
      <4> QED BY <1>2, <1>4, <3>1, <4>2, HandlerType DEF Reached, rows, HasVault
    <3> QED BY <1>3, <1>4, <2>3, <3>1 DEF ArriveWords
  <2>4. ASSUME ArriveKitOrContact(t) PROVE TypeInv'
    <3>1. CASE HasVault(cookie) /\ Reached(t, "checked", q.held) /\ Crossing(t)
          /\ UNCHANGED <<rows, flag>>
      <4>1. identity'[cookie] # None
        BY <3>1 DEF rows, HasVault
      <4>3. crossed' \subseteq Users
        BY <1>2, <2>0, <3>1 DEF Crossing
      <4>2. /\ Past(q, "checked", cookie, q.held) \in Requests
            /\ Fits(Past(q, "checked", cookie, q.held), identity')
        BY <1>1, <2>0, <2>4, <4>1, PastFields DEF Fits, ArriveKitOrContact
      <4> QED BY <1>2, <1>4, <3>1, <4>3, <4>2, HandlerType DEF Reached, rows, HasVault
    <3> QED BY <1>3, <1>4, <2>4, <3>1 DEF ArriveKitOrContact
  <2>5. ASSUME ArriveRecover(t) PROVE TypeInv'
    <3>1. q.held \in Deks /\ q.held.dek \in Nat /\ q.key \in Keys
      BY <1>1, <2>5 DEF ArriveRecover, Fits, Deks
    <3>5. q.kind = "recover"
      BY <2>5 DEF ArriveRecover
    <3>2. /\ identity' \in [Users -> Vaults \cup {None}]
          /\ \A x \in Users : HasVault(x) => HasVault(x)'
      <4> DEFINE v == Vault(q.key, q.salt, q.held.dek, FALSE, Kit(q.salt, q.held.dek),
                            identity[cookie].disabled)
      <4>1. CASE HasVault(cookie)
        <5>1. v \in Vaults
          BY <1>1, <1>2, <2>0, <3>1, <4>1, RowRead DEF Vault, Kit, Vaults
        <5>2. identity' = [identity EXCEPT ![cookie] = v]
          BY <2>5, <4>1 DEF ArriveRecover
        <5> QED BY <1>2, <2>0, <5>1, <5>2, RowWritten
      <4>2. CASE ~HasVault(cookie)
        BY <1>2, <2>5, <4>2 DEF ArriveRecover, HasVault
      <4> QED BY <4>1, <4>2
    <3>3. /\ Past(q, "ok", cookie, q.held) \in Requests
          /\ Fits(Past(q, "ok", cookie, q.held), identity')
      BY <1>1, <2>0, <3>1, <3>5, PastFields DEF Fits
    <3>4. crossed' \subseteq Users
      BY <1>2, <2>0, <2>5 DEF ArriveRecover, Crossing
    <3> QED BY <1>2, <1>4, <2>5, <3>2, <3>3, <3>4, HandlerType DEF ArriveRecover, Reached
  <2> QED BY <1>4, <2>1, <2>2, <2>3, <2>4, <2>5 DEF Arrive
<1> QED BY <1>3, <1>4 DEF Arrive

LEMMA HandleType == ASSUME TypeInv, NEW t \in Tabs, Handle(t) PROVE TypeInv'
<1> DEFINE q == req[t]
<1>0. /\ TypeOK /\ cookie \in Users \cup {None} /\ flag \in BOOLEAN /\ (flag => cookie # None)
      /\ crossed \subseteq Users /\ identity \in [Users -> Vaults \cup {None}]
  BY DEF TypeInv, TypeOK, Sessions
<1>1. ASSUME InsertVault(t) PROVE TypeInv'
  <2>1. q \in Requests /\ q.user \in Users /\ q.key \in Keys /\ q.salt \in Nat
    BY <1>1, Callers DEF InsertVault, Fits
  <2>2. CASE HasVault(q.user)
    <3>1. Fits(Idle, identity') /\ \A x \in Users : HasVault(x) => HasVault(x)'
      BY <1>1, <2>2 DEF InsertVault, Fits, Idle, HasVault
    <3> QED BY <1>0, <1>1, <2>2, <3>1, HandlerType DEF InsertVault, history
  <2>3. CASE ~HasVault(q.user)
    <3> DEFINE n == q.salt
               h == [owner |-> q.user, dek |-> n]
               v == Vault(q.key, n, n, TRUE, Kit(n, n), FALSE)
    <3>1. v \in Vaults /\ h \in Deks
      BY <2>1 DEF Vault, Kit, Vaults, Deks
    <3>2. identity' = [identity EXCEPT ![q.user] = v]
          /\ req' = [req EXCEPT ![t] = Past(q, "ok", q.user, h)]
      BY <1>1, <2>3 DEF InsertVault
    <3>3. Past(q, "ok", q.user, h) \in Requests /\ Fits(Past(q, "ok", q.user, h), identity')
      BY <1>1, <2>1, <3>1, PastFields DEF InsertVault, Fits
    <3>4. flag' \in BOOLEAN /\ (flag' => cookie # None)
      <4>1. flag' \in {flag, flag \/ cookie = q.user}
        BY <1>1, <2>3 DEF InsertVault
      <4>2. CASE cookie = q.user
        BY <1>0, <2>1, <4>1, <4>2, ConstantsAssumption
      <4>3. CASE cookie # q.user
        BY <1>0, <4>1, <4>3
      <4> QED BY <4>2, <4>3
    <3>5. /\ identity' \in [Users -> Vaults \cup {None}]
          /\ \A x \in Users : HasVault(x) => HasVault(x)'
      BY <1>0, <2>1, <3>1, <3>2, RowWritten
    <3> QED BY <1>0, <1>1, <3>2, <3>3, <3>4, <3>5, HandlerType DEF InsertVault, history
  <2> QED BY <2>2, <2>3
<1>2. ASSUME StoreKit(t) PROVE TypeInv'
  <2>1. /\ q \in Requests /\ q.user \in Users /\ q.held \in Deks /\ q.held.dek \in Nat
        /\ q.salt \in Nat /\ HasVault(q.user)
    BY <1>2, Callers DEF StoreKit, Fits, Deks, HasVault
  <2> DEFINE row == identity[q.user]
             v == Vault(row.key, row.salt, row.dek, row.priv, Kit(q.salt, q.held.dek), row.disabled)
  <2>2. v \in Vaults
    BY <1>0, <2>1, RowRead DEF Vault, Kit, Vaults
  <2>3. identity' = [identity EXCEPT ![q.user] = v]
        /\ req' = [req EXCEPT ![t] = Past(q, "ok", q.user, q.held)]
    BY <1>2 DEF StoreKit
  <2>4. Past(q, "ok", q.user, q.held) \in Requests /\ Fits(Past(q, "ok", q.user, q.held), identity')
    BY <1>2, <2>1, PastFields DEF StoreKit, Fits
  <2>5. /\ identity' \in [Users -> Vaults \cup {None}]
        /\ \A x \in Users : HasVault(x) => HasVault(x)'
    BY <1>0, <2>1, <2>2, <2>3, RowWritten
  <2> QED BY <1>0, <1>2, <2>3, <2>4, <2>5, HandlerType DEF StoreKit, history
<1>3. ASSUME StoreContact(t) PROVE TypeInv'
  BY <1>3 DEF StoreContact, TypeInv, TypeOK, Sessions, Shape, Fits, rows, history, HasVault,
     Requests, Idle,
           Vaults, Deks
<1>4. ASSUME StatementFails(t) PROVE TypeInv'
  BY <1>4 DEF StatementFails, TypeInv, TypeOK, Sessions, Shape, Fits, rows, history, HasVault,
     Requests, Idle,
           Vaults, Deks
<1>5. ASSUME DisableRecovery(t) PROVE TypeInv'
  <2>1. cookie \in Users /\ HasVault(cookie)
    BY <1>0, <1>5 DEF DisableRecovery
  <2> DEFINE row == identity[cookie]
             v == Vault(row.key, row.salt, row.dek, row.priv, row.kit, ~row.disabled)
  <2>2. v \in Vaults
    BY <1>0, <2>1, RowRead DEF Vault, Kit, Vaults
  <2>3. identity' = [identity EXCEPT ![cookie] = v]
    BY <1>5 DEF DisableRecovery
  <2>4. /\ identity' \in [Users -> Vaults \cup {None}]
        /\ \A x \in Users : HasVault(x) => HasVault(x)'
    BY <1>0, <2>1, <2>2, <2>3, RowWritten
  <2> HIDE DEF Vaults
  <2> QED BY <1>5, <2>1, <2>4 DEF DisableRecovery, TypeInv, TypeOK, Sessions, Shape, Fits, rows,
      history, HasVault, Requests, Idle,
           Deks
<1>6. ASSUME RemoveContact(t) PROVE TypeInv'
  BY <1>6 DEF RemoveContact, TypeInv, TypeOK, Sessions, Shape, Fits, rows, history, HasVault,
     Requests, Idle,
           Vaults, Deks
<1> QED BY <1>1, <1>2, <1>3, <1>4, <1>5, <1>6, ArriveType DEF Handle

LEMMA AnswerType == ASSUME TypeInv, NEW t \in Tabs, Answer(t) PROVE TypeInv'
<1> USE ConstantsAssumption, NoneAssumption
    DEF TypeInv, TypeOK, Sessions, Shape, Fits, rows, history, HasVault, MeOf, Me, Where, Pages,
       Requests, Idle,
           Quiet, Deks, Vaults, Memories, Changes,
           Generate, Send, Done, NewWords
<1>1. ASSUME AnswerSetup(t) PROVE TypeInv'
  <2>1. req[t] \in Requests
    BY <1>1 DEF AnswerSetup
  <2>2. shown' \subseteq Nat /\ lost' \subseteq Nat
    BY <1>1, <2>1 DEF AnswerSetup
  <2> QED BY <1>1, <2>1, <2>2 DEF AnswerSetup
<1>2. ASSUME AnswerUnlock(t) PROVE TypeInv'
  BY <1>2 DEF AnswerUnlock
<1>3. ASSUME AnswerVerify(t) PROVE TypeInv'
  BY <1>3 DEF AnswerVerify
<1>4. ASSUME AnswerWords(t) PROVE TypeInv'
  BY <1>4 DEF AnswerWords
<1>5. ASSUME AnswerNewWords(t) PROVE TypeInv'
  <2>1. req[t] \in Requests
    BY <1>5 DEF AnswerNewWords
  <2>2. shown' \subseteq Nat /\ lost' \subseteq Nat
    BY <1>5, <2>1 DEF AnswerNewWords
  <2> QED BY <1>5, <2>1, <2>2 DEF AnswerNewWords
<1>6. ASSUME LoseReply(t) PROVE TypeInv'
  <2>1. req[t] \in Requests
    BY <1>6 DEF LoseReply
  <2>2. shown' \subseteq Nat /\ lost' \subseteq Nat
    BY <1>6, <2>1 DEF LoseReply
  <2> QED BY <1>6, <2>1, <2>2 DEF LoseReply
<1>7. ASSUME Reload(t) PROVE TypeInv'
  BY <1>7 DEF Reload
<1> QED BY <1>1, <1>2, <1>3, <1>4, <1>5, <1>6, <1>7 DEF Answer

LEMMA ChangeType ==
    ASSUME TypeInv, NEW u \in Users,
           ChangeWrite(u) \/ \E k \in Keys : ChangeCheck(u, k)
    PROVE  TypeInv'
<1>0. TypeOK
  BY DEF TypeInv
<1>1. CASE ChangeWrite(u)
  <2>1. change[u] \in Changes /\ HasVault(u)
    BY <1>1 DEF ChangeWrite, TypeInv, TypeOK, Sessions
  <2> DEFINE row == identity[u]
             v == Vault(change[u].key, change[u].salt, change[u].dek, TRUE, row.kit, row.disabled)
  <2>2. v \in Vaults
    BY <1>0, <2>1, RowRead DEF Changes, Vault, Kit, Vaults
  <2>3. /\ identity' \in [Users -> Vaults \cup {None}]
        /\ \A x \in Users : HasVault(x) => HasVault(x)'
    BY <1>0, <1>1, <2>1, <2>2, RowWritten DEF ChangeWrite
  <2> HIDE DEF Vaults
  <2> QED BY <1>1, <2>1, <2>3 DEF ChangeWrite, TypeInv, TypeOK, Sessions, Shape, Fits, rows,
      history, HasVault, Changes
<1>2. CASE \E k \in Keys : ChangeCheck(u, k)
  BY <1>0, <1>2, RowRead DEF ChangeCheck, Generate, TypeInv, TypeOK, Sessions, Shape, Fits, rows,
     history, HasVault, Changes
<1> QED BY <1>1, <1>2

LEMMA NextType == TypeInv /\ [Next]_vars => TypeInv'
<1> SUFFICES ASSUME TypeInv, [Next]_vars PROVE TypeInv'
  OBVIOUS
<1>1. ASSUME Expire PROVE TypeInv'
  BY <1>1 DEF Expire, TypeInv, TypeOK, Sessions, Shape, Fits, HasVault, rows, history
<1>2. CASE UNCHANGED vars
  BY <1>2 DEF vars, TypeInv, TypeOK, Sessions, Shape, Fits, HasVault
<1> QED BY <1>1, <1>2, MoveType, SubmitType, HandleType, AnswerType, ChangeType DEF Next

\* Every variable keeps its type, through every order of calls, answers and lost answers.
THEOREM TypeCorrect == Spec => []TypeOK
<1>1. Init => TypeInv
  BY InitType
<1>2. TypeInv /\ [Next]_vars => TypeInv'
  BY NextType
<1>3. TypeInv => TypeOK
  BY DEF TypeInv
<1> QED BY <1>1, <1>2, <1>3, PTL DEF Spec

----------------------------------------------------------------------------
(* The DEK of a vault never changes.                                       *)

\* What every step keeps.
Settled == crossed \subseteq crossed' /\ KeepsDeks

\* A DEK that is genuine stays so.
LEMMA GenuineKept ==
    ASSUME Settled, NEW h \in Deks \cup {None}, Genuine(h, identity, crossed)
    PROVE  Genuine(h, identity', crossed')
<1> SUFFICES ASSUME h # None, h.owner \notin crossed'
             PROVE  identity'[h.owner] # None /\ identity'[h.owner].dek = h.dek
  BY DEF Genuine
<1>1. h.owner \in Users
  BY DEF Deks
<1>2. HasVault(h.owner) /\ identity[h.owner].dek = h.dek
  BY DEF Genuine, Settled, KeepsDeks, HasVault
<1> QED BY <1>1, <1>2 DEF Settled, KeepsDeks

\* What a tab carries, after the step.
LEMMA Carries ==
    ASSUME TypeInv, DekInv, Settled, NEW t \in Tabs
    PROVE  /\ store[t] \in Deks \cup {None} /\ Genuine(store[t], identity', crossed')
           /\ held[t] \in Deks \cup {None} /\ Genuine(held[t], identity', crossed')
           /\ req[t] # Idle => /\ req[t].held \in Deks \cup {None}
                              /\ Genuine(req[t].held, identity', crossed')
<1>1. store[t] \in Deks \cup {None} /\ held[t] \in Deks \cup {None}
  BY DEF TypeInv, TypeOK
<1>2. ASSUME req[t] # Idle PROVE req[t].held \in Deks \cup {None}
  BY <1>2 DEF TypeInv, TypeOK, Requests
<1>3. Carried(t)
  BY DEF DekInv
<1> QED BY <1>1, <1>2, <1>3, GenuineKept DEF Carried

\* A tab that a step leaves alone goes on carrying what it may.
Untouched(t) == store'[t] = store[t] /\ held'[t] = held[t] /\ req'[t] = req[t]

LEMMA CarriedKept ==
    ASSUME TypeInv, DekInv, Settled, NEW t \in Tabs, Untouched(t)
    PROVE  Carried(t)'
<1>1. Carried(t)
  BY DEF DekInv
<1> QED BY <1>1, Carries DEF Carried, Untouched, Settled, KeepsDeks

\* So do the copies of a DEK where neither they nor the row are written.
LEMMA BackedKept ==
    ASSUME DekInv, crossed \subseteq crossed', NEW u \in Users,
           identity'[u] = identity[u], contact'[u] = contact[u], change'[u] = change[u]
    PROVE  Backed(u)'
  BY DEF DekInv, Backed, HasVault

\* A step of a tab that writes no row.
LEMMA TabStep ==
    ASSUME TypeInv, DekInv, NEW t \in Tabs, UNCHANGED <<identity, contact, change, crossed>>,
           \A s \in Tabs : s # t => Untouched(s),
           Settled => Carried(t)'
    PROVE  Settled /\ DekInv'
<1>1. Settled
  BY DEF Settled, KeepsDeks, HasVault
<1>2. \A s \in Tabs : Carried(s)'
  BY <1>1, CarriedKept
<1>3. \A u \in Users : Backed(u)'
  BY BackedKept
<1> QED BY <1>1, <1>2, <1>3 DEF DekInv

LEMMA MoveDek ==
    ASSUME TypeInv, DekInv, NEW t \in Tabs, Move(t)
    PROVE  Settled /\ DekInv'
<1>1. UNCHANGED <<identity, contact, change, crossed, held, req>>
  BY DEF Move, Navigate, SignOut, Lock, Login, rows, history
<1>2. store' = store \/ store' = [store EXCEPT ![t] = None]
  BY DEF Move, Navigate, SignOut, Lock, Login
<1>3. store'[t] \in {store[t], None} /\ \A s \in Tabs : s # t => Untouched(s)
  BY <1>1, <1>2 DEF Untouched, TypeInv, TypeOK
<1>4. Settled => Carried(t)'
  BY <1>1, <1>3, Carries DEF Carried, DekInv, Genuine
<1> QED BY <1>1, <1>3, <1>4, TabStep

\* A request that is sent carries nothing, or a DEK the tab has.
LEMMA SubmitDek ==
    ASSUME TypeInv, DekInv, NEW t \in Tabs, Submit(t)
    PROVE  Settled /\ DekInv'
<1>1. UNCHANGED <<identity, contact, change, crossed, held, store>>
  BY DEF Submit, SubmitSetup, SubmitUnlock, SubmitVerify, SubmitNewKey, OpenVerify,
         OpenRecover, SubmitContact, SubmitWords, rows, history
<1>2. \/ req' = req
      \/ \E kind, k, n, h : Send(t, kind, k, n, h) /\ h \in {None, store[t], held[t]}
  BY DEF Submit, SubmitSetup, SubmitUnlock, SubmitVerify, SubmitNewKey, OpenVerify,
         OpenRecover, SubmitContact, SubmitWords
<1>3. \A s \in Tabs : s # t => Untouched(s)
  BY <1>1, <1>2 DEF Untouched, Send, TypeInv, TypeOK
<1>4. \/ req'[t] = req[t]
      \/ req'[t].at = "sent" /\ req'[t].held \in {None, store[t], held[t]}
  BY <1>2 DEF Send, TypeInv, TypeOK
<1>5. Settled => Carried(t)'
  BY <1>1, <1>4, Carries DEF Carried, DekInv, Genuine
<1> QED BY <1>1, <1>3, <1>5, TabStep

\* An answer moves the request's DEK to the tab's memory, or to the next request.
LEMMA AnswerDek ==
    ASSUME TypeInv, DekInv, NEW t \in Tabs, Answer(t)
    PROVE  Settled /\ DekInv'
<1>1. UNCHANGED <<identity, contact, change, crossed>>
  BY DEF Answer, AnswerSetup, AnswerUnlock, AnswerVerify, AnswerWords, AnswerNewWords,
         LoseReply, Reload, rows, history
<1>2. CASE Reload(t)
  <2>1. \A s \in Tabs : s # t => Untouched(s)
    BY <1>2 DEF Reload, Untouched, TypeInv, TypeOK
  <2>2. store'[t] = None /\ held'[t] = None /\ req' = req
    BY <1>2 DEF Reload, TypeInv, TypeOK
  <2>3. Settled => Carried(t)'
    BY <1>1, <2>2, Carries DEF Carried, DekInv, Genuine
  <2> QED BY <1>1, <2>1, <2>3, TabStep
<1>3. CASE ~Reload(t)
  <2>1. req[t] # Idle
    BY <1>3 DEF Answer, AnswerSetup, AnswerUnlock, AnswerVerify, AnswerWords, AnswerNewWords,
                LoseReply, Idle
  <2>2. /\ store' = store \/ store' = [store EXCEPT ![t] = req[t].held]
        /\ held' = held \/ held' = [held EXCEPT ![t] = req[t].held]
        /\ \/ req' = [req EXCEPT ![t] = Idle]
           \/ \E n : Send(t, "kit", None, n, req[t].held)
    BY <1>3 DEF Answer, AnswerSetup, AnswerUnlock, AnswerVerify, AnswerWords, AnswerNewWords,
                LoseReply, Done
  <2>3. \A s \in Tabs : s # t => Untouched(s)
    BY <2>2 DEF Untouched, Send, TypeInv, TypeOK
  <2>4. /\ store'[t] \in {store[t], req[t].held} /\ held'[t] \in {held[t], req[t].held}
        /\ req'[t] = Idle \/ (req'[t].at = "sent" /\ req'[t].held = req[t].held)
    BY <2>2 DEF Send, TypeInv, TypeOK
  <2>5. Settled => Carried(t)'
    BY <1>1, <2>1, <2>4, Carries DEF Carried, Idle
  <2> QED BY <1>1, <2>3, <2>5, TabStep
<1> QED BY <1>2, <1>3

\* A step that writes the row of a user, keeping or fixing its DEK.
LEMMA RowStep ==
    ASSUME TypeInv, DekInv, NEW u \in Users, NEW t \in Tabs,
           crossed \subseteq crossed',
           \A x \in Users : x # u => identity'[x] = identity[x],
           HasVault(u) => u \in crossed'
               \/ (identity'[u] # None /\ identity'[u].dek = identity[u].dek),
           \A x \in Users : x # u => contact'[x] = contact[x] /\ change'[x] = change[x],
           \A s \in Tabs : s # t => Untouched(s),
           Settled => Carried(t)', Settled => Backed(u)'
    PROVE  Settled /\ DekInv'
<1>1. Settled
  BY DEF Settled, KeepsDeks, HasVault
<1>2. \A s \in Tabs : Carried(s)'
  BY <1>1, CarriedKept
<1>3. \A x \in Users : Backed(x)'
  BY <1>1, BackedKept
<1> QED BY <1>1, <1>2, <1>3 DEF DekInv

LEMMA ArriveDek ==
    ASSUME TypeInv, DekInv, NEW t \in Tabs, Arrive(t)
    PROVE  Settled /\ DekInv'
<1> DEFINE q == req[t]
<1>1. /\ q \in Requests /\ q.salt \in Nat /\ q.held \in Deks \cup {None}
      /\ q.kind \in {"setup", "unlock", "verify", "kit", "words", "recover", "contact"}
      /\ Fits(q, identity) /\ q # Idle
  BY Callers DEF Arrive, Idle
<1>2. /\ TypeOK /\ cookie \in Users \cup {None} /\ crossed \subseteq Users
      /\ identity \in [Users -> Vaults \cup {None}] /\ DOMAIN req = Tabs
  BY DEF TypeInv, TypeOK
<1>3. UNCHANGED <<store, held, contact, change>>
  BY DEF Arrive, Refused, ArriveSetup, ArriveUnlock, ArriveWords, ArriveKitOrContact,
         ArriveRecover, rows
<1>4. ASSUME NEW r, req' = [req EXCEPT ![t] = r]
      PROVE req'[t] = r /\ \A s \in Tabs : s # t => Untouched(s)
  BY <1>2, <1>3, <1>4 DEF Untouched
<1>5. ASSUME NEW r, req' = [req EXCEPT ![t] = r], UNCHANGED <<identity, crossed>>,
             r # Idle => r.at # "checked" \/ r.kind \notin {"kit", "contact"},
             Settled => (r # Idle => Genuine(r.held, identity', crossed'))
      PROVE  Settled /\ DekInv'
  <2>1. ASSUME Settled PROVE Carried(t)'
    <3>1. req'[t] = r /\ store'[t] = store[t] /\ held'[t] = held[t]
      BY <1>3, <1>4, <1>5
    <3>2. Genuine(store[t], identity', crossed') /\ Genuine(held[t], identity', crossed')
      BY <2>1, Carries
    <3>3. ~(r.kind \in {"kit", "contact"} /\ r.at = "checked")
      BY <1>5 DEF Idle
    <3> QED BY <1>5, <2>1, <3>1, <3>2, <3>3 DEF Carried
  <2> QED BY <1>3, <1>4, <1>5, <2>1, TabStep
<1>6. ASSUME Refused(t) PROVE Settled /\ DekInv'
  BY <1>5, <1>6 DEF Refused, rows
<1>7. ASSUME NEW u \in Users, cookie = u PROVE Settled /\ DekInv'
  <2>1. ASSUME ArriveSetup(t) PROVE Settled /\ DekInv'
    <3>1. CASE Reached(t, "checked", None) /\ UNCHANGED <<rows, flag, crossed>>
      <4> DEFINE r == Past(q, "checked", cookie, None)
      <4>1. r.kind = "setup" /\ r.held = None
        BY <2>1 DEF ArriveSetup, Past
      <4>2. req' = [req EXCEPT ![t] = r]
        BY <3>1 DEF Reached
      <4> HIDE DEF r
      <4> QED BY <1>5, <3>1, <4>1, <4>2 DEF rows, Genuine
    <3> QED BY <1>6, <2>1, <3>1 DEF ArriveSetup
  <2>2. ASSUME ArriveUnlock(t) PROVE Settled /\ DekInv'
    <3>1. CASE req' = [req EXCEPT ![t] = Idle] /\ UNCHANGED <<rows, crossed>>
      BY <1>5, <3>1 DEF rows
    <3>2. CASE HasVault(cookie) /\ Reached(t, "ok", OwnDek(identity[cookie].dek))
          /\ UNCHANGED <<rows, crossed>>
      <4> DEFINE r == Past(q, "ok", cookie, OwnDek(identity[cookie].dek))
      <4>1. r.at = "ok" /\ r.held = OwnDek(identity[cookie].dek)
        BY DEF Past
      <4>2. Genuine(r.held, identity', crossed')
        BY <3>2, <4>1 DEF Genuine, OwnDek, HasVault, rows
      <4>3. req' = [req EXCEPT ![t] = r]
        BY <3>2 DEF Reached
      <4> HIDE DEF r
      <4> QED BY <1>5, <3>2, <4>1, <4>2, <4>3 DEF rows
    <3> QED BY <1>6, <2>2, <3>1, <3>2 DEF ArriveUnlock
  <2>3. ASSUME ArriveWords(t) PROVE Settled /\ DekInv'
    <3>1. CASE HasVault(cookie) /\ Reached(t, "ok", OwnDek(identity[cookie].kit.dek))
          /\ UNCHANGED <<rows, crossed>>
      <4> DEFINE r == Past(q, "ok", cookie, OwnDek(identity[cookie].kit.dek))
      <4>1. r.at = "ok" /\ r.held = OwnDek(identity[cookie].kit.dek)
        BY DEF Past
      <4>2. Genuine(r.held, identity', crossed')
        BY <1>7, <3>1, <4>1 DEF Genuine, OwnDek, HasVault, rows, DekInv, Backed
      <4>3. req' = [req EXCEPT ![t] = r]
        BY <3>1 DEF Reached
      <4> HIDE DEF r
      <4> QED BY <1>5, <3>1, <4>1, <4>2, <4>3 DEF rows
    <3> QED BY <1>6, <2>3, <3>1 DEF ArriveWords
  <2>4. ASSUME ArriveKitOrContact(t) PROVE Settled /\ DekInv'
    <3>1. CASE HasVault(cookie) /\ Reached(t, "checked", q.held) /\ Crossing(t)
          /\ UNCHANGED <<rows, flag>>
      <4> DEFINE r == Past(q, "checked", cookie, q.held)
      <4>1. r.held = q.held /\ r.user = cookie
        BY DEF Past
      <4>2. req' = [req EXCEPT ![t] = r]
        BY <3>1 DEF Reached
      <4>3. crossed \subseteq crossed'
        BY <3>1 DEF Crossing
      <4>4. cookie \notin crossed' => q.held.owner = cookie
        <5>1. q.held \in Deks
          BY <1>1, <2>4 DEF ArriveKitOrContact, Fits
        <5> QED BY <3>1, <5>1, NoneAssumption DEF Crossing
      <4> HIDE DEF r
      <4>5. Settled => Carried(t)'
        BY <1>1, <1>3, <1>4, <4>1, <4>2, <4>4, Carries DEF Carried
      <4>6. identity' = identity
        BY <3>1 DEF rows
      <4>7. Settled => Backed(u)'
        BY <1>3, <1>7, <4>3, <4>6, BackedKept
      <4> QED BY <1>3, <1>4, <1>7, <4>2, <4>3, <4>5, <4>6, <4>7, RowStep DEF HasVault
    <3> QED BY <1>6, <2>4, <3>1 DEF ArriveKitOrContact
  <2>5. ASSUME ArriveRecover(t) PROVE Settled /\ DekInv'
    <3> DEFINE r == Past(q, "ok", cookie, q.held)
               v == Vault(q.key, q.salt, q.held.dek, FALSE, Kit(q.salt, q.held.dek),
                          identity[cookie].disabled)
    <3>1. q.held \in Deks /\ q.held.dek \in Nat /\ q.key \in Keys
      BY <1>1, <2>5 DEF ArriveRecover, Fits, Deks
    <3>2. r.held = q.held /\ r.at = "ok" /\ req' = [req EXCEPT ![t] = r]
      BY <2>5 DEF Past, ArriveRecover, Reached
    <3>3. crossed \subseteq crossed' /\ (cookie \notin crossed' => q.held.owner = cookie)
      BY <2>5, <3>1, NoneAssumption DEF ArriveRecover, Crossing
    <3>4. cookie \notin crossed' /\ HasVault(cookie) => identity[cookie].dek = q.held.dek
      <4>1. Genuine(q.held, identity, crossed)
        BY <1>1 DEF DekInv, Carried
      <4> QED BY <3>1, <3>3, <4>1, NoneAssumption DEF Genuine
    <3>5. HasVault(cookie) => /\ v \in Vaults /\ v # None /\ v.dek = q.held.dek
                              /\ v.kit.dek = q.held.dek
      <4> SUFFICES ASSUME HasVault(cookie)
          PROVE v \in Vaults /\ v.dek = q.held.dek /\ v.kit.dek = q.held.dek
        BY NoneAssumption
      <4> QED BY <1>1, <1>2, <1>7, <3>1, RowRead DEF Vault, Kit, Vaults
    <3>6. identity' = IF HasVault(cookie) THEN [identity EXCEPT ![cookie] = v] ELSE identity
      BY <2>5 DEF ArriveRecover
    <3> HIDE DEF r, v
    <3>7. Settled => Carried(t)'
      BY <1>1, <1>3, <1>4, <3>2, Carries DEF Carried, Idle
    <3>8. Backed(u)'
      <4>1. CASE HasVault(cookie)
        <5>1. identity'[cookie] = v
          BY <1>2, <1>7, <3>6, <4>1
        <5>2. Backed(u)
          BY <1>7 DEF DekInv
        <5> QED BY <1>3, <1>7, <3>3, <3>4, <3>5, <4>1, <5>1, <5>2 DEF Backed, HasVault
      <4>2. CASE ~HasVault(cookie)
        BY <1>3, <1>7, <3>3, <3>6, <4>2, BackedKept
      <4> QED BY <4>1, <4>2
    <3>9. \A x \in Users : x # cookie => identity'[x] = identity[x]
      BY <1>2, <3>6
    <3>10. HasVault(cookie) => \/ cookie \in crossed'
                               \/ identity'[cookie] # None
                                    /\ identity'[cookie].dek = identity[cookie].dek
      BY <1>2, <1>7, <3>4, <3>5, <3>6
    <3> QED BY <1>3, <1>4, <1>7, <3>2, <3>3, <3>7, <3>8, <3>9, <3>10, RowStep
  <2> QED BY <1>6, <1>7, <2>1, <2>2, <2>3, <2>4, <2>5 DEF Arrive
<1> QED BY <1>2, <1>6, <1>7 DEF Arrive

LEMMA HandleDek ==
    ASSUME TypeInv, DekInv, NEW t \in Tabs, Handle(t)
    PROVE  Settled /\ DekInv'
<1> DEFINE q == req[t]
<1>0. /\ TypeOK /\ cookie \in Users \cup {None} /\ crossed \subseteq Users /\ DOMAIN req = Tabs
      /\ identity \in [Users -> Vaults \cup {None}] /\ DOMAIN contact = Users
  BY DEF TypeInv, TypeOK
<1>1. ASSUME InsertVault(t) PROVE Settled /\ DekInv'
  <2> DEFINE n == q.salt
             h == [owner |-> q.user, dek |-> n]
             r == Past(q, "ok", q.user, h)
             v == Vault(q.key, n, n, TRUE, Kit(n, n), FALSE)
  <2>1. q.user \in Users /\ q.key \in Keys /\ n \in Nat /\ q # Idle
    BY <1>1, Callers DEF InsertVault, Fits, Idle
  <2>2. UNCHANGED <<crossed, contact, change, store, held>>
    BY <1>1 DEF InsertVault, history
  <2>3. CASE HasVault(q.user)
    <3>1. req' = [req EXCEPT ![t] = Idle] /\ identity' = identity
      BY <1>1, <2>3 DEF InsertVault
    <3>2. req'[t] = Idle /\ \A s \in Tabs : s # t => Untouched(s)
      BY <1>0, <2>2, <3>1 DEF Untouched
    <3>3. Settled => Carried(t)'
      BY <2>2, <3>2, Carries DEF Carried, Idle
    <3> QED BY <2>2, <3>1, <3>2, <3>3, TabStep
  <2>4. CASE ~HasVault(q.user)
    <3>1. identity' = [identity EXCEPT ![q.user] = v] /\ req' = [req EXCEPT ![t] = r]
      BY <1>1, <2>4 DEF InsertVault
    <3>2. r.kind = "setup" /\ r.held = h
      BY <1>1 DEF Past, InsertVault
    <3>3. v \in Vaults /\ v # None /\ v.dek = n /\ v.kit.dek = n
      <4>1. v \in Vaults /\ v.dek = n /\ v.kit.dek = n
        BY <2>1 DEF Vault, Kit, Vaults
      <4> QED BY <4>1, NoneAssumption
    <3> HIDE DEF r, v
    <3>4. /\ identity'[q.user] = v /\ \A x \in Users : x # q.user => identity'[x] = identity[x]
          /\ req'[t] = r /\ \A s \in Tabs : s # t => Untouched(s)
      BY <1>0, <2>1, <2>2, <3>1 DEF Untouched
    <3>5. Genuine(h, identity', crossed')
      BY <3>3, <3>4 DEF Genuine
    <3>6. Settled => Carried(t)'
      BY <2>2, <3>2, <3>4, <3>5, Carries DEF Carried
    <3>7. PICK u \in Users : u = q.user
      BY <2>1
    <3>8. Backed(u)'
      <4>1. Backed(u) /\ change[u] = None
        BY <2>4, <3>7 DEF DekInv, TypeInv, Sessions
      <4> QED BY <2>2, <2>4, <3>3, <3>4, <3>7, <4>1 DEF Backed, HasVault
    <3> QED BY <2>2, <2>4, <3>4, <3>6, <3>7, <3>8, RowStep
  <2> QED BY <2>3, <2>4
<1>2. ASSUME StoreKit(t) PROVE Settled /\ DekInv'
  <2> DEFINE row == identity[q.user]
             r == Past(q, "ok", q.user, q.held)
             v == Vault(row.key, row.salt, row.dek, row.priv, Kit(q.salt, q.held.dek), row.disabled)
  <2>1. /\ q \in Requests /\ q.user \in Users /\ q.held \in Deks /\ q.held.dek \in Nat
        /\ q.salt \in Nat /\ HasVault(q.user) /\ q # Idle
    BY <1>2, Callers DEF StoreKit, Fits, Deks, HasVault, Idle
  <2>2. UNCHANGED <<crossed, contact, change, store, held>>
    BY <1>2 DEF StoreKit, history
  <2>3. v \in Vaults /\ v # None /\ v.dek = row.dek /\ v.kit.dek = q.held.dek
    <3>1. v \in Vaults /\ v.dek = row.dek /\ v.kit.dek = q.held.dek
      BY <1>0, <2>1, RowRead DEF Vault, Kit, Vaults
    <3> QED BY <3>1, NoneAssumption
  <2>4. identity' = [identity EXCEPT ![q.user] = v] /\ req' = [req EXCEPT ![t] = r]
    BY <1>2 DEF StoreKit
  <2>5. r.at = "ok" /\ r.held = q.held
    BY DEF Past
  <2> HIDE DEF r, v
  <2>6. /\ identity'[q.user] = v /\ \A x \in Users : x # q.user => identity'[x] = identity[x]
        /\ req'[t] = r /\ \A s \in Tabs : s # t => Untouched(s)
    BY <1>0, <2>1, <2>2, <2>4 DEF Untouched
  <2>7. Settled => Carried(t)'
    BY <2>1, <2>2, <2>5, <2>6, Carries DEF Carried
  <2>8. PICK u \in Users : u = q.user
    BY <2>1
  <2>9. Backed(u)'
    <3>1. Backed(u) /\ Carried(t)
      BY DEF DekInv
    <3>2. u \notin crossed => row.dek = q.held.dek
      <4>1. q.held # None /\ q.kind = "kit" /\ q.at = "checked"
        BY <1>2, <2>1, NoneAssumption DEF StoreKit
      <4> QED BY <2>1, <2>8, <3>1, <4>1 DEF Carried, Genuine
    <3> QED BY <2>1, <2>2, <2>3, <2>6, <2>8, <3>1, <3>2 DEF Backed, HasVault
  <2> QED BY <2>2, <2>3, <2>6, <2>7, <2>8, <2>9, RowStep
<1>3. ASSUME StoreContact(t) PROVE Settled /\ DekInv'
  <2>1. /\ q.user \in Users /\ q.held \in Deks /\ HasVault(q.user) /\ q # Idle /\ q.held # None
        /\ q.kind = "contact" /\ q.at = "checked"
    BY <1>3, Callers, NoneAssumption DEF StoreContact, Fits, HasVault, Idle
  <2>2. UNCHANGED <<crossed, identity, change, store, held>>
    BY <1>3 DEF StoreContact, history
  <2>3. /\ contact'[q.user] = q.held.dek /\ \A x \in Users : x # q.user => contact'[x] = contact[x]
        /\ req'[t] = Idle /\ \A s \in Tabs : s # t => Untouched(s)
    BY <1>0, <1>3, <2>1, <2>2 DEF Untouched, StoreContact
  <2>4. Settled => Carried(t)'
    BY <2>2, <2>3, Carries DEF Carried, Idle
  <2>5. PICK u \in Users : u = q.user
    BY <2>1
  <2>6. Backed(u)'
    <3>1. Backed(u) /\ Carried(t)
      BY DEF DekInv
    <3>2. u \notin crossed => identity[u].dek = q.held.dek
      BY <2>1, <2>5, <3>1 DEF Carried, Genuine
    <3> QED BY <2>1, <2>2, <2>3, <2>5, <3>1, <3>2 DEF Backed, HasVault
  <2> QED BY <2>2, <2>3, <2>4, <2>5, <2>6, RowStep DEF HasVault
<1>4. ASSUME StatementFails(t) PROVE Settled /\ DekInv'
  <2>1. UNCHANGED <<identity, contact, change, crossed, store, held>>
    BY <1>4 DEF StatementFails, rows, history
  <2>2. req'[t] = Idle /\ \A s \in Tabs : s # t => Untouched(s)
    BY <1>0, <1>4, <2>1 DEF StatementFails, Untouched
  <2>3. Settled => Carried(t)'
    BY <2>1, <2>2, Carries DEF Carried, Idle
  <2> QED BY <2>1, <2>2, <2>3, TabStep
<1>5. ASSUME DisableRecovery(t) PROVE Settled /\ DekInv'
  <2>1. PICK u \in Users : u = cookie /\ HasVault(u)
    BY <1>0, <1>5 DEF DisableRecovery
  <2> DEFINE row == identity[u]
             v == Vault(row.key, row.salt, row.dek, row.priv, row.kit, ~row.disabled)
  <2>2. v \in Vaults /\ v # None /\ v.dek = row.dek /\ v.kit = row.kit
    <3>1. v \in Vaults /\ v.dek = row.dek /\ v.kit = row.kit
      BY <1>0, <2>1, RowRead DEF Vault, Kit, Vaults
    <3> QED BY <3>1, NoneAssumption
  <2>3. identity' = [identity EXCEPT ![u] = v]
    BY <1>5, <2>1 DEF DisableRecovery
  <2>4. UNCHANGED <<contact, change, crossed, store, held, req>>
    BY <1>5 DEF DisableRecovery, history
  <2> HIDE DEF v
  <2>5. identity'[u] = v /\ \A x \in Users : x # u => identity'[x] = identity[x]
    BY <1>0, <2>3
  <2>6. \A s \in Tabs : Untouched(s)
    BY <2>4 DEF Untouched
  <2>7. Settled => Carried(t)'
    BY <2>6, CarriedKept
  <2>8. Backed(u)'
    BY <2>1, <2>2, <2>4, <2>5 DEF DekInv, Backed, HasVault
  <2> QED BY <2>2, <2>4, <2>5, <2>6, <2>7, <2>8, RowStep
<1>6. ASSUME RemoveContact(t) PROVE Settled /\ DekInv'
  <2>1. PICK u \in Users : u = cookie
    BY <1>0, <1>6 DEF RemoveContact, TypeInv, Sessions
  <2>2. UNCHANGED <<identity, change, crossed, store, held, req>>
    BY <1>6 DEF RemoveContact, history
  <2>3. contact'[u] = None /\ \A x \in Users : x # u => contact'[x] = contact[x]
    BY <1>0, <1>6, <2>1 DEF RemoveContact
  <2>4. \A s \in Tabs : Untouched(s)
    BY <2>2 DEF Untouched
  <2>5. Settled => Carried(t)'
    BY <2>4, CarriedKept
  <2>6. Backed(u)'
    BY <2>2, <2>3 DEF DekInv, Backed, HasVault
  <2> QED BY <2>2, <2>3, <2>4, <2>5, <2>6, RowStep DEF HasVault
<1> QED BY <1>1, <1>2, <1>3, <1>4, <1>5, <1>6, ArriveDek DEF Handle

\* A step that no tab takes.
LEMMA OtherStep ==
    ASSUME TypeInv, DekInv, NEW u \in Users, UNCHANGED <<contact, crossed, store, held, req>>,
           \A x \in Users : x # u => identity'[x] = identity[x] /\ change'[x] = change[x],
           HasVault(u) => u \in crossed'
               \/ (identity'[u] # None /\ identity'[u].dek = identity[u].dek),
           Backed(u)'
    PROVE  Settled /\ DekInv'
<1>1. Settled
  BY DEF Settled, KeepsDeks, HasVault
<1>2. \A s \in Tabs : Carried(s)'
  BY <1>1, CarriedKept DEF Untouched
<1>3. \A x \in Users : Backed(x)'
  BY <1>1, BackedKept
<1> QED BY <1>1, <1>2, <1>3 DEF DekInv

LEMMA ChangeDek ==
    ASSUME TypeInv, DekInv, NEW u \in Users,
           ChangeWrite(u) \/ \E k \in Keys : ChangeCheck(u, k)
    PROVE  Settled /\ DekInv'
<1>0. /\ TypeOK /\ identity \in [Users -> Vaults \cup {None}] /\ DOMAIN change = Users
      /\ (change[u] # None => change[u] \in Changes /\ HasVault(u)) /\ Backed(u)
  BY DEF TypeInv, TypeOK, Sessions, DekInv
<1>1. CASE ChangeWrite(u)
  <2> DEFINE row == identity[u]
             v == Vault(change[u].key, change[u].salt, change[u].dek, TRUE, row.kit, row.disabled)
  <2>1. change[u] # None /\ change[u] \in Changes /\ HasVault(u)
    BY <1>0, <1>1 DEF ChangeWrite
  <2>2. v \in Vaults /\ v # None /\ v.dek = change[u].dek /\ v.kit = row.kit
    <3>1. v \in Vaults /\ v.dek = change[u].dek /\ v.kit = row.kit
      BY <1>0, <2>1, RowRead DEF Changes, Vault, Kit, Vaults
    <3> QED BY <3>1, NoneAssumption
  <2>3. identity' = [identity EXCEPT ![u] = v] /\ change' = [change EXCEPT ![u] = None]
    BY <1>1 DEF ChangeWrite
  <2>4. UNCHANGED <<contact, crossed, store, held, req>>
    BY <1>1 DEF ChangeWrite, history
  <2> HIDE DEF v
  <2>5. /\ identity'[u] = v /\ change'[u] = None
        /\ \A x \in Users : x # u => identity'[x] = identity[x] /\ change'[x] = change[x]
    BY <1>0, <2>3
  <2>6. Backed(u)'
    BY <1>0, <2>1, <2>2, <2>4, <2>5 DEF Backed, HasVault
  <2>7. u \in crossed' \/ (identity'[u] # None /\ identity'[u].dek = identity[u].dek)
    BY <1>0, <2>1, <2>2, <2>4, <2>5 DEF Backed
  <2> QED BY <2>4, <2>5, <2>6, <2>7, OtherStep
<1>2. ASSUME NEW k \in Keys, ChangeCheck(u, k) PROVE Settled /\ DekInv'
  <2>1. UNCHANGED <<identity, contact, crossed, store, held, req>>
    BY <1>2 DEF ChangeCheck, rows, history
  <2>2. change'[u].dek = identity[u].dek /\ \A x \in Users : x # u => change'[x] = change[x]
    BY <1>0, <1>2 DEF ChangeCheck
  <2>3. Backed(u)'
    BY <1>0, <2>1, <2>2 DEF Backed, HasVault
  <2> QED BY <2>1, <2>2, <2>3, OtherStep DEF HasVault
<1> QED BY <1>1, <1>2

LEMMA InitDek == Init => DekInv
<1> SUFFICES ASSUME Init PROVE DekInv
  OBVIOUS
<1>1. \A t \in Tabs : Carried(t)
  BY DEF Init, Carried, Genuine, Idle
<1>2. \A u \in Users : Backed(u)
  BY DEF Init, Backed, HasVault
<1> QED BY <1>1, <1>2 DEF DekInv

LEMMA NextDek == TypeInv /\ DekInv /\ [Next]_vars => Settled /\ DekInv'
<1> SUFFICES ASSUME TypeInv, DekInv, [Next]_vars PROVE Settled /\ DekInv'
  OBVIOUS
<1>1. ASSUME UNCHANGED <<identity, contact, crossed, store, held, req, change>>
      PROVE Settled /\ DekInv'
  BY <1>1 DEF Settled, KeepsDeks, DekInv, Carried, Backed, HasVault
<1>2. CASE Expire \/ UNCHANGED vars
  BY <1>1, <1>2 DEF Expire, vars, rows, history
<1> QED BY <1>2, MoveDek, SubmitDek, HandleDek, AnswerDek, ChangeDek DEF Next

\* What the tabs, their requests, the kits and the trusted contacts carry is the DEK of the vault
\* it belongs to: the invariant that the theorems below read off.
THEOREM DekSafety == Spec => [](TypeInv /\ DekInv)
<1>1. Init => TypeInv /\ DekInv
  BY InitType, InitDek
<1>2. TypeInv /\ DekInv /\ [Next]_vars => (TypeInv /\ DekInv)'
  BY NextType, NextDek
<1> QED BY <1>1, <1>2, PTL DEF Spec

\* Every unlocked tab holds the DEK that its owner's row holds.
THEOREM UnlockedTabs == Spec => []TabsHoldTheirDek
<1>1. DekInv => TabsHoldTheirDek
  BY DEF DekInv, Carried, Genuine, TabsHoldTheirDek, HasVault
<1> QED BY <1>1, DekSafety, PTL

\* Kit and trusted contact hold the DEK of the vault they belong to.
THEOREM Backups == Spec => []BackupsOpenVault
<1>1. DekInv => BackupsOpenVault
  BY DEF DekInv, Backed, BackupsOpenVault
<1> QED BY <1>1, DekSafety, PTL

\* The DEK of a vault is never replaced.
THEOREM DekKept == Spec => DekIsForLife
<1>1. TypeInv /\ DekInv /\ [Next]_vars => [KeepsDeks]_vars
  BY NextDek DEF Settled, KeepsDeks
<1> QED BY <1>1, DekSafety, PTL DEF Spec, DekIsForLife

----------------------------------------------------------------------------
(* The words of a kit reach the user.                                      *)

\* The words w have been shown or lost, or an answer is on its way with them.
Reaching(w) ==
    \/ w \in shown \cup lost
    \/ \E t \in Tabs : NewWords(req[t].kind) /\ req[t].at = "ok" /\ req[t].salt = w

\* Words on their way arrive, are lost, or go on.
LEMMA WordsGoOn ==
    ASSUME TypeInv, [Next]_vars, NEW t \in Tabs, NewWords(req[t].kind), req[t].at = "ok"
    PROVE  req'[t] = req[t] \/ req[t].salt \in shown' \cup lost'
<1>1. DOMAIN req = Tabs /\ ~Quiet(t)
  BY DEF TypeInv, TypeOK, Quiet, Idle
<1>2. ASSUME NEW s \in Tabs, Submit(s) PROVE req'[t] = req[t]
  BY <1>1, <1>2 DEF Submit, SubmitSetup, SubmitUnlock, SubmitVerify, SubmitNewKey, OpenVerify,
         OpenRecover, SubmitContact, SubmitWords, KeyForm, WordsForm, Send
<1>3. ASSUME NEW s \in Tabs, Move(s) PROVE req'[t] = req[t]
  BY <1>3 DEF Move, Navigate, SignOut, Lock, Login
<1>4. ASSUME NEW s \in Tabs, Handle(s) PROVE req'[t] = req[t]
  <2>1. CASE DisableRecovery(s) \/ RemoveContact(s)
    BY <2>1 DEF DisableRecovery, RemoveContact
  <2>2. CASE ~(DisableRecovery(s) \/ RemoveContact(s))
    <3>1. s # t
      BY <1>4, <2>2 DEF Handle, Arrive, InsertVault, StoreKit, StoreContact, StatementFails
    <3> QED BY <1>1, <1>4, <2>2, <3>1 DEF Handle, Arrive, Refused, ArriveSetup, ArriveUnlock,
             ArriveWords, ArriveKitOrContact, ArriveRecover, Reached, InsertVault, StoreKit,
             StoreContact, StatementFails
  <2> QED BY <2>1, <2>2
<1>5. ASSUME NEW s \in Tabs, Answer(s) PROVE req'[t] = req[t] \/ req[t].salt \in shown' \cup lost'
  <2>1. CASE s # t
    BY <1>1, <1>5, <2>1 DEF Answer, AnswerSetup, AnswerUnlock, AnswerVerify, AnswerWords,
       AnswerNewWords, LoseReply, Reload, Done, Send
  <2>2. CASE s = t
    BY <1>1, <1>5, <2>2 DEF Answer, AnswerSetup, AnswerUnlock, AnswerVerify, AnswerWords,
       AnswerNewWords, LoseReply, Reload, NewWords
  <2> QED BY <2>1, <2>2
<1>6. CASE Expire \/ UNCHANGED vars \/ \E u \in Users : ChangeWrite(u)
      \/ \E k \in Keys : ChangeCheck(u, k)
  BY <1>6 DEF Expire, vars, ChangeWrite, ChangeCheck
<1> QED BY <1>2, <1>3, <1>4, <1>5, <1>6 DEF Next

LEMMA HistoryGrows == [Next]_vars => shown \subseteq shown' /\ lost \subseteq lost'
<1>1. ASSUME NEW t \in Tabs, Submit(t) \/ Handle(t) \/ Answer(t) \/ Move(t)
      PROVE  shown \subseteq shown' /\ lost \subseteq lost'
  BY <1>1 DEF Submit, SubmitSetup, SubmitUnlock, SubmitVerify, SubmitNewKey, OpenVerify,
     OpenRecover, SubmitContact, SubmitWords, Handle, Arrive, InsertVault, StoreKit,
     StoreContact, StatementFails, DisableRecovery, RemoveContact, Answer, AnswerSetup,
     AnswerUnlock, AnswerVerify, AnswerWords, AnswerNewWords, LoseReply, Reload, Move,
     Navigate, SignOut, Lock, Login, history
<1>2. CASE Expire \/ UNCHANGED vars \/ \E u \in Users : ChangeWrite(u)
      \/ \E k \in Keys : ChangeCheck(u, k)
  BY <1>2 DEF Expire, vars, ChangeWrite, ChangeCheck, history
<1> QED BY <1>1, <1>2 DEF Next

LEMMA ReachingKept ==
    ASSUME TypeInv, [Next]_vars, NEW w, Reaching(w)
    PROVE  Reaching(w)'
<1>1. CASE w \in shown \cup lost
  BY <1>1, HistoryGrows DEF Reaching
<1>2. ASSUME NEW t \in Tabs, NewWords(req[t].kind), req[t].at = "ok", req[t].salt = w
      PROVE Reaching(w)'
  BY <1>2, WordsGoOn DEF Reaching
<1> QED BY <1>1, <1>2 DEF Reaching

\* New words come into a row with an answer that brings them to a tab.
LEMMA KitWritten ==
    ASSUME TypeInv, [Next]_vars, NEW u \in Users, HasVault(u)'
    PROVE  \/ HasVault(u) /\ identity'[u].kit.words = identity[u].kit.words
           \/ Reaching(identity[u].kit.words)'
<1>0. /\ TypeOK /\ identity \in [Users -> Vaults \cup {None}] /\ DOMAIN req = Tabs
      /\ cookie \in Users \cup {None}
  BY DEF TypeInv, TypeOK
<1>1. ASSUME identity' = identity
      PROVE HasVault(u) /\ identity'[u].kit.words = identity[u].kit.words
  BY <1>1 DEF HasVault
\* The kit with words w is in the answer of the tab t.
<1>2. ASSUME NEW t \in Tabs, NEW r, NEW w, req' = [req EXCEPT ![t] = r], NewWords(r.kind),
      r.at = "ok",
             r.salt = w, identity'[u].kit.words = w
      PROVE  Reaching(identity[u].kit.words)'
  BY <1>0, <1>2 DEF Reaching
<1>3. ASSUME NEW x \in Users, NEW v \in Vaults, identity' = [identity EXCEPT ![x] = v],
             x = u => HasVault(u) /\ v.kit.words = identity[u].kit.words
      PROVE  HasVault(u) /\ identity'[u].kit.words = identity[u].kit.words
  BY <1>0, <1>3 DEF HasVault
<1>4. ASSUME NEW t \in Tabs, Handle(t)
      PROVE  \/ HasVault(u) /\ identity'[u].kit.words = identity[u].kit.words
             \/ Reaching(identity[u].kit.words)'
  <2> DEFINE q == req[t]
  <2>1. CASE Arrive(t) /\ ~ArriveRecover(t)
    BY <1>1, <2>1 DEF Arrive, Refused, ArriveSetup, ArriveUnlock, ArriveWords, ArriveKitOrContact,
       rows
  <2>2. CASE Arrive(t) /\ ArriveRecover(t) /\ cookie # None
    <3> DEFINE r == Past(q, "ok", cookie, q.held)
               v == Vault(q.key, q.salt, q.held.dek, FALSE, Kit(q.salt, q.held.dek),
                          identity[cookie].disabled)
    <3>1. identity' = IF HasVault(cookie) THEN [identity EXCEPT ![cookie] = v] ELSE identity
      BY <2>2 DEF ArriveRecover
    <3>2. req' = [req EXCEPT ![t] = r] /\ NewWords(r.kind) /\ r.at = "ok" /\ r.salt = q.salt
      BY <2>2 DEF ArriveRecover, Reached, Past, NewWords
    <3>3. v.kit.words = q.salt
      BY DEF Vault, Kit
    <3> HIDE DEF r, v
    <3> QED BY <1>0, <1>1, <1>2, <2>2, <3>1, <3>2, <3>3 DEF HasVault
  <2>3. CASE Arrive(t) /\ cookie = None
    BY <1>1, <2>3 DEF Arrive, Refused, rows
  <2>4. CASE InsertVault(t)
    <3> DEFINE n == q.salt
               r == Past(q, "ok", q.user, [owner |-> q.user, dek |-> n])
               v == Vault(q.key, n, n, TRUE, Kit(n, n), FALSE)
    <3>1. CASE HasVault(q.user)
      BY <1>1, <2>4, <3>1 DEF InsertVault
    <3>2. CASE ~HasVault(q.user)
      <4>1. identity' = [identity EXCEPT ![q.user] = v] /\ req' = [req EXCEPT ![t] = r]
        BY <2>4, <3>2 DEF InsertVault
      <4>2. NewWords(r.kind) /\ r.at = "ok" /\ r.salt = n
        BY <2>4 DEF InsertVault, Past, NewWords
      <4>3. v.kit.words = n
        BY DEF Vault, Kit
      <4> HIDE DEF r, v
      <4>4. identity'[u] = v \/ identity'[u] = identity[u]
        BY <1>0, <4>1
      <4> QED BY <1>2, <4>1, <4>2, <4>3, <4>4 DEF HasVault
    <3> QED BY <3>1, <3>2
  <2>5. CASE StoreKit(t)
    <3> DEFINE row == identity[q.user]
               r == Past(q, "ok", q.user, q.held)
               v == Vault(row.key, row.salt, row.dek, row.priv, Kit(q.salt, q.held.dek),
                   row.disabled)
    <3>1. identity' = [identity EXCEPT ![q.user] = v] /\ req' = [req EXCEPT ![t] = r]
      BY <2>5 DEF StoreKit
    <3>2. NewWords(r.kind) /\ r.at = "ok" /\ r.salt = q.salt
      BY <2>5 DEF StoreKit, Past, NewWords
    <3>3. v.kit.words = q.salt
      BY DEF Vault, Kit
    <3> HIDE DEF r, v
    <3>4. identity'[u] = v \/ identity'[u] = identity[u]
      BY <1>0, <3>1
    <3> QED BY <1>2, <3>1, <3>2, <3>3, <3>4 DEF HasVault
  <2>6. CASE DisableRecovery(t)
    <3>1. PICK x \in Users : x = cookie /\ HasVault(x)
      BY <1>0, <2>6 DEF DisableRecovery
    <3> DEFINE row == identity[x]
               v == Vault(row.key, row.salt, row.dek, row.priv, row.kit, ~row.disabled)
    <3>2. v \in Vaults /\ v.kit = row.kit
      BY <1>0, <3>1, RowRead DEF Vault, Kit, Vaults
    <3>3. identity' = [identity EXCEPT ![x] = v]
      BY <2>6, <3>1 DEF DisableRecovery
    <3> QED BY <1>3, <3>1, <3>2, <3>3
  <2>7. CASE StoreContact(t) \/ StatementFails(t) \/ RemoveContact(t)
    BY <1>1, <2>7 DEF StoreContact, StatementFails, RemoveContact, rows
  <2> QED BY <1>4, <2>1, <2>2, <2>3, <2>4, <2>5, <2>6, <2>7 DEF Handle
<1>5. ASSUME NEW t \in Tabs, Submit(t) \/ Answer(t) \/ Move(t) PROVE identity' = identity
  BY <1>5 DEF Submit, SubmitSetup, SubmitUnlock, SubmitVerify, SubmitNewKey, OpenVerify,
     OpenRecover, SubmitContact, SubmitWords, Answer, AnswerSetup,
     AnswerUnlock, AnswerVerify, AnswerWords, AnswerNewWords, LoseReply, Reload, Move,
     Navigate, SignOut, Lock, Login, rows
<1>6. ASSUME NEW x \in Users, ChangeWrite(x)
      PROVE HasVault(u) /\ identity'[u].kit.words = identity[u].kit.words
  <2> DEFINE row == identity[x]
             v == Vault(change[x].key, change[x].salt, change[x].dek, TRUE, row.kit, row.disabled)
  <2>1. change[x] \in Changes /\ HasVault(x)
    BY <1>6 DEF ChangeWrite, TypeInv, TypeOK, Sessions
  <2>2. v \in Vaults /\ v.kit = row.kit
    BY <1>0, <2>1, RowRead DEF Changes, Vault, Kit, Vaults
  <2>3. identity' = [identity EXCEPT ![x] = v]
    BY <1>6 DEF ChangeWrite
  <2> QED BY <1>3, <2>1, <2>2, <2>3
<1>7. CASE Expire \/ UNCHANGED vars \/ \E x \in Users : \E k \in Keys : ChangeCheck(x, k)
  BY <1>1, <1>7 DEF Expire, vars, ChangeCheck, rows
<1> QED BY <1>1, <1>4, <1>5, <1>6, <1>7 DEF Next

\* The words of every stored kit have reached its user, will, or were lost.
THEOREM KitWords == Spec => []KitWordsReachUser
<1> DEFINE Kits == \A u \in Users : HasVault(u) => Reaching(identity[u].kit.words)
<1>1. Init => Kits
  BY DEF Init, HasVault
<1>2. TypeInv /\ Kits /\ [Next]_vars => Kits'
  <2> SUFFICES ASSUME TypeInv, Kits, [Next]_vars, NEW u \in Users, HasVault(u)'
               PROVE  Reaching(identity[u].kit.words)'
    OBVIOUS
  <2>1. CASE HasVault(u) /\ identity'[u].kit.words = identity[u].kit.words
    <3>1. PICK w : w = identity[u].kit.words
      OBVIOUS
    <3>2. Reaching(w)'
      BY <2>1, <3>1, ReachingKept
    <3> QED BY <2>1, <3>1, <3>2 DEF Reaching
  <2>2. CASE Reaching(identity[u].kit.words)'
    BY <2>2 DEF Reaching
  <2> QED BY <2>1, <2>2, KitWritten
<1>3. Kits => KitWordsReachUser
  BY DEF Reaching, KitWordsReachUser
<1> HIDE DEF Kits
<1> QED BY <1>1, <1>2, <1>3, InitType, NextType, PTL DEF Spec

----------------------------------------------------------------------------
(* Recovery by a contact: the inductive invariants.                        *)

\* The device d is completing the request i; the tab t is approving it.
Completes(d, i) == call[d] \in Completions /\ call[d].id = i
Approves(t, i) == approving[t] = i

WaitedFor(i) == request[i] # Nothing /\ request[i].waited

\* Who is past the approval of a request has waited.
Waiting ==
    /\ \A i \in Ids : /\ Has(i, {"approved", "completed"}) => WaitedFor(i)
                      /\ replaced[i] > 0 => WaitedFor(i)
                      /\ i \in cancelled => request[i] # Nothing
    /\ \A i \in Ids : /\ \A t \in ContactTabs : Approves(t, i) => WaitedFor(i)
                      /\ \A d \in Devices : Completes(d, i) => WaitedFor(i)

\* Where no two calls about i have met: at most one is under way, it knows the
\* row, and a cancellation left none.
Alone(i) ==
    /\ \A d, e \in Devices : Completes(d, i) /\ Completes(e, i) => d = e
    /\ \A t, u \in ContactTabs : Approves(t, i) /\ Approves(u, i) => t = u
    /\ \A d \in Devices, t \in ContactTabs : ~(Completes(d, i) /\ Approves(t, i))
    /\ \A t \in ContactTabs : Approves(t, i) => replaced[i] = 0
    /\ \A d \in Devices : Completes(d, i) /\ call[d].at = "checked" => replaced[i] = 0
    /\ replaced[i] <= 1
    /\ replaced[i] = 1 => \/ request[i].status = "completed"
                          \/ \E d \in Devices : Completes(d, i) /\ call[d].at = "replaced"
    /\ i \in cancelled => request[i].status = "cancelled" /\ replaced[i] = 0 /\ ~InFlight(i)

Calm == \A i \in Ids \ overlapped : Alone(i)

----------------------------------------------------------------------------
(* A row that is written by its id.                                        *)

LEMMA RowWithStatus ==
  ASSUME NEW r \in RequestRows, NEW s \in Statuses
  PROVE  /\ WithStatus(r, s) \in RequestRows /\ WithStatus(r, s) # Nothing
         /\ WithStatus(r, s).status = s
         /\ WithStatus(r, s).waited = r.waited /\ WithStatus(r, s).contact = r.contact
<1>1. WithStatus(r, s) \in RequestRows
  BY DEF WithStatus, RequestRows
<1>2. WithStatus(r, s) # Nothing
  BY <1>1, NothingAssumption
<1> QED
  BY <1>1, <1>2 DEF WithStatus

LEMMA StatusSet ==
  ASSUME RecoveryTypeOK, NEW i \in Ids, request[i] # Nothing, NEW s \in Statuses, SetStatus(i, s)
  PROVE  /\ request' \in [Ids -> RequestRows \cup {Nothing}]
         /\ request'[i] # Nothing /\ request'[i].status = s
         /\ request'[i].waited = request[i].waited
         /\ \A j \in Ids \ {i} : request'[j] = request[j]
<1> DEFINE r == WithStatus(request[i], s)
<1>1. request[i] \in RequestRows
  BY DEF RecoveryTypeOK
<1>2. r \in RequestRows /\ r # Nothing /\ r.status = s /\ r.waited = request[i].waited
  BY <1>1, RowWithStatus
<1>3. request' = [request EXCEPT ![i] = r]
  BY DEF SetStatus
<1> HIDE DEF r
<1> QED
  BY <1>2, <1>3 DEF RecoveryTypeOK

----------------------------------------------------------------------------
(* Types, and the waiting period.                                          *)

LEMMA InitWaits == RecoveryInit => RecoveryTypeOK /\ Waiting
  BY RecoveryAssumption, NothingAssumption
     DEF RecoveryInit, RecoveryTypeOK, Views, Many, Waiting, Has, WaitedFor, Approves, Completes, Completions

LEMMA RecoveryNextType == RecoveryTypeOK /\ Waiting /\ [RecoveryNext]_recoveryVars => RecoveryTypeOK'
<1> SUFFICES ASSUME RecoveryTypeOK, Waiting, [RecoveryNext]_recoveryVars PROVE RecoveryTypeOK'
  OBVIOUS
<1> USE RecoveryAssumption, NothingAssumption
    DEF RecoveryTypeOK, owner, calls, past, RequestRows, Starts, Completions, Views, Selections, Statuses
<1>1. ASSUME NEW d \in Devices, Load(d) PROVE RecoveryTypeOK'
  BY <1>1 DEF Load, Fetched, ActiveIds, Has
<1>2. ASSUME NEW d \in Devices, NEW c \in Contacts, AddContact(d, c) PROVE RecoveryTypeOK'
  BY <1>2 DEF AddContact
<1>3. ASSUME NEW d \in Devices, RemoveContacts(d) PROVE RecoveryTypeOK'
  BY <1>3 DEF RemoveContacts
<1>4. ASSUME NEW d \in Devices, RequestRecovery(d) PROVE RecoveryTypeOK'
  BY <1>4 DEF RequestRecovery
<1>5. ASSUME NEW d \in Devices, NEW i \in Ids, InsertRequest(d, i) PROVE RecoveryTypeOK'
  BY <1>5 DEF InsertRequest
<1>6. ASSUME NEW d \in Devices, CancelRequest(d) PROVE RecoveryTypeOK'
  <2>1. \A i \in ActiveIds : WithStatus(request[i], "cancelled") \in RequestRows
    BY RowWithStatus DEF ActiveIds, Has
  <2>2. request' \in [Ids -> RequestRows \cup {Nothing}]
    BY <1>6, <2>1 DEF CancelRequest
  <2> QED BY <1>6, <2>2 DEF CancelRequest, ActiveIds
<1>7. ASSUME NEW d \in Devices, NEW i \in Ids, CompleteCheck(d, i) PROVE RecoveryTypeOK'
  BY <1>7 DEF CompleteCheck
<1>8. ASSUME NEW d \in Devices, CompleteReplace(d) PROVE RecoveryTypeOK'
  BY <1>8 DEF CompleteReplace, Many
<1>9. ASSUME NEW d \in Devices, CompleteFinish(d) PROVE RecoveryTypeOK'
  <2>1. call[d].id \in Ids /\ request[call[d].id] # Nothing
    BY <1>9 DEF CompleteFinish, Waiting, Completes, WaitedFor
  <2>2. request' \in [Ids -> RequestRows \cup {Nothing}]
    BY <1>9, <2>1, StatusSet DEF CompleteFinish
  <2> QED BY <1>9, <2>2 DEF CompleteFinish
<1>10. ASSUME NEW d \in Devices, OwnerCallFails(d) PROVE RecoveryTypeOK'
  BY <1>10 DEF OwnerCallFails
<1>11. ASSUME NEW t \in ContactTabs, NEW i \in Ids, Select(t, i) PROVE RecoveryTypeOK'
  BY <1>11 DEF Select, ActiveIds, Has
<1>12. ASSUME NEW t \in ContactTabs, CloseSheet(t) PROVE RecoveryTypeOK'
  BY <1>12 DEF CloseSheet
<1>13. ASSUME NEW t \in ContactTabs, ApproveCheck(t) PROVE RecoveryTypeOK'
  BY <1>13 DEF ApproveCheck
<1>14. ASSUME NEW t \in ContactTabs, ApproveWrite(t) PROVE RecoveryTypeOK'
  <2>1. approving[t] \in Ids /\ request[approving[t]] # Nothing
    BY <1>14 DEF ApproveWrite, Waiting, Approves, WaitedFor
  <2>2. request' \in [Ids -> RequestRows \cup {Nothing}]
    BY <1>14, <2>1, StatusSet DEF ApproveWrite
  <2> QED BY <1>14, <2>2 DEF ApproveWrite
<1>15. ASSUME NEW t \in ContactTabs, ApproveFails(t) PROVE RecoveryTypeOK'
  BY <1>15 DEF ApproveFails
<1>16. ASSUME NEW i \in Ids, WaitingPeriodEnds(i) PROVE RecoveryTypeOK'
  BY <1>16 DEF WaitingPeriodEnds, ActiveIds, Has
<1>17. ASSUME LockOwner PROVE RecoveryTypeOK'
  BY <1>17 DEF LockOwner
<1>18. ASSUME UnlockOwner PROVE RecoveryTypeOK'
  BY <1>18 DEF UnlockOwner
<1>19. ASSUME Forget PROVE RecoveryTypeOK'
  BY <1>19 DEF Forget
<1>20. CASE UNCHANGED recoveryVars
  BY <1>20 DEF recoveryVars
<1> QED
  BY <1>1, <1>2, <1>3, <1>4, <1>5, <1>6, <1>7, <1>8, <1>9, <1>10, <1>11, <1>12, <1>13, <1>14, <1>15,
     <1>16, <1>17, <1>18, <1>19, <1>20 DEF RecoveryNext, OwnerStep, ContactStep

LEMMA NextWaiting == RecoveryTypeOK /\ Waiting /\ [RecoveryNext]_recoveryVars => Waiting'
<1> SUFFICES ASSUME RecoveryTypeOK, Waiting, [RecoveryNext]_recoveryVars PROVE Waiting'
  OBVIOUS
<1> USE RecoveryAssumption, NothingAssumption
    DEF RecoveryTypeOK, Waiting, WaitedFor, Has, Approves, Completes, owner, calls, past,
        RequestRows, Starts, Completions, Statuses
<1>1. ASSUME NEW d \in Devices, Load(d) PROVE Waiting'
  BY <1>1 DEF Load
<1>2. ASSUME NEW d \in Devices, NEW c \in Contacts, AddContact(d, c) PROVE Waiting'
  BY <1>2 DEF AddContact
<1>3. ASSUME NEW d \in Devices, RemoveContacts(d) PROVE Waiting'
  BY <1>3 DEF RemoveContacts
<1>4. ASSUME NEW d \in Devices, RequestRecovery(d) PROVE Waiting'
  BY <1>4 DEF RequestRecovery
<1>5. ASSUME NEW d \in Devices, NEW i \in Ids, InsertRequest(d, i) PROVE Waiting'
  BY <1>5 DEF InsertRequest
<1>6. ASSUME NEW d \in Devices, CancelRequest(d) PROVE Waiting'
  <2>1. \A i \in ActiveIds : /\ request'[i] # Nothing /\ request'[i].status = "cancelled"
                             /\ request'[i].waited = request[i].waited
    BY <1>6, RowWithStatus DEF CancelRequest, ActiveIds
  <2>2. \A i \in Ids \ ActiveIds : request'[i] = request[i]
    BY <1>6 DEF CancelRequest
  <2>3. ActiveIds \subseteq Ids
    BY DEF ActiveIds
  <2> QED BY <1>6, <2>1, <2>2, <2>3 DEF CancelRequest, ActiveIds
<1>7. ASSUME NEW d \in Devices, NEW i \in Ids, CompleteCheck(d, i) PROVE Waiting'
  BY <1>7 DEF CompleteCheck
<1>8. ASSUME NEW d \in Devices, CompleteReplace(d) PROVE Waiting'
  BY <1>8 DEF CompleteReplace, Many
<1>9. ASSUME NEW d \in Devices, CompleteFinish(d) PROVE Waiting'
  <2> DEFINE i == call[d].id
  <2>1. i \in Ids /\ WaitedFor(i) /\ SetStatus(i, "completed")
    BY <1>9 DEF CompleteFinish
  <2>2. request'[i] # Nothing /\ request'[i].waited /\ \A j \in Ids \ {i} : request'[j] = request[j]
    BY <2>1, StatusSet
  <2> HIDE DEF i
  <2> QED BY <1>9, <2>1, <2>2 DEF CompleteFinish
<1>10. ASSUME NEW d \in Devices, OwnerCallFails(d) PROVE Waiting'
  BY <1>10 DEF OwnerCallFails
<1>11. ASSUME NEW t \in ContactTabs, NEW i \in Ids, Select(t, i) PROVE Waiting'
  BY <1>11 DEF Select
<1>12. ASSUME NEW t \in ContactTabs, CloseSheet(t) PROVE Waiting'
  BY <1>12 DEF CloseSheet
<1>13. ASSUME NEW t \in ContactTabs, ApproveCheck(t) PROVE Waiting'
  BY <1>13 DEF ApproveCheck, Approvable, Selections
<1>14. ASSUME NEW t \in ContactTabs, ApproveWrite(t) PROVE Waiting'
  <2> DEFINE i == approving[t]
  <2>1. i \in Ids /\ WaitedFor(i)
    BY <1>14 DEF ApproveWrite
  <2>2. CASE SetStatus(i, "approved")
    <3>1. request'[i] # Nothing /\ request'[i].waited /\ \A j \in Ids \ {i} : request'[j] = request[j]
      BY <2>1, <2>2, StatusSet
    <3> HIDE DEF i
    <3> QED BY <1>14, <2>1, <3>1 DEF ApproveWrite
  <2>3. CASE UNCHANGED request
    BY <1>14, <2>3 DEF ApproveWrite
  <2> QED BY <1>14, <2>2, <2>3 DEF ApproveWrite
<1>15. ASSUME NEW t \in ContactTabs, ApproveFails(t) PROVE Waiting'
  BY <1>15 DEF ApproveFails
<1>16. ASSUME NEW i \in Ids, WaitingPeriodEnds(i) PROVE Waiting'
  <2> DEFINE r == [contact |-> request[i].contact, status |-> request[i].status, waited |-> TRUE]
  <2>1. request[i] # Nothing /\ r \in RequestRows
    BY <1>16 DEF WaitingPeriodEnds, ActiveIds
  <2>2. r # Nothing /\ r.waited /\ r.status = request[i].status
    BY <2>1
  <2>3. request' = [request EXCEPT ![i] = r]
    BY <1>16 DEF WaitingPeriodEnds
  <2>4. request'[i] # Nothing /\ request'[i].waited /\ request'[i].status = request[i].status
    BY <2>2, <2>3
  <2>5. \A j \in Ids \ {i} : request'[j] = request[j]
    BY <2>3
  <2> HIDE DEF r
  <2> QED BY <1>16, <2>1, <2>4, <2>5 DEF WaitingPeriodEnds
<1>17. ASSUME LockOwner PROVE Waiting'
  BY <1>17 DEF LockOwner
<1>18. ASSUME UnlockOwner PROVE Waiting'
  BY <1>18 DEF UnlockOwner
<1>19. ASSUME Forget PROVE Waiting'
  BY <1>19 DEF Forget
<1>20. CASE UNCHANGED recoveryVars
  BY <1>20 DEF recoveryVars
<1> QED
  BY <1>1, <1>2, <1>3, <1>4, <1>5, <1>6, <1>7, <1>8, <1>9, <1>10, <1>11, <1>12, <1>13, <1>14, <1>15,
     <1>16, <1>17, <1>18, <1>19, <1>20 DEF RecoveryNext, OwnerStep, ContactStep

----------------------------------------------------------------------------
(* Calls that do not meet.                                                 *)

LEMMA InitCalm == RecoveryInit => Calm
  BY RecoveryAssumption, NothingAssumption
     DEF RecoveryInit, Calm, Alone, InFlight, Completes, Approves, Completions

LEMMA NextCalm == RecoveryTypeOK /\ Waiting /\ Calm /\ [RecoveryNext]_recoveryVars => Calm'
<1> SUFFICES ASSUME RecoveryTypeOK, Waiting, Calm, [RecoveryNext]_recoveryVars PROVE Calm'
  OBVIOUS
<1> USE RecoveryAssumption, NothingAssumption
    DEF RecoveryTypeOK, InFlight, Has, Approves, Completes, owner, calls, past,
        RequestRows, Starts, Completions, Statuses, Many
<1>1. ASSUME NEW d \in Devices, Load(d) PROVE Calm'
  BY <1>1 DEF Load, Calm, Alone
<1>2. ASSUME NEW d \in Devices, NEW c \in Contacts, AddContact(d, c) PROVE Calm'
  BY <1>2 DEF AddContact, Calm, Alone
<1>3. ASSUME NEW d \in Devices, RemoveContacts(d) PROVE Calm'
  BY <1>3 DEF RemoveContacts, Calm, Alone
<1>4. ASSUME NEW d \in Devices, RequestRecovery(d) PROVE Calm'
  BY <1>4 DEF RequestRecovery, Calm, Alone
<1>5. ASSUME NEW d \in Devices, NEW i \in Ids, InsertRequest(d, i) PROVE Calm'
  BY <1>5 DEF InsertRequest, Waiting, WaitedFor, Calm, Alone
<1>6. ASSUME NEW d \in Devices, CancelRequest(d) PROVE Calm'
  <2>1. \A i \in ActiveIds : request'[i].status = "cancelled"
    BY <1>6, RowWithStatus DEF CancelRequest, ActiveIds
  <2>2. \A i \in Ids \ ActiveIds : request'[i] = request[i]
    BY <1>6 DEF CancelRequest
  <2>3. ASSUME NEW j \in ActiveIds \ overlapped' PROVE Alone(j)'
    <3>1. j \in Ids \ overlapped /\ ~InFlight(j) /\ request[j].status # "completed"
      BY <1>6, <2>3 DEF CancelRequest, ActiveIds
    <3>2. replaced[j] = 0
      BY <3>1 DEF Calm, Alone
    <3>3. UNCHANGED <<calls, replaced>>
      BY <1>6 DEF CancelRequest
    <3>4. j \in Ids /\ request'[j].status = "cancelled" /\ ~InFlight(j)'
      BY <2>1, <2>3, <3>1, <3>3 DEF ActiveIds
    <3> QED BY <3>2, <3>3, <3>4 DEF Alone
  <2>4. ASSUME NEW j \in Ids \ overlapped', j \notin ActiveIds PROVE Alone(j)'
    BY <1>6, <2>2, <2>4 DEF CancelRequest, Calm, Alone
  <2> QED BY <2>3, <2>4 DEF Calm
<1>7. ASSUME NEW d \in Devices, NEW i \in Ids, CompleteCheck(d, i) PROVE Calm'
  <2>1. call[d] = Nothing /\ request[i] # Nothing /\ request[i].status = "approved"
    BY <1>7 DEF CompleteCheck
  <2>2. call' = [call EXCEPT ![d] = [at |-> "checked", id |-> i]]
       /\ UNCHANGED <<approving, request, replaced, cancelled>>
    BY <1>7 DEF CompleteCheck
  <2>3. overlapped \subseteq overlapped' /\ (i \notin overlapped' => ~InFlight(i))
    BY <1>7 DEF CompleteCheck
  <2>4. ASSUME NEW j \in Ids \ overlapped', j # i PROVE Alone(j)'
    <3>1. \A e \in Devices : call'[e] # call[e] => ~Completes(e, j) /\ ~Completes(e, j)'
      BY <2>1, <2>2, <2>4
    <3> QED BY <2>1, <2>2, <2>3, <2>4, <3>1 DEF Calm, Alone
  <2>5. ASSUME i \notin overlapped' PROVE Alone(i)'
    <3>1. Alone(i) /\ ~InFlight(i)
      BY <2>1, <2>3, <2>5 DEF Calm
    <3>2. replaced[i] = 0 /\ i \notin cancelled
      BY <2>1, <3>1 DEF Alone
    <3> QED BY <2>2, <3>1, <3>2 DEF Alone
  <2> QED BY <2>1, <2>4, <2>5 DEF Calm
<1>8. ASSUME NEW d \in Devices, CompleteReplace(d) PROVE Calm'
  BY <1>8 DEF CompleteReplace, Many, Calm, Alone
<1>9. ASSUME NEW d \in Devices, CompleteFinish(d) PROVE Calm'
  <2> PICK i \in Ids : i = call[d].id
    BY <1>9 DEF CompleteFinish
  <2>1. request[i] # Nothing /\ SetStatus(i, "completed") /\ Completes(d, i)
    BY <1>9 DEF CompleteFinish, Waiting, WaitedFor
  <2>2. request'[i].status = "completed" /\ \A j \in Ids \ {i} : request'[j] = request[j]
    BY <2>1, StatusSet
  <2>3. /\ call' = [call EXCEPT ![d] = Nothing]
        /\ UNCHANGED <<approving, replaced, cancelled, overlapped>>
    BY <1>9 DEF CompleteFinish
  <2>4. ASSUME NEW j \in Ids \ overlapped, j # i PROVE Alone(j)'
    BY <2>1, <2>2, <2>3, <2>4 DEF Calm, Alone
  <2>5. ASSUME i \notin overlapped PROVE Alone(i)'
    <3>1. /\ i \notin cancelled /\ replaced[i] <= 1
          /\ \A e \in Devices \ {d} : ~Completes(e, i)
          /\ \A t \in ContactTabs : ~Approves(t, i)
      BY <2>1, <2>5 DEF Calm, Alone
    <3>2. (\A e \in Devices : ~Completes(e, i)') /\ (\A t \in ContactTabs : ~Approves(t, i)')
      BY <2>3, <3>1
    <3> QED BY <2>2, <2>3, <3>1, <3>2 DEF Alone
  <2> QED BY <2>1, <2>3, <2>4, <2>5 DEF Calm
<1>10. ASSUME NEW d \in Devices, OwnerCallFails(d) PROVE Calm'
  BY <1>10 DEF OwnerCallFails, Calm, Alone
<1>11. ASSUME NEW t \in ContactTabs, NEW i \in Ids, Select(t, i) PROVE Calm'
  BY <1>11 DEF Select, Calm, Alone
<1>12. ASSUME NEW t \in ContactTabs, CloseSheet(t) PROVE Calm'
  BY <1>12 DEF CloseSheet, Calm, Alone
<1>13. ASSUME NEW t \in ContactTabs, ApproveCheck(t) PROVE Calm'
  <2> PICK i \in Ids : i = selected[t].id
    BY <1>13 DEF ApproveCheck, Selections
  <2>1. request[i] # Nothing /\ request[i].status = "pending"
    BY <1>13 DEF ApproveCheck, Approvable, Selections
  <2>2. approving' = [approving EXCEPT ![t] = i] /\ UNCHANGED <<call, request, replaced, cancelled>>
    BY <1>13 DEF ApproveCheck
  <2>3. overlapped \subseteq overlapped' /\ (i \notin overlapped' => ~InFlight(i))
    BY <1>13 DEF ApproveCheck
  <2>4. ASSUME NEW j \in Ids \ overlapped', j # i PROVE Alone(j)'
    BY <2>1, <2>2, <2>3, <2>4 DEF Calm, Alone
  <2>5. ASSUME i \notin overlapped' PROVE Alone(i)'
    <3>1. Alone(i) /\ ~InFlight(i)
      BY <2>1, <2>3, <2>5 DEF Calm
    <3>2. replaced[i] = 0 /\ i \notin cancelled
      BY <2>1, <3>1 DEF Alone
    <3> QED BY <2>2, <3>1, <3>2 DEF Alone
  <2> QED BY <2>1, <2>4, <2>5 DEF Calm
<1>14. ASSUME NEW t \in ContactTabs, ApproveWrite(t) PROVE Calm'
  <2> PICK i \in Ids : i = approving[t]
    BY <1>14 DEF ApproveWrite
  <2>1. request[i] # Nothing /\ Approves(t, i)
    BY <1>14 DEF ApproveWrite, Waiting, WaitedFor
  <2>2. \A j \in Ids \ {i} : request'[j] = request[j]
    BY <1>14, <2>1, StatusSet DEF ApproveWrite
  <2>3. /\ approving' = [approving EXCEPT ![t] = Nothing]
        /\ UNCHANGED <<call, replaced, cancelled, overlapped>>
    BY <1>14 DEF ApproveWrite
  <2>4. ASSUME NEW j \in Ids \ overlapped, j # i PROVE Alone(j)'
    BY <2>1, <2>2, <2>3, <2>4 DEF Calm, Alone
  <2>5. ASSUME i \notin overlapped PROVE Alone(i)'
    <3>1. /\ i \notin cancelled /\ replaced[i] = 0
          /\ \A d \in Devices : ~Completes(d, i)
          /\ \A u \in ContactTabs \ {t} : ~Approves(u, i)
      BY <2>1, <2>5 DEF Calm, Alone
    <3>2. (\A d \in Devices : ~Completes(d, i)') /\ (\A u \in ContactTabs : ~Approves(u, i)')
      BY <2>3, <3>1
    <3> QED BY <2>3, <3>1, <3>2 DEF Alone
  <2> QED BY <2>1, <2>3, <2>4, <2>5 DEF Calm
<1>15. ASSUME NEW t \in ContactTabs, ApproveFails(t) PROVE Calm'
  BY <1>15 DEF ApproveFails, Calm, Alone
<1>16. ASSUME NEW i \in Ids, WaitingPeriodEnds(i) PROVE Calm'
  BY <1>16 DEF WaitingPeriodEnds, ActiveIds, Waiting, WaitedFor, Calm, Alone
<1>17. ASSUME LockOwner PROVE Calm'
  BY <1>17 DEF LockOwner, Calm, Alone
<1>18. ASSUME UnlockOwner PROVE Calm'
  BY <1>18 DEF UnlockOwner, Calm, Alone
<1>19. ASSUME Forget PROVE Calm'
  BY <1>19 DEF Forget, Calm, Alone
<1>20. CASE UNCHANGED recoveryVars
  BY <1>20 DEF recoveryVars, Calm, Alone
<1> QED
  BY <1>1, <1>2, <1>3, <1>4, <1>5, <1>6, <1>7, <1>8, <1>9, <1>10, <1>11, <1>12, <1>13, <1>14, <1>15,
     <1>16, <1>17, <1>18, <1>19, <1>20 DEF RecoveryNext, OwnerStep, ContactStep

----------------------------------------------------------------------------
(* Recovery by a contact: the theorems.                                    *)

\* The variables keep their types, through every revival and repeated call;
\* who is past the approval of a request has waited.
THEOREM RecoveryTypeCorrect == RecoverySpec => [](RecoveryTypeOK /\ Waiting)
<1>1. RecoveryTypeOK /\ Waiting /\ [RecoveryNext]_recoveryVars => (RecoveryTypeOK /\ Waiting)'
  BY RecoveryNextType, NextWaiting
<1> QED BY <1>1, InitWaits, PTL DEF RecoverySpec

\* A vault key is replaced only by a request that has waited its 72 hours
\* (recovery.go, ApproveRecovery and CompleteRecovery).
THEOREM WaitedFirst == RecoverySpec => []ReplacedAfterWaiting
<1>1. Waiting => ReplacedAfterWaiting
  BY DEF Waiting, WaitedFor, ReplacedAfterWaiting
<1> QED BY <1>1, RecoveryTypeCorrect, PTL

\* Where no two calls about a request meet, the one under way knows its row.
THEOREM CallsAlone == RecoverySpec => []Calm
<1>1. RecoveryTypeOK /\ Waiting /\ Calm /\ [RecoveryNext]_recoveryVars => Calm'
  BY NextCalm
<1> QED BY <1>1, InitCalm, RecoveryTypeCorrect, PTL DEF RecoverySpec

\* A cancelled request stays cancelled and replaces nothing, unless two calls
\* about it met (recovery.go, CancelRecovery).
THEOREM CancelHolds == RecoverySpec => []CancelStands
<1>1. RecoveryTypeOK /\ Calm => CancelStands
  BY DEF RecoveryTypeOK, Calm, Alone, CancelStands
<1> QED BY <1>1, RecoveryTypeCorrect, CallsAlone, PTL

\* An approval is good for one recovery, unless two calls met or the second
\* statement of the completion failed (recovery.go, CompleteRecovery).
THEOREM OneRecovery == RecoverySpec => []RecoversOnce
<1>1. RecoveryTypeOK /\ Calm => RecoversOnce
  <2> SUFFICES ASSUME RecoveryTypeOK, Calm, NEW i \in Ids \ overlapped
               PROVE  /\ replaced[i] <= 1
                      /\ replaced[i] = 1 =>
                           \/ request[i].status = "completed"
                           \/ \E d \in Devices : call[d] = [at |-> "replaced", id |-> i]
    BY DEF RecoversOnce
  <2>1. Alone(i)
    BY DEF Calm
  <2>2. ASSUME NEW d \in Devices, Completes(d, i), call[d].at = "replaced"
        PROVE  call[d] = [at |-> "replaced", id |-> i]
    BY <2>2 DEF RecoveryTypeOK, Completes, Completions
  <2> QED BY <2>1, <2>2 DEF Alone
<1> QED BY <1>1, RecoveryTypeCorrect, CallsAlone, PTL

=============================================================================
