-------------------------- MODULE TokensPageProofs --------------------------
(***************************************************************************)
(* Proofs about TokensPage for any names, tokens, filters and mutations.   *)
(*                                                                         *)
(* A list may be as old as it likes: tokens keep their names and never     *)
(* return to force, so what a row says of a revoked token stays true.  The *)
(* button of a position may hold the text typed for another row, but it    *)
(* is compared with the row that is there now, and its kind is the row's.  *)
(* Of the dialogs that make a token each has one mutation at most, and     *)
(* none while it shows a plaintext.                                        *)
(***************************************************************************)
EXTENDS TokensPage, TLAPS

----------------------------------------------------------------------------
(* The inductive invariants.                                               *)

\* From the tokens tk to those of tk2: names stay, nothing returns to force.
Grows(tk, tk2) ==
    \A i \in DOMAIN tk :
       /\ i \in DOMAIN tk2 /\ tk2[i].name = tk[i].name
       /\ tk[i].state # "active" => tk2[i].state # "active"

\* The row tells of one of the tokens tk.
Known(row, tk) ==
    /\ row.id \in DOMAIN tk /\ tk[row.id].name = row.name
    /\ row.state = "revoked" => tk[row.id].state # "active"

KnownTable(t, tk) == \A k \in DOMAIN t : Known(t[k], tk)

RowsKnown ==
    /\ \A f \in Filters : cache[f] # None => KnownTable(cache[f], token)
    /\ fly \notin {None, Asked} => KnownTable(fly, token)
    /\ sheet.row # None => Known(sheet.row, token)

\* The buttons are of the kind of their rows.
ButtonsFit == \A i \in DOMAIN box : box[i].kind = KindOf(Table(filter, cache)[i])

\* What the mutation asks for was named by the user and may be done.
Sound(op, id, name, tk) ==
    /\ op = "create" <=> id = None
    /\ id # None => id \in DOMAIN tk /\ tk[id].name = name
    /\ op = "destroy" => tk[id].state # "active"

ReqsSound == \A q \in reqs : Sound(q.op, q.id, q.name, token)

\* A dialog waits for one token and then shows it; none is superseded.
OneEach ==
    /\ \A q \in reqs : q.from # At("superseded")
    /\ \A q, r \in reqs : q.from = r.from /\ q.from.at \in {"header", "empty"} => q = r
    /\ \A q \in reqs : q.from.at \in {"header", "empty"} => create[q.from.at].shown = None

Shows ==
    /\ \A d \in {"header", "empty"} :
          create[d].shown # None => /\ create[d].shown \in DOMAIN token
                                    /\ create[d].open => fate[create[d].shown] = "settled"
    /\ \A i \in Ids : /\ fate[i] # "superseded"
                      /\ fate[i] = "ready" => \E d \in {"header", "empty"} : create[d].shown = i

\* An open dialog of the sheet belongs to a row.
SheetFilled == sheet.open => sheet.row # None

IInv == TypeOK /\ RowsKnown /\ SheetFilled /\ ButtonsFit /\ ReqsSound

----------------------------------------------------------------------------
(* Tables, tokens and requests.                                            *)

\* What the page shows under a filter is rows in places, and the cache keeps them apart from None.
LEMMA TableRows ==
    ASSUME NEW t \in Tables
    PROVE  /\ DOMAIN t \subseteq Ids /\ \A i \in DOMAIN t : t[i] \in Rows
           /\ t # None /\ t # Asked
<1>1. PICK k \in 0..MaxTokens : t \in [1..k -> Rows]
  BY DEF Tables
<1>2. DOMAIN t \subseteq Ids /\ \A i \in DOMAIN t : t[i] \in Rows
  BY <1>1, ConstantsAssumption DEF Ids
<1> QED
  BY <1>2, NoneAssumption

LEMMA ShownRows ==
    ASSUME NEW c \in [Filters -> Tables \cup {None}], NEW f \in Filters
    PROVE  /\ DOMAIN Table(f, c) \subseteq Ids
           /\ \A i \in DOMAIN Table(f, c) : Table(f, c)[i] \in Rows
<1>1. CASE c[f] = None
  BY <1>1 DEF Table, Loading
<1>2. CASE c[f] # None
  <2>1. c[f] \in Tables
    BY <1>2
  <2> QED
    BY <1>2, <2>1, TableRows DEF Table, Loading
<1> QED
  BY <1>1, <1>2

\* A token of the list that is revoked or destroyed keeps its name and is not in force.
LEMMA SetState ==
    ASSUME NEW tk \in Seq(Tokens), NEW i \in DOMAIN tk, NEW s \in {"revoked", "gone"},
           NEW tk2, tk2 = [tk EXCEPT ![i] = InState(@, s)]
    PROVE  /\ tk2 \in Seq(Tokens) /\ Len(tk2) = Len(tk)
           /\ Grows(tk, tk2)
<1>1. tk[i] \in Tokens /\ DOMAIN tk2 = DOMAIN tk
  OBVIOUS
<1>2. tk2[i] = InState(tk[i], s) /\ \A j \in DOMAIN tk : j # i => tk2[j] = tk[j]
  OBVIOUS
<1>3. InState(tk[i], s) \in Tokens
  BY <1>1 DEF InState, Tokens
<1>4. tk2 \in Seq(Tokens) /\ Len(tk2) = Len(tk)
  BY <1>3
<1>5. tk2[i].name = tk[i].name /\ tk2[i].state # "active"
  BY <1>2 DEF InState
<1> QED
  BY <1>1, <1>2, <1>4, <1>5 DEF Grows

LEMMA AddToken ==
    ASSUME NEW tk \in Seq(Tokens), NEW n \in Names, Len(tk) < MaxTokens,
           NEW tk2, tk2 = Append(tk, [name |-> n, state |-> "active"])
    PROVE  /\ tk2 \in Seq(Tokens) /\ Len(tk2) = Len(tk) + 1 /\ Len(tk2) <= MaxTokens
           /\ Grows(tk, tk2)
<1>1. [name |-> n, state |-> "active"] \in Tokens
  BY DEF Tokens
<1>2. tk2 \in Seq(Tokens) /\ Len(tk2) = Len(tk) + 1
  BY <1>1
<1>3. \A j \in DOMAIN tk : j \in DOMAIN tk2 /\ tk2[j] = tk[j]
  BY <1>1
<1>4. Len(tk2) <= MaxTokens
  BY <1>2, ConstantsAssumption
<1> QED
  BY <1>2, <1>3, <1>4 DEF Grows

LEMMA GrowsSame ==
    ASSUME NEW tk
    PROVE  Grows(tk, tk)
BY DEF Grows

\* What is known of a token stays true.
LEMMA StillKnown ==
    ASSUME NEW tk, NEW tk2, Grows(tk, tk2), NEW row, Known(row, tk)
    PROVE  Known(row, tk2)
BY DEF Grows, Known

LEMMA StillSound ==
    ASSUME NEW tk, NEW tk2, Grows(tk, tk2), NEW op, NEW id, NEW name, Sound(op, id, name, tk),
           op = "destroy" => id # None
    PROVE  Sound(op, id, name, tk2)
BY DEF Grows, Sound

\* A mutation that has lost its component asks for what it asked for before.
LEMMA Orphan ==
    ASSUME NEW q \in Requests, NEW c \in Components
    PROVE  /\ From(q, c) \in Requests
           /\ From(q, c).op = q.op /\ From(q, c).id = q.id /\ From(q, c).name = q.name
           /\ From(q, c).from = c
BY DEF From, Requests

LEMMA Places ==
    /\ \A i \in Ids : Row(i) \in Components /\ Row(i).at = "row" /\ Row(i).i = i
    /\ \A a \in {"sheet", "header", "empty", "gone", "superseded"} :
          At(a) \in Components /\ At(a).at = a
    /\ \A c \in Components : c.at = "row" => c.i \in Ids /\ c = Row(c.i)
    /\ \A c \in Components : c.at # "row" => c = At(c.at)
BY DEF Components, Row, At

----------------------------------------------------------------------------
(* The tokens: names stay and nothing returns to force.                    *)

\* The token that is revoked or destroyed is one there is.
LEMMA Target ==
    ASSUME TypeOK, ReqsSound, NEW q \in reqs, q.op \in {"revoke", "destroy"}
    PROVE  q.id # None /\ q.id \in DOMAIN token /\ token[q.id].name = q.name
BY DEF ReqsSound, Sound

LEMMA TokenStep ==
    ASSUME TypeOK, ReqsSound, [Next]_vars
    PROVE  token' \in Seq(Tokens) /\ Len(token') <= MaxTokens /\ Grows(token, token')
<1> DEFINE Good == token' \in Seq(Tokens) /\ Len(token') <= MaxTokens /\ Grows(token, token')
<1>0. token \in Seq(Tokens) /\ Len(token) <= MaxTokens /\ reqs \subseteq Requests
  BY DEF TypeOK
<1>1. ASSUME UNCHANGED token
      PROVE  Good
  BY <1>0, <1>1, GrowsSame
<1>2. ASSUME NEW q \in reqs, NEW s \in {"revoked", "gone"}, q.op \in {"revoke", "destroy"},
             token' = [token EXCEPT ![q.id] = InState(@, s)]
      PROVE  Good
  BY <1>0, <1>2, Target, SetState
<1>3. ASSUME NEW n \in Names, Len(token) < MaxTokens,
             token' = Append(token, [name |-> n, state |-> "active"])
      PROVE  Good
  BY <1>0, <1>3, AddToken
<1>4. ASSUME NEW q \in reqs, Revoke(q) \/ Destroy(q) \/ Create(q) \/ AnswerLost(q)
      PROVE  Good
  <2>1. q.name \in Names
    BY <1>0 DEF Requests
  <2>2. CASE Revoke(q)
    BY <1>2, <2>2 DEF Revoke
  <2>3. CASE Destroy(q)
    BY <1>2, <2>3 DEF Destroy
  <2>4. CASE Create(q)
    BY <1>3, <2>1, <2>4 DEF Create
  <2>5. CASE AnswerLost(q)
    BY <1>2, <1>3, <2>1, <2>5 DEF AnswerLost
  <2> QED
    BY <1>4, <2>2, <2>3, <2>4, <2>5
<1>5. ASSUME Others
      PROVE  Good
  <2>1. ASSUME NEW i \in DOMAIN token, NEW s \in {"revoked", "gone"},
               token' = [token EXCEPT ![i] = InState(@, s)]
        PROVE  Good
    BY <1>0, <2>1, SetState
  <2> QED
    BY <1>3, <1>5, <2>1 DEF Others
<1> HIDE DEF Good
<1>6. \/ UNCHANGED token
      \/ \E q \in reqs : Revoke(q) \/ Destroy(q) \/ Create(q) \/ AnswerLost(q)
      \/ Others
  BY DEF Next, vars, Navigate, Refetch, Answer, Store, QueryFails, OpenBox, CancelBox, PressBox,
     TypeBox, OpenSheet, ToggleSheet, PressSheet, TypeSheet, CloseSheet, OpenCreate, CloseCreate,
     Submit, MutationFails
<1>7. Good
  BY <1>1, <1>4, <1>5, <1>6
<1> QED
  BY <1>7 DEF Good

----------------------------------------------------------------------------
(* The lists: a row tells of a token that there is.                        *)

\* The API's answer is a table of rows that tell of tokens.
LEMMA ListKnown ==
    ASSUME TypeOK, NEW f \in Filters, NEW t \in Lists(f)
    PROVE  t \in Tables /\ KnownTable(t, token)
<1>1. t \in Tables
  BY DEF Lists
<1>2. ASSUME NEW k \in DOMAIN t
      PROVE  Known(t[k], token)
  <2>1. t[k].id \in DOMAIN token
    BY DEF Lists
  <2>2. t[k].name = token[t[k].id].name /\ t[k].state = token[t[k].id].state
    BY DEF Lists
  <2> QED
    BY <2>1, <2>2 DEF Known
<1> QED
  BY <1>1, <1>2 DEF KnownTable

LEMMA CacheStep ==
    ASSUME IInv, [Next]_vars
    PROVE  /\ filter' \in Filters
           /\ cache' \in [Filters -> Tables \cup {None}]
           /\ fly' \in Tables \cup {None, Asked}
           /\ \A f \in Filters : cache'[f] # None => KnownTable(cache'[f], token')
           /\ fly' \notin {None, Asked} => KnownTable(fly', token')
<1> DEFINE Shape == /\ filter' \in Filters
                    /\ cache' \in [Filters -> Tables \cup {None}]
                    /\ fly' \in Tables \cup {None, Asked}
           Old == /\ \A f \in Filters : cache'[f] # None => KnownTable(cache'[f], token)
                  /\ fly' \notin {None, Asked} => KnownTable(fly', token)
<1>1. /\ filter \in Filters /\ cache \in [Filters -> Tables \cup {None}]
      /\ fly \in Tables \cup {None, Asked}
      /\ \A f \in Filters : cache[f] # None => KnownTable(cache[f], token)
      /\ fly \notin {None, Asked} => KnownTable(fly, token)
  BY DEF IInv, TypeOK, RowsKnown
<1>2. ASSUME UNCHANGED <<filter, cache, fly>>
      PROVE  Shape /\ Old
  BY <1>1, <1>2
<1>3. ASSUME NEW f \in Filters, Navigate(f)
      PROVE  Shape /\ Old
  BY <1>1, <1>3 DEF Navigate
<1>4. ASSUME Refetch
      PROVE  Shape /\ Old
  BY <1>1, <1>4 DEF Refetch
<1>5. ASSUME Answer
      PROVE  Shape /\ Old
  <2>1. fly' \in Tables /\ KnownTable(fly', token)
    BY <1>1, <1>5, ListKnown DEF Answer, IInv
  <2>2. UNCHANGED <<filter, cache>>
    BY <1>5 DEF Answer
  <2> QED
    BY <1>1, <2>1, <2>2
<1>6. ASSUME Store
      PROVE  Shape /\ Old
  <2>1. /\ fly \in Tables /\ KnownTable(fly, token) /\ fly' = None
        /\ cache' = [cache EXCEPT ![filter] = fly] /\ UNCHANGED filter
    BY <1>1, <1>6 DEF Store
  <2> QED
    BY <1>1, <2>1
<1>7. ASSUME QueryFails
      PROVE  Shape /\ Old
  BY <1>1, <1>7 DEF QueryFails
<1>8. \/ UNCHANGED <<filter, cache, fly>>
      \/ \E f \in Filters : Navigate(f)
      \/ Refetch \/ Answer \/ Store \/ QueryFails
  BY DEF Next, vars, OpenBox, CancelBox, PressBox,
     TypeBox, OpenSheet, ToggleSheet, PressSheet, TypeSheet, CloseSheet, OpenCreate, CloseCreate,
     Submit, MutationFails, Revoke, Destroy, Create, AnswerLost, Others
<1>9. Shape /\ Old
  <2> HIDE DEF Shape, Old
  <2> QED
    BY <1>2, <1>3, <1>4, <1>5, <1>6, <1>7, <1>8
<1>10. ASSUME NEW t, KnownTable(t, token)
       PROVE  KnownTable(t, token')
  BY <1>10, TokenStep, StillKnown DEF KnownTable, IInv
<1> QED
  BY <1>9, <1>10

----------------------------------------------------------------------------
(* The mutations: what they ask for was named by the user and may be done. *)

LEMMA ReqSafe ==
    ASSUME IInv, [Next]_vars, NEW op, NEW id, NEW name, Sound(op, id, name, token),
           op = "destroy" => id # None
    PROVE  Sound(op, id, name, token')
BY TokenStep, StillSound DEF IInv

\* A row that tells of a token is a sound target once its name is typed.
LEMMA RowSound ==
    ASSUME NEW row \in Rows, Known(row, token), NEW name, Confirmed(name, row)
    PROVE  Sound(KindOf(row), row.id, name, token)
<1>1. row.id # None /\ row.id \in Ids
  BY NoneAssumption DEF Rows
<1>2. KindOf(row) # "create" /\ (KindOf(row) = "destroy" => row.state = "revoked")
  BY DEF KindOf
<1> QED
  BY <1>1, <1>2 DEF Sound, Known, Confirmed

\* A row shown under a filter tells of a token.
LEMMA ShownKnown ==
    ASSUME TypeOK, RowsKnown, NEW i \in DOMAIN Table(filter, cache)
    PROVE  Table(filter, cache)[i] \in Rows /\ Known(Table(filter, cache)[i], token)
<1>1. Table(filter, cache)[i] \in Rows
  BY ShownRows DEF TypeOK
<1>2. filter \in Filters /\ cache \in [Filters -> Tables \cup {None}]
  BY DEF TypeOK
<1>3. cache[filter] # None /\ Table(filter, cache) = cache[filter]
  BY DEF Table, Loading
<1> QED
  BY <1>1, <1>2, <1>3 DEF RowsKnown, KnownTable

\* The mutation of a component replaces the one it waited for.
LEMMA MutateSafe ==
    ASSUME TypeOK, ReqsSound, NEW q \in Requests, Mutate(q), Sound(q.op, q.id, q.name, token)
    PROVE  /\ reqs' \subseteq Requests
           /\ \A r \in reqs' : Sound(r.op, r.id, r.name, token)
<1>1. reqs' = {IF r.from = q.from THEN From(r, At("superseded")) ELSE r : r \in reqs} \cup {q}
  BY DEF Mutate
<1>2. reqs \subseteq Requests /\ \A r \in reqs : Sound(r.op, r.id, r.name, token)
  BY DEF TypeOK, ReqsSound
<1>3. At("superseded") \in Components
  BY Places
<1>4. ASSUME NEW r \in reqs
      PROVE  LET s == From(r, At("superseded"))
             IN  s \in Requests /\ Sound(s.op, s.id, s.name, token)
  BY <1>2, <1>3, Orphan
<1> QED
  BY <1>1, <1>2, <1>4

\* Mutations that lose their component stay sound.
LEMMA OrphansSafe ==
    ASSUME TypeOK, ReqsSound,
           \A r \in reqs' : r \in reqs \/ \E q \in reqs : r = From(q, At("gone"))
    PROVE  /\ reqs' \subseteq Requests
           /\ \A r \in reqs' : Sound(r.op, r.id, r.name, token)
<1>1. reqs \subseteq Requests /\ \A r \in reqs : Sound(r.op, r.id, r.name, token)
  BY DEF TypeOK, ReqsSound
<1>2. At("gone") \in Components
  BY Places
<1>3. ASSUME NEW r \in reqs
      PROVE  LET s == From(r, At("gone"))
             IN  s \in Requests /\ Sound(s.op, s.id, s.name, token)
  BY <1>1, <1>2, Orphan
<1> QED
  BY <1>1, <1>3

LEMMA RenderOrphans ==
    ASSUME NEW f, NEW c, Render(f, c)
    PROVE  \A r \in reqs' : r \in reqs \/ \E q \in reqs : r = From(q, At("gone"))
<1>1. reqs' = {IF Waits(q, f, c) THEN q ELSE From(q, At("gone")) : q \in reqs}
  BY DEF Render
<1> QED
  BY <1>1

LEMMA ReqStep ==
    ASSUME IInv, [Next]_vars
    PROVE  reqs' \subseteq Requests /\ ReqsSound'
<1> DEFINE Good == reqs' \subseteq Requests /\ \A r \in reqs' : Sound(r.op, r.id, r.name, token)
<1>0. /\ TypeOK /\ RowsKnown /\ SheetFilled /\ ButtonsFit /\ ReqsSound
      /\ reqs \subseteq Requests /\ \A r \in reqs : Sound(r.op, r.id, r.name, token)
  BY DEF IInv, TypeOK, ReqsSound
<1>1. ASSUME reqs' \subseteq reqs
      PROVE  Good
  BY <1>0, <1>1
<1>2. ASSUME NEW f, NEW c, Render(f, c)
      PROVE  Good
  BY <1>0, <1>2, RenderOrphans, OrphansSafe
<1>3. ASSUME NEW i \in Ids, CancelBox(i)
      PROVE  Good
  <2>1. \A r \in reqs' : r \in reqs \/ \E q \in reqs : r = From(q, At("gone"))
    BY <1>3 DEF CancelBox
  <2> QED
    BY <1>0, <2>1, OrphansSafe
<1>4. ASSUME CloseSheet
      PROVE  Good
  <2>1. \A r \in reqs' : r \in reqs \/ \E q \in reqs : r = From(q, At("gone"))
    BY <1>4 DEF CloseSheet
  <2> QED
    BY <1>0, <2>1, OrphansSafe
<1>5. ASSUME NEW i \in Ids, PressBox(i)
      PROVE  Good
  <2> DEFINE row == Table(filter, cache)[i]
             q == [op |-> box[i].kind, id |-> row.id, name |-> box[i].typed, from |-> Row(i)]
  <2>1. i \in DOMAIN box /\ Confirmed(box[i].typed, row) /\ Mutate(q)
    BY <1>5 DEF PressBox
  <2>2. i \in DOMAIN Table(filter, cache) /\ box[i].kind = KindOf(row)
    BY <1>0, <2>1 DEF TypeOK, ButtonsFit
  <2>3. row \in Rows /\ Known(row, token)
    BY <1>0, <2>2, ShownKnown
  <2> HIDE DEF row
  <2>4. Sound(box[i].kind, row.id, box[i].typed, token)
    BY <2>1, <2>2, <2>3, RowSound
  <2>5. q \in Requests
    <3>1. Row(i) \in Components /\ row.id \in Ids /\ row.name \in Names
      BY <2>3, Places DEF Rows
    <3>2. KindOf(row) \in {"revoke", "destroy"}
      BY DEF KindOf
    <3> QED
      BY <2>1, <2>2, <3>1, <3>2 DEF Confirmed, Requests
  <2>6. Sound(q.op, q.id, q.name, token)
    BY <2>4
  <2> HIDE DEF q
  <2> QED
    BY <1>0, <2>1, <2>5, <2>6, MutateSafe
<1>6. ASSUME PressSheet
      PROVE  Good
  <2> DEFINE q == [op |-> KindOf(sheet.row), id |-> sheet.row.id, name |-> sheet.typed,
                   from |-> At("sheet")]
  <2>1. sheet.row # None /\ Confirmed(sheet.typed, sheet.row) /\ Mutate(q)
    BY <1>0, <1>6 DEF PressSheet, SheetFilled
  <2>2. sheet.row \in Rows /\ Known(sheet.row, token)
    BY <1>0, <2>1 DEF TypeOK, Sheets, RowsKnown
  <2>3. Sound(KindOf(sheet.row), sheet.row.id, sheet.typed, token)
    BY <2>1, <2>2, RowSound
  <2>4. q \in Requests
    <3>1. At("sheet") \in Components /\ sheet.row.id \in Ids /\ sheet.row.name \in Names
      BY <2>2, Places DEF Rows
    <3>2. KindOf(sheet.row) \in {"revoke", "destroy"}
      BY DEF KindOf
    <3> QED
      BY <2>1, <3>1, <3>2 DEF Confirmed, Requests
  <2>5. Sound(q.op, q.id, q.name, token)
    BY <2>3
  <2> HIDE DEF q
  <2> QED
    BY <1>0, <2>1, <2>4, <2>5, MutateSafe
<1>7. ASSUME NEW d \in DOMAIN create, NEW n \in Made, Submit(d, n)
      PROVE  Good
  <2> DEFINE q == [op |-> "create", id |-> None, name |-> n, from |-> At(d)]
  <2>1. d \in {"header", "empty"} /\ n \in Names
    BY <1>0, ConstantsAssumption DEF TypeOK
  <2>2. q \in Requests
    BY <2>1, Places DEF Requests
  <2>3. Sound(q.op, q.id, q.name, token)
    BY DEF Sound
  <2>4. Mutate(q)
    BY <1>7 DEF Submit
  <2> HIDE DEF q
  <2> QED
    BY <1>0, <2>2, <2>3, <2>4, MutateSafe
<1>8. \/ reqs' \subseteq reqs
      \/ \E f \in Filters : Navigate(f)
      \/ Store
      \/ \E i \in Ids : CancelBox(i) \/ PressBox(i)
      \/ PressSheet \/ CloseSheet
      \/ \E d \in DOMAIN create : \E n \in Made : Submit(d, n)
  BY DEF Next, vars, Refetch, Answer, QueryFails, OpenBox, TypeBox, OpenSheet, ToggleSheet,
     TypeSheet, OpenCreate, CloseCreate, MutationFails, Revoke, Destroy, Create, AnswerLost, Others
<1>9. ASSUME NEW f \in Filters, Navigate(f)
      PROVE  Good
  <2>1. Render(f, cache)
    BY <1>9 DEF Navigate
  <2> QED
    BY <1>2, <2>1
<1>10. ASSUME Store
       PROVE  Good
  <2>1. Render(filter, cache')
    BY <1>10 DEF Store
  <2> QED
    BY <1>2, <2>1
<1> HIDE DEF Good
<1>11. Good
  BY <1>1, <1>3, <1>4, <1>5, <1>6, <1>7, <1>8, <1>9, <1>10
<1>12. ASSUME NEW r \in reqs'
       PROVE  Sound(r.op, r.id, r.name, token')
  <2>1. r \in Requests /\ Sound(r.op, r.id, r.name, token)
    BY <1>11 DEF Good
  <2>2. r.op = "destroy" => r.id # None
    BY <2>1 DEF Sound
  <2> QED
    BY <2>1, <2>2, ReqSafe
<1> QED
  BY <1>11, <1>12 DEF Good, ReqsSound

----------------------------------------------------------------------------
(* The buttons and the sheet.                                              *)

BoxesFit(b, t) ==
    DOMAIN b = DOMAIN t /\ \A i \in DOMAIN b : b[i] \in Boxes /\ b[i].kind = KindOf(t[i])

LEMMA ClosedFits ==
    ASSUME NEW row
    PROVE  Closed(KindOf(row)) \in Boxes /\ Closed(KindOf(row)).kind = KindOf(row)
BY DEF Closed, KindOf, Boxes

LEMMA ButtonsStay ==
    ASSUME NEW t, \A i \in DOMAIN box : box[i] \in Boxes
    PROVE  BoxesFit(Buttons(t), t)
<1>1. DOMAIN Buttons(t) = DOMAIN t
  BY DEF Buttons
<1>2. ASSUME NEW i \in DOMAIN t
      PROVE  Buttons(t)[i] \in Boxes /\ Buttons(t)[i].kind = KindOf(t[i])
  <2>1. Buttons(t)[i] = IF i \in DOMAIN box /\ box[i].kind = KindOf(t[i]) THEN box[i]
                        ELSE Closed(KindOf(t[i]))
    BY DEF Buttons
  <2> QED
    BY <2>1, ClosedFits
<1> QED
  BY <1>1, <1>2 DEF BoxesFit

\* One button changes and keeps its kind.
LEMMA ButtonChanges ==
    ASSUME NEW t, NEW b, BoxesFit(b, t), NEW i \in DOMAIN b, NEW new \in Boxes,
           new.kind = b[i].kind, NEW b2, b2 = [b EXCEPT ![i] = new]
    PROVE  BoxesFit(b2, t)
BY DEF BoxesFit

\* What the user or an answer makes of a button is a button of the same kind.
LEMMA ButtonForms ==
    ASSUME NEW b \in Boxes
    PROVE  /\ \A o \in BOOLEAN : Opened(b, o) \in Boxes /\ Opened(b, o).kind = b.kind
           /\ Closed(b.kind) \in Boxes /\ Closed(b.kind).kind = b.kind
           /\ \A n \in Names : /\ [kind |-> b.kind, open |-> b.open, typed |-> n] \in Boxes
                               /\ [kind |-> b.kind, open |-> b.open, typed |-> n].kind = b.kind
BY DEF Boxes, Opened, Closed

LEMMA BoxStep ==
    ASSUME IInv, [Next]_vars
    PROVE  BoxesFit(box', Table(filter', cache'))
<1> DEFINE t == Table(filter, cache)
           Good == BoxesFit(box', Table(filter', cache'))
<1>0. BoxesFit(box, t) /\ \A i \in DOMAIN box : box[i] \in Boxes /\ i \in Ids
  <2>1. DOMAIN box = DOMAIN t /\ \A i \in DOMAIN box : box[i] \in Boxes
    BY DEF IInv, TypeOK
  <2>2. DOMAIN t \subseteq Ids
    BY ShownRows DEF IInv, TypeOK
  <2> QED
    BY <2>1, <2>2 DEF BoxesFit, IInv, ButtonsFit
<1>1. ASSUME UNCHANGED <<filter, cache>>
      PROVE  Table(filter', cache') = t
  BY <1>1
<1> HIDE DEF t
<1>2. ASSUME UNCHANGED <<filter, cache, box>>
      PROVE  Good
  BY <1>0, <1>1, <1>2
<1>3. ASSUME Render(filter', cache')
      PROVE  Good
  <2>1. box' = Buttons(Table(filter', cache'))
    BY <1>3 DEF Render
  <2> QED
    BY <1>0, <2>1, ButtonsStay
<1>4. ASSUME NEW i \in DOMAIN box, NEW new \in Boxes, new.kind = box[i].kind,
             box' = [box EXCEPT ![i] = new], UNCHANGED <<filter, cache>>
      PROVE  Good
  BY <1>0, <1>1, <1>4, ButtonChanges
<1>5. ASSUME NEW i \in Ids, OpenBox(i)
      PROVE  Good
  <2>1. /\ i \in DOMAIN box /\ box' = [box EXCEPT ![i] = Opened(box[i], TRUE)]
        /\ UNCHANGED <<filter, cache>>
    BY <1>5 DEF OpenBox
  <2>2. Opened(box[i], TRUE) \in Boxes /\ Opened(box[i], TRUE).kind = box[i].kind
    BY <1>0, <2>1, ButtonForms
  <2> QED
    BY <1>4, <2>1, <2>2
<1>6. ASSUME NEW i \in Ids, TypeBox(i)
      PROVE  Good
  <2> DEFINE new == [kind |-> box[i].kind, open |-> box[i].open,
                     typed |-> Table(filter, cache)[i].name]
  <2>1. i \in DOMAIN box /\ box' = [box EXCEPT ![i] = new] /\ UNCHANGED <<filter, cache>>
    BY <1>6 DEF TypeBox
  <2>2. Table(filter, cache)[i] \in Rows
    BY <1>0, <2>1, ShownRows DEF IInv, TypeOK
  <2>3. Table(filter, cache)[i].name \in Names
    BY <2>2 DEF Rows
  <2>4. new \in Boxes /\ new.kind = box[i].kind
    BY <1>0, <2>1, <2>3, ButtonForms
  <2> HIDE DEF new
  <2> QED
    BY <1>4, <2>1, <2>4
<1>7. ASSUME NEW i \in Ids, CancelBox(i)
      PROVE  Good
  <2>1. /\ i \in DOMAIN box /\ box' = [box EXCEPT ![i] = Closed(box[i].kind)]
        /\ UNCHANGED <<filter, cache>>
    BY <1>7 DEF CancelBox
  <2>2. Closed(box[i].kind) \in Boxes /\ Closed(box[i].kind).kind = box[i].kind
    BY <1>0, <2>1, ButtonForms
  <2> QED
    BY <1>4, <2>1, <2>2
<1>8. ASSUME NEW q, CallBack(q), UNCHANGED <<filter, cache>>
      PROVE  Good
  <2>1. CASE q.from.at = "row" /\ q.from.i \in DOMAIN box
    <3>1. /\ box' = [box EXCEPT ![q.from.i] = Opened(box[q.from.i], FALSE)]
      BY <1>8, <2>1 DEF CallBack
    <3>2. /\ Opened(box[q.from.i], FALSE) \in Boxes
          /\ Opened(box[q.from.i], FALSE).kind = box[q.from.i].kind
      BY <1>0, <2>1, ButtonForms
    <3> QED
      BY <1>4, <1>8, <2>1, <3>1, <3>2
  <2>2. CASE q.from.at # "row"
    BY <1>2, <1>8, <2>2 DEF CallBack
  <2>3. CASE q.from.at = "row" /\ q.from.i \notin DOMAIN box
    <3>1. box' = [box EXCEPT ![q.from.i] = Opened(box[q.from.i], FALSE)]
      BY <1>8, <2>3 DEF CallBack
    <3>2. /\ DOMAIN box' = DOMAIN box /\ \A i \in DOMAIN box : box'[i] = box[i]
      BY <2>3, <3>1
    <3> QED
      BY <1>0, <1>1, <1>8, <3>2 DEF BoxesFit
  <2> QED
    BY <2>1, <2>2, <2>3
<1>9. \/ UNCHANGED <<filter, cache, box>>
      \/ Render(filter', cache')
      \/ \E i \in Ids : OpenBox(i) \/ TypeBox(i) \/ CancelBox(i)
      \/ \E q \in reqs : CallBack(q) /\ UNCHANGED <<filter, cache>>
  BY DEF Next, vars, Navigate, Refetch, Answer, Store, QueryFails, PressBox, OpenSheet,
     ToggleSheet, PressSheet, TypeSheet, CloseSheet, OpenCreate, CloseCreate, Submit,
     MutationFails, Revoke, Destroy, Create, AnswerLost, Others
<1> HIDE DEF Good
<1>10. Good
  BY <1>2, <1>3, <1>5, <1>6, <1>7, <1>8, <1>9
<1> QED
  BY <1>10 DEF Good

LEMMA SheetStep ==
    ASSUME IInv, [Next]_vars
    PROVE  sheet' \in Sheets /\ SheetFilled' /\ (sheet'.row # None => Known(sheet'.row, token'))
<1> DEFINE Fit(s) == s \in Sheets /\ (s.open => s.row # None)
                     /\ (s.row # None => Known(s.row, token))
<1>0. Fit(sheet)
  BY DEF IInv, TypeOK, RowsKnown, SheetFilled
<1>1. ASSUME NEW row \in Rows \cup {None}, row # None => Known(row, token)
      PROVE  Fit(SheetOf(row))
  BY <1>1 DEF SheetOf, Sheets
<1>2. Fit(NoSheet)
  BY <1>1 DEF NoSheet
<1>3. ASSUME UNCHANGED sheet
      PROVE  Fit(sheet')
  BY <1>0, <1>3
<1>4. ASSUME NEW f, NEW c, Render(f, c)
      PROVE  Fit(sheet')
  <2>1. sheet' = SheetOf(sheet.row) \/ sheet' = sheet
    BY <1>4 DEF Render
  <2>2. Fit(SheetOf(sheet.row))
    BY <1>0, <1>1 DEF Sheets
  <2> QED
    BY <1>0, <2>1, <2>2
<1>5. ASSUME NEW i \in Ids, OpenSheet(i)
      PROVE  Fit(sheet')
  <2>1. sheet' = SheetOf(Table(filter, cache)[i]) /\ i \in DOMAIN Table(filter, cache)
    BY <1>5 DEF OpenSheet, IInv, TypeOK
  <2>2. Table(filter, cache)[i] \in Rows /\ Known(Table(filter, cache)[i], token)
    BY <2>1, ShownKnown DEF IInv
  <2> QED
    BY <1>1, <2>1, <2>2
<1>6. ASSUME ToggleSheet
      PROVE  Fit(sheet')
  BY <1>0, <1>6 DEF ToggleSheet, Sheets
<1>7. ASSUME TypeSheet
      PROVE  Fit(sheet')
  <2>1. sheet.row \in Rows
    BY <1>0, <1>7 DEF TypeSheet, Sheets
  <2>2. sheet.row.name \in Names
    BY <2>1 DEF Rows
  <2> QED
    BY <1>0, <1>7, <2>2 DEF TypeSheet, Sheets
<1>8. sheet' = NoSheet \/ UNCHANGED sheet \/ (\E f, c : Render(f, c))
      \/ (\E i \in Ids : OpenSheet(i)) \/ ToggleSheet \/ TypeSheet
  BY DEF Next, vars, Navigate, Refetch, Answer, Store, QueryFails, OpenBox, TypeBox, CancelBox,
     PressBox, PressSheet, CloseSheet, OpenCreate, CloseCreate, Submit,
     MutationFails, Revoke, Destroy, Create, AnswerLost, Others, CallBack
<1>9. Fit(sheet')
  <2> HIDE DEF Fit
  <2> QED
    BY <1>2, <1>3, <1>4, <1>5, <1>6, <1>7, <1>8
<1> QED
  BY <1>9, TokenStep, StillKnown DEF SheetFilled, IInv

----------------------------------------------------------------------------
(* The dialogs that make a token.                                          *)

LEMMA CreateStep ==
    ASSUME IInv, [Next]_vars
    PROVE  /\ create' \in [{"header", "empty"} -> Dialogs]
           /\ fate' \in [Ids -> {"settled", "ready", "superseded"}]
<1> DEFINE Good == /\ create' \in [{"header", "empty"} -> Dialogs]
                   /\ fate' \in [Ids -> {"settled", "ready", "superseded"}]
<1>0. /\ create \in [{"header", "empty"} -> Dialogs]
      /\ fate \in [Ids -> {"settled", "ready", "superseded"}]
      /\ token \in Seq(Tokens)
      /\ DOMAIN create = {"header", "empty"}
  BY DEF IInv, TypeOK
<1>1. ASSUME UNCHANGED <<create, fate>>
      PROVE  Good
  BY <1>0, <1>1
<1>2. NoDialog \in Dialogs
  BY DEF NoDialog, Dialogs
<1>3. ASSUME NEW f, NEW c, Render(f, c)
      PROVE  Good
  <2>1. create' = [d \in DOMAIN create |-> IF Mounted(d, f, c) THEN create[d] ELSE NoDialog]
    BY <1>3 DEF Render
  <2>2. create' \in [{"header", "empty"} -> Dialogs]
    BY <1>0, <1>2, <2>1
  <2>3. fate' = [i \in Ids |->
          IF \E d \in DOMAIN create : ~Mounted(d, f, c) /\ create[d].shown = i /\ ~create[d].open
          THEN "settled" ELSE fate[i]]
    BY <1>3 DEF Render
  <2>4. fate' \in [Ids -> {"settled", "ready", "superseded"}]
    BY <1>0, <2>3
  <2> QED
    BY <2>2, <2>4
<1>4. ASSUME NEW d \in DOMAIN create, OpenCreate(d)
      PROVE  Good
  <2>1. create[d] \in Dialogs
    BY <1>0
  <2>2. [open |-> TRUE, shown |-> create[d].shown] \in Dialogs
    BY <2>1 DEF Dialogs
  <2>3. create' = [create EXCEPT ![d] = [open |-> TRUE, shown |-> create[d].shown]]
    BY <1>4 DEF OpenCreate
  <2>4. create' \in [{"header", "empty"} -> Dialogs]
    BY <1>0, <2>2, <2>3
  <2>5. fate' = [i \in Ids |-> IF i = create[d].shown THEN "settled" ELSE fate[i]]
    BY <1>4 DEF OpenCreate
  <2> QED
    BY <1>0, <2>4, <2>5
<1>5. ASSUME NEW d \in DOMAIN create, CloseCreate(d)
      PROVE  Good
  BY <1>0, <1>2, <1>5 DEF CloseCreate
<1>6. ASSUME NEW q \in reqs, Create(q)
      PROVE  Good
  <2> DEFINE id == Len(token) + 1
  <2>1. id \in Ids
    BY <1>0, <1>6, ConstantsAssumption DEF Create, Ids
  <2> HIDE DEF id
  <2>2. CASE q.from.at \in DOMAIN create
    <3>1. /\ create' = [create EXCEPT ![q.from.at] = Showing(create[q.from.at], id)]
          /\ fate' = [fate EXCEPT ![id] = IF create[q.from.at].open THEN "settled" ELSE "ready"]
      BY <1>6, <2>2 DEF Create, id
    <3>2. Showing(create[q.from.at], id) \in Dialogs
      BY <1>0, <2>1, <2>2 DEF Showing, Dialogs
    <3> QED
      BY <1>0, <3>1, <3>2
  <2>3. CASE q.from.at \notin DOMAIN create
    <3>1. /\ UNCHANGED create
          /\ fate' = [fate EXCEPT ![id] = IF q.from = At("superseded") THEN "superseded"
                                         ELSE "settled"]
      BY <1>6, <2>3 DEF Create, id
    <3> QED
      BY <1>0, <3>1
  <2> QED
    BY <2>2, <2>3
<1>7. \/ UNCHANGED <<create, fate>>
      \/ \E f, c : Render(f, c)
      \/ \E d \in DOMAIN create : OpenCreate(d) \/ CloseCreate(d)
      \/ \E q \in reqs : Create(q)
  BY DEF Next, vars, Navigate, Refetch, Answer, Store, QueryFails, OpenBox, TypeBox, CancelBox,
     PressBox, OpenSheet, ToggleSheet, TypeSheet, PressSheet, CloseSheet, Submit,
     MutationFails, Revoke, Destroy, AnswerLost, Others
<1> HIDE DEF Good
<1>8. Good
  BY <1>1, <1>3, <1>4, <1>5, <1>6, <1>7
<1> QED
  BY <1>8 DEF Good

----------------------------------------------------------------------------
(* The invariant holds at first and is kept.                               *)

LEMMA Start ==
    ASSUME Init
    PROVE  IInv
<1>1. token \in Seq(Tokens) /\ Len(token) <= MaxTokens
  <2> DEFINE Listed == [name : Names, state : {"active", "revoked"}]
  <2>1. First \in Seq(Listed) /\ Len(First) <= MaxTokens
    BY ConstantsAssumption
  <2>2. Listed \subseteq Tokens
    BY DEF Tokens
  <2> HIDE DEF Listed
  <2>3. \A i \in 1..Len(First) : First[i] \in Tokens
    BY <2>1, <2>2
  <2> QED
    BY <2>1, <2>3 DEF Init
<1>2. filter \in Filters /\ cache \in [Filters -> Tables \cup {None}] /\ fly = Asked
  BY ConstantsAssumption DEF Init
<1>3. Table(filter, cache) = <<>> /\ box = <<>>
  BY <1>2 DEF Init, Table, Loading
<1>4. sheet \in Sheets /\ sheet.row = None /\ ~sheet.open
  BY DEF Init, NoSheet, SheetOf, Sheets
<1>5. create \in [{"header", "empty"} -> Dialogs]
  BY DEF Init, NoDialog, Dialogs
<1>6. fate \in [Ids -> {"settled", "ready", "superseded"}] /\ reqs = {}
  BY DEF Init
<1>7. TypeOK
  BY <1>1, <1>2, <1>3, <1>4, <1>5, <1>6 DEF TypeOK
<1>8. RowsKnown
  BY <1>2, <1>4 DEF RowsKnown, Init
<1>9. SheetFilled /\ ButtonsFit /\ ReqsSound
  BY <1>3, <1>4, <1>6 DEF SheetFilled, ButtonsFit, ReqsSound
<1> QED
  BY <1>7, <1>8, <1>9 DEF IInv

LEMMA Kept ==
    ASSUME IInv, [Next]_vars
    PROVE  IInv'
<1>1. TypeOK'
  BY TokenStep, CacheStep, ReqStep, BoxStep, SheetStep, CreateStep DEF IInv, TypeOK, BoxesFit
<1>2. RowsKnown'
  BY CacheStep, SheetStep DEF RowsKnown
<1>3. ButtonsFit'
  BY BoxStep DEF ButtonsFit, BoxesFit
<1> QED
  BY <1>1, <1>2, <1>3, ReqStep, SheetStep DEF IInv

\* Every variable keeps its shape, whatever the tokens, the filters and the bounds.
THEOREM TypeCorrect == Spec => []TypeOK
<1>1. IInv => TypeOK
  BY DEF IInv
<1> QED
  BY <1>1, Start, Kept, PTL DEF Spec

\* What the page asks to destroy is not in force, although a list may be as old as it likes and
\* the API would destroy any token: a token that was revoked never returns to force.
THEOREM OnlyRevoked == Spec => []DestroysOnlyRevoked
<1>1. IInv => DestroysOnlyRevoked
  BY DEF IInv, DestroysOnlyRevoked, ReqsSound, Sound
<1> QED
  BY <1>1, Start, Kept, PTL DEF Spec

\* The token that is revoked or destroyed has the name that was typed, although a dialog belongs
\* to a position and the rows under it change.
THEOREM TypedName == Spec => []TargetHasTypedName
<1>1. IInv => TargetHasTypedName
  BY DEF IInv, TargetHasTypedName, ReqsSound, Sound
<1> QED
  BY <1>1, Start, Kept, PTL DEF Spec

----------------------------------------------------------------------------
(* Plaintexts: a dialog has one mutation at most and none while it shows.  *)

Makers == {"header", "empty"}

\* What Render and the buttons make of the mutations under way: each of them, in its order.
LEMMA OneOrphans ==
    ASSUME TypeOK, OneEach,
           \A r \in reqs' : r \in reqs \/ r.from = At("gone"),
           \A d \in Makers : create'[d].shown \in {create[d].shown, None}
    PROVE  OneEach'
<1>1. At("gone").at = "gone" /\ At("gone") # At("superseded")
  BY DEF At
<1> QED
  BY <1>1 DEF OneEach, Makers

\* A component without a mutation under way takes one; a dialog only while it shows nothing.
LEMMA OneMutate ==
    ASSUME TypeOK, OneEach, NEW q \in Requests, Mutate(q), ~Pending(q.from),
           q.from # At("superseded"),
           q.from.at \in Makers => create[q.from.at].shown = None, UNCHANGED create
    PROVE  OneEach'
<1>1. reqs' = reqs \cup {q}
  <2>1. \A r \in reqs : r.from # q.from
    BY DEF Pending
  <2> QED
    BY <2>1 DEF Mutate
<1>2. \A r \in reqs : r.from # q.from
  BY DEF Pending
<1> QED
  BY <1>1, <1>2 DEF OneEach, Makers

LEMMA OneStep ==
    ASSUME IInv, OneEach, [Next]_vars
    PROVE  OneEach'
<1>0. /\ TypeOK /\ reqs \subseteq Requests /\ DOMAIN create = Makers
      /\ create \in [Makers -> Dialogs]
  BY DEF IInv, TypeOK, Makers
<1>0a. /\ reqs' \subseteq Requests
  BY ReqStep
<1>1. ASSUME reqs' \subseteq reqs, \A d \in Makers : create'[d].shown \in {create[d].shown, None}
      PROVE  OneEach'
  BY <1>0, <1>1, OneOrphans
<1>2. ASSUME NEW f, NEW c, Render(f, c)
      PROVE  OneEach'
  <2>1. \A r \in reqs' : r \in reqs \/ r.from = At("gone")
    BY <1>2, RenderOrphans DEF From
  <2>2. create' = [d \in DOMAIN create |-> IF Mounted(d, f, c) THEN create[d] ELSE NoDialog]
    BY <1>2 DEF Render
  <2>3. \A d \in Makers : create'[d].shown \in {create[d].shown, None}
    BY <1>0, <2>2 DEF NoDialog
  <2> QED
    BY <1>0, <2>1, <2>3, OneOrphans
<1>3. ASSUME (\E i \in Ids : CancelBox(i)) \/ CloseSheet
      PROVE  OneEach'
  <2>1. \A r \in reqs' : r \in reqs \/ r.from = At("gone")
    BY <1>3 DEF CancelBox, CloseSheet, From
  <2>2. UNCHANGED create
    BY <1>3 DEF CancelBox, CloseSheet
  <2> QED
    BY <1>0, <2>1, <2>2, OneOrphans
<1>4. ASSUME NEW q, Mutate(q), ~Pending(q.from), UNCHANGED create,
             \/ q.from.at \in {"row", "sheet"}
             \/ q.from.at \in Makers /\ create[q.from.at].shown = None
      PROVE  OneEach'
  <2>1. q \in Requests
    BY <1>0a, <1>4 DEF Mutate
  <2>2. q.from # At("superseded") /\ (q.from.at \in Makers => create[q.from.at].shown = None)
    BY <1>4 DEF At, Makers
  <2> QED
    BY <1>0, <1>4, <2>1, <2>2, OneMutate
<1>5. ASSUME NEW i \in Ids, PressBox(i)
      PROVE  OneEach'
  <2> DEFINE q == [op |-> box[i].kind, id |-> Table(filter, cache)[i].id,
                   name |-> box[i].typed, from |-> Row(i)]
  <2>1. Mutate(q) /\ UNCHANGED create /\ ~Pending(Row(i))
    BY <1>5 DEF PressBox
  <2>2. q.from = Row(i) /\ Row(i).at = "row"
    BY Places
  <2> HIDE DEF q
  <2> QED
    BY <1>4, <2>1, <2>2
<1>6. ASSUME PressSheet
      PROVE  OneEach'
  <2> DEFINE q == [op |-> KindOf(sheet.row), id |-> sheet.row.id, name |-> sheet.typed,
                   from |-> At("sheet")]
  <2>1. Mutate(q) /\ UNCHANGED create /\ ~Pending(At("sheet"))
    BY <1>6 DEF PressSheet
  <2>2. q.from = At("sheet") /\ At("sheet").at = "sheet"
    BY Places
  <2> HIDE DEF q
  <2> QED
    BY <1>4, <2>1, <2>2
<1>7. ASSUME NEW d \in Makers, NEW n, Submit(d, n)
      PROVE  OneEach'
  <2> DEFINE q == [op |-> "create", id |-> None, name |-> n, from |-> At(d)]
  <2>1. /\ Mutate(q) /\ UNCHANGED create /\ ~Pending(At(d)) /\ create[d].shown = None
    BY <1>7 DEF Submit
  <2>2. q.from = At(d) /\ At(d).at = d
    BY Places DEF Makers
  <2> HIDE DEF q
  <2> QED
    BY <1>4, <2>1, <2>2
<1>8. ASSUME NEW d \in Makers, OpenCreate(d) \/ CloseCreate(d)
      PROVE  OneEach'
  <2>1. UNCHANGED reqs
    BY <1>8 DEF OpenCreate, CloseCreate
  <2>2. \A e \in Makers : create'[e].shown \in {create[e].shown, None}
    BY <1>0, <1>8 DEF OpenCreate, CloseCreate, NoDialog
  <2> QED
    BY <1>1, <2>1, <2>2
<1>9. ASSUME NEW q \in reqs, Create(q)
      PROVE  OneEach'
  <2>1. reqs' = reqs \ {q}
    BY <1>9 DEF Create
  <2>2. CASE q.from.at \in Makers
    <3>1. \A d \in Makers : d # q.from.at => create'[d] = create[d]
      BY <1>0, <1>9, <2>2 DEF Create
    <3>2. \A r \in reqs' : r.from.at # q.from.at
      <4>1. \A r \in reqs : r.from \in Components
        BY <1>0 DEF Requests
      <4>2. \A r \in reqs : r.from.at = q.from.at => r.from = q.from
        BY <4>1, <2>2, Places DEF Makers
      <4> QED
        BY <2>1, <2>2, <4>2 DEF OneEach, Makers
    <3> QED
      BY <2>1, <3>1, <3>2 DEF OneEach, Makers
  <2>3. CASE q.from.at \notin Makers
    <3>1. UNCHANGED create
      BY <1>0, <1>9, <2>3 DEF Create
    <3> QED
      BY <1>1, <2>1, <3>1
  <2> QED
    BY <2>2, <2>3
<1>10. \/ reqs' \subseteq reqs /\ UNCHANGED create
       \/ \E f, c : Render(f, c)
       \/ (\E i \in Ids : CancelBox(i)) \/ CloseSheet
       \/ \E i \in Ids : PressBox(i)
       \/ PressSheet
       \/ \E d \in DOMAIN create : OpenCreate(d) \/ CloseCreate(d) \/ \E n \in Made : Submit(d, n)
       \/ \E q \in reqs : Create(q)
  BY DEF Next, vars, Navigate, Refetch, Answer, Store, QueryFails, OpenBox, TypeBox,
     OpenSheet, ToggleSheet, TypeSheet, MutationFails, Revoke, Destroy, AnswerLost, Others
<1> QED
  BY <1>0, <1>1, <1>2, <1>3, <1>5, <1>6, <1>7, <1>8, <1>9, <1>10

LEMMA FewerTokens ==
    ASSUME NEW tk, NEW tk2, Grows(tk, tk2)
    PROVE  DOMAIN tk \subseteq DOMAIN tk2
BY DEF Grows

LEMMA ShowsStep ==
    ASSUME IInv, OneEach, Shows, [Next]_vars
    PROVE  Shows'
<1>0. /\ DOMAIN create = Makers /\ create \in [Makers -> Dialogs]
      /\ fate \in [Ids -> {"settled", "ready", "superseded"}]
      /\ token \in Seq(Tokens) /\ None \notin Ids
  BY NoneAssumption DEF IInv, TypeOK, Makers
<1>1. DOMAIN token \subseteq DOMAIN token'
  BY TokenStep, FewerTokens DEF IInv
<1>2. \A d \in Makers : create[d].shown # None => /\ create[d].shown \in DOMAIN token
                                                  /\ create[d].shown \in Ids
  BY <1>0 DEF Shows, Makers, Dialogs
<1>3. \A d \in Makers : create[d].shown # None /\ create[d].open
                           => fate[create[d].shown] = "settled"
  BY DEF Shows, Makers
<1>4. \A i \in Ids : /\ fate[i] # "superseded"
                     /\ fate[i] = "ready" => \E d \in Makers : create[d].shown = i
  BY DEF Shows, Makers
<1>5. ASSUME \A d \in Makers :
                create'[d].shown # None =>
                   /\ create'[d].shown \in DOMAIN token'
                   /\ create'[d].open => fate'[create'[d].shown] = "settled",
             \A i \in Ids : /\ fate'[i] # "superseded"
                            /\ fate'[i] = "ready" => \E d \in Makers : create'[d].shown = i
      PROVE  Shows'
  BY <1>5 DEF Shows, Makers
<1>6. CASE UNCHANGED <<create, fate>>
  BY <1>1, <1>2, <1>3, <1>4, <1>5, <1>6
<1>7. ASSUME NEW f, NEW c, Render(f, c)
      PROVE  Shows'
  <2>1. create' = [d \in Makers |-> IF Mounted(d, f, c) THEN create[d] ELSE NoDialog]
    BY <1>0, <1>7 DEF Render
  <2>2. fate' = [i \in Ids |->
          IF \E d \in Makers : ~Mounted(d, f, c) /\ create[d].shown = i /\ ~create[d].open
          THEN "settled" ELSE fate[i]]
    BY <1>0, <1>7 DEF Render
  <2>3. ASSUME NEW d \in Makers, create'[d].shown # None
        PROVE  create'[d] = create[d] /\ Mounted(d, f, c)
    BY <2>1, <2>3 DEF NoDialog
  <2>4. ASSUME NEW i \in Ids
        PROVE  fate'[i] = fate[i] \/ fate'[i] = "settled"
    BY <2>2
  <2>5. ASSUME NEW i \in Ids, fate'[i] = "ready"
        PROVE  \E d \in Makers : create'[d].shown = i
    <3>1. fate[i] = "ready"
      BY <2>4, <2>5
    <3>2. PICK d \in Makers : create[d].shown = i
      BY <1>4, <3>1
    <3>3. ~create[d].open
      BY <1>0, <1>3, <3>1, <3>2
    <3>4. Mounted(d, f, c)
      BY <2>2, <2>5, <3>2, <3>3
    <3>5. create'[d] = create[d]
      BY <2>1, <3>4
    <3> QED
      BY <3>2, <3>5
  <2>6. ASSUME NEW d \in Makers, create'[d].shown # None
        PROVE  /\ create'[d].shown \in DOMAIN token'
               /\ create'[d].open => fate'[create'[d].shown] = "settled"
    <3>1. create'[d] = create[d]
      BY <2>3, <2>6
    <3>2. create[d].shown \in DOMAIN token /\ create[d].shown \in Ids
      BY <1>2, <2>6, <3>1
    <3> QED
      BY <1>1, <1>3, <2>4, <2>6, <3>1, <3>2
  <2> QED
    BY <1>4, <1>5, <2>4, <2>5, <2>6
<1>8. ASSUME NEW d \in Makers, OpenCreate(d)
      PROVE  Shows'
  <2>1. create' = [create EXCEPT ![d] = [open |-> TRUE, shown |-> create[d].shown]]
    BY <1>8 DEF OpenCreate
  <2>2. fate' = [i \in Ids |-> IF i = create[d].shown THEN "settled" ELSE fate[i]]
    BY <1>8 DEF OpenCreate
  <2>3. \A e \in Makers : create'[e].shown = create[e].shown
    BY <1>0, <2>1
  <2>4. \A e \in Makers : e # d => create'[e] = create[e]
    BY <1>0, <2>1
  <2>5. \A i \in Ids : fate'[i] = fate[i] \/ fate'[i] = "settled"
    BY <2>2
  <2>6. ASSUME NEW e \in Makers, create'[e].shown # None
        PROVE  /\ create'[e].shown \in DOMAIN token'
               /\ create'[e].open => fate'[create'[e].shown] = "settled"
    <3>1. create[e].shown \in DOMAIN token /\ create[e].shown \in Ids
      BY <1>2, <2>3, <2>6
    <3> QED
      BY <1>1, <1>3, <2>2, <2>3, <2>4, <2>5, <2>6, <3>1
  <2> QED
    BY <1>4, <1>5, <2>3, <2>5, <2>6
<1>9. ASSUME NEW d \in Makers, CloseCreate(d)
      PROVE  Shows'
  <2>1. create' = [create EXCEPT ![d] = NoDialog] /\ UNCHANGED fate /\ create[d].open
    BY <1>9 DEF CloseCreate
  <2>2. create'[d].shown = None /\ \A e \in Makers : e # d => create'[e] = create[e]
    BY <1>0, <2>1 DEF NoDialog
  <2>3. ASSUME NEW i \in Ids, fate[i] = "ready"
        PROVE  \E e \in Makers : create'[e].shown = i
    <3>1. PICK e \in Makers : create[e].shown = i
      BY <1>4, <2>3
    <3>2. e # d
      BY <1>0, <1>3, <2>1, <2>3, <3>1
    <3> QED
      BY <2>2, <3>1, <3>2
  <2> QED
    BY <1>1, <1>2, <1>3, <1>4, <1>5, <2>1, <2>2, <2>3
<1>10. ASSUME NEW q \in reqs, Create(q)
       PROVE  Shows'
  <2> DEFINE id == Len(token) + 1
  <2>1. id \in Ids /\ id \notin DOMAIN token
    BY <1>0, <1>10, ConstantsAssumption DEF Create, Ids
  <2>2. id \in DOMAIN token'
    <3>1. token' = Append(token, [name |-> q.name, state |-> "active"])
      BY <1>10 DEF Create
    <3> QED
      BY <1>0, <3>1
  <2> HIDE DEF id
  <2>3. \A d \in Makers : create[d].shown # id
    BY <1>0, <1>2, <2>1
  <2>4. CASE q.from.at \in Makers
    <3> DEFINE d == q.from.at
    <3>1. /\ create' = [create EXCEPT ![d] = Showing(create[d], id)]
          /\ fate' = [fate EXCEPT ![id] = IF create[d].open THEN "settled" ELSE "ready"]
      BY <1>0, <1>10, <2>4 DEF Create, id
    <3>2. create'[d].shown = id /\ create'[d].open = create[d].open
      BY <1>0, <2>4, <3>1 DEF Showing
    <3>3. \A e \in Makers : e # d => create'[e] = create[e]
      BY <1>0, <3>1
    <3>4. fate'[id] = (IF create[d].open THEN "settled" ELSE "ready")
          /\ \A i \in Ids : i # id => fate'[i] = fate[i]
      BY <1>0, <2>1, <3>1
    <3>5. create[d].shown = None
      BY <2>4 DEF OneEach, Makers
    <3>6. d \in Makers
      BY <2>4
    <3> HIDE DEF d
    <3>7. ASSUME NEW e \in Makers, create'[e].shown # None
          PROVE  /\ create'[e].shown \in DOMAIN token'
                 /\ create'[e].open => fate'[create'[e].shown] = "settled"
      <4>1. CASE e = d
        BY <2>2, <3>2, <3>4, <4>1
      <4>2. CASE e # d
        BY <1>1, <1>2, <1>3, <2>3, <3>3, <3>4, <3>7, <4>2
      <4> QED
        BY <4>1, <4>2
    <3>8. ASSUME NEW i \in Ids
          PROVE  /\ fate'[i] # "superseded"
                 /\ fate'[i] = "ready" => \E e \in Makers : create'[e].shown = i
      <4>1. CASE i = id
        BY <3>2, <3>4, <3>6, <4>1
      <4>2. CASE i # id
        <5>1. fate'[i] = fate[i]
          BY <3>4, <4>2
        <5>2. ASSUME fate[i] = "ready"
              PROVE  \E e \in Makers : create'[e].shown = i
          <6>1. PICK e \in Makers : create[e].shown = i
            BY <1>4, <5>2
          <6>2. e # d
            BY <1>0, <3>5, <6>1
          <6> QED
            BY <3>3, <6>1, <6>2
        <5> QED
          BY <1>4, <5>1, <5>2
      <4> QED
        BY <4>1, <4>2
    <3> QED
      BY <1>5, <3>7, <3>8
  <2>5. CASE q.from.at \notin Makers
    <3>1. q.from # At("superseded")
      BY DEF OneEach
    <3>2. UNCHANGED create /\ fate' = [fate EXCEPT ![id] = "settled"]
      BY <1>0, <1>10, <2>5, <3>1 DEF Create, id
    <3>3. \A i \in Ids : fate'[i] = fate[i] \/ fate'[i] = "settled"
      BY <1>0, <3>2
    <3> QED
      BY <1>1, <1>2, <1>3, <1>4, <1>5, <3>2, <3>3
  <2> QED
    BY <2>4, <2>5
<1>11. \/ UNCHANGED <<create, fate>>
       \/ \E f, c : Render(f, c)
       \/ \E d \in DOMAIN create : OpenCreate(d) \/ CloseCreate(d)
       \/ \E q \in reqs : Create(q)
  BY DEF Next, vars, Navigate, Refetch, Answer, Store, QueryFails, OpenBox, TypeBox, CancelBox,
     PressBox, OpenSheet, ToggleSheet, TypeSheet, PressSheet, CloseSheet, Submit,
     MutationFails, Revoke, Destroy, AnswerLost, Others
<1> QED
  BY <1>0, <1>6, <1>7, <1>8, <1>9, <1>10, <1>11

\* A plaintext is never superseded by another token made from the same dialog: the dialog has one
\* mutation at most, and none while it still holds a plaintext.
THEOREM PlaintextKept == Spec => []PlaintextNotSuperseded
<1> DEFINE SInv == IInv /\ OneEach /\ Shows
<1>1. Init => SInv
  <2> SUFFICES ASSUME Init PROVE SInv
    OBVIOUS
  <2>1. IInv
    BY Start
  <2>2. OneEach
    BY DEF Init, OneEach
  <2>3. Shows
    BY DEF Init, Shows, NoDialog
  <2> QED
    BY <2>1, <2>2, <2>3
<1>2. SInv /\ [Next]_vars => SInv'
  BY Kept, OneStep, ShowsStep
<1>3. SInv => PlaintextNotSuperseded
  BY DEF IInv, TypeOK, Shows, PlaintextNotSuperseded
<1> QED
  BY <1>1, <1>2, <1>3, PTL DEF Spec

=============================================================================
