----------------------------- MODULE TokensPage -----------------------------
(***************************************************************************)
(* Service tokens and the dashboard page that makes, revokes and destroys  *)
(* them.  The API destroys any token it is asked to; that only revoked     *)
(* ones go is left to the page, which shows lists it does not refresh.     *)
(* Other administrators work on the same tokens.                           *)
(*                                                                         *)
(* Tokens are numbered in the order they are made; the table shows the     *)
(* newest first.  The button of a row, with the text typed into its        *)
(* dialog, belongs to the row's position and not to the token.             *)
(***************************************************************************)
EXTENDS Naturals, Sequences, FiniteSets

CONSTANTS
    Names,       \* token names, which need not be unique
    Made,        \* bound: names given to tokens on this page; others give the rest
    MaxTokens,   \* bound: tokens made
    Filters,     \* bound: the statuses the user filters by
    MaxReqs,     \* bound: components with a mutation in flight
    First,       \* the states of the tokens that exist at first
    Asked,       \* a list that was asked for and is not read yet
    None

ASSUME ConstantsAssumption ==
    /\ Made \subseteq Names
    /\ MaxTokens \in Nat \ {0} /\ MaxReqs \in Nat /\ Filters \subseteq {"all", "active", "revoked"}
    /\ First \in Seq([name : Names, state : {"active", "revoked"}]) /\ Len(First) <= MaxTokens
    /\ "all" \in Filters

Ids == 1..MaxTokens
\* A row of a list, as it was when the list was read.
Rows == [id : Ids, name : Names, state : {"active", "revoked"}]
Tables == UNION {[1..k -> Rows] : k \in 0..MaxTokens}

\* None and Asked are none of the values they stand in for.
ASSUME NoneAssumption ==
    None \notin Tables \cup Rows \cup Names \cup Ids /\ Asked \notin Tables \cup {None}

VARIABLES
    token,       \* token[i]: the name and state of the tokens made so far
    filter,      \* the status in the page's address
    cache,       \* cache[f]: the last list read under a filter, or None
    fly,         \* the list on its way (Asked, then the rows), or None
    box,         \* box[i]: the dialog of the button in row i
    sheet,       \* the row shown in the side sheet, and its dialog
    create,      \* the two dialogs that make a token
    reqs,        \* mutations on their way, and the component that waits for each
    fate         \* auxiliary: which plaintexts are yet to be shown, or were superseded

vars == <<token, filter, cache, fly, box, sheet, create, reqs, fate>>

KindOf(row) == IF row.state = "revoked" THEN "destroy" ELSE "revoke"
Closed(kind) == [kind |-> kind, open |-> FALSE, typed |-> None]
SheetOf(row) == [row |-> row, open |-> FALSE, typed |-> None]
NoSheet == SheetOf(None)
\* shown: the token whose plaintext the dialog displays, when it is open.
NoDialog == [open |-> FALSE, shown |-> None]

Tokens == [name : Names, state : {"active", "revoked", "gone"}]
Boxes == [kind : {"revoke", "destroy"}, open : BOOLEAN, typed : Names \cup {None}]
Sheets == [row : Rows \cup {None}, open : BOOLEAN, typed : Names \cup {None}]
Dialogs == [open : BOOLEAN, shown : Ids \cup {None}]

InState(tok, s) == [name |-> tok.name, state |-> s]
Opened(b, o) == [kind |-> b.kind, open |-> o, typed |-> b.typed]
Showing(d, i) == [open |-> d.open, shown |-> i]
From(q, c) == [op |-> q.op, id |-> q.id, name |-> q.name, from |-> c]

\* The component that waits for a mutation.
Row(i) == [at |-> "row", i |-> i]
At(a) == [at |-> a, i |-> 0]
Components == {Row(i) : i \in Ids} \cup
              {At(a) : a \in {"sheet", "header", "empty", "gone", "superseded"}}
Requests == [op : {"revoke", "destroy", "create"}, id : Ids \cup {None}, name : Names,
             from : Components]

\* What the API lists under a filter: the newest token first.
Lists(f) ==
    LET ids == {i \in DOMAIN token : token[i].state # "gone" /\ f \in {"all", token[i].state}}
    IN  {t \in Tables :
           /\ {t[k].id : k \in DOMAIN t} = ids
           /\ \A j, k \in DOMAIN t : j < k => t[j].id > t[k].id
           /\ \A k \in DOMAIN t : LET tok == token[t[k].id]
                                 IN  t[k].name = tok.name /\ t[k].state = tok.state}

Loading(f, c) == c[f] = None
Table(f, c) == IF Loading(f, c) THEN <<>> ELSE c[f]

------------------------------------------------------------------------------
(* What React keeps of the page's components when the table changes.         *)

\* Mutant: the button of a position survives whatever row comes to be there.
ButtonsByPosition(t) ==
    [i \in DOMAIN t |-> IF i \in DOMAIN box THEN box[i] ELSE Closed(KindOf(t[i]))]

\* The button of a position survives as long as the position shows the same kind of button.
Buttons(t) ==
    [i \in DOMAIN t |-> IF i \in DOMAIN box /\ box[i].kind = KindOf(t[i]) THEN box[i]
                        ELSE Closed(KindOf(t[i]))]

\* The header's dialog goes while the list loads, the empty table's with the first row.
Mounted(d, f, c) == ~Loading(f, c) /\ (d = "empty" => Table(f, c) = <<>>)

\* A mutation whose component is gone has nobody to call back.
Waits(q, f, c) ==
    /\ q.from.at = "row" => q.from.i \in DOMAIN Table(f, c) /\ KindOf(Table(f, c)[q.from.i]) = q.op
    /\ q.from.at = "sheet" => ~Loading(f, c)
    /\ q.from.at \in DOMAIN create => Mounted(q.from.at, f, c)

Render(f, c) ==
    /\ box' = Buttons(Table(f, c))
    /\ create' = [d \in DOMAIN create |-> IF Mounted(d, f, c) THEN create[d] ELSE NoDialog]
    /\ sheet' = IF Loading(f, c) THEN SheetOf(sheet.row) ELSE sheet
    /\ reqs' = {IF Waits(q, f, c) THEN q ELSE From(q, At("gone")) : q \in reqs}
    /\ fate' = [i \in Ids |->
         IF \E d \in DOMAIN create : ~Mounted(d, f, c) /\ create[d].shown = i /\ ~create[d].open
         THEN "settled" ELSE fate[i]]

\* One dialog is open at a time.
Free ==
    /\ \A i \in DOMAIN box : ~box[i].open
    /\ sheet.row = None /\ \A d \in DOMAIN create : ~create[d].open

------------------------------------------------------------------------------
(* The list query.                                                           *)

\* The address changes: the request of the list left behind is aborted; a list that is not in
\* the cache is asked for, and one that is may be read again.
Navigate(f) ==
    /\ f \in Filters /\ f # filter
    /\ filter' = f
    /\ \/ fly' = Asked
       \/ ~Loading(f, cache) /\ fly' = None
    /\ Render(f, cache)
    /\ UNCHANGED <<token, cache>>

\* The window gets the focus again and the list is stale.
Refetch ==
    /\ fly = None /\ fly' = Asked
    /\ UNCHANGED <<token, filter, cache, box, sheet, create, reqs, fate>>

Answer ==
    /\ fly = Asked /\ fly' \in Lists(filter)
    /\ UNCHANGED <<token, filter, cache, box, sheet, create, reqs, fate>>

Store ==
    /\ fly \notin {None, Asked}
    /\ fly' = None /\ cache' = [cache EXCEPT ![filter] = fly]
    /\ Render(filter, cache')
    /\ UNCHANGED <<token, filter>>

QueryFails ==
    /\ fly # None /\ fly' = None
    /\ UNCHANGED <<token, filter, cache, box, sheet, create, reqs, fate>>

------------------------------------------------------------------------------
(* The button of a row.                                                      *)

OpenBox(i) ==
    /\ Free /\ i \in DOMAIN box
    /\ box' = [box EXCEPT ![i] = Opened(@, TRUE)]
    /\ UNCHANGED <<token, filter, cache, fly, sheet, create, reqs, fate>>

\* The user types the name the dialog asks for.
TypeBox(i) ==
    /\ i \in DOMAIN box /\ box[i].open
    /\ box' = [box EXCEPT ![i] = [kind |-> @.kind, open |-> @.open,
                                 typed |-> Table(filter, cache)[i].name]]
    /\ UNCHANGED <<token, filter, cache, fly, sheet, create, reqs, fate>>

\* Cancelling clears the text and forgets the mutation.
CancelBox(i) ==
    /\ i \in DOMAIN box /\ box[i].open
    /\ box' = [box EXCEPT ![i] = Closed(@.kind)]
    /\ reqs' = {IF q.from = Row(i) THEN From(q, At("gone")) ELSE q : q \in reqs}
    /\ UNCHANGED <<token, filter, cache, fly, sheet, create, fate>>

\* Mutant: the button stays enabled once a name was typed.
TypedOnce(typed, row) == typed # None

\* The text is compared with the name of the row now at this position.
Confirmed(typed, row) == typed = row.name

\* Mutant: a pending mutation does not disable the button.
NeverPending(from) == FALSE

\* The button is disabled while its mutation is pending.
Pending(from) == \E q \in reqs : q.from = from

\* mutate(): a component hears of its latest mutation only.
Mutate(q) ==
    /\ Cardinality({r \in reqs : r.from # q.from}) < MaxReqs
    /\ reqs' = {IF r.from = q.from THEN From(r, At("superseded")) ELSE r : r \in reqs} \cup {q}

PressBox(i) ==
    /\ i \in DOMAIN box /\ box[i].open /\ ~Pending(Row(i))
    /\ LET row == Table(filter, cache)[i]
       IN  /\ Confirmed(box[i].typed, row)
           /\ Mutate([op |-> box[i].kind, id |-> row.id, name |-> box[i].typed, from |-> Row(i)])
    /\ UNCHANGED <<token, filter, cache, fly, box, sheet, create, fate>>

------------------------------------------------------------------------------
(* The side sheet shows the row as it was when it was clicked.               *)

OpenSheet(i) ==
    /\ Free /\ i \in DOMAIN box
    /\ sheet' = SheetOf(Table(filter, cache)[i])
    /\ UNCHANGED <<token, filter, cache, fly, box, create, reqs, fate>>

\* Its dialog opens and closes without clearing the text.
ToggleSheet ==
    /\ sheet.row # None /\ ~Loading(filter, cache)
    /\ sheet' = [row |-> sheet.row, open |-> ~sheet.open, typed |-> sheet.typed]
    /\ UNCHANGED <<token, filter, cache, fly, box, create, reqs, fate>>

TypeSheet ==
    /\ sheet.open
    /\ sheet' = [row |-> sheet.row, open |-> sheet.open, typed |-> sheet.row.name]
    /\ UNCHANGED <<token, filter, cache, fly, box, create, reqs, fate>>

PressSheet ==
    /\ sheet.open /\ ~Pending(At("sheet")) /\ Confirmed(sheet.typed, sheet.row)
    /\ Mutate([op |-> KindOf(sheet.row), id |-> sheet.row.id, name |-> sheet.typed,
               from |-> At("sheet")])
    /\ UNCHANGED <<token, filter, cache, fly, box, sheet, create, fate>>

CloseSheet ==
    /\ sheet.row # None /\ ~sheet.open /\ ~Loading(filter, cache)
    /\ sheet' = NoSheet
    /\ reqs' = {IF q.from.at = "sheet" THEN From(q, At("gone")) ELSE q : q \in reqs}
    /\ UNCHANGED <<token, filter, cache, fly, box, create, fate>>

------------------------------------------------------------------------------
(* The dialogs that make a token.                                            *)

OpenCreate(d) ==
    /\ Free /\ Mounted(d, filter, cache)
    /\ create' = [create EXCEPT ![d] = [open |-> TRUE, shown |-> @.shown]]
    /\ fate' = [i \in Ids |-> IF i = create[d].shown THEN "settled" ELSE fate[i]]
    /\ UNCHANGED <<token, filter, cache, fly, box, sheet, reqs>>

\* Closing forgets the plaintext, not the mutation.
CloseCreate(d) ==
    /\ create[d].open /\ create' = [create EXCEPT ![d] = NoDialog]
    /\ UNCHANGED <<token, filter, cache, fly, box, sheet, reqs, fate>>

Submit(d, n) ==
    /\ create[d].open /\ create[d].shown = None /\ ~Pending(At(d))
    /\ Mutate([op |-> "create", id |-> None, name |-> n, from |-> At(d)])
    /\ UNCHANGED <<token, filter, cache, fly, box, sheet, create, fate>>

------------------------------------------------------------------------------
(* The API, its answer and the callbacks; the invalidation that follows      *)
(* matches none of the page's lists, whose keys carry the filter.            *)

\* The component that waits closes its dialog; the sheet closes, too.
CallBack(q) ==
    /\ box' = IF q.from.at = "row" THEN [box EXCEPT ![q.from.i] = Opened(@, FALSE)] ELSE box
    /\ sheet' = IF q.from.at = "sheet" THEN NoSheet ELSE sheet

\* Only a token in force is revoked.
Revoke(q) ==
    /\ q \in reqs /\ q.op = "revoke" /\ token[q.id].state = "active"
    /\ token' = [token EXCEPT ![q.id] = InState(@, "revoked")]
    /\ reqs' = reqs \ {q} /\ CallBack(q)
    /\ UNCHANGED <<filter, cache, fly, create, fate>>

\* Any token there is, is destroyed.
Destroy(q) ==
    /\ q \in reqs /\ q.op = "destroy" /\ token[q.id].state # "gone"
    /\ token' = [token EXCEPT ![q.id] = InState(@, "gone")]
    /\ reqs' = reqs \ {q} /\ CallBack(q)
    /\ UNCHANGED <<filter, cache, fly, create, fate>>

\* The plaintext is in the answer and nowhere else.
Create(q) ==
    /\ q \in reqs /\ q.op = "create" /\ Len(token) < MaxTokens
    /\ token' = Append(token, [name |-> q.name, state |-> "active"])
    /\ reqs' = reqs \ {q}
    /\ LET id == Len(token) + 1
       IN  IF q.from.at \in DOMAIN create
           THEN /\ create' = [create EXCEPT ![q.from.at] = Showing(@, id)]
                /\ fate' = [fate EXCEPT ![id] = IF create[q.from.at].open THEN "settled"
                                               ELSE "ready"]
           ELSE /\ fate' = [fate EXCEPT ![id] = IF q.from = At("superseded") THEN "superseded"
                                               ELSE "settled"]
                /\ UNCHANGED create
    /\ UNCHANGED <<filter, cache, fly, box, sheet>>

\* Refused or lost: the dialog stays and the button is enabled again.
MutationFails(q) ==
    /\ q \in reqs /\ reqs' = reqs \ {q}
    /\ UNCHANGED <<token, filter, cache, fly, box, sheet, create, fate>>

\* The statement ran and the answer is lost.
AnswerLost(q) ==
    /\ q \in reqs /\ reqs' = reqs \ {q}
    /\ \/ /\ q.op = "revoke" /\ token[q.id].state = "active"
          /\ token' = [token EXCEPT ![q.id] = InState(@, "revoked")] /\ UNCHANGED fate
       \/ /\ q.op = "destroy"
          /\ token' = [token EXCEPT ![q.id] = InState(@, "gone")] /\ UNCHANGED fate
       \/ /\ q.op = "create" /\ Len(token) < MaxTokens
          /\ token' = Append(token, [name |-> q.name, state |-> "active"])
          /\ UNCHANGED fate
    /\ UNCHANGED <<filter, cache, fly, box, sheet, create>>

\* Another administrator, at a page of the same kind.
Others ==
    /\ \/ \E i \in DOMAIN token, s \in {"revoked", "gone"} :
            /\ token[i].state = IF s = "gone" THEN "revoked" ELSE "active"
            /\ token' = [token EXCEPT ![i] = InState(@, s)]
       \/ \E n \in Names \ Made :
            Len(token) < MaxTokens /\ token' = Append(token, [name |-> n, state |-> "active"])
    /\ UNCHANGED <<filter, cache, fly, box, sheet, create, reqs, fate>>

------------------------------------------------------------------------------
Init ==
    /\ token = First /\ filter = "all"
    /\ cache = [f \in Filters |-> None] /\ fly = Asked
    /\ box = <<>> /\ sheet = NoSheet
    /\ create = [d \in {"header", "empty"} |-> NoDialog]
    /\ reqs = {} /\ fate = [i \in Ids |-> "settled"]

Next ==
    \/ \E f \in Filters : Navigate(f)
    \/ Refetch \/ Answer \/ Store \/ QueryFails
    \/ \E i \in Ids : OpenBox(i) \/ CancelBox(i) \/ PressBox(i) \/ TypeBox(i) \/ OpenSheet(i)
    \/ ToggleSheet \/ PressSheet \/ TypeSheet \/ CloseSheet
    \/ \E d \in DOMAIN create : OpenCreate(d) \/ CloseCreate(d) \/ \E n \in Made : Submit(d, n)
    \/ \E q \in reqs : Revoke(q) \/ Destroy(q) \/ Create(q) \/ MutationFails(q) \/ AnswerLost(q)
    \/ Others

Spec == Init /\ [][Next]_vars

------------------------------------------------------------------------------
\* Every variable keeps its shape.
TypeOK ==
    /\ token \in Seq(Tokens) /\ Len(token) <= MaxTokens
    /\ filter \in Filters
    /\ cache \in [Filters -> Tables \cup {None}] /\ fly \in Tables \cup {None, Asked}
    /\ DOMAIN box = DOMAIN Table(filter, cache) /\ \A i \in DOMAIN box : box[i] \in Boxes
    /\ sheet \in Sheets
    /\ create \in [{"header", "empty"} -> Dialogs]
    /\ reqs \subseteq Requests
    /\ fate \in [Ids -> {"settled", "ready", "superseded"}]

\* The page never asks for the destruction of a token in force, however old the list is that it
\* shows and whatever the rows under an open dialog become, although the API would destroy it.
DestroysOnlyRevoked == \A q \in reqs : q.op = "destroy" => token[q.id].state # "active"

\* What is revoked or destroyed has the name the user typed, although rows move under the dialog
\* and the text stays with the position.
TargetHasTypedName == \A q \in reqs : q.id # None => token[q.id].name = q.name

\* The plaintext of a token made here is not lost to a second token made from the same dialog:
\* it was or will be on show, unless the dialog was unmounted or the answer lost.
PlaintextNotSuperseded ==
    /\ \A i \in Ids : fate[i] # "superseded"
    /\ \A i \in Ids : fate[i] = "ready" => \E d \in DOMAIN create : create[d].shown = i
==============================================================================
