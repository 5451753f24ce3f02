------------------------------ MODULE AuditPage ------------------------------
(***************************************************************************)
(* The audit page of a project: a search box, a result filter and a table  *)
(* the server pages.  What is asked for is in the page's address; the box  *)
(* writes to it when the user pauses, the address reaches the page some    *)
(* time after a navigation asks for it, and each answer is cached under    *)
(* the address it was asked for.  While the answer to a new address is on  *)
(* its way the rows of the last one stay.  Meanwhile rows are added to the *)
(* log and, with their partition, dropped from it.                         *)
(*                                                                         *)
(* A row is stamped before it is committed, so rows reach the log out of   *)
(* the order of their times, and several may have one time.  A page is cut *)
(* from the rows by time alone: rows of one time come in any order.        *)
(***************************************************************************)
EXTENDS Naturals, Sequences, FiniteSets

CONSTANTS
    Actions,    \* actions that are logged, and the texts typed in full
    Results,    \* results that are logged
    All,        \* no filter: an empty box, "all results"
    PerPage,    \* rows of a page
    FirstRows,  \* bound: rows that were logged before the page is opened
    MaxRows,    \* bound: rows ever logged
    MaxTime,    \* bound: moments at which rows are stamped
    MaxEdits,   \* bound: texts typed, results selected and pages turned
    Asked,      \* a read that was asked for and is not served yet
    None

ASSUME PageAssumption ==
    /\ All \notin Actions \cup Results /\ None # Asked
    /\ PerPage \in Nat \ {0} /\ MaxRows \in Nat /\ FirstRows \in 0..MaxRows /\ MaxTime \in Nat /\ MaxEdits \in Nat

VARIABLES
    log,      \* the rows ever inserted, in the order of their commits
    dropped,  \* rows of this time and before went with their partition
    latest,   \* the address last navigated to
    address,  \* the address the page is rendered for
    box,      \* the text in the search box
    timer,    \* is the pause being timed
    cache,    \* the last answer under each address, or None
    last,     \* the answer that stays on screen under an address that has none, or None
    fly,      \* the read of the page's address: None, Asked or the answer
    counted,  \* the pages the handler of the read has counted, or None
    failed,   \* did the read of an address without an answer fail
    edits,
    chosen    \* history: the filters the user chose last

pageVars == <<log, dropped, latest, address, box, timer, cache, last, fly, counted, failed, edits, chosen>>

Rows == [action : Actions, result : Results, time : 1..MaxTime]
LastPage == MaxRows + 1
Addresses == [page : 1..LastPage, action : Actions \cup {All}, result : Results \cup {All}]

AtPage(a, p) == [page |-> p, action |-> a.action, result |-> a.result]

-----------------------------------------------------------------------------
(* GET /audit-logs: newest first, one page of the rows that match.         *)

\* The row passes the filters of a.
Filtered(a, row) == a.action \in {All, row.action} /\ a.result \in {All, row.result}

\* The rows that are there and pass.
Matching(a) == {i \in DOMAIN log : log[i].time > dropped /\ Filtered(a, log[i])}

\* Mutant: the first page is page 0.
OffsetFromOne(a) == a.page * PerPage

Offset(a) == (a.page - 1) * PerPage

\* Of the log l, no row of T is newer than any of S.
NoneNewer(l, S, T) == \A i \in S, j \in T : l[i].time >= l[j].time

\* What LIMIT PerPage OFFSET offset may leave of the rows T of the log l, ordered by time alone.
Cuts(l, T, offset) ==
    {S \in SUBSET T : \E before \in SUBSET (T \ S) :
        /\ NoneNewer(l, before, T \ before) /\ NoneNewer(l, S, T \ (before \cup S))
        /\ Cardinality(before) <= offset /\ (before # T => Cardinality(before) = offset)
        /\ Cardinality(S) <= PerPage /\ (before \cup S # T => Cardinality(S) = PerPage)}

Answers == [rows : SUBSET (1..MaxRows), page : 1..LastPage, pages : 0..MaxRows, at : 0..MaxRows]

\* No answer yet is none of the answers.
ASSUME NoneAssumption == {None, Asked} \cap Answers = {}

-----------------------------------------------------------------------------

First == [page |-> 1, action |-> All, result |-> All]

\* In which order the first rows were committed makes no difference any more.
PageInit ==
    /\ log \in [1..FirstRows -> Rows] /\ dropped = 0
    /\ \A i, j \in 1..FirstRows : i < j => log[i].time <= log[j].time
    /\ latest = First /\ address = First
    /\ box = All /\ timer = FALSE
    /\ cache = [a \in Addresses |-> None] /\ last = None
    /\ fly = Asked /\ counted = None /\ failed = FALSE
    /\ edits = 0
    /\ chosen = [action |-> All, result |-> All]

\* The rows on screen: those of the address, else those that were there before
\* while the read is under way.
Shown ==
    IF cache[address] # None THEN cache[address] ELSE IF failed THEN None ELSE last

\* The page shows nothing but a spinner until a first answer or error.
Open == Shown # None \/ failed

Edit == Open /\ edits < MaxEdits /\ edits' = edits + 1

(* The search box.  Every render starts its timer anew; when it runs out,  *)
(* a text that differs from the address's is navigated to.                 *)

Type(t) ==
    /\ Edit /\ t # box
    /\ box' = t /\ timer' = TRUE
    /\ UNCHANGED <<log, dropped, latest, address, cache, last, fly, counted, failed, chosen>>

\* A navigation changes what it names in the address last navigated to.
TimerFires ==
    /\ Open /\ timer /\ box # address.action
    /\ timer' = FALSE
    /\ latest' = [page |-> 1, action |-> box, result |-> latest.result]
    /\ chosen' = [action |-> box, result |-> chosen.result]
    /\ UNCHANGED <<log, dropped, address, box, cache, last, fly, counted, failed, edits>>

\* Mutant: the new address is built from the one the page was rendered for.
SelectRendered(r) ==
    /\ Edit /\ r # address.result
    /\ latest' = [page |-> 1, action |-> address.action, result |-> r]
    /\ chosen' = [action |-> chosen.action, result |-> r]
    /\ UNCHANGED <<log, dropped, address, box, timer, cache, last, fly, counted, failed>>

Select(r) ==
    /\ Edit /\ r # address.result
    /\ latest' = [page |-> 1, action |-> latest.action, result |-> r]
    /\ chosen' = [action |-> chosen.action, result |-> r]
    /\ UNCHANGED <<log, dropped, address, box, timer, cache, last, fly, counted, failed>>

\* The buttons count from the page of the rows on screen, which may be those of
\* the filters before.
TurnPage ==
    /\ Edit /\ Shown # None
    /\ \/ Shown.page < Shown.pages /\ latest' = AtPage(latest, Shown.page + 1)
       \/ Shown.page > 1 /\ Shown.pages > 1 /\ latest' = AtPage(latest, Shown.page - 1)
    /\ UNCHANGED <<log, dropped, address, box, timer, cache, last, fly, counted, failed, chosen>>

\* The box takes over the text of an address that has another one.
BoxAfter(a) == IF a.action # address.action THEN a.action ELSE box

\* Mutant: the box keeps its text, and nothing times it.
LandKeepsBox ==
    /\ latest # address
    /\ address' = latest
    /\ timer' = FALSE
    /\ last' = IF cache[latest] # None THEN None ELSE IF Shown # None THEN Shown ELSE last
    /\ failed' = FALSE
    /\ fly' \in {Asked} \cup (IF cache[latest] = None THEN {} ELSE {None}) /\ counted' = None
    /\ UNCHANGED <<log, dropped, latest, box, cache, edits, chosen>>

\* A navigation arrives: the read of the old address is aborted, that of the new
\* one begins unless its answer is fresh, which the user's pace decides.
Land ==
    /\ latest # address
    /\ address' = latest
    /\ box' = BoxAfter(latest) /\ timer' = TRUE
    /\ last' = IF cache[latest] # None THEN None ELSE IF Shown # None THEN Shown ELSE last
    /\ failed' = FALSE
    /\ fly' \in {Asked} \cup (IF cache[latest] = None THEN {} ELSE {None}) /\ counted' = None
    /\ UNCHANGED <<log, dropped, latest, cache, edits, chosen>>

-----------------------------------------------------------------------------
(* Reads.                                                                  *)

\* The window gets the focus while the answer is stale.
Refetch ==
    /\ fly = None /\ fly' = Asked /\ failed' = FALSE
    /\ UNCHANGED <<log, dropped, latest, address, box, timer, cache, last, counted, edits, chosen>>

\* The handler counts the rows that match first, in a statement of its own.
Count ==
    /\ fly = Asked /\ counted = None
    /\ counted' = (Cardinality(Matching(address)) + PerPage - 1) \div PerPage
    /\ UNCHANGED <<log, dropped, latest, address, box, timer, cache, last, fly, failed, edits, chosen>>

\* Then it reads the rows of the page.
Serve ==
    /\ fly = Asked /\ counted # None /\ counted' = None
    /\ \E S \in Cuts(log, Matching(address), Offset(address)) :
          fly' = [rows |-> S, page |-> address.page, pages |-> counted, at |-> Len(log)]
    /\ UNCHANGED <<log, dropped, latest, address, box, timer, cache, last, failed, edits, chosen>>

Store ==
    /\ fly \notin {None, Asked}
    /\ cache' = [cache EXCEPT ![address] = fly]
    /\ fly' = None /\ last' = None /\ failed' = FALSE /\ timer' = TRUE
    /\ UNCHANGED <<log, dropped, latest, address, box, counted, edits, chosen>>

\* Every retry failed; an answer that is there stays.
ReadFails ==
    /\ fly # None /\ fly' = None /\ counted' = None
    /\ failed' = (cache[address] = None) /\ timer' = TRUE
    /\ UNCHANGED <<log, dropped, latest, address, box, cache, last, edits, chosen>>

(* The log.                                                                *)

\* A row commits, which was stamped when its batch was put together: at any time whose partition
\* is still there.  Bound: the clock goes no further than one moment beyond those stamped so far.
RowArrives ==
    /\ Len(log) < MaxRows
    /\ \E a \in Actions, r \in Results, t \in (dropped + 1)..MaxTime :
          /\ \E u \in {1} \cup {log[i].time : i \in DOMAIN log} : t <= u + 1
          /\ log' = Append(log, [action |-> a, result |-> r, time |-> t])
    /\ UNCHANGED <<dropped, latest, address, box, timer, cache, last, fly, counted, failed, edits, chosen>>

\* A partition goes with the rows up to some time; one without rows leaves no trace.
RowsDropped ==
    /\ \E i \in DOMAIN log : log[i].time > dropped /\ dropped' = log[i].time
    /\ UNCHANGED <<log, latest, address, box, timer, cache, last, fly, counted, failed, edits, chosen>>

PageNext ==
    \/ \E t \in Actions \cup {All} : Type(t)
    \/ \E r \in Results \cup {All} : Select(r)
    \/ TimerFires \/ TurnPage \/ Land
    \/ Refetch \/ Count \/ Serve \/ Store \/ ReadFails
    \/ RowArrives \/ RowsDropped

PageSpec == PageInit /\ [][PageNext]_pageVars

\* The browser runs timers that are due, and the router ends what it began.
PageFairSpec == PageSpec /\ WF_pageVars(TimerFires) /\ WF_pageVars(Land)

-----------------------------------------------------------------------------
(* Properties.                                                             *)

\* The variables have their types; a page turned is one an answer promised.
PageTypeOK ==
    /\ log \in Seq(Rows) /\ Len(log) <= MaxRows
    /\ dropped \in 0..MaxTime
    /\ latest \in Addresses /\ address \in Addresses
    /\ box \in Actions \cup {All} /\ timer \in BOOLEAN /\ failed \in BOOLEAN
    /\ cache \in [Addresses -> Answers \cup {None}]
    /\ chosen \in [action : Actions \cup {All}, result : Results \cup {All}]
    /\ last \in Answers \cup {None} /\ fly \in Answers \cup {None, Asked}
    /\ counted \in 0..MaxRows \cup {None} /\ (counted # None => fly = Asked)
    /\ edits \in 0..MaxEdits
    /\ fly \notin {None, Asked} => fly.page = address.page

\* The address has the filter chosen last in the box and the one chosen last in
\* the menu, in whatever order they were chosen and however slowly navigations
\* arrive: none undoes another (audit.tsx, navigate with a function of prev).
ChoicesHold ==
    /\ latest.action = chosen.action
    /\ latest.result = chosen.result

\* Of the first n rows no other that passes the filters of a has the time of row i.
AloneInTime(a, i, n) ==
    \A j \in 1..n \ {i} : Filtered(a, log[j]) => log[j].time # log[i].time

\* Two neighbouring pages of one filter, the further one read no earlier than
\* the nearer, leave out no row between them that was in the log when the nearer
\* was read, and no row that was is newer than all of the first page: rows that
\* are logged in between are seen twice at worst.  Rows of one time are excepted,
\* which the query may order one way for one page and another way for the next,
\* and so are rows committed late (the API's offset and order, under the page's
\* cache).
PagesLeaveNoGap ==
    \A a \in Addresses :
       LET b == AtPage(a, a.page + 1)
           near == cache[a]
           Left(i) == Filtered(a, log[i]) /\ log[i].time > dropped
       IN  near # None =>
             /\ a.page = 1 => \A i \in 1..near.at :
                   Left(i) => \E j \in near.rows : log[j].time >= log[i].time
             /\ (b \in Addresses /\ cache[b] # None /\ cache[b].at >= near.at) =>
                   \A i \in 1..near.at :
                      (/\ Left(i) /\ AloneInTime(a, i, near.at)
                       /\ \E j \in near.rows : log[j].time > log[i].time
                       /\ \E j \in cache[b].rows : log[j].time < log[i].time)
                      => i \in near.rows \cup cache[b].rows

\* What is in the box and what the page is rendered for agree in the end: no text
\* stays in the box that nothing will navigate to (search-input.tsx).
BoxAndAddressAgree == []<>(box = address.action \/ ~Open)
===============================================================================
