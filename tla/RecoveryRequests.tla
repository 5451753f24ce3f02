-------------------------- MODULE RecoveryRequests --------------------------
(***************************************************************************)
(* Recovery with a trusted contact: a user (the owner) who has named       *)
(* contacts requests recovery, a contact approves after a waiting period   *)
(* of 72 hours, and the owner completes it with a new vault key.  The      *)
(* handlers of the API act statement by statement; the owner's page and    *)
(* the contacts' page act on answers they fetched earlier.                 *)
(***************************************************************************)
EXTENDS Naturals, FiniteSets

CONSTANTS
    Contacts,   \* users the owner may name
    ContactTabs, \* tabs in which contacts have the dashboard open
    ContactOf,  \* the contact who is signed in in a tab
    Devices,    \* the owner's clients
    Ids,        \* ids of recovery requests, which bound their number
    Nothing,     \* no row, nothing selected, nothing in flight
    Failures    \* may a statement fail

ASSUME RecoveryAssumption ==
    /\ ContactOf \in [ContactTabs -> Contacts]
    /\ Nothing \notin Contacts \cup Ids
    /\ Failures \in BOOLEAN

VARIABLES
    named,      \* trusted_contacts: whom the owner has named
    request,    \* recovery_requests by id
    knows,      \* does the owner know the vault key
    unlocked,   \* is the owner's session marked as vault-unlocked
    view,       \* what a device of the owner last fetched
    call,       \* a device's call that has read and is still to write
    selected,   \* the request open in a tab, with its status when it was listed
    approving,  \* an ApproveRecovery of a tab that has passed its checks
    replaced,   \* history: how often a request replaced the vault key, up to Many
    cancelled,  \* history: requests that were cancelled
    overlapped  \* history: requests that two calls handled at the same time

owner == <<named, knows, unlocked>>
calls == <<call, approving>>
past == <<replaced, cancelled, overlapped>>
recoveryVars == <<named, request, knows, unlocked, view, call,
          selected, approving, replaced, cancelled, overlapped>>

Many == 2
Statuses == {"pending", "approved", "completed", "cancelled"}
RequestRows == [contact : Contacts, status : Statuses, waited : BOOLEAN]
Starts == [at : {"start"}, contact : Contacts]
Completions == [at : {"checked", "replaced"}, id : Ids]
Views == [contact : BOOLEAN, request : {"none", "pending", "approved"}]
Selections == [id : Ids, status : {"pending", "approved"}]

\* Nothing is none of the rows and calls it stands in for.
ASSUME NothingAssumption == Nothing \notin RequestRows \cup Starts \cup Completions \cup Selections

RecoveryTypeOK ==
    /\ named \subseteq Contacts
    /\ request \in [Ids -> RequestRows \cup {Nothing}]
    /\ knows \in BOOLEAN /\ unlocked \in BOOLEAN
    /\ view \in [Devices -> Views]
    /\ call \in [Devices -> Starts \cup Completions \cup {Nothing}]
    /\ selected \in [ContactTabs -> Selections \cup {Nothing}]
    /\ approving \in [ContactTabs -> Ids \cup {Nothing}]
    /\ replaced \in [Ids -> 0 .. Many]
    /\ cancelled \subseteq Ids /\ overlapped \subseteq Ids

RecoveryInit ==
    /\ named = {} /\ request = [i \in Ids |-> Nothing]
    /\ knows = TRUE /\ unlocked = TRUE
    /\ view = [d \in Devices |-> [contact |-> FALSE, request |-> "none"]]
    /\ call = [d \in Devices |-> Nothing]
    /\ selected = [t \in ContactTabs |-> Nothing] /\ approving = [t \in ContactTabs |-> Nothing]
    /\ replaced = [i \in Ids |-> 0] /\ cancelled = {} /\ overlapped = {}

----------------------------------------------------------------------------
Has(i, statuses) == request[i] # Nothing /\ request[i].status \in statuses

\* What the partial unique index of recovery_requests counts.
ActiveIds == {i \in Ids : Has(i, {"pending", "approved"})}

WithStatus(r, s) == [contact |-> r.contact, status |-> s, waited |-> r.waited]

SetStatus(i, s) == request' = [request EXCEPT ![i] = WithStatus(@, s)]

\* Calls about a request that have read it and are still to write.
InFlight(i) == \/ \E t \in ContactTabs : approving[t] = i
               \/ \E d \in Devices : call[d] \in Completions /\ call[d].id = i

\* What GET /auth/recovery/status and GET /auth/recovery/request answer.
Fetched == [contact |-> named # {},
            request |-> IF ActiveIds = {} THEN "none"
                        ELSE request[CHOOSE i \in ActiveIds : TRUE].status]

----------------------------------------------------------------------------
(* The owner.                                                              *)

\* The recovery page or the settings section is opened.
Load(d) ==
    /\ view[d] # Fetched
    /\ view' = [view EXCEPT ![d] = Fetched]
    /\ UNCHANGED <<owner, request, calls, selected, past>>

\* The settings offer the form to who has no contact by its last answer; a
\* second device may add a second contact.
AddContact(d, c) ==
    /\ unlocked /\ ~view[d].contact
    /\ named' = named \cup {c}
    /\ view' = [view EXCEPT ![d] = [contact |-> TRUE, request |-> @.request]]
    /\ UNCHANGED <<request, knows, unlocked, calls, selected, past>>

\* Every row of the owner goes; requests are left as they are.
RemoveContacts(d) ==
    /\ unlocked /\ view[d].contact
    /\ named' = {}
    /\ view' = [view EXCEPT ![d] = [contact |-> FALSE, request |-> @.request]]
    /\ UNCHANGED <<request, knows, unlocked, calls, selected, past>>

LockOwner ==
    /\ unlocked
    /\ unlocked' = FALSE
    /\ UNCHANGED <<named, request, knows, view, calls, selected, past>>

UnlockOwner ==
    /\ ~unlocked /\ knows
    /\ unlocked' = TRUE
    /\ UNCHANGED <<named, request, knows, view, calls, selected, past>>

\* The owner forgets the vault key, which is what recovery is for.
Forget ==
    /\ knows /\ ~unlocked
    /\ knows' = FALSE
    /\ UNCHANGED <<named, request, unlocked, view, calls, selected, past>>

\* "Request recovery": the handler reads a contact; without one it answers
\* 404.
RequestRecovery(d) ==
    /\ call[d] = Nothing /\ view[d].contact /\ view[d].request = "none"
    /\ \E c \in named : call' = [call EXCEPT ![d] = [at |-> "start", contact |-> c]]
    /\ UNCHANGED <<owner, request, view, approving, selected, past>>

\* The index refuses a second active request, which the page shows as an error.
InsertRequest(d, i) ==
    /\ call[d] \in Starts /\ request[i] = Nothing
    /\ request' = IF ActiveIds # {} THEN request
                  ELSE [request EXCEPT ![i] = [contact |-> call[d].contact,
                                               status |-> "pending", waited |-> FALSE]]
    /\ call' = [call EXCEPT ![d] = Nothing]
    /\ UNCHANGED <<owner, view, approving, selected, past>>

\* Mutant: only pending requests are cancelled.
CancelRequestPending(d) ==
    /\ view[d].request = "pending"
    /\ request' = [i \in Ids |-> IF Has(i, {"pending"})
                                 THEN WithStatus(request[i], "cancelled")
                                 ELSE request[i]]
    /\ cancelled' = cancelled \cup ActiveIds
    /\ overlapped' = overlapped \cup {i \in ActiveIds : InFlight(i)}
    /\ view' = [view EXCEPT ![d] = [contact |-> @.contact, request |-> "none"]]
    /\ UNCHANGED <<owner, calls, selected, replaced>>

\* The button is there while the page believes the request pending; what is
\* cancelled is whatever is active by then.
CancelRequest(d) ==
    /\ view[d].request = "pending"
    /\ request' = [i \in Ids |-> IF i \in ActiveIds
                                 THEN WithStatus(request[i], "cancelled")
                                 ELSE request[i]]
    /\ cancelled' = cancelled \cup ActiveIds
    /\ overlapped' = overlapped \cup {i \in ActiveIds : InFlight(i)}
    /\ view' = [view EXCEPT ![d] = [contact |-> @.contact, request |-> "none"]]
    /\ UNCHANGED <<owner, calls, selected, replaced>>

\* 72 hours after the request.
WaitingPeriodEnds(i) ==
    /\ i \in ActiveIds /\ ~request[i].waited
    /\ request' = [request EXCEPT ![i] = [contact |-> @.contact, status |-> @.status,
                                          waited |-> TRUE]]
    /\ UNCHANGED <<owner, view, calls, selected, past>>

\* CompleteRecovery is routed behind the unlocked session.
CompleteCheck(d, i) ==
    /\ unlocked /\ call[d] = Nothing /\ Has(i, {"approved"})
    /\ call' = [call EXCEPT ![d] = [at |-> "checked", id |-> i]]
    /\ overlapped' = overlapped \cup (IF InFlight(i) THEN {i} ELSE {})
    /\ UNCHANGED <<owner, request, view, approving, selected, replaced, cancelled>>

CompleteReplace(d) ==
    /\ call[d] \in Completions /\ call[d].at = "checked"
    /\ call' = [call EXCEPT ![d] = [at |-> "replaced", id |-> @.id]]
    /\ replaced' = [replaced EXCEPT ![call[d].id] = IF @ = Many THEN @ ELSE @ + 1]
    /\ knows' = TRUE
    /\ UNCHANGED <<named, request, unlocked, view, approving,
                   selected, cancelled, overlapped>>

\* Mutant: the request is left as it was.
CompleteFinishOpen(d) ==
    /\ call[d] \in Completions /\ call[d].at = "replaced"
    /\ call' = [call EXCEPT ![d] = Nothing]
    /\ UNCHANGED <<owner, request, view, approving, selected, past>>

CompleteFinish(d) ==
    /\ call[d] \in Completions /\ call[d].at = "replaced"
    /\ SetStatus(call[d].id, "completed")
    /\ call' = [call EXCEPT ![d] = Nothing]
    /\ UNCHANGED <<owner, view, approving, selected, past>>

----------------------------------------------------------------------------
(* The contacts.                                                           *)

\* The list is polled every 30 seconds; the sheet keeps the row it was opened
\* with.
Select(t, i) ==
    /\ selected[t] = Nothing /\ i \in ActiveIds /\ request[i].contact = ContactOf[t]
    /\ selected' = [selected EXCEPT ![t] = [id |-> i, status |-> request[i].status]]
    /\ UNCHANGED <<owner, request, view, calls, past>>

CloseSheet(t) ==
    /\ selected[t] # Nothing /\ approving[t] = Nothing
    /\ selected' = [selected EXCEPT ![t] = Nothing]
    /\ UNCHANGED <<owner, request, view, calls, past>>

\* Mutant: without the waiting period.
ApprovableAtOnce(t, i) == request[i].contact = ContactOf[t] /\ Has(i, {"pending"})

\* The button asks for a pending row and the tab's clock; the handler asks the
\* row as it is by now.
Approvable(t, i) == request[i].contact = ContactOf[t] /\ Has(i, {"pending"}) /\ request[i].waited

ApproveCheck(t) ==
    LET i == selected[t].id IN
    /\ selected[t] # Nothing /\ selected[t].status = "pending" /\ approving[t] = Nothing
    /\ Approvable(t, i)
    /\ approving' = [approving EXCEPT ![t] = i]
    /\ overlapped' = overlapped \cup (IF InFlight(i) THEN {i} ELSE {})
    /\ UNCHANGED <<owner, request, view, call, selected, replaced, cancelled>>

\* The row is written by its id whatever its status; only the index refuses,
\* when the row would become active again beside another one.
ApproveWrite(t) ==
    LET i == approving[t] IN
    /\ i # Nothing
    /\ IF ActiveIds \subseteq {i} THEN SetStatus(i, "approved") ELSE UNCHANGED request
    /\ approving' = [approving EXCEPT ![t] = Nothing]
    /\ selected' = [selected EXCEPT ![t] = Nothing]
    /\ UNCHANGED <<owner, view, call, past>>

----------------------------------------------------------------------------
(* A statement fails: the call ends there.                                 *)

OwnerCallFails(d) ==
    /\ Failures /\ call[d] # Nothing
    /\ call' = [call EXCEPT ![d] = Nothing]
    /\ overlapped' = overlapped \cup {i \in Ids : call[d] = [at |-> "replaced", id |-> i]}
    /\ UNCHANGED <<owner, request, view, approving, selected, replaced, cancelled>>

ApproveFails(t) ==
    /\ Failures /\ approving[t] # Nothing
    /\ approving' = [approving EXCEPT ![t] = Nothing]
    /\ UNCHANGED <<owner, request, view, call, selected, past>>

OwnerStep(d) ==
    \/ Load(d) \/ RemoveContacts(d) \/ RequestRecovery(d) \/ CancelRequest(d)
    \/ \E c \in Contacts : AddContact(d, c)
    \/ \E i \in Ids : InsertRequest(d, i) \/ CompleteCheck(d, i)
    \/ CompleteReplace(d) \/ CompleteFinish(d) \/ OwnerCallFails(d)

ContactStep(t) ==
    \/ \E i \in Ids : Select(t, i)
    \/ CloseSheet(t) \/ ApproveCheck(t) \/ ApproveWrite(t) \/ ApproveFails(t)

RecoveryNext ==
    \/ \E d \in Devices : OwnerStep(d)
    \/ \E t \in ContactTabs : ContactStep(t)
    \/ \E i \in Ids : WaitingPeriodEnds(i)
    \/ LockOwner \/ UnlockOwner \/ Forget

RecoverySpec == RecoveryInit /\ [][RecoveryNext]_recoveryVars

----------------------------------------------------------------------------
(* Properties.                                                             *)

\* A vault key is replaced only by a request that has waited its 72 hours,
\* through cancellations, revivals and repeated calls ("A 72-hour waiting
\* period applies before recovery completes", recovery-section.tsx).
ReplacedAfterWaiting ==
    \A i \in Ids : replaced[i] > 0 => request[i] # Nothing /\ request[i].waited

\* A cancelled request stays cancelled and replaces nothing, unless another
\* call about it was under way at the time (recovery.go, CancelRecovery).
CancelStands ==
    \A i \in cancelled \ overlapped : request[i].status = "cancelled" /\ replaced[i] = 0

\* An approval is good for one recovery, unless two calls met or the second
\* statement of the completion failed (recovery.go, CompleteRecovery).
RecoversOnce ==
    \A i \in Ids \ overlapped :
        /\ replaced[i] <= 1
        /\ replaced[i] = 1 => \/ request[i].status = "completed"
                              \/ \E d \in Devices : call[d] = [at |-> "replaced", id |-> i]

=============================================================================
