------------------------------ MODULE Workspace ------------------------------
(***************************************************************************)
(* Organizations and projects as one tab of the dashboard finds its way    *)
(* among them: route guards that decide from cached lists, the mutations   *)
(* that create and delete, the re-reads that follow them, and what members *)
(* and other tabs change meanwhile.                                        *)
(*                                                                         *)
(* A guard never asks the API for a list that is in the cache, however old *)
(* it is, and a mutation re-reads only the lists that a mounted component  *)
(* watches.  Whether a new project opens, or a deleted one stays shut,     *)
(* depends on how the two meet.                                            *)
(*                                                                         *)
(* Ids are numbers in the order of creation and stand for the names, which *)
(* are unique where they are compared.                                     *)
(***************************************************************************)
EXTENDS Naturals, FiniteSetsExt

CONSTANTS
    MaxOrgs,      \* bound: organizations ever made
    MaxProjects,  \* bound: projects ever made
    PageSize,     \* the projects a list request without a page gets
    MaxChanges,   \* bound: changes made, here or elsewhere
    Asked,        \* a list that was asked for and is not read yet
    None

ASSUME ConstantsAssumption ==
    {MaxOrgs, MaxProjects, PageSize, MaxChanges} \subseteq Nat /\ PageSize > 0

Orgs == 1..MaxOrgs
Projects == 1..MaxProjects
\* The lists in the query cache: 0 is the list of organizations, o the projects of o.
Queries == {0} \cup Orgs
Lists == SUBSET (Orgs \cup Projects)
Pages ==
    [at : {"start", "unlock", "onboarding", "org", "project", "failed"},
     org : {0} \cup Orgs, project : {0} \cup Projects]
Targets ==
    [at : {"login", "index", "onboarding", "org", "project"},
     org : {0} \cup Orgs, project : {0} \cup Projects]
Mutations ==
    [op : {"createOrg", "createProject", "deleteProject", "deleteOrg"},
     org : {0} \cup Orgs, project : {0} \cup Projects,
     by : {"sidebar", "onboarding", "org", "project", "gone"}, stage : {"sent", "rereading"},
     lists : SUBSET Queries, typed : {0} \cup Orgs \cup Projects]

\* None and Asked are no data.
ASSUME NoneAssumption ==
    /\ None # Asked /\ None \notin Mutations
    /\ \A S \in Lists : S \notin {None, Asked}

VARIABLES
    orgs,      \* the organizations the user belongs to
    home,      \* home[p]: the organization of project p, 0 before it is made and when it is gone
    made,      \* made.orgs, made.projects: how many were ever made
    changes,   \* how many changes there were
    cache,     \* cache[q]: the list last read, or None
    details,   \* the organizations whose detail is in the cache
    read,      \* read[q]: the read of a list on its way (Asked, then what was read), or None
    page,      \* the page on show
    going,     \* the navigation under way and the guard it is at, or None
    saving,    \* the mutation under way, or None
    wizard,    \* the onboarding wizard
    sure,      \* auxiliary: what this tab made and its lists must show
    gone       \* auxiliary: what this tab deleted and its lists must not show

server == <<orgs, home, made, changes>>
tab == <<cache, details, read, page, going, saving, wizard>>
vars == <<server, tab, sure, gone>>

To(at, o, p) == [at |-> at, org |-> o, project |-> p]
Mutation(op, o, p, by, stage, lists, typed) ==
    [op |-> op, org |-> o, project |-> p, by |-> by, stage |-> stage, lists |-> lists, typed |-> typed]
FirstStep == [step |-> "org", org |-> 0, project |-> 0]
Org(o) == <<"org", o>>
Project(p) == <<"project", p>>

\* The sidebar's organization: the page's if it is in the list, else the first.
Active(pg, c) ==
    IF c[0] \in {None, {}} THEN 0 ELSE IF pg.org \in c[0] THEN pg.org ELSE Min(c[0])

\* The lists that a mounted component watches: the sidebar's two and the organization page's.
Observed(pg, c) ==
    IF pg.at \in {"start", "unlock"} THEN {} ELSE {0, Active(pg, c)} \cup (IF pg.at = "org" THEN {pg.org} ELSE {})

\* What a list request without parameters gets: every organization, the newest projects.
Newest(S) == {p \in S : Cardinality({r \in S : r > p}) < PageSize}
Listed(o, hm) == Newest({p \in Projects : hm[p] = o})

\* The mutation waits for the read of list q.
Awaits(q) == saving # None /\ saving.stage = "rereading" /\ q \in saving.lists

\* What a mutation makes or deletes.
Item(m) == IF m.op \in {"createOrg", "deleteOrg"} THEN Org(m.org) ELSE Project(m.project)
\* The lists are not what the mutation left when a read it waits for is lost.
Excused(Q) == IF \E q \in Q : Awaits(q) THEN {Item(saving)} ELSE {}

\* A component that goes takes the interest in its mutation's end with it.
Left(pg) ==
    IF saving # None /\ saving.by \notin {"sidebar", pg.at}
    THEN Mutation(saving.op, saving.org, saving.project, "gone", saving.stage, saving.lists, saving.typed)
    ELSE saving

\* The page and the cache change: reads of lists that nothing watches any more are aborted.
Show(pg, c, r) ==
    LET lost == {q \in Observed(page, cache) \ Observed(pg, c) : r[q] # None}
    IN  /\ page' = pg /\ cache' = c
        /\ read' = [q \in Queries |-> IF q \in lost THEN None ELSE r[q]]
        /\ saving' = Left(pg)
        /\ wizard' = IF pg.at = page.at THEN wizard ELSE FirstStep
        /\ sure' = sure \ Excused(lost) /\ gone' = gone \ Excused(lost)

------------------------------------------------------------------------------
(* Reading lists.                                                            *)

\* A component mounts, the window gets the focus, or a stale list is watched again.  Bound: one
\* such read at a time.
Refresh(q) ==
    /\ q \in Observed(page, cache) /\ \A r \in Queries : read[r] = None /\ ~Awaits(r)
    /\ read' = [read EXCEPT ![q] = Asked]
    /\ UNCHANGED <<server, cache, details, page, going, saving, wizard, sure, gone>>

ServeList(q) ==
    /\ read[q] = Asked
    /\ read' = [read EXCEPT ![q] = IF q = 0 THEN orgs ELSE Listed(q, home)]
    /\ UNCHANGED <<server, cache, details, page, going, saving, wizard, sure, gone>>

Deliver(q) ==
    /\ read[q] \notin {None, Asked}
    /\ Show(page, [cache EXCEPT ![q] = read[q]], [read EXCEPT ![q] = None])
    /\ UNCHANGED <<server, details, going>>

\* The list that the guard of a navigation waits for.
WaitsFor(q) ==
    /\ going # None /\ cache[q] = None
    /\ \/ q = 0 /\ going.guard = "orgs"
       \/ q # 0 /\ going.guard = "project" /\ q = going.to.org

\* The list stays as it is; a guard that waits for it shows the error in place of its page.
ListFails(q) ==
    /\ read[q] # None
    /\ read' = [read EXCEPT ![q] = None]
    /\ sure' = sure \ Excused({q}) /\ gone' = gone \ Excused({q})
    /\ IF WaitsFor(q)
       THEN /\ going' = None
            /\ page' = IF q = 0 THEN To("start", 0, 0) ELSE To("failed", q, going.to.project)
            /\ saving' = Left(page') /\ wizard' = FirstStep
       ELSE UNCHANGED <<going, page, saving, wizard>>
    /\ UNCHANGED <<server, cache, details>>

------------------------------------------------------------------------------
(* Navigation.                                                               *)

Start(to) == going' = [to |-> to, guard |-> "session"]

Arrive ==
    /\ going' = None /\ Show(going.to, cache, read)
    /\ UNCHANGED <<server, details>>

Redirect(to) ==
    /\ Start(to)
    /\ UNCHANGED <<server, cache, details, read, page, saving, wizard, sure, gone>>

Pass(guard) ==
    /\ going' = [to |-> going.to, guard |-> guard]
    /\ UNCHANGED <<server, cache, read, page, saving, wizard, sure, gone>>

\* ensureQueryData: only a list that is not in the cache is asked for.
Ensure(q) ==
    /\ cache[q] = None /\ read[q] = None
    /\ read' = [read EXCEPT ![q] = Asked]
    /\ UNCHANGED <<server, cache, details, page, going, saving, wizard, sure, gone>>

\* The sidebar's switcher and its projects, the organization page, and its table of projects,
\* whose lists have keys of their own and may show a project that the guard's list does not.
Switcher == {To("onboarding", 0, 0)} \cup {To("org", o, 0) : o \in IF cache[0] = None THEN {} ELSE cache[0]}
ProjectItems(o) == IF o \in Orgs /\ cache[o] # None THEN {To("project", o, p) : p \in cache[o]} ELSE {}
ProjectsTable(o) == {To("project", o, p) : p \in {r \in Projects : home[r] = o}}
Links ==
    Switcher \cup ProjectItems(Active(page, cache))
    \cup IF page.at = "org" THEN ProjectItems(page.org) \cup ProjectsTable(page.org) ELSE {}

\* Bound: the user does not follow a link while the last one is still loading, nor one that is
\* left beside an error.
Visit ==
    /\ page.at \notin {"start", "unlock", "failed"} /\ going = None
    /\ \E to \in Links : Start(to)
    /\ UNCHANGED <<server, cache, details, read, page, saving, wizard, sure, gone>>

\* The guard of the unlocked pages, and of "/", with the list it needs.
EnterUnlocked ==
    \/ going.to.at = "onboarding" /\ Arrive
    \/ going.to.at # "onboarding" /\ cache[0] = {} /\ Redirect(To("onboarding", 0, 0))
    \/ /\ going.to.at = "index" /\ cache[0] \notin {None, {}}
       /\ Redirect(To("org", Min(cache[0]), 0))
    \/ /\ going.to.at \in {"org", "project"} /\ cache[0] \notin {None, {}}
       /\ Pass("org") /\ UNCHANGED details

\* The guard of every page reads /auth/me, unless it did so in the last 30 seconds.  A user who is
\* known has nothing to do at /login, which leads to "/" or, when the API has the vault locked, to
\* the page that unlocks it.
MeAnswers ==
    /\ going # None /\ going.guard = "session"
    /\ \/ going.to.at = "login" /\ Redirect(To("index", 0, 0))
       \/ /\ going.to.at = "login" /\ going' = None /\ Show(To("unlock", 0, 0), cache, read)
          /\ UNCHANGED <<server, details>>
       \/ going.to.at # "login" /\ EnterUnlocked
       \/ going.to.at \notin {"login", "onboarding"} /\ cache[0] = None /\ Pass("orgs") /\ UNCHANGED details

\* Nobody is signed in, or the request fails: every page leads to /login, and so does /login.
MeFails == going # None /\ going.guard = "session" /\ Redirect(To("login", 0, 0))

GuardSession == MeAnswers \/ MeFails

\* The user enters the Vault Key once more.
Unlock ==
    /\ page.at = "unlock" /\ going = None
    /\ Start(To("index", 0, 0))
    /\ UNCHANGED <<server, cache, details, read, page, saving, wizard, sure, gone>>

\* The guard waits for the list of organizations.
GuardOrgs ==
    /\ going # None /\ going.guard = "orgs"
    /\ Ensure(0) \/ EnterUnlocked

\* Mutant: an organization that cannot be read sends the user to the first one.
OrgFailsToIndex == Redirect(To("index", 0, 0))

\* The organization is no longer the user's, or its detail cannot be read: the error is shown.
OrgFails == going' = None /\ Show(To("failed", going.to.org, going.to.project), cache, read)

\* Mutant: the guard does not wait for the detail.
DetailNotRead(o) == details

DetailRead(o) == details \cup {o}

\* The detail of the organization is read unless it is in the cache.
GuardOrg ==
    /\ going # None /\ going.guard = "org"
    /\ \/ /\ going.to.org \in details \cup orgs
          /\ details' = DetailRead(going.to.org)
          /\ IF going.to.at = "project" THEN Pass("project")
             ELSE going' = None /\ Show(going.to, cache, read) /\ UNCHANGED server
       \/ /\ going.to.org \notin details /\ OrgFails /\ UNCHANGED <<server, details>>

\* A project that is not in the cached list does not open.
GuardProject ==
    /\ going # None /\ going.guard = "project"
    /\ LET o == going.to.org
       IN  \/ Ensure(o)
           \/ cache[o] # None /\ going.to.project \in cache[o] /\ Arrive
           \/ cache[o] # None /\ going.to.project \notin cache[o] /\ Redirect(To("org", o, 0))

------------------------------------------------------------------------------
(* Mutations.                                                                *)

\* Bound: one mutation of the tab at a time, and none that a bound would stop.
Save(op, o, p, by, typed) ==
    /\ saving = None /\ changes < MaxChanges
    /\ op = "createOrg" => made.orgs < MaxOrgs
    /\ op = "createProject" => made.projects < MaxProjects
    /\ saving' = Mutation(op, o, p, by, "sent", {}, typed)
    /\ UNCHANGED <<server, cache, details, read, page, going, wizard, sure, gone>>

\* The onboarding page with the form of one of its steps.
Wizard(step) == page.at = "onboarding" /\ wizard.step = step

SubmitOrg == Wizard("org") /\ Save("createOrg", 0, 0, "onboarding", 0)

SubmitProject ==
    \/ page.at \notin {"start", "unlock"} /\ Active(page, cache) # 0 /\ Save("createProject", Active(page, cache), 0, "sidebar", 0)
    \/ page.at = "org" /\ Save("createProject", page.org, 0, "org", 0)
    \/ Wizard("project") /\ Save("createProject", wizard.org, 0, "onboarding", 0)

\* The name the deletion dialog asks for, empty as long as it is not read.
Shown ==
    IF page.at = "project" THEN page.project
    ELSE IF page.at = "org" /\ page.org \in details THEN page.org ELSE 0

\* The text is what the user typed here, or before at another page of the kind; it is empty at first.
SubmitDeletion ==
    \E typed \in {0} \cup Orgs \cup Projects :
       /\ typed = Shown
       /\ \/ page.at = "project" /\ Save("deleteProject", page.org, page.project, "project", typed)
          \/ page.at = "org" /\ Save("deleteOrg", page.org, 0, "org", typed)

\* What the tab knows of its own changes it must not forget; what others undo is not its own.
Still(S, os, hm) ==
    {x \in S : IF x[1] = "org" THEN x[2] \in os ELSE hm[x[2]] # 0 /\ x[2] \in Listed(hm[x[2]], hm)}

\* Mutant: the projects of an organization outlive it.
WithoutCascade(o) == home

\* An organization's projects go with it.
Without(o) == [p \in Projects |-> IF home[p] = o THEN 0 ELSE home[p]]

\* The statement of the API or of the identity service; m is the mutation with its new id.
Execute(m) ==
    /\ changes < MaxChanges /\ changes' = changes + 1
    /\ \/ /\ m.op = "createOrg" /\ made.orgs < MaxOrgs /\ m.org = made.orgs + 1
          /\ made' = [orgs |-> made.orgs + 1, projects |-> made.projects]
          /\ orgs' = orgs \cup {m.org} /\ UNCHANGED home
       \/ /\ m.op = "createProject" /\ m.org \in orgs
          /\ made.projects < MaxProjects /\ m.project = made.projects + 1
          /\ made' = [orgs |-> made.orgs, projects |-> made.projects + 1]
          /\ home' = [home EXCEPT ![m.project] = m.org] /\ UNCHANGED orgs
       \/ /\ m.op = "deleteProject" /\ home[m.project] # 0
          /\ home' = [home EXCEPT ![m.project] = 0] /\ UNCHANGED <<orgs, made>>
       \/ /\ m.op = "deleteOrg" /\ m.org \in orgs
          /\ orgs' = orgs \ {m.org} /\ home' = Without(m.org) /\ UNCHANGED made

\* The mutation with the id of what it makes.
Numbered ==
    Mutation(saving.op,
             IF saving.op = "createOrg" THEN made.orgs + 1 ELSE saving.org,
             IF saving.op = "createProject" THEN made.projects + 1 ELSE saving.project,
             saving.by, saving.stage, saving.lists, saving.typed)

\* The request is refused, or its answer lost: the form shows the error.
SaveFails ==
    /\ saving # None /\ saving.stage = "sent" /\ saving' = None
    /\ \/ UNCHANGED <<server, sure>>
       \/ Execute(Numbered) /\ sure' = Still(sure, orgs', home')
    /\ UNCHANGED <<cache, details, read, page, going, wizard, gone>>

\* The lists whose key the mutation's onSuccess invalidates.
Invalidates ==
    IF saving.op \in {"createOrg", "deleteOrg"} THEN {0}
    ELSE IF saving.op = "createProject" THEN {saving.org} ELSE Orgs

\* Mutant: a read under way is not cancelled by the invalidation.
JoinsAnyRead(q) == read[q] # None

\* The first load of a list is not cancelled by an invalidation: the mutation waits for it.
Joins(q) == cache[q] = None /\ read[q] # None

\* The statement and the answer.  The watched lists are read anew; a list nobody watches stays
\* as it is, and the first load may have been read before the change: of those nothing is promised.
Answered ==
    /\ saving # None /\ saving.stage = "sent" /\ Execute(Numbered)
    /\ LET m == Numbered
           lists == Invalidates \cap Observed(page, cache)
           q == IF m.op \in {"createOrg", "deleteOrg"} THEN 0 ELSE m.org
           fresh == IF q \in Observed(page, cache) THEN ~(cache[q] = None /\ read[q] # None)
                    ELSE cache[q] = None /\ read[q] = None
           known == IF fresh THEN {Item(m)} ELSE {}
           creates == m.op \in {"createOrg", "createProject"}
       IN  /\ read' = [l \in Queries |-> IF l \in lists /\ ~Joins(l) THEN Asked ELSE read[l]]
           /\ saving' = Mutation(m.op, m.org, m.project, m.by, "rereading", lists, m.typed)
           /\ sure' = Still(IF creates THEN sure \cup known ELSE sure, orgs', home')
           /\ gone' = IF creates THEN gone ELSE gone \cup known
    /\ UNCHANGED <<cache, details, page, going, wizard>>

\* Mutant: the callback does not wait for the lists.
NothingToRead == TRUE

\* Every list the mutation waits for was read, failed or was aborted.
AllRead == \A q \in saving.lists : read[q] = None

\* The callback of the component that is still there; a dialog may have been closed meanwhile,
\* which forgets the callback, and an organization's deletion always goes home.
Finish ==
    /\ saving # None /\ saving.stage = "rereading" /\ AllRead
    /\ saving' = None
    /\ \/ /\ saving.op = "createOrg" /\ saving.by = "onboarding"
          /\ wizard' = [step |-> "project", org |-> saving.org, project |-> 0] /\ UNCHANGED going
       \/ /\ saving.op = "createProject" /\ saving.by = "onboarding"
          /\ wizard' = [step |-> "import", org |-> wizard.org, project |-> saving.project] /\ UNCHANGED going
       \/ /\ saving.op = "createProject" /\ saving.by \in {"sidebar", "org"}
          /\ Start(To("project", saving.org, saving.project)) \/ UNCHANGED going
          /\ UNCHANGED wizard
       \/ /\ saving.op = "deleteProject" /\ saving.by = "project"
          /\ Start(To("org", saving.org, 0)) /\ UNCHANGED wizard
       \/ /\ saving.op = "deleteOrg"
          /\ Start(To("index", 0, 0)) /\ UNCHANGED wizard
       \/ /\ saving.op # "deleteOrg" /\ saving.by = "gone"
          /\ UNCHANGED <<wizard, going>>
    /\ UNCHANGED <<server, cache, details, read, page, sure, gone>>

WizardEnds ==
    /\ Wizard("import") /\ going = None
    /\ Start(To("project", wizard.org, wizard.project))
    /\ UNCHANGED <<server, cache, details, read, page, saving, wizard, sure, gone>>

------------------------------------------------------------------------------
(* Everything else.                                                          *)

\* Members make and delete projects; the user joins or loses an organization elsewhere.
Elsewhere ==
    /\ changes < MaxChanges /\ changes' = changes + 1
    /\ \/ /\ made.projects < MaxProjects /\ made' = [orgs |-> made.orgs, projects |-> made.projects + 1]
          /\ \E o \in orgs : home' = [home EXCEPT ![made'.projects] = o]
          /\ UNCHANGED orgs
       \/ /\ \E p \in Projects : home[p] # 0 /\ home' = [home EXCEPT ![p] = 0]
          /\ UNCHANGED <<orgs, made>>
       \/ /\ made.orgs < MaxOrgs /\ made' = [orgs |-> made.orgs + 1, projects |-> made.projects]
          /\ orgs' = orgs \cup {made'.orgs} /\ UNCHANGED home
       \/ /\ \E o \in orgs : orgs' = orgs \ {o} /\ home' = Without(o)
          /\ UNCHANGED made
    /\ sure' = Still(sure, orgs', home')
    /\ UNCHANGED <<tab, gone>>

\* The page is loaded anew: the cache is empty, and where a mutation got to is not known.
\* Bound: the user does so only at a page that shows an error, and begins at "/" again.
Reload ==
    /\ going = None /\ page.at \in {"start", "failed"}
    /\ page' = To("start", 0, 0) /\ going' = [to |-> To("index", 0, 0), guard |-> "session"]
    /\ cache' = [q \in Queries |-> None] /\ read' = [q \in Queries |-> None] /\ details' = {}
    /\ saving' = None /\ wizard' = FirstStep
    /\ UNCHANGED <<server, sure, gone>>

\* A new user, who belongs to no organization.
Init ==
    /\ orgs = {} /\ made = [orgs |-> 0, projects |-> 0]
    /\ home = [p \in Projects |-> 0] /\ changes = 0
    /\ cache = [q \in Queries |-> None] /\ read = [q \in Queries |-> None] /\ details = {}
    /\ page = To("start", 0, 0) /\ going = [to |-> To("index", 0, 0), guard |-> "session"]
    /\ saving = None /\ wizard = FirstStep
    /\ sure = {} /\ gone = {}

Guards == GuardSession \/ GuardOrgs \/ GuardOrg \/ GuardProject

Next ==
    \/ \E q \in Queries : Refresh(q) \/ ServeList(q) \/ Deliver(q) \/ ListFails(q)
    \/ Visit \/ Unlock \/ Guards
    \/ SubmitOrg \/ SubmitProject \/ SubmitDeletion
    \/ SaveFails \/ Answered \/ Finish \/ WizardEnds
    \/ Elsewhere \/ Reload

\* The navigation is to /login, where only a failed /auth/me leads.
ToLogin == going # None /\ going.to.at = "login"

\* The router runs its guards, and a request is answered or fails.  /login promises nothing: as
\* long as /auth/me fails it redirects to itself.
Fairness ==
    /\ WF_vars(~ToLogin /\ Guards)
    /\ WF_vars(\E q \in Queries : ServeList(q) \/ Deliver(q))

Spec == Init /\ [][Next]_vars
FairSpec == Spec /\ Fairness

------------------------------------------------------------------------------
\* Every variable keeps its shape, and a page is shown only with the organization it belongs to.
TypeOK ==
    /\ orgs \subseteq Orgs /\ home \in [Projects -> {0} \cup orgs]
    /\ made \in [orgs : 0..MaxOrgs, projects : 0..MaxProjects] /\ changes \in 0..MaxChanges
    /\ cache \in [Queries -> Lists \cup {None}] /\ details \subseteq Orgs
    /\ read \in [Queries -> Lists \cup {None, Asked}]
    /\ page \in Pages /\ (page.at \in {"org", "project"} => page.org # 0)
    /\ going \in {None} \cup [to : Targets, guard : {"session", "orgs", "org", "project"}]
    /\ saving \in {None} \cup Mutations
    /\ wizard \in [step : {"org", "project", "import"}, org : {0} \cup Orgs, project : {0} \cup Projects]
    /\ sure \cup gone \subseteq ({"org"} \X Orgs) \cup ({"project"} \X Projects)

\* The guard is to decide about a project, or about the list of organizations, from what is
\* cached while no re-read of the list is waited for.
DecidesProject == going # None /\ going.guard = "project" /\ cache[going.to.org] # None /\ ~Awaits(going.to.org)
DecidesOrgs == going # None /\ going.guard \in {"session", "orgs"} /\ cache[0] # None /\ ~Awaits(0)

\* What this tab made opens: its project is not turned away by a guard and, with an organization
\* of its own, it is not sent back to onboarding.  Nothing is promised when the re-read failed or
\* was aborted, when nothing on the page watched the list, when the list was still loading for
\* the first time, or when somebody else deleted it or made a page of newer projects.
OwnCreationsOpen ==
    /\ DecidesProject /\ going.to.project \notin cache[going.to.org] => Project(going.to.project) \notin sure
    /\ DecidesOrgs /\ cache[0] = {} => \A o \in Orgs : Org(o) \notin sure

\* What this tab deleted stays shut: no guard lets it in to its project again, and "/" does not
\* lead to its organization again, with the same exceptions.
OwnDeletionsStayShut ==
    /\ DecidesProject /\ going.to.project \in cache[going.to.org] => Project(going.to.project) \notin gone
    /\ DecidesOrgs /\ going.to.at = "index" /\ cache[0] # {} => Org(Min(cache[0])) \notin gone

\* Nothing is deleted unless its name was typed: an organization's dialog, whose text starts out
\* equal to a name that is not read yet, relies on the guard that reads it first.
DeletionWasTyped ==
    saving # None =>
        /\ saving.op = "deleteProject" => saving.typed = saving.project
        /\ saving.op = "deleteOrg" => saving.typed = saving.org

\* Every navigation ends, at a page or at an error, or is sent to /login by a failed /auth/me:
\* no redirects among the other pages chase each other, and none waits for a list nobody reads.
NavigationEnds == going # None ~> (going = None \/ ToLogin)
==============================================================================
