--------------------------- MODULE WorkspaceProofs ---------------------------
(***************************************************************************)
(* Proofs about Workspace for any number of organizations, projects and    *)
(* changes and any page size.                                              *)
(*                                                                         *)
(* What this tab made is in every copy of the list it belongs to, the      *)
(* cached one and the one on its way, except in a cached copy that the     *)
(* mutation itself is having read anew; a guard that decides while nothing *)
(* is waited for meets no exception.  What it deleted is in none, with the *)
(* same exception.  A project is never listed under, shown with or         *)
(* navigated to an organization other than the one it was made in, which   *)
(* is why a deletion has to be followed in one list only.                  *)
(***************************************************************************)
EXTENDS Workspace, FiniteSetTheorems, WellFoundedInduction, TLAPS

-----------------------------------------------------------------------------
(* The inductive invariant.                                                *)

\* Project p was made in organization o, which it never leaves for another.
Fits(o, p) == o \in Orgs /\ p \in Projects /\ p <= made.projects /\ home[p] \in {0, o}

\* L can be list q.
Fitting(q, L) == IF q = 0 THEN L \subseteq Orgs ELSE \A p \in L : Fits(q, p)

\* The lists that are cached or were read are lists of their kind.
ListsFit ==
    /\ orgs \subseteq 1..made.orgs /\ \A p \in Projects : home[p] # 0 => p <= made.projects
    /\ \A q \in Queries : cache[q] # None => Fitting(q, cache[q])
    /\ \A q \in Queries : read[q] \notin {None, Asked} => Fitting(q, read[q])

\* A page, a target, a mutation and the wizard name a project with its organization.
PlaceFits(at, o, p) == (at = "org" => o \in Orgs) /\ (at = "project" => Fits(o, p))

PageFits == PlaceFits(page.at, page.org, page.project) /\ (page.at = "org" => page.org \in details)

GoingFits ==
    going # None =>
        /\ PlaceFits(going.to.at, going.to.org, going.to.project)
        /\ going.guard = "orgs" => going.to.at # "login"
        /\ going.guard = "org" => going.to.at \in {"org", "project"}
        /\ going.guard = "project" => going.to.at = "project"

SavingFits ==
    saving # None =>
        /\ saving.op # "createOrg" => saving.org \in Orgs
        /\ saving.op = "createOrg" /\ saving.stage = "rereading" => saving.org \in Orgs
        /\ saving.op = "createProject" /\ saving.stage = "rereading" => Fits(saving.org, saving.project)
        /\ saving.op = "deleteProject" => Fits(saving.org, saving.project) /\ saving.typed = saving.project
        /\ saving.op = "deleteOrg" => saving.typed = saving.org
        /\ saving.by = "onboarding" => page.at = "onboarding"
        /\ saving.op = "createProject" /\ saving.by = "onboarding" =>
              wizard.step = "project" /\ wizard.org = saving.org

WizardFits ==
    /\ wizard.step # "org" => wizard.org \in Orgs
    /\ wizard.step = "import" => Fits(wizard.org, wizard.project)

\* The read of list q that the mutation of x waits for is on its way.
Pending(q, x) == Awaits(q) /\ read[q] # None /\ Item(saving) = x

\* What is read shows i, and what is cached does unless it is being read anew.
Shows(q, i, x) ==
    /\ read[q] \notin {None, Asked} => i \in read[q]
    /\ cache[q] # None => i \in cache[q] \/ Pending(q, x)

Hides(q, i, x) ==
    /\ read[q] \notin {None, Asked} => i \notin read[q]
    /\ cache[q] # None => i \notin cache[q] \/ Pending(q, x)

SureHolds ==
    /\ \A o \in Orgs : Org(o) \in sure => o \in orgs /\ Shows(0, o, Org(o))
    /\ \A p \in Projects : Project(p) \in sure =>
          /\ home[p] # 0 /\ p \in Listed(home[p], home)
          /\ \A o \in Orgs : home[p] = o => Shows(o, p, Project(p))

GoneHolds ==
    /\ \A o \in Orgs : Org(o) \in gone => o \notin orgs /\ o <= made.orgs /\ Hides(0, o, Org(o))
    /\ \A p \in Projects : Project(p) \in gone =>
          home[p] = 0 /\ p <= made.projects /\ \A o \in Orgs : Hides(o, p, Project(p))

Fit == PageFits /\ GoingFits /\ SavingFits /\ WizardFits
IInv == TypeOK /\ ListsFit /\ Fit /\ SureHolds /\ GoneHolds

-----------------------------------------------------------------------------
(* Organizations, projects and lists.                                      *)

ServerType ==
    /\ orgs \subseteq Orgs /\ home \in [Projects -> {0} \cup orgs]
    /\ made \in [orgs : 0..MaxOrgs, projects : 0..MaxProjects] /\ changes \in 0..MaxChanges

\* Ids are never given twice.
Evolves ==
    /\ made.orgs <= made'.orgs /\ made.projects <= made'.projects
    /\ orgs' \subseteq 1..made'.orgs /\ \A o \in orgs' : o \in orgs \/ o > made.orgs
    /\ \A p \in Projects : home'[p] # 0 => p <= made'.projects
    /\ \A p \in Projects : p <= made.projects => home'[p] \in {0, home[p]}

LEMMA Constants ==
    /\ MaxOrgs \in Nat /\ MaxProjects \in Nat /\ MaxChanges \in Nat /\ PageSize \in Nat
    /\ Orgs \subseteq Nat \ {0} /\ Projects \subseteq Nat \ {0} /\ 0 \in Queries /\ Orgs \subseteq Queries
    /\ 0 \notin Orgs /\ 0 \notin Projects
  BY ConstantsAssumption DEF Orgs, Projects, Queries

LEMMA ItemsDiffer ==
  ASSUME NEW o, NEW p, NEW q
  PROVE  Org(o) # Project(p) /\ (Org(o) = Org(q) <=> o = q) /\ (Project(p) = Project(q) <=> p = q)
  BY DEF Org, Project

LEMMA ListedType ==
  ASSUME NEW o, NEW hm
  PROVE  Listed(o, hm) \subseteq {p \in Projects : hm[p] = o}
  BY DEF Listed, Newest

LEMMA StillKept ==
  ASSUME NEW S, NEW os, NEW hm
  PROVE  /\ Still(S, os, hm) \subseteq S
         /\ \A o : Org(o) \in Still(S, os, hm) => o \in os
         /\ \A p : Project(p) \in Still(S, os, hm) => hm[p] # 0 /\ p \in Listed(hm[p], hm)
  BY DEF Still, Org, Project

LEMMA ServerStill ==
  ASSUME ServerType, ListsFit, UNCHANGED server
  PROVE  Evolves /\ ServerType'
<1>1. /\ made.orgs \in Nat /\ made.projects \in Nat /\ orgs' = orgs /\ home' = home /\ made' = made
      /\ changes' = changes
  BY Constants DEF ServerType, server
<1> QED BY <1>1 DEF Evolves, ListsFit, ServerType

LEMMA Cascade ==
  ASSUME ServerType, NEW o
  PROVE  /\ Without(o) \in [Projects -> {0} \cup (orgs \ {o})]
         /\ \A p \in Projects : Without(o)[p] \in {0, home[p]}
  BY DEF Without, ServerType

\* What makes an organization or a project gives it the next id.
LEMMA Makes ==
  ASSUME ServerType, ListsFit, changes < MaxChanges, changes' = changes + 1,
         \/ /\ made.orgs < MaxOrgs /\ made' = [orgs |-> made.orgs + 1, projects |-> made.projects]
            /\ orgs' = orgs \cup {made.orgs + 1} /\ home' = home
         \/ /\ made.projects < MaxProjects
            /\ made' = [orgs |-> made.orgs, projects |-> made.projects + 1]
            /\ \E o \in orgs : home' = [home EXCEPT ![made.projects + 1] = o]
            /\ orgs' = orgs
         \/ /\ \E p \in Projects : home' = [home EXCEPT ![p] = 0]
            /\ orgs' = orgs /\ made' = made
         \/ /\ \E o \in orgs : orgs' = orgs \ {o} /\ home' = Without(o)
            /\ made' = made
  PROVE  Evolves /\ ServerType'
<1>1. /\ made.orgs \in 0..MaxOrgs /\ made.projects \in 0..MaxProjects
      /\ MaxOrgs \in Nat /\ MaxProjects \in Nat /\ Projects = 1..MaxProjects /\ Orgs = 1..MaxOrgs
      /\ orgs \subseteq 1..made.orgs /\ home \in [Projects -> {0} \cup orgs]
      /\ made \in [orgs : 0..MaxOrgs, projects : 0..MaxProjects]
      /\ \A p \in Projects : home[p] # 0 => p <= made.projects
  BY Constants DEF ServerType, ListsFit, Projects, Orgs
<1>2. changes' \in 0..MaxChanges
  BY Constants DEF ServerType
<1>3. CASE /\ made.orgs < MaxOrgs /\ made' = [orgs |-> made.orgs + 1, projects |-> made.projects]
           /\ orgs' = orgs \cup {made.orgs + 1} /\ home' = home
  <2>1. made'.orgs = made.orgs + 1 /\ made'.projects = made.projects
    BY <1>3
  <2>2. made' \in [orgs : 0..MaxOrgs, projects : 0..MaxProjects]
    BY <1>1, <1>3
  <2>3. /\ made.orgs + 1 \in Orgs /\ orgs \subseteq 1..(made.orgs + 1) /\ made.orgs \in Nat
        /\ made.projects \in Nat /\ made.orgs + 1 > made.orgs
    BY <1>1, <1>3
  <2>4. orgs' \subseteq 1..made'.orgs /\ \A o \in orgs' : o \in orgs \/ o > made.orgs
    BY <1>3, <2>1, <2>3
  <2>5. \A p \in Projects : home'[p] = home[p]
    BY <1>3
  <2>6. Evolves
    BY <1>1, <2>1, <2>3, <2>4, <2>5 DEF Evolves
  <2>7. orgs' \subseteq Orgs
    BY <1>3, <2>3 DEF ServerType
  <2>8. home' \in [Projects -> {0} \cup orgs']
    <3>1. {0} \cup orgs \subseteq {0} \cup orgs'
      BY <1>3
    <3> QED BY <1>1, <1>3, <3>1
  <2> QED BY <1>2, <2>2, <2>6, <2>7, <2>8 DEF ServerType
<1>4. CASE /\ made.projects < MaxProjects
           /\ made' = [orgs |-> made.orgs, projects |-> made.projects + 1]
           /\ \E o \in orgs : home' = [home EXCEPT ![made.projects + 1] = o]
           /\ orgs' = orgs
  <2>1. made'.orgs = made.orgs /\ made'.projects = made.projects + 1
    BY <1>4
  <2>2. made' \in [orgs : 0..MaxOrgs, projects : 0..MaxProjects]
    BY <1>1, <1>4
  <2>3. PICK o \in orgs : home' = [home EXCEPT ![made.projects + 1] = o]
    BY <1>4
  <2>4. home' \in [Projects -> {0} \cup orgs]
    BY <1>1, <2>3
  <2>5. \A p \in Projects : home'[p] = IF p = made.projects + 1 THEN o ELSE home[p]
    BY <1>1, <2>3
  <2>6. Evolves
    BY <1>1, <1>4, <2>1, <2>5 DEF Evolves
  <2> QED BY <1>1, <1>2, <1>4, <2>2, <2>4, <2>6 DEF ServerType
<1>5. CASE /\ \E p \in Projects : home' = [home EXCEPT ![p] = 0]
           /\ orgs' = orgs /\ made' = made
  <2>1. home' \in [Projects -> {0} \cup orgs] /\ \A p \in Projects : home'[p] \in {0, home[p]}
    BY <1>1, <1>5
  <2> QED BY <1>1, <1>2, <1>5, <2>1 DEF Evolves, ServerType
<1>6. CASE /\ \E o \in orgs : orgs' = orgs \ {o} /\ home' = Without(o)
           /\ made' = made
  <2>1. PICK o \in orgs : orgs' = orgs \ {o} /\ home' = Without(o)
    BY <1>6
  <2>2. home' \in [Projects -> {0} \cup orgs'] /\ \A p \in Projects : home'[p] \in {0, home[p]}
    BY <2>1, Cascade
  <2> QED BY <1>1, <1>2, <1>6, <2>1, <2>2 DEF Evolves, ServerType
<1> QED BY <1>3, <1>4, <1>5, <1>6

LEMMA ExecuteEvolves ==
  ASSUME ServerType, ListsFit, NEW m, Execute(m), m.op = "deleteProject" => m.project \in Projects
  PROVE  Evolves /\ ServerType'
  BY Makes DEF Execute

LEMMA ElsewhereEvolves ==
  ASSUME ServerType, ListsFit, Elsewhere
  PROVE  Evolves /\ ServerType'
<1>1. changes < MaxChanges /\ changes' = changes + 1
  BY DEF Elsewhere
<1>2. CASE /\ made.projects < MaxProjects
           /\ made' = [orgs |-> made.orgs, projects |-> made.projects + 1]
           /\ \E o \in orgs : home' = [home EXCEPT ![made'.projects] = o]
           /\ UNCHANGED orgs
  <2>1. made'.projects = made.projects + 1
    BY <1>2
  <2> QED BY <1>1, <1>2, <2>1, Makes
<1>3. CASE /\ made.orgs < MaxOrgs /\ made' = [orgs |-> made.orgs + 1, projects |-> made.projects]
           /\ orgs' = orgs \cup {made'.orgs} /\ UNCHANGED home
  <2>1. made'.orgs = made.orgs + 1
    BY <1>3
  <2> QED BY <1>1, <1>3, <2>1, Makes
<1>4. CASE /\ \E p \in Projects : home[p] # 0 /\ home' = [home EXCEPT ![p] = 0]
           /\ UNCHANGED <<orgs, made>>
  BY <1>1, <1>4, Makes
<1>5. CASE (\E o \in orgs : orgs' = orgs \ {o} /\ home' = Without(o)) /\ UNCHANGED made
  BY <1>1, <1>5, Makes
<1> QED BY <1>2, <1>3, <1>4, <1>5 DEF Elsewhere

LEMMA FitsKept ==
  ASSUME ServerType, ServerType', Evolves, NEW o, NEW p, Fits(o, p)
  PROVE  Fits(o, p)'
<1>1. o \in Orgs /\ p \in Projects /\ p <= made.projects /\ home[p] \in {0, o}
  BY DEF Fits
<1>2. made.projects \in Nat /\ made'.projects \in Nat /\ made.projects <= made'.projects /\ p \in Nat
  BY <1>1, Constants DEF Evolves, ServerType
<1>3. home'[p] \in {0, home[p]}
  BY <1>1 DEF Evolves
<1> QED BY <1>1, <1>2, <1>3 DEF Fits

-----------------------------------------------------------------------------
(* What this tab made shows, what it deleted does not.                     *)

\* Reads are asked for, aborted or delivered.
Moves(q) ==
    /\ read'[q] \in {None, Asked, read[q]}
    /\ \/ cache'[q] \in {None, cache[q]}
       \/ cache'[q] = read[q] /\ read[q] \notin {None, Asked}

\* A read that the mutation of x waits for stays on its way, or is delivered.
Awaited(q, x) ==
    Pending(q, x) =>
        \/ Pending(q, x)' \/ cache'[q] = None
        \/ cache'[q] = read[q] /\ read[q] \notin {None, Asked}

LEMMA ShowsKept ==
  ASSUME NEW q, NEW i, NEW x, Moves(q), Awaited(q, x)
  PROVE  (Shows(q, i, x) => Shows(q, i, x)') /\ (Hides(q, i, x) => Hides(q, i, x)')
  BY DEF Moves, Awaited, Shows, Hides

LEMMA SureType ==
  ASSUME ServerType, SureHolds
  PROVE  \A p \in Projects : Project(p) \in sure => home[p] \in Orgs
  BY DEF ServerType, SureHolds

LEMMA SureKept ==
  ASSUME ServerType, ServerType', ListsFit, Evolves, SureHolds, NEW S,
         sure' = Still(S, orgs', home'),
         \A o \in Orgs : Org(o) \in sure' \ sure => Shows(0, o, Org(o))',
         \A p \in Projects : Project(p) \in sure' \ sure =>
            \A o \in Orgs : home'[p] = o => Shows(o, p, Project(p))',
         \A q \in Queries : Moves(q),
         \A q \in Queries : \A x \in sure' \cap sure : Awaited(q, x)
  PROVE  SureHolds'
<1>1. ASSUME NEW o \in Orgs, Org(o) \in sure' PROVE o \in orgs' /\ Shows(0, o, Org(o))'
  <2>1. CASE Org(o) \in sure
    <3>1. Shows(0, o, Org(o))
      BY <2>1 DEF SureHolds
    <3>2. Moves(0) /\ Awaited(0, Org(o))
      BY <1>1, <2>1, Constants
    <3> QED BY <1>1, <3>1, <3>2, ShowsKept, StillKept
  <2> QED BY <1>1, <2>1, StillKept
<1>2. ASSUME NEW p \in Projects, Project(p) \in sure'
      PROVE  /\ home'[p] # 0 /\ p \in Listed(home'[p], home')
             /\ \A o \in Orgs : home'[p] = o => Shows(o, p, Project(p))'
  <2>1. home'[p] # 0 /\ p \in Listed(home'[p], home')
    BY <1>2, StillKept
  <2>2. ASSUME NEW o \in Orgs, home'[p] = o, Project(p) \in sure PROVE Shows(o, p, Project(p))'
    <3>1. home[p] # 0 /\ \A r \in Orgs : home[p] = r => Shows(r, p, Project(p))
      BY <2>2 DEF SureHolds
    <3>2. home'[p] = home[p]
      BY <2>1, <3>1 DEF Evolves, ListsFit
    <3>3. Moves(o) /\ Awaited(o, Project(p)) /\ Shows(o, p, Project(p))
      BY <1>2, <2>2, <3>1, <3>2, Constants
    <3> QED BY <3>3, ShowsKept
  <2> QED BY <1>2, <2>1, <2>2
<1> QED BY <1>1, <1>2 DEF SureHolds

\* Nothing becomes sure, and the server is as it was.
LEMMA SureStays ==
  ASSUME ServerType, ListsFit, UNCHANGED server, SureHolds, sure' \subseteq sure,
         \A q \in Queries : Moves(q),
         \A q \in Queries : \A x \in sure' : Awaited(q, x)
  PROVE  SureHolds'
<1>1. orgs' = orgs /\ home' = home
  BY DEF server
<1>2. ASSUME NEW o \in Orgs, Org(o) \in sure' PROVE o \in orgs' /\ Shows(0, o, Org(o))'
  <2>1. Shows(0, o, Org(o)) /\ o \in orgs
    BY <1>2 DEF SureHolds
  <2>2. Moves(0) /\ Awaited(0, Org(o))
    BY <1>2, Constants
  <2> QED BY <1>1, <2>1, <2>2, ShowsKept
<1>3. ASSUME NEW p \in Projects, Project(p) \in sure'
      PROVE  /\ home'[p] # 0 /\ p \in Listed(home'[p], home')
             /\ \A o \in Orgs : home'[p] = o => Shows(o, p, Project(p))'
  <2>1. /\ home[p] # 0 /\ p \in Listed(home[p], home)
        /\ \A o \in Orgs : home[p] = o => Shows(o, p, Project(p))
    BY <1>3 DEF SureHolds
  <2>2. ASSUME NEW o \in Orgs, home'[p] = o PROVE Shows(o, p, Project(p))'
    <3>1. Moves(o) /\ Awaited(o, Project(p)) /\ Shows(o, p, Project(p))
      BY <1>1, <1>3, <2>1, <2>2, Constants
    <3> QED BY <3>1, ShowsKept
  <2> QED BY <1>1, <2>1, <2>2
<1> QED BY <1>2, <1>3 DEF SureHolds

LEMMA GoneKept ==
  ASSUME ServerType, ServerType', Evolves, GoneHolds,
         \A o \in Orgs : Org(o) \in gone' \ gone =>
            o \notin orgs' /\ o <= made'.orgs /\ Hides(0, o, Org(o))',
         \A p \in Projects : Project(p) \in gone' \ gone =>
            home'[p] = 0 /\ p <= made'.projects /\ \A o \in Orgs : Hides(o, p, Project(p))',
         \A q \in Queries : Moves(q),
         \A q \in Queries : \A x \in gone' \cap gone : Awaited(q, x)
  PROVE  GoneHolds'
<1>1. ASSUME NEW o \in Orgs, Org(o) \in gone', Org(o) \in gone
      PROVE  o \notin orgs' /\ o <= made'.orgs /\ Hides(0, o, Org(o))'
  <2>1. o \notin orgs /\ o <= made.orgs /\ Hides(0, o, Org(o))
    BY <1>1 DEF GoneHolds
  <2>2. Moves(0) /\ Awaited(0, Org(o))
    BY <1>1, Constants
  <2>3. made.orgs \in Nat /\ made'.orgs \in Nat /\ o \in Nat
    BY Constants DEF ServerType
  <2>4. o \notin orgs' /\ o <= made'.orgs
    BY <2>1, <2>3 DEF Evolves
  <2> QED BY <2>1, <2>2, <2>4, ShowsKept
<1>2. ASSUME NEW p \in Projects, Project(p) \in gone', Project(p) \in gone
      PROVE  home'[p] = 0 /\ p <= made'.projects /\ \A o \in Orgs : Hides(o, p, Project(p))'
  <2>1. home[p] = 0 /\ p <= made.projects /\ \A o \in Orgs : Hides(o, p, Project(p))
    BY <1>2 DEF GoneHolds
  <2>2. made.projects \in Nat /\ made'.projects \in Nat /\ p \in Nat
    BY Constants DEF ServerType
  <2>3. home'[p] = 0 /\ p <= made'.projects
    BY <2>1, <2>2 DEF Evolves
  <2>4. ASSUME NEW o \in Orgs PROVE Hides(o, p, Project(p))'
    <3>1. Moves(o) /\ Awaited(o, Project(p)) /\ Hides(o, p, Project(p))
      BY <1>2, <2>1, Constants
    <3> QED BY <3>1, ShowsKept
  <2> QED BY <2>3, <2>4
<1> QED BY <1>1, <1>2 DEF GoneHolds

\* Lists that move stay lists of their kind.
LEMMA ListsFitKept ==
  ASSUME ServerType, ServerType', Evolves, ListsFit, \A q \in Queries : Moves(q)
  PROVE  ListsFit'
<1>1. ASSUME NEW o, NEW p, Fits(o, p)
      PROVE  o \in Orgs /\ p \in Projects /\ p <= made'.projects /\ home'[p] \in {0, o}
  BY <1>1, FitsKept DEF Fits
<1>2. ASSUME NEW q \in Queries, NEW L, Fitting(q, L) PROVE Fitting(q, L)'
  BY <1>1, <1>2 DEF Fitting, Fits
<1>3. ASSUME NEW q \in Queries, NEW L, L = cache'[q], L # None PROVE Fitting(q, L)'
  <2>1. Moves(q)
    OBVIOUS
  <2>2. cache'[q] = cache[q] \/ (cache'[q] = read[q] /\ read[q] \notin {None, Asked})
    BY <1>3, <2>1 DEF Moves
  <2> QED BY <1>2, <1>3, <2>2 DEF ListsFit
<1>4. ASSUME NEW q \in Queries, NEW L, L = read'[q], L \notin {None, Asked} PROVE Fitting(q, L)'
  <2>1. read'[q] = read[q]
    BY <1>4 DEF Moves
  <2> QED BY <1>2, <1>4, <2>1 DEF ListsFit
<1>5. orgs' \subseteq 1..made'.orgs /\ \A p \in Projects : home'[p] # 0 => p <= made'.projects
  BY DEF Evolves
<1> QED BY <1>3, <1>4, <1>5 DEF ListsFit

-----------------------------------------------------------------------------
(* Pages and mutations.                                                    *)

ListTypes ==
    /\ cache \in [Queries -> Lists \cup {None}] /\ details \subseteq Orgs
    /\ read \in [Queries -> Lists \cup {None, Asked}]
PageType == page \in Pages /\ (page.at \in {"org", "project"} => page.org # 0)
GoingType == going \in {None} \cup [to : Targets, guard : {"session", "orgs", "org", "project"}]
SavingType == saving \in {None} \cup Mutations
WizardType ==
    wizard \in [step : {"org", "project", "import"}, org : {0} \cup Orgs, project : {0} \cup Projects]
ItemTypes == sure \cup gone \subseteq ({"org"} \X Orgs) \cup ({"project"} \X Projects)

LEMMA TypeParts ==
    TypeOK <=>
      ServerType /\ ListTypes /\ PageType /\ GoingType /\ SavingType /\ WizardType /\ ItemTypes
  BY DEF TypeOK, ServerType, ListTypes, PageType, GoingType, SavingType, WizardType, ItemTypes

\* The mutation goes on; the component that began it may be gone.
Carries ==
    \/ saving = None /\ saving' = None
    \/ /\ saving # None /\ saving' # None /\ saving' \in Mutations
       /\ saving'.op = saving.op /\ saving'.org = saving.org /\ saving'.project = saving.project
       /\ saving'.stage = saving.stage /\ saving'.lists = saving.lists /\ saving'.typed = saving.typed
       /\ saving'.by \in {saving.by, "gone"}

LEMMA MutationType ==
  ASSUME NEW op \in {"createOrg", "createProject", "deleteProject", "deleteOrg"},
         NEW o \in {0} \cup Orgs, NEW p \in {0} \cup Projects,
         NEW by \in {"sidebar", "onboarding", "org", "project", "gone"},
         NEW stage \in {"sent", "rereading"}, NEW lists \in SUBSET Queries,
         NEW typed \in {0} \cup Orgs \cup Projects
  PROVE  Mutation(op, o, p, by, stage, lists, typed) \in Mutations \ {None}
<1>1. Mutation(op, o, p, by, stage, lists, typed) \in Mutations
  BY DEF Mutation, Mutations
<1> QED BY <1>1, NoneAssumption

LEMMA LeftCarries ==
  ASSUME SavingType, NEW pg, saving' = Left(pg)
  PROVE  /\ Carries
         /\ saving' # None /\ saving'.by = "onboarding" => saving.by = "onboarding" /\ pg.at = "onboarding"
<1>1. CASE saving = None
  BY <1>1 DEF Left, Carries
<1>2. CASE saving # None
  <2>1. saving \in Mutations
    BY <1>2 DEF SavingType
  <2>2. CASE saving.by \in {"sidebar", pg.at}
    <3>1. saving' = saving
      BY <2>2 DEF Left
    <3> QED BY <1>2, <2>1, <2>2, <3>1 DEF Carries
  <2>3. CASE saving.by \notin {"sidebar", pg.at}
    <3> DEFINE m == Mutation(saving.op, saving.org, saving.project, "gone", saving.stage, saving.lists,
                             saving.typed)
    <3>1. saving' = m
      BY <1>2, <2>3 DEF Left
    <3>2. m \in Mutations \ {None}
      <4>1. /\ saving.op \in {"createOrg", "createProject", "deleteProject", "deleteOrg"}
            /\ saving.org \in {0} \cup Orgs /\ saving.project \in {0} \cup Projects
            /\ saving.stage \in {"sent", "rereading"} /\ saving.lists \in SUBSET Queries
            /\ saving.typed \in {0} \cup Orgs \cup Projects
        BY <2>1 DEF Mutations
      <4>2. m \in Mutations
        BY <4>1 DEF Mutation, Mutations
      <4> QED BY <4>2, NoneAssumption
    <3>3. /\ m.op = saving.op /\ m.org = saving.org /\ m.project = saving.project /\ m.by = "gone"
          /\ m.stage = saving.stage /\ m.lists = saving.lists /\ m.typed = saving.typed
      BY DEF Mutation
    <3> HIDE DEF m
    <3> QED BY <1>2, <3>1, <3>2, <3>3 DEF Carries
  <2> QED BY <2>2, <2>3
<1> QED BY <1>1, <1>2

LEMMA CarriesSame ==
  ASSUME Carries
  PROVE  /\ \A q : Awaits(q)' <=> Awaits(q)
         /\ saving # None => Item(saving') = Item(saving)
  BY DEF Carries, Awaits, Item, Org, Project

LEMMA SavingFitsKept ==
  ASSUME ServerType, ServerType', Evolves, Carries, SavingFits,
         saving' # None /\ saving'.by = "onboarding" => page'.at = "onboarding" /\ UNCHANGED wizard
  PROVE  SavingFits'
<1>1. ASSUME NEW o, NEW p, Fits(o, p)
      PROVE  o \in Orgs /\ p \in Projects /\ p <= made'.projects /\ home'[p] \in {0, o}
  BY <1>1, FitsKept DEF Fits
<1>2. CASE saving' = None
  BY <1>2 DEF SavingFits
<1>3. CASE saving' # None
  <2>1. /\ saving # None
        /\ saving'.op = saving.op /\ saving'.org = saving.org /\ saving'.project = saving.project
        /\ saving'.stage = saving.stage /\ saving'.typed = saving.typed
        /\ saving'.by \in {saving.by, "gone"}
    BY <1>3 DEF Carries
  <2>2. saving'.by = "onboarding" => saving.by = "onboarding"
    BY <2>1
  <2>3. saving.op = "createProject" /\ saving.stage = "rereading" => Fits(saving.org, saving.project)'
    <3>1. Fits(saving.org, saving.project) => Fits(saving.org, saving.project)'
      BY <1>1, <2>1 DEF Fits
    <3> QED BY <2>1, <3>1 DEF SavingFits
  <2>4. saving.op = "deleteProject" => Fits(saving.org, saving.project)'
    <3>1. Fits(saving.org, saving.project) => Fits(saving.org, saving.project)'
      BY <1>1, <2>1 DEF Fits
    <3> QED BY <2>1, <3>1 DEF SavingFits
  <2> QED BY <1>3, <2>1, <2>2, <2>3, <2>4 DEF SavingFits
<1> QED BY <1>2, <1>3

LEMMA PlaceFitsKept ==
  ASSUME ServerType, ServerType', Evolves, NEW at, NEW o, NEW p, PlaceFits(at, o, p)
  PROVE  PlaceFits(at, o, p)'
  BY FitsKept DEF PlaceFits

-----------------------------------------------------------------------------
(* Showing a page.                                                         *)

\* The lists c and r are what the cache and the reads are after a delivery, at most.
Delivers(c, r) ==
    \A q \in Queries :
       /\ r[q] \in {None, read[q]}
       /\ \/ c[q] \in {None, cache[q]} /\ r[q] = read[q]
          \/ c[q] = read[q] /\ read[q] \notin {None, Asked}

LEMMA ShowMoves ==
  ASSUME SavingType, NEW pg, NEW c, NEW r, Show(pg, c, r), Delivers(c, r)
  PROVE  /\ sure' \subseteq sure /\ gone' \subseteq gone /\ Carries
         /\ \A q \in Queries : Moves(q)
         /\ \A q \in Queries : \A x \in sure' \cup gone' : Awaited(q, x)
<1> DEFINE lost == {q \in Observed(page, cache) \ Observed(pg, c) : r[q] # None}
<1>1. /\ cache' = c /\ saving' = Left(pg)
      /\ read' = [q \in Queries |-> IF q \in lost THEN None ELSE r[q]]
      /\ sure' = sure \ Excused(lost) /\ gone' = gone \ Excused(lost)
  BY DEF Show
<1> HIDE DEF lost
<1>2. Carries
  BY <1>1, LeftCarries
<1>3. \A q \in Queries : read'[q] = IF q \in lost THEN None ELSE r[q]
  BY <1>1
<1>4. ASSUME NEW q \in Queries PROVE Moves(q)
  BY <1>1, <1>3 DEF Moves, Delivers
<1>5. ASSUME NEW q \in Queries, NEW x \in sure' \cup gone', Pending(q, x),
             ~(cache'[q] = read[q] /\ read[q] \notin {None, Asked})
      PROVE  Pending(q, x)'
  <2>1. Awaits(q) /\ read[q] # None /\ Item(saving) = x /\ saving # None
    BY <1>5 DEF Pending, Awaits
  <2>2. q \notin lost
    <3>1. SUFFICES ASSUME q \in lost PROVE FALSE
      OBVIOUS
    <3>2. x \in Excused(lost)
      BY <2>1, <3>1 DEF Excused
    <3> QED BY <1>1, <3>2
  <2>3. read'[q] = read[q]
    BY <1>1, <1>3, <1>5, <2>2 DEF Delivers
  <2>4. Awaits(q)' /\ Item(saving') = Item(saving)
    BY <1>2, <2>1, CarriesSame
  <2> QED BY <2>1, <2>3, <2>4 DEF Pending
<1> QED BY <1>1, <1>2, <1>4, <1>5 DEF Awaited

\* What a page that is put on show leaves in order.
LEMMA ShowHolds ==
  ASSUME IInv, UNCHANGED server, NEW pg \in Pages, NEW c, NEW r, Show(pg, c, r), Delivers(c, r),
         c \in [Queries -> Lists \cup {None}], r \in [Queries -> Lists \cup {None, Asked}],
         details' \subseteq Orgs, pg.at = "org" => pg.org \in details',
         PlaceFits(pg.at, pg.org, pg.project)
  PROVE  /\ ServerType' /\ ListTypes' /\ PageType' /\ SavingType' /\ WizardType' /\ ItemTypes'
         /\ ListsFit' /\ PageFits' /\ SavingFits' /\ WizardFits' /\ SureHolds' /\ GoneHolds'
<1>1. /\ ServerType /\ ListTypes /\ PageType /\ SavingType /\ WizardType /\ ItemTypes
      /\ ListsFit /\ PageFits /\ SavingFits /\ WizardFits /\ SureHolds /\ GoneHolds
  BY TypeParts DEF IInv, Fit
<1>2. Evolves /\ ServerType'
  BY <1>1, ServerStill
<1>3. /\ page' = pg /\ cache' = c /\ saving' = Left(pg)
      /\ wizard' = IF pg.at = page.at THEN wizard ELSE FirstStep
      /\ \E Q : read' = [q \in Queries |-> IF q \in Q THEN None ELSE r[q]]
  BY DEF Show
<1>4. /\ sure' \subseteq sure /\ gone' \subseteq gone /\ Carries
      /\ \A q \in Queries : Moves(q)
      /\ \A q \in Queries : \A x \in sure' \cup gone' : Awaited(q, x)
  BY <1>1, ShowMoves
<1>5. ListTypes'
  BY <1>3 DEF ListTypes
<1>6. PageType'
  BY <1>3, Constants DEF PageType, PlaceFits, Fits
<1>7. SavingType'
  BY <1>4 DEF Carries, SavingType
<1>8. WizardType' /\ WizardFits'
  <2>1. CASE wizard' = wizard
    <3>1. Fits(wizard.org, wizard.project) => Fits(wizard.org, wizard.project)'
      BY <1>1, <1>2, <2>1 DEF Fits, server
    <3> QED BY <1>1, <2>1, <3>1 DEF WizardType, WizardFits
  <2>2. CASE wizard' = FirstStep
    BY <2>2 DEF WizardType, WizardFits, FirstStep
  <2> QED BY <1>3, <2>1, <2>2
<1>9. ItemTypes'
  BY <1>1, <1>4 DEF ItemTypes
<1>10. PageFits'
  BY <1>3 DEF PageFits, PlaceFits, Fits, server
<1>11. SavingFits'
  <2>1. saving' # None /\ saving'.by = "onboarding" => saving.by = "onboarding" /\ pg.at = "onboarding"
    BY <1>1, <1>3, LeftCarries
  <2>2. saving' # None /\ saving'.by = "onboarding" => page'.at = "onboarding" /\ UNCHANGED wizard
    BY <1>1, <1>3, <1>4, <2>1 DEF SavingFits, Carries
  <2> QED BY <1>1, <1>2, <1>4, <2>2, SavingFitsKept
<1>12. SureHolds'
  BY <1>1, <1>4, SureStays
<1>13. GoneHolds'
  BY <1>1, <1>2, <1>4, GoneKept
<1>14. ListsFit'
  BY <1>1, <1>2, <1>4, ListsFitKept
<1> QED
  BY <1>2, <1>5, <1>6, <1>7, <1>8, <1>9, <1>10, <1>11, <1>12, <1>13, <1>14

-----------------------------------------------------------------------------
(* Reads and navigations.                                                  *)

\* Only reads change.
LEMMA ReadsHold ==
  ASSUME IInv, UNCHANGED <<server, cache, details, page, going, saving, wizard, sure, gone>>,
         read' \in [Queries -> Lists \cup {None, Asked}],
         \A q \in Queries : read'[q] \in {None, Asked, read[q]},
         \A q \in Queries : Awaits(q) /\ read[q] # None => read'[q] # None
  PROVE  IInv'
<1>1. /\ ServerType /\ ListTypes /\ PageType /\ GoingType /\ SavingType /\ WizardType /\ ItemTypes
      /\ ListsFit /\ PageFits /\ GoingFits /\ SavingFits /\ WizardFits /\ SureHolds /\ GoneHolds
  BY TypeParts DEF IInv, Fit
<1>2. UNCHANGED server /\ cache' = cache /\ saving' = saving /\ sure' = sure /\ gone' = gone
  OBVIOUS
<1>3. Evolves /\ ServerType'
  BY <1>1, <1>2, ServerStill
<1>4. \A q \in Queries : Moves(q)
  BY <1>2 DEF Moves
<1>5. \A q \in Queries : \A x : Awaited(q, x)
  BY <1>2 DEF Awaited, Pending, Awaits, Item, Org, Project
<1>6. ListsFit' /\ SureHolds' /\ GoneHolds'
  BY <1>1, <1>2, <1>3, <1>4, <1>5, ListsFitKept, SureStays, GoneKept
<1>7. ListTypes' /\ PageType' /\ GoingType' /\ SavingType' /\ WizardType' /\ ItemTypes'
  BY <1>1 DEF ListTypes, PageType, GoingType, SavingType, WizardType, ItemTypes
<1>8. PageFits' /\ GoingFits' /\ SavingFits' /\ WizardFits'
  BY <1>1 DEF PageFits, GoingFits, SavingFits, WizardFits, PlaceFits, Fits, server
<1>9. TypeOK'
  BY <1>3, <1>7, TypeParts, PTL
<1> QED BY <1>6, <1>8, <1>9 DEF IInv, Fit

\* Only the navigation changes, or the details that are there.
LEMMA GoingHolds ==
  ASSUME IInv, UNCHANGED <<server, cache, read, page, saving, wizard, sure, gone>>,
         details \subseteq details', details' \subseteq Orgs, GoingType', GoingFits'
  PROVE  IInv'
<1>1. /\ ServerType /\ ListTypes /\ PageType /\ SavingType /\ WizardType /\ ItemTypes
      /\ ListsFit /\ PageFits /\ SavingFits /\ WizardFits /\ SureHolds /\ GoneHolds
  BY TypeParts DEF IInv, Fit
<1>2. /\ UNCHANGED server /\ cache' = cache /\ read' = read /\ saving' = saving /\ sure' = sure
      /\ gone' = gone
  OBVIOUS
<1>3. Evolves /\ ServerType'
  BY <1>1, <1>2, ServerStill
<1>4. \A q \in Queries : Moves(q)
  BY <1>2 DEF Moves
<1>5. \A q \in Queries : \A x : Awaited(q, x)
  BY <1>2 DEF Awaited, Pending, Awaits, Item, Org, Project
<1>6. ListsFit' /\ SureHolds' /\ GoneHolds'
  BY <1>1, <1>2, <1>3, <1>4, <1>5, ListsFitKept, SureStays, GoneKept
<1>7. ListTypes' /\ PageType' /\ SavingType' /\ WizardType' /\ ItemTypes'
  BY <1>1 DEF ListTypes, PageType, SavingType, WizardType, ItemTypes
<1>8. PageFits' /\ SavingFits' /\ WizardFits'
  BY <1>1 DEF PageFits, SavingFits, WizardFits, PlaceFits, Fits, server
<1>9. TypeOK'
  BY <1>3, <1>7, TypeParts, PTL
<1> QED BY <1>6, <1>8, <1>9 DEF IInv, Fit

LEMMA ToFields ==
  ASSUME NEW at, NEW o, NEW p
  PROVE  To(at, o, p).at = at /\ To(at, o, p).org = o /\ To(at, o, p).project = p
  BY DEF To

LEMMA StartHolds ==
  ASSUME IInv, UNCHANGED <<server, cache, details, read, page, saving, wizard, sure, gone>>,
         NEW to \in Targets, PlaceFits(to.at, to.org, to.project), Start(to)
  PROVE  IInv'
<1>1. going' = [to |-> to, guard |-> "session"] /\ details \subseteq Orgs
  BY TypeParts DEF Start, IInv, ListTypes
<1>2. GoingType'
  BY <1>1 DEF GoingType
<1>3. going'.to = to /\ going'.guard = "session"
  BY <1>1
<1>4. GoingFits'
  BY <1>3 DEF GoingFits, PlaceFits, Fits, server
<1>5. details \subseteq details' /\ details' \subseteq Orgs
  BY <1>1
<1> QED BY <1>2, <1>4, <1>5, GoingHolds

LEMMA RefreshHolds ==
  ASSUME IInv, NEW q \in Queries, Refresh(q)
  PROVE  IInv'
<1>1. read' = [read EXCEPT ![q] = Asked] /\ read \in [Queries -> Lists \cup {None, Asked}]
  BY TypeParts DEF Refresh, IInv, ListTypes
<1>2. \A r \in Queries : read'[r] \in {Asked, read[r]}
  BY <1>1
<1>3. read' \in [Queries -> Lists \cup {None, Asked}]
  BY <1>1
<1>4. UNCHANGED <<server, cache, details, page, going, saving, wizard, sure, gone>>
  BY DEF Refresh
<1> QED BY <1>2, <1>3, <1>4, NoneAssumption, ReadsHold

LEMMA EnsureHolds ==
  ASSUME IInv, NEW q \in Queries, Ensure(q)
  PROVE  IInv'
<1>1. read' = [read EXCEPT ![q] = Asked] /\ read \in [Queries -> Lists \cup {None, Asked}]
  BY TypeParts DEF Ensure, IInv, ListTypes
<1>2. \A r \in Queries : read'[r] \in {Asked, read[r]}
  BY <1>1
<1>3. read' \in [Queries -> Lists \cup {None, Asked}]
  BY <1>1
<1>4. UNCHANGED <<server, cache, details, page, going, saving, wizard, sure, gone>>
  BY DEF Ensure
<1> QED BY <1>2, <1>3, <1>4, NoneAssumption, ReadsHold

LEMMA StillHolds ==
  ASSUME IInv, UNCHANGED vars
  PROVE  IInv'
<1>1. UNCHANGED <<server, cache, details, page, going, saving, wizard, sure, gone>> /\ read' = read
  BY DEF vars, tab
<1>2. read \in [Queries -> Lists \cup {None, Asked}]
  BY TypeParts DEF IInv, ListTypes
<1> QED BY <1>1, <1>2, ReadsHold

\* The least of some organizations is one of them.
LEMMA LeastOrg ==
  ASSUME NEW S, S \subseteq Orgs, S # {}
  PROVE  Min(S) \in S
<1> DEFINE T == {{y \in S : y < x} : x \in S}
<1>1. IsFiniteSet(Orgs) /\ S \subseteq Nat
  BY Constants, FS_Interval DEF Orgs
<1>2. T # {} /\ \A x \in S : {y \in S : y < x} \in SUBSET Orgs /\ IsFiniteSet({y \in S : y < x})
  <2>1. ASSUME NEW x \in S PROVE {y \in S : y < x} \subseteq Orgs /\ IsFiniteSet({y \in S : y < x})
    <3>1. {y \in S : y < x} \subseteq Orgs
      OBVIOUS
    <3> QED BY <1>1, <3>1, FS_Subset
  <2> QED BY <2>1
<1>3. T \subseteq FiniteSubsetsOf(Orgs)
  BY <1>2 DEF FiniteSubsetsOf
<1>4. PICK B \in T : \A D \in T : <<D, B>> \notin StrictSubsetOrdering(Orgs)
  BY <1>2, <1>3, <1>1, FS_StrictSubsetOrderingWellFounded, WFMin
<1>5. PICK x \in S : B = {y \in S : y < x}
  OBVIOUS
<1>6. ASSUME NEW y \in S, y < x PROVE FALSE
  <2>1. {z \in S : z < y} \subseteq B /\ y \in B /\ y \notin {z \in S : z < y}
    <3>1. x \in Nat /\ y \in Nat /\ ~(y < y)
      BY <1>1
    <3>2. ASSUME NEW z \in S, z < y PROVE z < x
      BY <1>1, <1>6, <3>1, <3>2
    <3> QED BY <1>5, <1>6, <3>1, <3>2
  <2>2. {z \in S : z < y} \in T
    OBVIOUS
  <2>3. <<{z \in S : z < y}, B>> \in StrictSubsetOrdering(Orgs)
    BY <1>2, <1>5, <2>1 DEF StrictSubsetOrdering
  <2> QED BY <1>4, <2>2, <2>3
<1>7. \A y \in S : x <= y
  BY <1>1, <1>6
<1> QED BY <1>7 DEF Min

LEMMA ActiveType ==
  ASSUME ListsFit
  PROVE  /\ Active(page, cache) \in {0} \cup Orgs
         /\ cache[0] \notin {None, {}} => Min(cache[0]) \in cache[0] /\ cache[0] \subseteq Orgs
<1>1. cache[0] # None => cache[0] \subseteq Orgs
  BY Constants DEF ListsFit, Fitting
<1>2. cache[0] \notin {None, {}} => Min(cache[0]) \in cache[0]
  BY <1>1, LeastOrg
<1> QED BY <1>1, <1>2 DEF Active

LEMMA LinksFit ==
  ASSUME ServerType, ListsFit, PageType, NEW to \in Links
  PROVE  to \in Targets /\ PlaceFits(to.at, to.org, to.project)
<1>1. ASSUME NEW o \in Orgs PROVE To("org", o, 0) \in Targets /\ PlaceFits("org", o, 0)
  BY DEF To, Targets, PlaceFits
<1>2. ASSUME NEW o, NEW p, Fits(o, p) PROVE To("project", o, p) \in Targets /\ PlaceFits("project", o, p)
  BY <1>2 DEF To, Targets, PlaceFits, Fits
<1>3. CASE to \in Switcher
  <2>1. To("onboarding", 0, 0) \in Targets /\ PlaceFits("onboarding", 0, 0)
    BY DEF To, Targets, PlaceFits
  <2>2. to = To("onboarding", 0, 0) \/ \E o \in Orgs : to = To("org", o, 0)
    BY <1>3, Constants DEF Switcher, ListsFit, Fitting
  <2> QED BY <1>1, <2>1, <2>2, ToFields
<1>4. ASSUME NEW o, to \in ProjectItems(o) PROVE \E p : to = To("project", o, p) /\ Fits(o, p)
  <2>1. o \in Orgs /\ cache[o] # None /\ \E p \in cache[o] : to = To("project", o, p)
    BY <1>4 DEF ProjectItems
  <2>2. \A p \in cache[o] : Fits(o, p)
    BY <2>1, Constants DEF ListsFit, Fitting
  <2> QED BY <2>1, <2>2
<1>5. ASSUME page.at = "org", to \in ProjectsTable(page.org)
      PROVE  \E p : to = To("project", page.org, p) /\ Fits(page.org, p)
  <2>1. page.org \in Orgs
    BY <1>5, Constants DEF PageType, Pages
  <2>2. PICK p \in Projects : home[p] = page.org /\ to = To("project", page.org, p)
    BY <1>5 DEF ProjectsTable
  <2> QED BY <2>1, <2>2, Constants DEF Fits, ListsFit
<1>6. \/ to \in Switcher \/ \E o : to \in ProjectItems(o)
      \/ page.at = "org" /\ to \in ProjectsTable(page.org)
  BY DEF Links
<1>7. CASE \E o, p : to = To("project", o, p) /\ Fits(o, p)
  BY <1>2, <1>7, ToFields
<1> QED BY <1>3, <1>4, <1>5, <1>6, <1>7

LEMMA VisitHolds == IInv /\ Visit => IInv'
<1> SUFFICES ASSUME IInv, Visit PROVE IInv'
  OBVIOUS
<1>1. PICK to \in Links : Start(to)
  BY DEF Visit
<1>2. UNCHANGED <<server, cache, details, read, page, saving, wizard, sure, gone>>
  BY DEF Visit
<1>3. to \in Targets /\ PlaceFits(to.at, to.org, to.project)
  BY TypeParts, LinksFit DEF IInv
<1> QED BY <1>1, <1>2, <1>3, StartHolds

LEMMA WizardEndsHolds == IInv /\ WizardEnds => IInv'
<1> SUFFICES ASSUME IInv, WizardEnds PROVE IInv'
  OBVIOUS
<1> DEFINE to == To("project", wizard.org, wizard.project)
<1>1. Start(to) /\ UNCHANGED <<server, cache, details, read, page, saving, wizard, sure, gone>>
  BY DEF WizardEnds
<1>2. Fits(wizard.org, wizard.project)
  BY DEF WizardEnds, Wizard, IInv, Fit, WizardFits
<1>3. to \in Targets /\ PlaceFits(to.at, to.org, to.project)
  BY <1>2 DEF To, Targets, PlaceFits, Fits
<1> QED BY <1>1, <1>3, StartHolds

LEMMA DeliverHolds ==
  ASSUME IInv, NEW q \in Queries, Deliver(q)
  PROVE  IInv'
<1> DEFINE c == [cache EXCEPT ![q] = read[q]]
           r == [read EXCEPT ![q] = None]
<1>1. /\ read[q] \notin {None, Asked} /\ Show(page, c, r)
      /\ UNCHANGED server /\ details' = details /\ going' = going
  BY DEF Deliver
<1>2. ListTypes /\ PageType /\ GoingType /\ PageFits /\ GoingFits
  BY TypeParts DEF IInv, Fit
<1>3. c \in [Queries -> Lists \cup {None}] /\ r \in [Queries -> Lists \cup {None, Asked}]
  BY <1>1, <1>2 DEF ListTypes
<1>4. Delivers(c, r)
  BY <1>1, <1>2 DEF Delivers, ListTypes
<1>5. page \in Pages /\ (page.at = "org" => page.org \in details') /\ details' \subseteq Orgs
      /\ PlaceFits(page.at, page.org, page.project)
  BY <1>1, <1>2 DEF PageType, PageFits, ListTypes
<1> HIDE DEF c, r
<1>6. /\ ServerType' /\ ListTypes' /\ PageType' /\ SavingType' /\ WizardType' /\ ItemTypes'
      /\ ListsFit' /\ PageFits' /\ SavingFits' /\ WizardFits' /\ SureHolds' /\ GoneHolds'
  BY <1>1, <1>3, <1>4, <1>5, ShowHolds
<1>7. GoingType' /\ GoingFits'
  BY <1>1, <1>2 DEF GoingType, GoingFits, PlaceFits, Fits, server
<1>8. TypeOK'
  BY <1>6, <1>7, TypeParts, PTL
<1> QED BY <1>6, <1>7, <1>8 DEF IInv, Fit

\* A navigation ends at a page.
LEMMA ArriveHolds ==
  ASSUME IInv, NEW pg \in Pages, Show(pg, cache, read), going' = None, UNCHANGED server,
         details' \subseteq Orgs, pg.at = "org" => pg.org \in details',
         PlaceFits(pg.at, pg.org, pg.project)
  PROVE  IInv'
<1>1. cache \in [Queries -> Lists \cup {None}] /\ read \in [Queries -> Lists \cup {None, Asked}]
  BY TypeParts DEF IInv, ListTypes
<1>2. Delivers(cache, read)
  BY DEF Delivers
<1>3. /\ ServerType' /\ ListTypes' /\ PageType' /\ SavingType' /\ WizardType' /\ ItemTypes'
      /\ ListsFit' /\ PageFits' /\ SavingFits' /\ WizardFits' /\ SureHolds' /\ GoneHolds'
  BY <1>1, <1>2, ShowHolds
<1>4. GoingType' /\ GoingFits'
  BY DEF GoingType, GoingFits
<1>5. TypeOK'
  BY <1>3, <1>4, TypeParts, PTL
<1> QED BY <1>3, <1>4, <1>5 DEF IInv, Fit

\* A list is read.
LEMMA ServeListHolds ==
  ASSUME IInv, NEW q \in Queries, ServeList(q)
  PROVE  IInv'
<1> DEFINE L == IF q = 0 THEN orgs ELSE Listed(q, home)
<1>1. /\ ServerType /\ ListTypes /\ PageType /\ GoingType /\ SavingType /\ WizardType /\ ItemTypes
      /\ ListsFit /\ PageFits /\ GoingFits /\ SavingFits /\ WizardFits /\ SureHolds /\ GoneHolds
  BY TypeParts DEF IInv, Fit
<1>2. /\ read[q] = Asked /\ read' = [read EXCEPT ![q] = L]
      /\ UNCHANGED <<server, cache, details, page, going, saving, wizard, sure, gone>>
  BY DEF ServeList
<1>3. L \in Lists /\ L # None /\ L # Asked /\ Fitting(q, L)
  <2>1. CASE q = 0
    BY <1>1, <2>1, NoneAssumption DEF ServerType, Lists, Fitting
  <2>2. CASE q # 0
    <3>1. L \subseteq {p \in Projects : home[p] = q} /\ q \in Orgs
      BY <2>2, ListedType DEF Queries
    <3>2. \A p \in L : p \in Projects /\ home[p] = q /\ home[p] # 0
      BY <2>2, <3>1
    <3>3. L \in Lists /\ \A p \in L : Fits(q, p)
      BY <1>1, <3>1, <3>2 DEF Lists, Fits, ListsFit
    <3> QED BY <2>2, <3>3, NoneAssumption DEF Fitting
  <2> QED BY <2>1, <2>2
<1>4. \A o : Org(o) \in sure /\ q = 0 => o \in L
  BY <1>1, Constants DEF SureHolds, ItemTypes, Org
<1>5. \A p \in Projects : Project(p) \in sure /\ q # 0 /\ home[p] = q => p \in L
  BY <1>1 DEF SureHolds
<1>6. \A o \in Orgs : Org(o) \in gone /\ q = 0 => o \notin L
  BY <1>1 DEF GoneHolds
<1>7. \A p \in Projects : Project(p) \in gone /\ q # 0 => p \notin L
  BY <1>1, ListedType DEF GoneHolds
<1>8. read' \in [Queries -> Lists \cup {None, Asked}] /\ read'[q] = L
      /\ \A r \in Queries \ {q} : read'[r] = read[r]
  BY <1>1, <1>2, <1>3 DEF ListTypes
<1> HIDE DEF L
<1>9. ASSUME NEW r \in Queries, NEW i, NEW x, r = q => i \in L, Shows(r, i, x) PROVE Shows(r, i, x)'
  BY <1>2, <1>3, <1>8, <1>9 DEF Shows, Pending, Awaits, Item, Org, Project
<1>10. ASSUME NEW r \in Queries, NEW i, NEW x, r = q => i \notin L, Hides(r, i, x)
       PROVE  Hides(r, i, x)'
  BY <1>2, <1>3, <1>8, <1>10 DEF Hides, Pending, Awaits, Item, Org, Project
<1>11. SureHolds'
  <2>1. \A o \in Orgs : Org(o) \in sure => o \in orgs /\ Shows(0, o, Org(o))'
    BY <1>1, <1>4, <1>9, Constants DEF SureHolds
  <2>2. ASSUME NEW p \in Projects, Project(p) \in sure, NEW o \in Orgs, home[p] = o
        PROVE  Shows(o, p, Project(p))'
    BY <1>1, <1>5, <1>9, <2>2, Constants DEF SureHolds
  <2>3. sure' = sure /\ orgs' = orgs /\ home' = home
    BY <1>2 DEF server
  <2> QED BY <1>1, <2>1, <2>2, <2>3 DEF SureHolds
<1>12. GoneHolds'
  <2>1. \A o \in Orgs : Org(o) \in gone => Hides(0, o, Org(o))'
    BY <1>1, <1>6, <1>10, Constants DEF GoneHolds
  <2>2. ASSUME NEW p \in Projects, Project(p) \in gone, NEW o \in Orgs PROVE Hides(o, p, Project(p))'
    BY <1>1, <1>7, <1>10, <2>2, Constants DEF GoneHolds
  <2>3. gone' = gone /\ orgs' = orgs /\ home' = home /\ made' = made
    BY <1>2 DEF server
  <2> QED BY <1>1, <2>1, <2>2, <2>3 DEF GoneHolds
<1>13. ListsFit'
  <2>1. orgs' = orgs /\ home' = home /\ made' = made /\ cache' = cache
    BY <1>2 DEF server
  <2>2. ASSUME NEW r \in Queries, NEW M, Fitting(r, M) PROVE Fitting(r, M)'
    BY <2>1, <2>2 DEF Fitting, Fits
  <2>3. ASSUME NEW r \in Queries, NEW M, M = cache'[r], M # None PROVE Fitting(r, M)'
    BY <1>1, <2>1, <2>2, <2>3 DEF ListsFit
  <2>4. ASSUME NEW r \in Queries, NEW M, M = read'[r], M \notin {None, Asked} PROVE Fitting(r, M)'
    BY <1>1, <1>3, <1>8, <2>2, <2>4 DEF ListsFit
  <2> QED BY <1>1, <2>1, <2>3, <2>4 DEF ListsFit
<1>14. ServerType' /\ ListTypes' /\ PageType' /\ GoingType' /\ SavingType' /\ WizardType' /\ ItemTypes'
  BY <1>1, <1>2, <1>8
     DEF ServerType, ListTypes, PageType, GoingType, SavingType, WizardType, ItemTypes, server
<1>15. PageFits' /\ GoingFits' /\ SavingFits' /\ WizardFits'
  BY <1>1, <1>2 DEF PageFits, GoingFits, SavingFits, WizardFits, PlaceFits, Fits, server
<1>16. TypeOK'
  BY <1>14, TypeParts, PTL
<1> QED BY <1>11, <1>12, <1>13, <1>15, <1>16 DEF IInv, Fit

\* A read fails, and with it the navigation that waits for it.
LEMMA ListFailsHolds ==
  ASSUME IInv, NEW q \in Queries, ListFails(q)
  PROVE  IInv'
<1>1. /\ ServerType /\ ListTypes /\ PageType /\ GoingType /\ SavingType /\ WizardType /\ ItemTypes
      /\ ListsFit /\ PageFits /\ GoingFits /\ SavingFits /\ WizardFits /\ SureHolds /\ GoneHolds
  BY TypeParts DEF IInv, Fit
<1>2. /\ read' = [read EXCEPT ![q] = None]
      /\ sure' = sure \ Excused({q}) /\ gone' = gone \ Excused({q})
      /\ UNCHANGED <<server, cache, details>>
  BY DEF ListFails
<1>3. read' \in [Queries -> Lists \cup {None, Asked}] /\ read'[q] = None
      /\ \A r \in Queries \ {q} : read'[r] = read[r]
  BY <1>1, <1>2 DEF ListTypes
<1>4. Evolves /\ ServerType'
  BY <1>1, <1>2, ServerStill
<1>5. /\ Carries /\ PageType' /\ GoingType' /\ WizardType' /\ PageFits' /\ GoingFits' /\ WizardFits'
      /\ saving' # None /\ saving'.by = "onboarding" => page'.at = "onboarding" /\ UNCHANGED wizard
  <2>1. CASE WaitsFor(q)
    <3> PICK pg : pg = IF q = 0 THEN To("start", 0, 0) ELSE To("failed", q, going.to.project)
      OBVIOUS
    <3>1. page' = pg /\ saving' = Left(pg) /\ wizard' = FirstStep /\ going' = None
      BY <2>1 DEF ListFails
    <3>2. pg \in Pages /\ pg.at \in {"start", "failed"}
      <4>1. going # None /\ going.to.project \in {0} \cup Projects
        BY <1>1, <2>1 DEF WaitsFor, GoingType, Targets
      <4> QED BY <4>1 DEF To, Pages, Queries
    <3>3. Carries /\ (saving' # None => saving'.by # "onboarding")
      BY <1>1, <3>1, <3>2, LeftCarries
    <3>4. PageType' /\ PageFits' /\ GoingType' /\ GoingFits'
      BY <3>1, <3>2 DEF PageType, PageFits, PlaceFits, GoingType, GoingFits
    <3>5. WizardType' /\ WizardFits'
      BY <3>1 DEF WizardType, WizardFits, FirstStep
    <3> QED BY <3>3, <3>4, <3>5
  <2>2. CASE ~WaitsFor(q)
    <3>1. UNCHANGED <<going, page, saving, wizard, details>> /\ UNCHANGED server
      BY <1>2, <2>2 DEF ListFails
    <3>2. Carries
      BY <1>1, <3>1 DEF Carries, SavingType
    <3>3. PageType' /\ GoingType' /\ WizardType'
      BY <1>1, <3>1 DEF PageType, GoingType, WizardType
    <3>4. PageFits' /\ GoingFits' /\ WizardFits'
      BY <1>1, <3>1 DEF PageFits, GoingFits, WizardFits, PlaceFits, Fits, server
    <3> QED BY <1>1, <3>1, <3>2, <3>3, <3>4 DEF SavingFits
  <2> QED BY <2>1, <2>2
<1>6. \A r \in Queries : Moves(r)
  BY <1>2, <1>3 DEF Moves
<1>7. ASSUME NEW r \in Queries, NEW x \in sure' \cup gone' PROVE Awaited(r, x)
  <2>1. SUFFICES ASSUME Pending(r, x) PROVE Pending(r, x)'
    BY DEF Awaited
  <2>2. saving # None /\ Awaits(r) /\ read[r] # None /\ Item(saving) = x
    BY <2>1 DEF Pending, Awaits
  <2>3. r # q
    BY <1>2, <2>2 DEF Excused
  <2> QED BY <1>3, <1>5, <2>2, <2>3, CarriesSame DEF Pending
<1>8. ListsFit' /\ SureHolds' /\ GoneHolds'
  BY <1>1, <1>2, <1>4, <1>6, <1>7, ListsFitKept, SureStays, GoneKept
<1>9. SavingType' /\ SavingFits'
  BY <1>1, <1>4, <1>5, SavingFitsKept DEF Carries, SavingType
<1>10. ListTypes' /\ ItemTypes'
  BY <1>1, <1>2, <1>3 DEF ListTypes, ItemTypes
<1>11. TypeOK'
  BY <1>4, <1>5, <1>9, <1>10, TypeParts, PTL
<1> QED BY <1>5, <1>8, <1>9, <1>11 DEF IInv, Fit

-----------------------------------------------------------------------------
(* The guards.                                                             *)

LEMMA RedirectHolds ==
  ASSUME IInv, NEW to \in Targets, PlaceFits(to.at, to.org, to.project), Redirect(to)
  PROVE  IInv'
  BY StartHolds DEF Redirect

\* The next guard takes over.
LEMMA PassHolds ==
  ASSUME IInv, going # None, NEW guard \in {"orgs", "org"}, Pass(guard), details' = details,
         guard = "orgs" => going.to.at # "login",
         guard = "org" => going.to.at \in {"org", "project"}
  PROVE  IInv'
<1>1. /\ going.to \in Targets /\ details \subseteq Orgs
      /\ PlaceFits(going.to.at, going.to.org, going.to.project)
  BY TypeParts DEF IInv, Fit, GoingType, GoingFits, ListTypes
<1>2. going' = [to |-> going.to, guard |-> guard]
  BY DEF Pass
<1>3. UNCHANGED <<server, cache, read, page, saving, wizard, sure, gone>>
  BY DEF Pass
<1>4. GoingType'
  BY <1>1, <1>2 DEF GoingType
<1>5. going'.to = going.to /\ going'.guard = guard
  BY <1>2
<1>6. GoingFits'
  BY <1>1, <1>3, <1>5 DEF GoingFits, PlaceFits, Fits, server
<1> QED BY <1>1, <1>3, <1>4, <1>6, GoingHolds

LEMMA EnterUnlockedHolds ==
  ASSUME IInv, going # None, going.to.at # "login", EnterUnlocked
  PROVE  IInv'
<1>1. /\ going.to \in Targets /\ details \subseteq Orgs /\ ListsFit
      /\ PlaceFits(going.to.at, going.to.org, going.to.project)
  BY TypeParts DEF IInv, Fit, GoingType, GoingFits, ListTypes
<1>2. CASE going.to.at = "onboarding" /\ Arrive
  <2>1. going.to \in Pages
    BY <1>1, <1>2 DEF Targets, Pages
  <2>2. going' = None /\ Show(going.to, cache, read) /\ UNCHANGED server /\ details' = details
    BY <1>2 DEF Arrive
  <2> QED BY <1>1, <1>2, <2>1, <2>2, ArriveHolds
<1>3. CASE Redirect(To("onboarding", 0, 0))
  <2>1. To("onboarding", 0, 0) \in Targets /\ PlaceFits("onboarding", 0, 0)
    BY DEF To, Targets, PlaceFits
  <2> QED BY <1>3, <2>1, ToFields, RedirectHolds
<1>4. CASE cache[0] \notin {None, {}} /\ Redirect(To("org", Min(cache[0]), 0))
  <2>1. Min(cache[0]) \in Orgs
    BY <1>1, <1>4, ActiveType
  <2> HIDE DEF Min
  <2>2. To("org", Min(cache[0]), 0) \in Targets /\ PlaceFits("org", Min(cache[0]), 0)
    BY <2>1 DEF To, Targets, PlaceFits
  <2> QED BY <1>4, <2>2, ToFields, RedirectHolds
<1>5. CASE going.to.at \in {"org", "project"} /\ Pass("org") /\ details' = details
  BY <1>5, PassHolds
<1> QED BY <1>2, <1>3, <1>4, <1>5 DEF EnterUnlocked

LEMMA GuardSessionHolds == IInv /\ GuardSession => IInv'
<1> SUFFICES ASSUME IInv, GuardSession PROVE IInv'
  OBVIOUS
<1>1. going # None /\ details \subseteq Orgs
  BY TypeParts DEF GuardSession, MeAnswers, MeFails, IInv, ListTypes
<1>2. CASE Redirect(To("index", 0, 0)) \/ Redirect(To("login", 0, 0))
  <2>1. /\ To("index", 0, 0) \in Targets /\ PlaceFits("index", 0, 0)
        /\ To("login", 0, 0) \in Targets /\ PlaceFits("login", 0, 0)
    BY DEF To, Targets, PlaceFits
  <2> QED BY <1>2, <2>1, ToFields, RedirectHolds
<1>3. CASE going' = None /\ Show(To("unlock", 0, 0), cache, read) /\ UNCHANGED <<server, details>>
  <2> DEFINE pg == To("unlock", 0, 0)
  <2>1. pg \in Pages /\ pg.at = "unlock" /\ PlaceFits(pg.at, pg.org, pg.project)
    BY DEF To, Pages, PlaceFits
  <2>2. going' = None /\ Show(pg, cache, read) /\ UNCHANGED server /\ details' = details
    BY <1>3
  <2> HIDE DEF pg
  <2> QED BY <1>1, <2>1, <2>2, ArriveHolds
<1>4. CASE going.to.at # "login" /\ EnterUnlocked
  BY <1>1, <1>4, EnterUnlockedHolds
<1>5. CASE going.to.at # "login" /\ Pass("orgs") /\ details' = details
  BY <1>1, <1>5, PassHolds
<1> QED BY <1>2, <1>3, <1>4, <1>5 DEF GuardSession, MeAnswers, MeFails

LEMMA UnlockHolds == IInv /\ Unlock => IInv'
<1> SUFFICES ASSUME IInv, Unlock PROVE IInv'
  OBVIOUS
<1>1. Start(To("index", 0, 0)) /\ UNCHANGED <<server, cache, details, read, page, saving, wizard, sure, gone>>
  BY DEF Unlock
<1>2. To("index", 0, 0) \in Targets /\ PlaceFits("index", 0, 0)
  BY DEF To, Targets, PlaceFits
<1> QED BY <1>1, <1>2, ToFields, StartHolds

LEMMA GuardOrgsHolds == IInv /\ GuardOrgs => IInv'
<1> SUFFICES ASSUME IInv, GuardOrgs PROVE IInv'
  OBVIOUS
<1>1. going # None /\ going.to.at # "login"
  BY DEF GuardOrgs, IInv, Fit, GoingFits
<1>2. CASE Ensure(0)
  BY <1>2, Constants, EnsureHolds
<1>3. CASE EnterUnlocked
  BY <1>1, <1>3, EnterUnlockedHolds
<1> QED BY <1>2, <1>3 DEF GuardOrgs

LEMMA GuardOrgHolds == IInv /\ GuardOrg => IInv'
<1> SUFFICES ASSUME IInv, GuardOrg PROVE IInv'
  OBVIOUS
<1>1. /\ going # None /\ going.to \in Targets /\ details \subseteq Orgs
      /\ PlaceFits(going.to.at, going.to.org, going.to.project)
      /\ going.to.at \in {"org", "project"} /\ going.to.org \in Orgs
  BY TypeParts DEF GuardOrg, IInv, Fit, GoingType, GoingFits, ListTypes, PlaceFits, Fits
<1>2. CASE details' = DetailRead(going.to.org) /\ going.to.at = "project" /\ Pass("project")
  <2>1. going' = [to |-> going.to, guard |-> "project"]
    BY <1>2 DEF Pass
  <2>2. UNCHANGED <<server, cache, read, page, saving, wizard, sure, gone>>
    BY <1>2 DEF Pass
  <2>3. details \subseteq details' /\ details' \subseteq Orgs
    BY <1>1, <1>2 DEF DetailRead
  <2>4. GoingType'
    BY <1>1, <2>1 DEF GoingType
  <2>5. GoingFits'
    BY <1>1, <1>2, <2>1, <2>2 DEF GoingFits, PlaceFits, Fits, server
  <2> QED BY <2>2, <2>3, <2>4, <2>5, GoingHolds
<1>3. CASE /\ details' = DetailRead(going.to.org) /\ going.to.at # "project"
           /\ going' = None /\ Show(going.to, cache, read) /\ UNCHANGED server
  <2>1. going.to \in Pages
    BY <1>1 DEF Targets, Pages
  <2>2. going.to.org \in details' /\ details' \subseteq Orgs
    BY <1>1, <1>3 DEF DetailRead
  <2> QED BY <1>1, <1>3, <2>1, <2>2, ArriveHolds
<1>4. CASE OrgFails /\ UNCHANGED <<server, details>>
  <2> DEFINE pg == To("failed", going.to.org, going.to.project)
  <2>1. pg \in Pages /\ pg.at = "failed" /\ PlaceFits(pg.at, pg.org, pg.project)
    BY <1>1 DEF To, Targets, Pages, PlaceFits
  <2>2. going' = None /\ Show(pg, cache, read) /\ UNCHANGED server /\ details' = details
    BY <1>4 DEF OrgFails
  <2> HIDE DEF pg
  <2> QED BY <1>1, <2>1, <2>2, ArriveHolds
<1> QED BY <1>2, <1>3, <1>4 DEF GuardOrg

LEMMA GuardProjectHolds == IInv /\ GuardProject => IInv'
<1> SUFFICES ASSUME IInv, GuardProject PROVE IInv'
  OBVIOUS
<1>1. /\ going # None /\ going.to \in Targets /\ details \subseteq Orgs
      /\ PlaceFits(going.to.at, going.to.org, going.to.project)
      /\ going.to.at = "project" /\ going.to.org \in Orgs
  BY TypeParts DEF GuardProject, IInv, Fit, GoingType, GoingFits, ListTypes, PlaceFits, Fits
<1>2. CASE Ensure(going.to.org)
  BY <1>1, <1>2, Constants, EnsureHolds
<1>3. CASE Arrive
  <2>1. going.to \in Pages
    BY <1>1 DEF Targets, Pages
  <2>2. going' = None /\ Show(going.to, cache, read) /\ UNCHANGED server /\ details' = details
    BY <1>3 DEF Arrive
  <2> QED BY <1>1, <2>1, <2>2, ArriveHolds
<1>4. CASE Redirect(To("org", going.to.org, 0))
  <2>1. To("org", going.to.org, 0) \in Targets /\ PlaceFits("org", going.to.org, 0)
    BY <1>1 DEF To, Targets, PlaceFits
  <2> QED BY <1>4, <2>1, ToFields, RedirectHolds
<1> QED BY <1>2, <1>3, <1>4 DEF GuardProject

-----------------------------------------------------------------------------
(* The mutations.                                                          *)

LEMMA SaveHolds ==
  ASSUME IInv,
         NEW op \in {"createOrg", "createProject", "deleteProject", "deleteOrg"},
         NEW o \in {0} \cup Orgs, NEW p \in {0} \cup Projects,
         NEW by \in {"sidebar", "onboarding", "org", "project"},
         NEW typed \in {0} \cup Orgs \cup Projects, Save(op, o, p, by, typed),
         op # "createOrg" => o \in Orgs,
         op = "deleteProject" => Fits(o, p) /\ typed = p,
         op = "deleteOrg" => typed = o,
         by = "onboarding" => page.at = "onboarding",
         op = "createProject" /\ by = "onboarding" => wizard.step = "project" /\ wizard.org = o
  PROVE  IInv'
<1>1. /\ ServerType /\ ListTypes /\ PageType /\ GoingType /\ SavingType /\ WizardType /\ ItemTypes
      /\ ListsFit /\ PageFits /\ GoingFits /\ SavingFits /\ WizardFits /\ SureHolds /\ GoneHolds
  BY TypeParts DEF IInv, Fit
<1>2. /\ saving = None /\ saving' = Mutation(op, o, p, by, "sent", {}, typed)
      /\ UNCHANGED <<server, cache, details, read, page, going, wizard, sure, gone>>
  BY DEF Save
<1>3. UNCHANGED server /\ cache' = cache /\ read' = read /\ sure' = sure /\ gone' = gone
  BY <1>2
<1>4. Evolves /\ ServerType'
  BY <1>1, <1>3, ServerStill
<1>5. \A q \in Queries : Moves(q)
  BY <1>3 DEF Moves
<1>6. \A q \in Queries : \A x : Awaited(q, x)
  BY <1>2 DEF Awaited, Pending, Awaits
<1>7. ListsFit' /\ SureHolds' /\ GoneHolds'
  BY <1>1, <1>3, <1>4, <1>5, <1>6, ListsFitKept, SureStays, GoneKept
<1>8. saving' \in Mutations
  BY <1>2, MutationType
<1>9. /\ saving'.op = op /\ saving'.org = o /\ saving'.project = p /\ saving'.by = by
      /\ saving'.stage = "sent" /\ saving'.typed = typed
  BY <1>2 DEF Mutation
<1>10. SavingFits'
  BY <1>2, <1>9 DEF SavingFits, Fits, server
<1>11. ListTypes' /\ PageType' /\ GoingType' /\ SavingType' /\ WizardType' /\ ItemTypes'
  BY <1>1, <1>2, <1>8 DEF ListTypes, PageType, GoingType, SavingType, WizardType, ItemTypes
<1>12. PageFits' /\ GoingFits' /\ WizardFits'
  BY <1>1, <1>2 DEF PageFits, GoingFits, WizardFits, PlaceFits, Fits, server
<1>13. TypeOK'
  BY <1>4, <1>11, TypeParts, PTL
<1> QED BY <1>7, <1>10, <1>12, <1>13 DEF IInv, Fit

LEMMA SubmitOrgHolds == IInv /\ SubmitOrg => IInv'
  BY SaveHolds DEF SubmitOrg, Wizard

LEMMA SubmitProjectHolds == IInv /\ SubmitProject => IInv'
<1> SUFFICES ASSUME IInv, SubmitProject PROVE IInv'
  OBVIOUS
<1>1. ListsFit /\ PageType /\ PageFits /\ WizardFits
  BY TypeParts DEF IInv, Fit
<1>2. CASE Active(page, cache) # 0 /\ Save("createProject", Active(page, cache), 0, "sidebar", 0)
  <2> DEFINE o == Active(page, cache)
  <2>1. o \in Orgs
    BY <1>1, <1>2, ActiveType
  <2>2. Save("createProject", o, 0, "sidebar", 0)
    BY <1>2
  <2> HIDE DEF o
  <2> QED BY <2>1, <2>2, SaveHolds
<1>3. CASE page.at = "org" /\ Save("createProject", page.org, 0, "org", 0)
  <2>1. page.org \in Orgs
    BY <1>1, <1>3 DEF PageFits, PlaceFits
  <2> QED BY <1>3, <2>1, SaveHolds
<1>4. CASE Wizard("project") /\ Save("createProject", wizard.org, 0, "onboarding", 0)
  <2>1. wizard.org \in Orgs /\ wizard.step = "project" /\ page.at = "onboarding"
    BY <1>1, <1>4 DEF WizardFits, Wizard
  <2> QED BY <1>4, <2>1, SaveHolds
<1> QED BY <1>2, <1>3, <1>4 DEF SubmitProject

LEMMA SubmitDeletionHolds == IInv /\ SubmitDeletion => IInv'
<1> SUFFICES ASSUME IInv, SubmitDeletion PROVE IInv'
  OBVIOUS
<1>1. PageFits
  BY DEF IInv, Fit
<1>2. PICK typed \in {0} \cup Orgs \cup Projects :
        /\ typed = Shown
        /\ \/ page.at = "project" /\ Save("deleteProject", page.org, page.project, "project", typed)
           \/ page.at = "org" /\ Save("deleteOrg", page.org, 0, "org", typed)
  BY DEF SubmitDeletion
<1>3. CASE page.at = "project" /\ Save("deleteProject", page.org, page.project, "project", typed)
  <2>1. Fits(page.org, page.project) /\ typed = page.project
    BY <1>1, <1>2, <1>3 DEF PageFits, PlaceFits, Shown
  <2>2. page.org \in Orgs /\ page.project \in Projects
    BY <2>1 DEF Fits
  <2> QED BY <1>3, <2>1, <2>2, SaveHolds
<1>4. CASE page.at = "org" /\ Save("deleteOrg", page.org, 0, "org", typed)
  <2>1. page.org \in Orgs /\ typed = page.org
    BY <1>1, <1>2, <1>4 DEF PageFits, PlaceFits, Shown
  <2> QED BY <1>4, <2>1, SaveHolds
<1> QED BY <1>2, <1>3, <1>4

\* What does not move with the server stays where it was.
LEMMA PlacesKept ==
  ASSUME ServerType, ServerType', Evolves, UNCHANGED <<details, page, going, wizard>>,
         PageFits, GoingFits, WizardFits
  PROVE  PageFits' /\ GoingFits' /\ WizardFits'
<1>1. PageFits'
  <2>1. PlaceFits(page.at, page.org, page.project)'
    <3>1. PlaceFits(page.at, page.org, page.project)
      BY DEF PageFits
    <3>2. page' = page
      OBVIOUS
    <3> QED BY <3>1, <3>2, FitsKept DEF PlaceFits, Fits
  <2> QED BY <2>1 DEF PageFits
<1>2. GoingFits'
  <2>1. going # None => PlaceFits(going.to.at, going.to.org, going.to.project)'
    <3>1. going # None => PlaceFits(going.to.at, going.to.org, going.to.project)
      BY DEF GoingFits
    <3>2. going' = going
      OBVIOUS
    <3> QED BY <3>1, <3>2, FitsKept DEF PlaceFits, Fits
  <2> QED BY <2>1 DEF GoingFits
<1>3. WizardFits'
  <2>1. Fits(wizard.org, wizard.project) => Fits(wizard.org, wizard.project)'
    BY FitsKept DEF Fits
  <2> QED BY <2>1 DEF WizardFits
<1> QED BY <1>1, <1>2, <1>3

LEMMA NumberedFields ==
    /\ Numbered.op = saving.op /\ Numbered.by = saving.by /\ Numbered.stage = saving.stage
    /\ Numbered.lists = saving.lists /\ Numbered.typed = saving.typed
    /\ Numbered.org = IF saving.op = "createOrg" THEN made.orgs + 1 ELSE saving.org
    /\ Numbered.project = IF saving.op = "createProject" THEN made.projects + 1 ELSE saving.project
  BY DEF Numbered, Mutation

LEMMA NumberedEvolves ==
  ASSUME IInv, saving # None, Execute(Numbered)
  PROVE  Evolves /\ ServerType'
<1>1. Numbered.op = "deleteProject" => Numbered.project \in Projects
  BY NumberedFields DEF IInv, Fit, SavingFits, Fits
<1> QED BY <1>1, TypeParts, ExecuteEvolves DEF IInv

\* Elsewhere, and when a mutation ends without an answer, only the server and the mutation change.
LEMMA ServerMovesHold ==
  ASSUME IInv, Evolves, ServerType', UNCHANGED <<cache, details, read, page, going, wizard, gone>>,
         \/ saving' = saving
         \/ saving # None /\ saving.stage = "sent" /\ saving' = None,
         sure' = Still(sure, orgs', home') \/ (UNCHANGED server /\ sure' = sure)
  PROVE  IInv'
<1>1. /\ ServerType /\ ListTypes /\ PageType /\ GoingType /\ SavingType /\ WizardType /\ ItemTypes
      /\ ListsFit /\ PageFits /\ GoingFits /\ SavingFits /\ WizardFits /\ SureHolds /\ GoneHolds
  BY TypeParts DEF IInv, Fit
<1>2. cache' = cache /\ read' = read /\ gone' = gone /\ details' = details /\ wizard' = wizard
  OBVIOUS
<1>3. \A q \in Queries : Moves(q)
  BY <1>2 DEF Moves
<1>4. \A q \in Queries : \A x : Awaited(q, x)
  BY <1>2 DEF Awaited, Pending, Awaits, Item, Org, Project
<1>5. ListsFit' /\ GoneHolds'
  BY <1>1, <1>2, <1>3, <1>4, ListsFitKept, GoneKept
<1>6. SureHolds' /\ sure' \subseteq sure
  <2>1. CASE sure' = Still(sure, orgs', home')
    <3>1. sure' \subseteq sure
      BY <2>1, StillKept
    <3> QED BY <1>1, <1>3, <1>4, <2>1, <3>1, SureKept
  <2>2. CASE UNCHANGED server /\ sure' = sure
    BY <1>1, <1>3, <1>4, <2>2, SureStays
  <2> QED BY <2>1, <2>2
<1>7. PageFits' /\ GoingFits' /\ WizardFits'
  BY <1>1, <1>2, PlacesKept
<1>8. SavingFits' /\ SavingType'
  <2>1. CASE saving' = saving
    <3>1. Carries
      BY <1>1, <2>1 DEF Carries, SavingType
    <3>2. saving' # None /\ saving'.by = "onboarding" => page'.at = "onboarding" /\ UNCHANGED wizard
      BY <1>1, <2>1 DEF SavingFits
    <3> QED BY <1>1, <2>1, <3>1, <3>2, SavingFitsKept DEF SavingType
  <2>2. CASE saving' = None
    BY <2>2 DEF SavingFits, SavingType
  <2> QED BY <2>1, <2>2
<1>9. ListTypes' /\ PageType' /\ GoingType' /\ WizardType' /\ ItemTypes'
  BY <1>1, <1>2, <1>6 DEF ListTypes, PageType, GoingType, WizardType, ItemTypes
<1>10. TypeOK'
  BY <1>8, <1>9, TypeParts, PTL
<1> QED BY <1>5, <1>6, <1>7, <1>8, <1>10 DEF IInv, Fit

LEMMA SaveFailsHolds == IInv /\ SaveFails => IInv'
<1> SUFFICES ASSUME IInv, SaveFails PROVE IInv'
  OBVIOUS
<1>1. /\ saving # None /\ saving.stage = "sent" /\ saving' = None
      /\ UNCHANGED <<cache, details, read, page, going, wizard, gone>>
  BY DEF SaveFails
<1>2. CASE UNCHANGED <<server, sure>>
  <2>1. Evolves /\ ServerType'
    BY <1>2, TypeParts, ServerStill DEF IInv
  <2> QED BY <1>1, <1>2, <2>1, ServerMovesHold
<1>3. CASE Execute(Numbered) /\ sure' = Still(sure, orgs', home')
  BY <1>1, <1>3, NumberedEvolves, ServerMovesHold
<1> QED BY <1>2, <1>3 DEF SaveFails

LEMMA ElsewhereHolds == IInv /\ Elsewhere => IInv'
<1> SUFFICES ASSUME IInv, Elsewhere PROVE IInv'
  OBVIOUS
<1>1. Evolves /\ ServerType'
  BY TypeParts, ElsewhereEvolves DEF IInv
<1>2. /\ UNCHANGED <<cache, details, read, page, going, wizard, gone>> /\ saving' = saving
      /\ sure' = Still(sure, orgs', home')
  BY DEF Elsewhere, tab
<1> QED BY <1>1, <1>2, ServerMovesHold

\* The mutation ends when every list it waits for was read.
LEMMA FinishHolds == IInv /\ Finish => IInv'
<1> SUFFICES ASSUME IInv, Finish PROVE IInv'
  OBVIOUS
<1>1. /\ ServerType /\ ListTypes /\ PageType /\ GoingType /\ SavingType /\ WizardType /\ ItemTypes
      /\ ListsFit /\ PageFits /\ GoingFits /\ SavingFits /\ WizardFits /\ SureHolds /\ GoneHolds
  BY TypeParts DEF IInv, Fit
<1>2. /\ saving # None /\ saving.stage = "rereading" /\ AllRead /\ saving' = None
      /\ UNCHANGED <<server, cache, details, read, page, sure, gone>>
  BY DEF Finish
<1>3. UNCHANGED server /\ cache' = cache /\ read' = read /\ sure' = sure /\ gone' = gone
  BY <1>2
<1>4. Evolves /\ ServerType'
  BY <1>1, <1>3, ServerStill
<1>5. \A q \in Queries : Moves(q)
  BY <1>3 DEF Moves
<1>6. \A q \in Queries : \A x : Awaited(q, x)
  BY <1>2 DEF Awaited, Pending, Awaits, AllRead
<1>7. ListsFit' /\ SureHolds' /\ GoneHolds'
  BY <1>1, <1>3, <1>4, <1>5, <1>6, ListsFitKept, SureStays, GoneKept
<1>8. ListTypes' /\ PageType' /\ SavingType' /\ ItemTypes' /\ PageFits' /\ SavingFits'
  BY <1>1, <1>2
     DEF ListTypes, PageType, SavingType, ItemTypes, PageFits, SavingFits, PlaceFits, Fits, server
<1>9. ASSUME NEW to \in Targets, PlaceFits(to.at, to.org, to.project), Start(to)
      PROVE  GoingType' /\ GoingFits'
  <2>1. going' = [to |-> to, guard |-> "session"]
    BY <1>9 DEF Start
  <2>2. going'.to = to /\ going'.guard = "session"
    BY <2>1
  <2>3. PlaceFits(to.at, to.org, to.project)'
    BY <1>2, <1>9 DEF PlaceFits, Fits, server
  <2> QED BY <2>1, <2>2, <2>3 DEF GoingType, GoingFits, PlaceFits, Fits
<1>10. ASSUME NEW o \in Orgs, NEW p, NEW step \in {"project", "import"},
              wizard' = [step |-> step, org |-> o, project |-> p],
              step = "import" => Fits(o, p), p \in {0} \cup Projects
       PROVE  WizardType' /\ WizardFits'
  <2>1. wizard'.step = step /\ wizard'.org = o /\ wizard'.project = p
    BY <1>10
  <2> QED BY <1>2, <1>10, <2>1 DEF WizardType, WizardFits, Fits, server
<1>11. going' = going => GoingType' /\ GoingFits'
  BY <1>1, <1>2 DEF GoingType, GoingFits, PlaceFits, Fits, server
<1>12. wizard' = wizard => WizardType' /\ WizardFits'
  BY <1>1, <1>2 DEF WizardType, WizardFits, Fits, server
<1>13. GoingType' /\ GoingFits' /\ WizardType' /\ WizardFits'
  <2>1. CASE /\ saving.op = "createOrg" /\ going' = going
             /\ wizard' = [step |-> "project", org |-> saving.org, project |-> 0]
    <3>1. saving.org \in Orgs
      BY <1>1, <1>2, <2>1 DEF SavingFits
    <3> QED BY <1>10, <1>11, <2>1, <3>1
  <2>2. CASE /\ saving.op = "createProject" /\ saving.by = "onboarding" /\ going' = going
             /\ wizard' = [step |-> "import", org |-> wizard.org, project |-> saving.project]
    <3>1. Fits(wizard.org, saving.project) /\ wizard.org \in Orgs
      BY <1>1, <1>2, <2>2 DEF SavingFits, Fits
    <3>2. saving.project \in {0} \cup Projects
      BY <3>1 DEF Fits
    <3> QED BY <1>10, <1>11, <2>2, <3>1, <3>2
  <2>3. CASE /\ saving.op = "createProject" /\ wizard' = wizard
             /\ Start(To("project", saving.org, saving.project))
    <3>1. Fits(saving.org, saving.project)
      BY <1>1, <1>2, <2>3 DEF SavingFits
    <3>2. /\ To("project", saving.org, saving.project) \in Targets
          /\ PlaceFits("project", saving.org, saving.project)
      BY <3>1 DEF To, Targets, PlaceFits, Fits
    <3> QED BY <1>9, <1>12, <2>3, <3>2, ToFields
  <2>4. CASE saving.op = "deleteProject" /\ wizard' = wizard /\ Start(To("org", saving.org, 0))
    <3>1. saving.org \in Orgs
      BY <1>1, <1>2, <2>4 DEF SavingFits
    <3>2. To("org", saving.org, 0) \in Targets /\ PlaceFits("org", saving.org, 0)
      BY <3>1 DEF To, Targets, PlaceFits
    <3> QED BY <1>9, <1>12, <2>4, <3>2, ToFields
  <2>5. CASE wizard' = wizard /\ Start(To("index", 0, 0))
    <3>1. To("index", 0, 0) \in Targets /\ PlaceFits("index", 0, 0)
      BY DEF To, Targets, PlaceFits
    <3> QED BY <1>9, <1>12, <2>5, <3>1, ToFields
  <2>6. CASE wizard' = wizard /\ going' = going
    BY <1>11, <1>12, <2>6
  <2> QED BY <2>1, <2>2, <2>3, <2>4, <2>5, <2>6 DEF Finish
<1>14. TypeOK'
  BY <1>4, <1>8, <1>13, TypeParts, PTL
<1> QED BY <1>7, <1>8, <1>13, <1>14 DEF IInv, Fit

LEMMA ReloadHolds == IInv /\ Reload => IInv'
<1> SUFFICES ASSUME IInv, Reload PROVE IInv'
  OBVIOUS
<1>1. /\ ServerType /\ ListTypes /\ ItemTypes /\ ListsFit /\ SureHolds /\ GoneHolds
  BY TypeParts DEF IInv
<1>2. /\ page' = To("start", 0, 0) /\ going' = [to |-> To("index", 0, 0), guard |-> "session"]
      /\ cache' = [q \in Queries |-> None] /\ read' = [q \in Queries |-> None] /\ details' = {}
      /\ saving' = None /\ wizard' = FirstStep /\ UNCHANGED server /\ sure' = sure /\ gone' = gone
  BY DEF Reload
<1>3. Evolves /\ ServerType'
  BY <1>1, <1>2, ServerStill
<1>4. \A q \in Queries : Moves(q) /\ \A x : Awaited(q, x)
  BY <1>2 DEF Moves, Awaited
<1>5. ListsFit' /\ SureHolds' /\ GoneHolds'
  BY <1>1, <1>2, <1>3, <1>4, ListsFitKept, SureStays, GoneKept
<1>6. ListTypes' /\ SavingType' /\ ItemTypes' /\ SavingFits'
  BY <1>1, <1>2 DEF ListTypes, SavingType, ItemTypes, SavingFits
<1>7. PageType' /\ PageFits' /\ WizardType' /\ WizardFits'
  BY <1>2 DEF PageType, PageFits, PlaceFits, WizardType, WizardFits, FirstStep, To, Pages
<1>8. GoingType' /\ GoingFits'
  <2>1. To("index", 0, 0) \in Targets /\ To("index", 0, 0).at = "index"
    BY DEF To, Targets
  <2>2. going'.to = To("index", 0, 0) /\ going'.guard = "session"
    BY <1>2
  <2> QED BY <1>2, <2>1, <2>2 DEF GoingType, GoingFits, PlaceFits
<1>9. TypeOK'
  BY <1>3, <1>6, <1>7, <1>8, TypeParts, PTL
<1> QED BY <1>5, <1>6, <1>7, <1>8, <1>9 DEF IInv, Fit

-----------------------------------------------------------------------------
(* The answer to a mutation.                                               *)

\* What a mutation that was carried out is about.
LEMMA NumberedDone ==
  ASSUME IInv, saving # None, Execute(Numbered), NEW m, m = Numbered
  PROVE  /\ m.org \in Orgs /\ m.project \in {0} \cup Projects
         /\ m.op \in {"createOrg", "createProject", "deleteProject", "deleteOrg"}
         /\ m.op = "createOrg" => m.org \in orgs'
         /\ m.op = "createProject" =>
               Fits(m.org, m.project)' /\ home'[m.project] = m.org /\ m.org = saving.org
         /\ m.op = "deleteProject" =>
               /\ Fits(m.org, m.project) /\ home[m.project] = m.org /\ home'[m.project] = 0
               /\ m.typed = m.project
         /\ m.op = "deleteOrg" => m.org \in orgs /\ m.org \notin orgs' /\ m.typed = m.org
         /\ m.op # "createOrg" => m.org = saving.org
<1>1. /\ made.orgs \in 0..MaxOrgs /\ made.projects \in 0..MaxProjects /\ orgs \subseteq Orgs
      /\ MaxOrgs \in Nat /\ MaxProjects \in Nat /\ home \in [Projects -> {0} \cup orgs]
      /\ saving \in Mutations /\ SavingFits
  BY TypeParts, Constants DEF IInv, Fit, ServerType, SavingType
<1>2. /\ m.op = saving.op /\ m.typed = saving.typed
      /\ m.org = IF saving.op = "createOrg" THEN made.orgs + 1 ELSE saving.org
      /\ m.project = IF saving.op = "createProject" THEN made.projects + 1 ELSE saving.project
  BY NumberedFields
<1>3. Execute(m)
  OBVIOUS
<1>4. saving.op \in {"createOrg", "createProject", "deleteProject", "deleteOrg"}
      /\ saving.project \in {0} \cup Projects
  BY <1>1 DEF Mutations
<1>5. CASE m.op = "createOrg"
  <2>1. made.orgs < MaxOrgs /\ m.org = made.orgs + 1 /\ orgs' = orgs \cup {m.org}
    BY <1>3, <1>5 DEF Execute
  <2>2. m.org \in Orgs
    BY <1>1, <2>1 DEF Orgs
  <2> QED BY <1>2, <1>4, <1>5, <2>1, <2>2
<1>6. CASE m.op = "createProject"
  <2>1. /\ m.org \in orgs /\ made.projects < MaxProjects /\ m.project = made.projects + 1
        /\ made' = [orgs |-> made.orgs, projects |-> made.projects + 1]
        /\ home' = [home EXCEPT ![m.project] = m.org]
    BY <1>3, <1>6 DEF Execute
  <2>2. m.project \in Projects /\ made'.projects = made.projects + 1 /\ m.org \in Orgs
    BY <1>1, <2>1 DEF Projects
  <2>3. home'[m.project] = m.org
    BY <1>1, <2>1, <2>2
  <2>4. m.project <= made'.projects
    BY <1>1, <2>1, <2>2
  <2> QED BY <1>2, <1>4, <1>6, <2>2, <2>3, <2>4 DEF Fits
<1>7. CASE m.op = "deleteProject"
  <2>1. home[m.project] # 0 /\ home' = [home EXCEPT ![m.project] = 0]
    BY <1>3, <1>7 DEF Execute
  <2>2. Fits(m.org, m.project) /\ m.typed = m.project
    BY <1>1, <1>2, <1>7 DEF SavingFits
  <2>3. home[m.project] = m.org /\ home'[m.project] = 0 /\ m.org \in Orgs
    BY <1>1, <2>1, <2>2 DEF Fits
  <2> QED BY <1>2, <1>4, <1>7, <2>2, <2>3
<1>8. CASE m.op = "deleteOrg"
  <2>1. m.org \in orgs /\ orgs' = orgs \ {m.org}
    BY <1>3, <1>8 DEF Execute
  <2>2. m.typed = m.org
    BY <1>1, <1>2, <1>8 DEF SavingFits
  <2> QED BY <1>1, <1>2, <1>4, <1>8, <2>1, <2>2
<1> QED BY <1>2, <1>4, <1>5, <1>6, <1>7, <1>8

\* The list a mutation is about is read anew, or is not there.
LEMMA KnownShows ==
  ASSUME NEW q \in Queries, NEW x,
         \/ read'[q] = Asked /\ Awaits(q)' /\ Item(saving') = x
         \/ read'[q] = None /\ cache'[q] = None
  PROVE  \A i : Shows(q, i, x)' /\ Hides(q, i, x)'
  BY NoneAssumption DEF Shows, Hides, Pending

LEMMA AnsweredHolds == IInv /\ Answered => IInv'
<1> SUFFICES ASSUME IInv, Answered PROVE IInv'
  OBVIOUS
<1>1. /\ ServerType /\ ListTypes /\ PageType /\ GoingType /\ SavingType /\ WizardType /\ ItemTypes
      /\ ListsFit /\ PageFits /\ GoingFits /\ SavingFits /\ WizardFits /\ SureHolds /\ GoneHolds
  BY TypeParts DEF IInv, Fit
<1> PICK m : m = Numbered
  OBVIOUS
<1> DEFINE lists == Invalidates \cap Observed(page, cache)
           q == IF m.op \in {"createOrg", "deleteOrg"} THEN 0 ELSE m.org
           fresh == IF q \in Observed(page, cache) THEN ~(cache[q] = None /\ read[q] # None)
                    ELSE cache[q] = None /\ read[q] = None
           known == IF fresh THEN {Item(m)} ELSE {}
           creates == m.op \in {"createOrg", "createProject"}
<1>2. /\ saving # None /\ saving.stage = "sent" /\ Execute(m)
      /\ UNCHANGED <<cache, details, page, going, wizard>>
  BY DEF Answered
<1>3. /\ read' = [l \in Queries |-> IF l \in lists /\ ~Joins(l) THEN Asked ELSE read[l]]
      /\ saving' = Mutation(m.op, m.org, m.project, m.by, "rereading", lists, m.typed)
      /\ sure' = Still(IF creates THEN sure \cup known ELSE sure, orgs', home')
      /\ gone' = IF creates THEN gone ELSE gone \cup known
  BY DEF Answered
<1>4. Evolves /\ ServerType'
  BY <1>2, NumberedEvolves
<1>5. /\ m.org \in Orgs /\ m.project \in {0} \cup Projects
      /\ m.op \in {"createOrg", "createProject", "deleteProject", "deleteOrg"}
      /\ m.op = "createOrg" => m.org \in orgs'
      /\ m.op = "createProject" =>
            Fits(m.org, m.project)' /\ home'[m.project] = m.org /\ m.org = saving.org
      /\ m.op = "deleteProject" =>
            /\ Fits(m.org, m.project) /\ home[m.project] = m.org /\ home'[m.project] = 0
            /\ m.typed = m.project
      /\ m.op = "deleteOrg" => m.org \in orgs /\ m.org \notin orgs' /\ m.typed = m.org
      /\ m.op # "createOrg" => m.org = saving.org
  BY <1>2, NumberedDone
<1>6. m.op = saving.op /\ m.by = saving.by /\ m.typed = saving.typed
  BY NumberedFields
<1>7. saving' \in Mutations \ {None} /\ lists \subseteq Queries
  <2>1. lists \subseteq Queries
    <3>1. Invalidates \subseteq Queries
      BY <1>5, <1>6, Constants DEF Invalidates
    <3> QED BY <3>1
  <2>2. /\ m.by \in {"sidebar", "onboarding", "org", "project", "gone"}
        /\ m.typed \in {0} \cup Orgs \cup Projects
    BY <1>1, <1>2, <1>6 DEF SavingType, Mutations
  <2> HIDE DEF lists
  <2>3. saving' \in Mutations
    BY <1>3, <1>5, <2>1, <2>2 DEF Mutation, Mutations
  <2> QED BY <2>1, <2>3, NoneAssumption
<1>8. /\ saving'.op = m.op /\ saving'.org = m.org /\ saving'.project = m.project /\ saving'.by = m.by
      /\ saving'.stage = "rereading" /\ saving'.lists = lists /\ saving'.typed = m.typed
  BY <1>3 DEF Mutation
<1>9. Item(m) = Item(saving')
  BY <1>8 DEF Item, Org, Project
<1>10. q \in Queries /\ q \in Invalidates
  BY <1>5, <1>6, Constants DEF Invalidates
<1>11. fresh => \/ read'[q] = Asked /\ Awaits(q)' /\ Item(saving') = Item(m)
                \/ read'[q] = None /\ cache'[q] = None
  <2>1. CASE q \in Observed(page, cache)
    <3>1. q \in lists /\ (fresh => ~Joins(q))
      BY <1>10, <2>1 DEF Joins
    <3>2. Awaits(q)'
      BY <1>7, <1>8, <3>1 DEF Awaits
    <3>3. fresh => read'[q] = Asked
      BY <1>3, <1>10, <3>1
    <3> QED BY <1>9, <3>2, <3>3
  <2>2. CASE q \notin Observed(page, cache)
    <3>1. q \notin lists /\ (fresh => cache[q] = None /\ read[q] = None)
      BY <2>2
    <3>2. cache' = cache /\ read'[q] = read[q]
      BY <1>2, <1>3, <1>10, <3>1
    <3> QED BY <3>1, <3>2
  <2> QED BY <2>1, <2>2
<1>12. \A l \in Queries : read'[l] \in {Asked, read[l]} /\ cache'[l] = cache[l]
  BY <1>2, <1>3
<1>13. ListTypes'
  <2>1. read' \in [Queries -> Lists \cup {None, Asked}]
    BY <1>1, <1>3 DEF ListTypes
  <2> QED BY <1>1, <1>2, <2>1 DEF ListTypes
<1>14. known \subseteq {Item(m)} /\ (known # {} => fresh)
  OBVIOUS
<1>15. /\ sure' \subseteq sure \cup (IF creates THEN known ELSE {})
       /\ gone' \subseteq gone \cup (IF creates THEN {} ELSE known)
  BY <1>3, StillKept
<1> HIDE DEF lists, fresh, known
<1>16. \A l \in Queries : Moves(l) /\ \A x : Awaited(l, x)
  BY <1>2, <1>12 DEF Moves, Awaited, Pending, Awaits
<1>17. known # {} => \A i : Shows(q, i, Item(m))' /\ Hides(q, i, Item(m))'
  BY <1>10, <1>11, <1>14, KnownShows
<1>18. SureHolds'
  <2>1. ASSUME NEW o \in Orgs, Org(o) \in sure' \ sure PROVE Shows(0, o, Org(o))'
    <3>1. creates /\ Org(o) = Item(m) /\ known # {}
      BY <1>14, <1>15, <2>1
    <3>2. m.op = "createOrg"
      BY <3>1, ItemsDiffer DEF Item
    <3> QED BY <1>17, <3>1, <3>2
  <2>2. ASSUME NEW p \in Projects, Project(p) \in sure' \ sure, NEW o \in Orgs, home'[p] = o
        PROVE  Shows(o, p, Project(p))'
    <3>1. creates /\ Project(p) = Item(m) /\ known # {}
      BY <1>14, <1>15, <2>2
    <3>2. m.op = "createProject" /\ p = m.project
      BY <3>1, ItemsDiffer DEF Item
    <3>3. o = m.org
      BY <1>5, <2>2, <3>2
    <3> QED BY <1>17, <3>1, <3>2, <3>3
  <2> DEFINE S == IF creates THEN sure \cup known ELSE sure
  <2>3. sure' = Still(S, orgs', home')
    BY <1>3
  <2> HIDE DEF S
  <2> QED BY <1>1, <1>4, <1>16, <2>1, <2>2, <2>3, SureKept
<1>19. GoneHolds'
  <2>1. ASSUME NEW o \in Orgs, Org(o) \in gone' \ gone
        PROVE  o \notin orgs' /\ o <= made'.orgs /\ Hides(0, o, Org(o))'
    <3>1. ~creates /\ Org(o) = Item(m) /\ known # {}
      BY <1>14, <1>15, <2>1
    <3>2. m.op = "deleteOrg" /\ o = m.org
      BY <1>5, <3>1, ItemsDiffer DEF Item
    <3>3. o <= made.orgs
      <4>1. orgs \subseteq 1..made.orgs /\ o \in orgs
        BY <1>1, <1>5, <3>2 DEF ListsFit
      <4> QED BY <4>1
    <3>4. o <= made'.orgs
      <4>1. made.orgs \in Nat /\ made'.orgs \in Nat /\ o \in Nat /\ made.orgs <= made'.orgs
        BY <1>1, <1>4, Constants DEF ServerType, Evolves
      <4> QED BY <3>3, <4>1
    <3> QED BY <1>5, <1>17, <3>1, <3>2, <3>4
  <2>2. ASSUME NEW p \in Projects, Project(p) \in gone' \ gone
        PROVE  home'[p] = 0 /\ p <= made'.projects /\ \A o \in Orgs : Hides(o, p, Project(p))'
    <3>1. ~creates /\ Project(p) = Item(m) /\ known # {}
      BY <1>14, <1>15, <2>2
    <3>2. m.op = "deleteProject" /\ p = m.project
      BY <1>5, <3>1, ItemsDiffer DEF Item
    <3>3. Fits(m.org, p)' /\ home'[p] = 0 /\ home[p] = m.org
      BY <1>1, <1>4, <1>5, <3>2, FitsKept
    <3>4. ASSUME NEW o \in Orgs, o # m.org PROVE Hides(o, p, Project(p))'
      <4>1. o # 0 /\ o \in Queries
        BY Constants
      <4>2. ~Fits(o, p)
        BY <1>5, <3>3, <3>4, Constants DEF Fits
      <4>3. (cache[o] # None => p \notin cache[o]) /\ (read[o] \notin {None, Asked} => p \notin read[o])
        BY <1>1, <4>1, <4>2 DEF ListsFit, Fitting
      <4> QED BY <1>12, <4>1, <4>3 DEF Hides
    <3>5. Hides(m.org, p, Project(p))'
      BY <1>17, <3>1, <3>2
    <3> QED BY <3>3, <3>4, <3>5 DEF Fits
  <2> QED BY <1>1, <1>4, <1>16, <2>1, <2>2, GoneKept
<1>20. ListsFit' /\ PageFits' /\ GoingFits' /\ WizardFits'
  BY <1>1, <1>2, <1>4, <1>16, ListsFitKept, PlacesKept
<1>21. SavingFits'
  <2>1. m.op = "deleteProject" => Fits(m.org, m.project)'
    BY <1>1, <1>4, <1>5, FitsKept
  <2>2. m.by = "onboarding" => page'.at = "onboarding"
    BY <1>1, <1>2, <1>6 DEF SavingFits
  <2>3. m.op = "createProject" /\ m.by = "onboarding" => wizard'.step = "project" /\ wizard'.org = m.org
    BY <1>1, <1>2, <1>5, <1>6 DEF SavingFits
  <2> QED BY <1>5, <1>8, <2>1, <2>2, <2>3 DEF SavingFits
<1>22. PageType' /\ GoingType' /\ SavingType' /\ WizardType'
  BY <1>1, <1>2, <1>7 DEF PageType, GoingType, SavingType, WizardType
<1>23. ItemTypes'
  <2>1. creates => Item(m) \in ({"org"} \X Orgs) \cup ({"project"} \X Projects)
    BY <1>5 DEF Item, Org, Project, Fits
  <2>2. ~creates => Item(m) \in ({"org"} \X Orgs) \cup ({"project"} \X Projects)
    BY <1>5 DEF Item, Org, Project, Fits
  <2> QED BY <1>1, <1>14, <1>15, <2>1, <2>2 DEF ItemTypes
<1>24. TypeOK'
  BY <1>4, <1>13, <1>22, <1>23, TypeParts, PTL
<1> QED BY <1>18, <1>19, <1>20, <1>21, <1>24 DEF IInv, Fit

-----------------------------------------------------------------------------
(* The theorems.                                                           *)

LEMMA InitHolds == Init => IInv
<1> SUFFICES ASSUME Init PROVE IInv
  OBVIOUS
<1>1. /\ orgs = {} /\ made = [orgs |-> 0, projects |-> 0] /\ made.orgs = 0 /\ made.projects = 0
      /\ home = [p \in Projects |-> 0] /\ changes = 0
      /\ cache = [q \in Queries |-> None] /\ read = [q \in Queries |-> None] /\ details = {}
      /\ page = To("start", 0, 0) /\ going = [to |-> To("index", 0, 0), guard |-> "session"]
      /\ saving = None /\ wizard = FirstStep /\ sure = {} /\ gone = {}
  BY DEF Init
<1>2. ServerType /\ ListTypes /\ SavingType /\ ItemTypes
  BY <1>1, Constants DEF ServerType, ListTypes, SavingType, ItemTypes
<1>3. PageType /\ PageFits /\ WizardType /\ WizardFits
  BY <1>1 DEF PageType, PageFits, PlaceFits, WizardType, WizardFits, FirstStep, To, Pages
<1>4. GoingType /\ GoingFits
  <2>1. To("index", 0, 0) \in Targets /\ To("index", 0, 0).at = "index"
    BY DEF To, Targets
  <2>2. going.to = To("index", 0, 0) /\ going.guard = "session"
    BY <1>1
  <2> QED BY <1>1, <2>1, <2>2 DEF GoingType, GoingFits, PlaceFits
<1>5. ListsFit /\ SavingFits /\ SureHolds /\ GoneHolds
  BY <1>1 DEF ListsFit, SavingFits, SureHolds, GoneHolds
<1> QED BY <1>2, <1>3, <1>4, <1>5, TypeParts DEF IInv, Fit

LEMMA NextHolds == IInv /\ [Next]_vars => IInv'
<1> SUFFICES ASSUME IInv, [Next]_vars PROVE IInv'
  OBVIOUS
<1>1. ASSUME NEW q \in Queries, Refresh(q) \/ ServeList(q) \/ Deliver(q) \/ ListFails(q) PROVE IInv'
  BY <1>1, RefreshHolds, ServeListHolds, DeliverHolds, ListFailsHolds
<1>2. CASE Visit \/ Unlock \/ Guards \/ WizardEnds
  BY <1>2, VisitHolds, UnlockHolds, GuardSessionHolds, GuardOrgsHolds, GuardOrgHolds, GuardProjectHolds, WizardEndsHolds DEF Guards
<1>3. CASE SubmitOrg \/ SubmitProject \/ SubmitDeletion
  BY <1>3, SubmitOrgHolds, SubmitProjectHolds, SubmitDeletionHolds
<1>4. CASE SaveFails \/ Answered \/ Finish
  BY <1>4, SaveFailsHolds, AnsweredHolds, FinishHolds
<1>5. CASE Elsewhere \/ Reload
  BY <1>5, ElsewhereHolds, ReloadHolds
<1>6. CASE UNCHANGED vars
  BY <1>6, StillHolds
<1> QED BY <1>1, <1>2, <1>3, <1>4, <1>5, <1>6 DEF Next

\* Nothing is ever shown, waited for or deleted with an organization it never belonged to, and
\* what this tab made or deleted shows in its lists unless it waits for them.
THEOREM Invariant == Spec => []IInv
  BY InitHolds, NextHolds, PTL DEF Spec

\* Every variable keeps its shape, and a page is shown only with the organization it belongs to.
THEOREM TypeCorrect == Spec => []TypeOK
<1>1. IInv => TypeOK
  BY DEF IInv
<1> QED BY <1>1, Invariant, PTL

\* What this tab made opens: a list decides about it only when its re-read is over, and shows it.
THEOREM CreationsOpen == Spec => []OwnCreationsOpen
<1>1. IInv => OwnCreationsOpen
  <2> SUFFICES ASSUME IInv PROVE OwnCreationsOpen
    OBVIOUS
  <2>1. /\ SureHolds /\ GoingFits /\ GoingType /\ ServerType
    BY TypeParts DEF IInv, Fit
  <2>2. ASSUME DecidesProject, Project(going.to.project) \in sure
        PROVE  going.to.project \in cache[going.to.org]
    <3> PICK p, o : p = going.to.project /\ o = going.to.org
      OBVIOUS
    <3>1. Fits(o, p) /\ cache[o] # None /\ ~Awaits(o)
      BY <2>1, <2>2 DEF DecidesProject, GoingFits, PlaceFits
    <3>2. home[p] # 0 /\ \A r \in Orgs : home[p] = r => Shows(r, p, Project(p))
      BY <2>1, <2>2, <3>1 DEF SureHolds, Fits
    <3>3. Shows(o, p, Project(p))
      BY <3>1, <3>2 DEF Fits
    <3> QED BY <3>1, <3>3 DEF Shows, Pending
  <2>3. ASSUME DecidesOrgs, cache[0] = {}, NEW o \in Orgs PROVE Org(o) \notin sure
    BY <2>1, <2>3 DEF DecidesOrgs, SureHolds, Shows, Pending
  <2> QED BY <2>2, <2>3 DEF OwnCreationsOpen
<1> QED BY <1>1, Invariant, PTL

\* What this tab deleted stays shut, for the same reason.
THEOREM DeletionsStayShut == Spec => []OwnDeletionsStayShut
<1>1. IInv => OwnDeletionsStayShut
  <2> SUFFICES ASSUME IInv PROVE OwnDeletionsStayShut
    OBVIOUS
  <2>1. GoneHolds /\ GoingFits /\ ListsFit
    BY DEF IInv, Fit
  <2>2. ASSUME DecidesProject, Project(going.to.project) \in gone
        PROVE  going.to.project \notin cache[going.to.org]
    <3> PICK p, o : p = going.to.project /\ o = going.to.org
      OBVIOUS
    <3>1. Fits(o, p) /\ cache[o] # None /\ ~Awaits(o)
      BY <2>1, <2>2 DEF DecidesProject, GoingFits, PlaceFits
    <3>2. Hides(o, p, Project(p))
      BY <2>1, <2>2, <3>1 DEF GoneHolds, Fits
    <3> QED BY <3>1, <3>2 DEF Hides, Pending
  <2>3. ASSUME DecidesOrgs, cache[0] # {} PROVE Org(Min(cache[0])) \notin gone
    <3> PICK o : o = Min(cache[0])
      OBVIOUS
    <3>1. o \in cache[0] /\ o \in Orgs /\ cache[0] # None /\ ~Awaits(0)
      BY <2>1, <2>3, ActiveType DEF DecidesOrgs
    <3>2. Org(o) \notin gone
      BY <2>1, <3>1 DEF GoneHolds, Hides, Pending
    <3> QED BY <3>2
  <2> QED BY <2>2, <2>3 DEF OwnDeletionsStayShut
<1> QED BY <1>1, Invariant, PTL

\* Nothing is deleted unless its name was typed, whatever was on show before.
THEOREM TypedFirst == Spec => []DeletionWasTyped
<1>1. IInv => DeletionWasTyped
  BY DEF IInv, Fit, SavingFits, DeletionWasTyped
<1> QED BY <1>1, Invariant, PTL

=============================================================================
