-------------------------- MODULE SecretsBoardProofs --------------------------
(***************************************************************************)
(* The secrets page, for any environments, names and numbers of writes.    *)
(* The inductive invariant says of every request under way that it is for  *)
(* a query on the page, of the page's environment, and not older than the  *)
(* tab's own writes; of the edit form that it is what the cache has; and   *)
(* of a mutation what its dialog showed when it was sent.                  *)
(***************************************************************************)
EXTENDS SecretsBoard, FiniteSetTheorems, TLAPS

-----------------------------------------------------------------------------
\* The invariant.

\* Versions of a secret tell of it.
StoreTells ==
    \A e \in Envs, n \in Names : \A i \in DOMAIN store[e][n] :
        store[e][n][i].env = e /\ store[e][n][i].name = n

\* Requests are for the queries on the page, asked for its environment.
FlyFits ==
    \A k \in Keys : fly[k] # None =>
        /\ k \in Watched(env, focus, cache)
        /\ k.query # "versions" => fly[k].env = k.env

\* A payload on its way is of its secret.
FlyTells ==
    \A e \in Envs, n \in Names :
        LET r == fly[PayloadKey(e, n)]
        IN r # None /\ r.answer # None /\ r.answer.data # None =>
               r.answer.data.env = e /\ r.answer.data.name = n

\* A write that query k must show is one that happened; histories show none.
AckedFits(k, a, c) == a <= IF k.query = "versions" THEN 0 ELSE c[k.env]

\* What is fresh, or on its way, has seen the tab's own writes.
OwnWritesSeen ==
    \A k \in Keys :
        /\ AckedFits(k, acked[k], clock)
        /\ cache[k] # None /\ cache[k].fresh => cache[k].asOf >= acked[k]
        /\ fly[k] # None /\ fly[k].answer # None => fly[k].answer.asOf >= acked[k]

\* The form is what the cache has, and the dialog has a secret; what is typed in it
\* was typed in this environment unless that changed under it.
FocusFits ==
    /\ form = FormOf(env, focus, cache)
    /\ focus.kind \in {"row", "sheet", "edit"} => focus.name \in Names
    /\ focus.kind = "none" => focus.typed = None
    /\ focus.typed # None /\ ~focus.moved => focus.typed.env = env

\* A mutation notes what its dialog showed.
PendFits ==
    /\ SavesWhatTheFormShowed
    /\ DeletesWhatWasTyped
    /\ pend # None /\ pend.op = "rollback" => pend.note \in RollbackNotes

IInv ==
    /\ TypeOK /\ StoreTells /\ ValuesOfTheirSecret
    /\ FlyFits /\ FlyTells /\ OwnWritesSeen /\ FocusFits /\ PendFits

-----------------------------------------------------------------------------
\* Keys, rows and what is shown.

LEMMA KeyNames ==
  ASSUME NEW e \in Envs, NEW n \in Names
  PROVE  /\ ListKey(e) \in Keys /\ ListKey(e).query = "list" /\ ListKey(e).env = e
         /\ PayloadKey(e, n) \in Keys /\ PayloadKey(e, n).query = "payload"
         /\ PayloadKey(e, n).env = e /\ PayloadKey(e, n).name = n
         /\ VersionsKey(n) \in Keys /\ VersionsKey(n).query = "versions"
         /\ VersionsKey(n).name = n
BY DEF Keys, ListKey, PayloadKey, VersionsKey, Key

LEMMA KeyCases ==
  ASSUME NEW k \in Keys
  PROVE  \/ k.query = "list" /\ k.env \in Envs /\ k = ListKey(k.env)
         \/ k.query = "payload" /\ k.env \in Envs /\ k.name \in Names
            /\ k = PayloadKey(k.env, k.name)
         \/ k.query = "versions" /\ k.name \in Names /\ k = VersionsKey(k.name)
BY DEF Keys, ListKey, PayloadKey, VersionsKey, Key

\* A cache in which every query has what it returns.
CacheOK(c) == DOMAIN c = Keys /\ \A k \in Keys : c[k] \in Entries(k) \cup {None}
FlyOK(r) == DOMAIN r = Keys /\ \A k \in Keys : r[k] \in Requests(k) \cup {None}
\* A dialog that can be put on the page.
FocusOK(f) ==
    f \in Focuses /\ (f.kind \in {"row", "sheet", "edit"} => f.name \in Names)

LEMMA EntryData ==
  ASSUME NEW c, CacheOK(c), NEW e \in Envs, NEW n \in Names
  PROVE  /\ c[ListKey(e)] # None => c[ListKey(e)].data \subseteq Names
         /\ c[PayloadKey(e, n)] # None => c[PayloadKey(e, n)].data \in Values
         /\ c[VersionsKey(n)] # None => c[VersionsKey(n)].data \in Histories
<1>1. c[ListKey(e)] \in Entries(ListKey(e)) \cup {None}
  BY KeyNames DEF CacheOK
<1>2. c[PayloadKey(e, n)] \in Entries(PayloadKey(e, n)) \cup {None}
  BY KeyNames DEF CacheOK
<1>3. c[VersionsKey(n)] \in Entries(VersionsKey(n)) \cup {None}
  BY KeyNames DEF CacheOK
<1>4. Answers(ListKey(e)) = SUBSET Names
  BY KeyNames DEF Answers
<1>5. Answers(PayloadKey(e, n)) = Values
  BY KeyNames DEF Answers
<1>6. Answers(VersionsKey(n)) = Histories
  BY KeyNames DEF Answers
<1> QED BY <1>1, <1>2, <1>3, <1>4, <1>5, <1>6 DEF Entries

LEMMA ListedNames ==
  ASSUME NEW c, CacheOK(c), NEW e \in Envs
  PROVE  Listed(e, c) \subseteq Names /\ \A n : SlotOf(n, e, c) \in Nat
<1>1. Listed(e, c) \subseteq Names
  <2>1. c[ListKey(e)] \in Entries(ListKey(e)) \cup {None}
    BY DEF CacheOK, Keys
  <2>2. Answers(ListKey(e)) = SUBSET Names
    BY DEF Answers, ListKey, Key
  <2> QED BY <2>1, <2>2 DEF Entries, Listed
<1>2. ASSUME NEW n PROVE SlotOf(n, e, c) \in Nat
  <2>1. IsFiniteSet({m \in Listed(e, c) : Place[m] <= Place[n]})
    BY <1>1, FS_Subset, ConstantsAssumption
  <2> QED BY <2>1, FS_CardinalityType DEF SlotOf
<1> QED BY <1>1, <1>2

\* The secret of a dialog that has one.
LEMMA TargetNamed ==
  ASSUME NEW c, CacheOK(c), NEW e \in Envs, NEW f, FocusOK(f), f.kind # "none",
         f.kind = "delete" => InSlot(f.slot, e, c) # {}
  PROVE  Target(e, f, c) \in Names
<1>1. CASE f.kind = "delete"
  <2>1. Target(e, f, c) \in InSlot(f.slot, e, c)
    BY <1>1 DEF Target
  <2> QED BY <2>1, ListedNames DEF InSlot
<1>2. CASE f.kind # "delete"
  BY <1>2 DEF Target, FocusOK, Focuses
<1> QED BY <1>1, <1>2

LEMMA ShownTyped ==
  ASSUME NEW c, CacheOK(c), NEW e \in Envs, NEW f, FocusOK(f),
         f.kind = "delete" => InSlot(f.slot, e, c) # {}
  PROVE  /\ Shown(e, f, c) # None => Shown(e, f, c).data \in Values
         /\ FormOf(e, f, c) \in Values \cup {None}
<1>1. ASSUME f.kind # "none"
      PROVE  /\ Shown(e, f, c) = c[PayloadKey(e, Target(e, f, c))]
             /\ Target(e, f, c) \in Names
  BY <1>1, TargetNamed DEF Shown
<1>2. Shown(e, f, c) # None => Shown(e, f, c).data \in Values
  BY <1>1, EntryData DEF Shown
<1> QED BY <1>2 DEF FormOf

\* A watched query is a key, of the page's environment.
LEMMA WatchedKeys ==
  ASSUME NEW c, CacheOK(c), NEW e \in Envs, NEW f, FocusOK(f),
         f.kind = "delete" => InSlot(f.slot, e, c) # {}
  PROVE  \A k \in Watched(e, f, c) :
             k \in Keys /\ (k.query # "versions" => k.env = e)
<1> SUFFICES ASSUME NEW k \in Watched(e, f, c)
             PROVE  k \in Keys /\ (k.query # "versions" => k.env = e)
  OBVIOUS
<1>1. CASE k = ListKey(e)
  BY <1>1 DEF Keys, ListKey, Key
<1>2. CASE f.kind # "none" /\ k = PayloadKey(e, Target(e, f, c))
  BY <1>2, TargetNamed, KeyNames
<1>3. CASE f.kind = "sheet" /\ k = VersionsKey(f.name)
  BY <1>3, KeyNames DEF FocusOK
<1> QED BY <1>1, <1>2, <1>3 DEF Watched

-----------------------------------------------------------------------------
\* What Render and Invalidate leave.

LEMMA Rendered ==
  ASSUME NEW e \in Envs, NEW f, FocusOK(f), NEW c, CacheOK(c), NEW r, FlyOK(r),
         Render(e, f, c, r)
  PROVE  /\ env' = e /\ cache' = c /\ FocusOK(focus') /\ focus' \in {f, NoFocus}
         /\ f.kind # "delete" => focus' = f
         /\ focus'.kind = "delete" => InSlot(focus'.slot, e, c) # {}
         /\ form' = FormOf(e, focus', c) /\ form' \in Values \cup {None}
         /\ FlyOK(fly')
         /\ \A k \in Keys : fly'[k] # None =>
                k \in Watched(e, focus', c) /\ fly'[k] \in {r[k], Asked(e)}
<1> DEFINE g == Settled(e, f, c)
           now == Watched(e, g, c)
           opened == now \ Watched(env, focus, cache)
<1>1. env' = e /\ focus' = g /\ cache' = c /\ form' = FormOf(e, g, c)
  BY DEF Render
<1>2. PICK old : fly' = Mount(e, now, opened, c, r, old)
  BY DEF Render
<1>3. FocusOK(NoFocus)
  BY DEF FocusOK, Focuses, NoFocus, At, Focus
<1>4. g \in {f, NoFocus} /\ (f.kind # "delete" => g = f)
  BY DEF Settled
<1>5. g.kind = "delete" => InSlot(g.slot, e, c) # {}
  BY DEF Settled, NoFocus, At, Focus
<1>6. FocusOK(g)
  BY <1>3, <1>4
<1>7. FormOf(e, g, c) \in Values \cup {None}
  BY <1>5, <1>6, ShownTyped
<1> HIDE DEF g, opened
<1>8. /\ DOMAIN fly' = Keys
      /\ \A k \in Keys : fly'[k] = IF k \notin now THEN None
                                ELSE IF k \in opened /\ (Stale(c, k) \/ k \in old)
                                     THEN Asked(e) ELSE r[k]
  BY <1>2 DEF Mount
<1>9. \A k \in Keys : Asked(e) \in Requests(k)
  BY DEF Asked, Request, Requests
<1> QED BY <1>1, <1>4, <1>5, <1>6, <1>7, <1>8, <1>9 DEF FlyOK

\* What is shown does not depend on what is fresh.
LEMMA SameShown ==
  ASSUME NEW c, CacheOK(c), NEW d, CacheOK(d), NEW e \in Envs, NEW f, FocusOK(f),
         f.kind = "delete" => InSlot(f.slot, e, c) # {},
         \A k \in Keys :
             /\ d[k] = None <=> c[k] = None
             /\ c[k] # None => d[k].data = c[k].data
  PROVE  /\ Watched(e, f, d) = Watched(e, f, c)
         /\ FormOf(e, f, d) = FormOf(e, f, c)
         /\ \A i : InSlot(i, e, d) = InSlot(i, e, c)
         /\ Target(e, f, d) = Target(e, f, c)
<1>1. Listed(e, d) = Listed(e, c)
  <2>1. ListKey(e) \in Keys
    BY DEF Keys
  <2> QED BY <2>1 DEF Listed
<1>2. \A i : InSlot(i, e, d) = InSlot(i, e, c)
  BY <1>1 DEF InSlot, SlotOf
<1>3. Target(e, f, d) = Target(e, f, c)
  <2>1. InSlot(f.slot, e, d) = InSlot(f.slot, e, c)
    BY <1>2
  <2> QED BY <2>1 DEF Target
<1>4. ASSUME f.kind # "none"
      PROVE  /\ Shown(e, f, d) = None <=> Shown(e, f, c) = None
             /\ Shown(e, f, c) # None => Shown(e, f, d).data = Shown(e, f, c).data
  <2>1. Target(e, f, c) \in Names
    BY <1>4, TargetNamed
  <2>2. PayloadKey(e, Target(e, f, c)) \in Keys
    BY <2>1, KeyNames
  <2>3. /\ Shown(e, f, d) = d[PayloadKey(e, Target(e, f, c))]
        /\ Shown(e, f, c) = c[PayloadKey(e, Target(e, f, c))]
    BY <1>3, <1>4 DEF Shown
  <2> QED BY <2>2, <2>3
<1>5. Watched(e, f, d) = Watched(e, f, c)
  BY <1>3, <1>4 DEF Watched
<1>6. FormOf(e, f, d) = FormOf(e, f, c)
  BY <1>4 DEF FormOf
<1> QED BY <1>2, <1>3, <1>5, <1>6

LEMMA Invalidated ==
  ASSUME TypeOK, FlyFits, FocusOK(focus), NEW K, Invalidate(K)
  PROVE  /\ CacheOK(cache') /\ FlyOK(fly')
         /\ \A k \in Keys :
                /\ cache'[k] = None <=> cache[k] = None
                /\ cache[k] # None =>
                       /\ cache'[k].data = cache[k].data
                       /\ cache'[k].asOf = cache[k].asOf
                       /\ cache'[k].fresh => cache[k].fresh /\ k \notin K
                /\ fly'[k] # None => k \in Watched(env, focus, cache)
                /\ fly'[k] \in {fly[k], Asked(env)}
                /\ k \in K /\ ~Joins(k) => fly'[k] \in {None, Asked(env)}
<1>1. DOMAIN cache' = Keys /\ \A k \in Keys : cache'[k] = Outdated(k, K)
  BY DEF Invalidate
<1>2. /\ DOMAIN fly' = Keys
      /\ \A k \in Keys : fly'[k] = IF k \in K \cap Watched(env, focus, cache) /\ ~Joins(k)
                                   THEN Asked(env) ELSE fly[k]
  BY DEF Invalidate
<1>3. \A k \in Keys : Asked(env) \in Requests(k)
  BY DEF Asked, Request, Requests, TypeOK
<1>4. ASSUME NEW k \in Keys
      PROVE  /\ cache'[k] \in Entries(k) \cup {None}
             /\ cache'[k] = None <=> cache[k] = None
             /\ cache[k] # None =>
                    /\ cache'[k].data = cache[k].data
                    /\ cache'[k].asOf = cache[k].asOf
                    /\ cache'[k].fresh => cache[k].fresh /\ k \notin K
  <2>1. cache[k] \in Entries(k) \cup {None} /\ None \notin Entries(k)
    BY NoneAssumption DEF TypeOK
  <2>2. CASE k \in K /\ cache[k] # None
    <3>1. cache'[k] = Entry(cache[k].data, cache[k].asOf, FALSE)
      BY <1>1, <2>2 DEF Outdated
    <3>2. cache'[k] \in Entries(k)
      BY <2>1, <2>2, <3>1 DEF Entry, Entries
    <3>3. /\ cache'[k].data = cache[k].data /\ cache'[k].asOf = cache[k].asOf
          /\ cache'[k].fresh = FALSE
      BY <3>1 DEF Entry
    <3> QED BY <2>1, <2>2, <3>2, <3>3
  <2>3. CASE ~(k \in K /\ cache[k] # None)
    BY <1>1, <2>1, <2>3 DEF Outdated
  <2> QED BY <2>2, <2>3
<1>5. CacheOK(cache')
  BY <1>1, <1>4 DEF CacheOK
<1>6. FlyOK(fly')
  BY <1>2, <1>3 DEF FlyOK, TypeOK
<1> QED BY <1>2, <1>4, <1>5, <1>6 DEF FlyFits

-----------------------------------------------------------------------------
\* The page.

Page ==
    /\ env \in Envs /\ CacheOK(cache) /\ FlyOK(fly)
    /\ focus \in Focuses
    /\ focus.kind = "delete" => InSlot(focus.slot, env, cache) # {}
    /\ form \in Values \cup {None}
    /\ FlyFits /\ FocusFits

LEMMA IsPage == ASSUME IInv PROVE Page /\ FocusOK(focus)
BY DEF IInv, TypeOK, Page, CacheOK, FlyOK, FocusOK, FocusFits

LEMMA RenderPage ==
  ASSUME NEW e \in Envs, NEW f, FocusOK(f), NEW c, CacheOK(c), NEW r, FlyOK(r),
         \A k \in Keys : r[k] # None /\ k.query # "versions" => r[k].env = k.env,
         f.kind = "none" => f.typed = None,
         f.typed # None /\ ~f.moved => f.typed.env = e,
         Render(e, f, c, r)
  PROVE  Page'
<1>1. /\ env' = e /\ cache' = c /\ FocusOK(focus') /\ focus' \in {f, NoFocus}
      /\ focus'.kind = "delete" => InSlot(focus'.slot, e, c) # {}
      /\ form' = FormOf(e, focus', c) /\ form' \in Values \cup {None}
      /\ FlyOK(fly')
      /\ \A k \in Keys : fly'[k] # None =>
             k \in Watched(e, focus', c) /\ fly'[k] \in {r[k], Asked(e)}
  BY Rendered
<1>2. FlyFits'
  <2> SUFFICES ASSUME NEW k \in Keys, fly'[k] # None
               PROVE  /\ k \in Watched(e, focus', c)
                      /\ k.query # "versions" => fly'[k].env = k.env
    BY <1>1 DEF FlyFits
  <2>1. k \in Watched(e, focus', c) /\ fly'[k] \in {r[k], Asked(e)}
    BY <1>1
  <2>2. k.query # "versions" => k.env = e
    BY <1>1, <2>1, WatchedKeys
  <2> QED BY <2>1, <2>2 DEF Asked, Request
<1>3. NoFocus.typed = None
  BY DEF NoFocus, At, Focus
<1>4. FocusFits'
  BY <1>1, <1>3 DEF FocusFits, FocusOK
<1> QED BY <1>1, <1>2, <1>4 DEF Page, FocusOK

LEMMA InvalidatePage ==
  ASSUME IInv, NEW K, Invalidate(K), UNCHANGED <<env, focus, form>>
  PROVE  Page'
<1>1. Page /\ FocusOK(focus) /\ TypeOK /\ FlyFits
  BY IsPage DEF IInv
<1>2. /\ CacheOK(cache') /\ FlyOK(fly')
      /\ \A k \in Keys :
             /\ cache'[k] = None <=> cache[k] = None
             /\ cache[k] # None => cache'[k].data = cache[k].data
             /\ fly'[k] # None => k \in Watched(env, focus, cache)
             /\ fly'[k] \in {fly[k], Asked(env)}
  BY <1>1, Invalidated
<1>3. /\ Watched(env, focus, cache') = Watched(env, focus, cache)
      /\ FormOf(env, focus, cache') = FormOf(env, focus, cache)
      /\ InSlot(focus.slot, env, cache') = InSlot(focus.slot, env, cache)
  BY <1>1, <1>2, SameShown DEF Page
<1>4. FlyFits'
  <2> SUFFICES ASSUME NEW k \in Keys, fly'[k] # None
               PROVE  /\ k \in Watched(env, focus, cache)
                      /\ k.query # "versions" => fly'[k].env = k.env
    BY <1>3 DEF FlyFits
  <2>1. k \in Watched(env, focus, cache) /\ fly'[k] \in {fly[k], Asked(env)}
    BY <1>2
  <2>2. k.query # "versions" => k.env = env
    BY <1>1, <2>1, WatchedKeys DEF Page
  <2> QED BY <1>1, <2>1, <2>2 DEF Asked, Request, FlyFits
<1>5. FocusFits'
  BY <1>1, <1>3 DEF FocusFits, Page
<1> QED BY <1>1, <1>2, <1>3, <1>4, <1>5 DEF Page

\* One query is asked, answered or given up; the rest of the page stays.
LEMMA FlyPage ==
  ASSUME IInv, UNCHANGED <<env, cache, focus, form>>, NEW k \in Watched(env, focus, cache),
         NEW q \in Requests(k) \cup {None}, fly' = [fly EXCEPT ![k] = q],
         q # None /\ k.query # "versions" => q.env = env
  PROVE  Page'
<1>1. Page /\ FocusOK(focus)
  BY IsPage
<1>2. k \in Keys /\ (k.query # "versions" => k.env = env)
  BY <1>1, WatchedKeys DEF Page
<1>3. FlyOK(fly')
  BY <1>1, <1>2 DEF Page, FlyOK
<1>4. FlyFits'
  BY <1>1, <1>2 DEF Page, FlyFits, FlyOK
<1>5. FocusFits'
  BY <1>1 DEF Page, FocusFits
<1> QED BY <1>1, <1>3, <1>4, <1>5 DEF Page

\* What the API answers is what the query returns.
LEMMA AnswerTyped ==
  ASSUME TypeOK, NEW k \in Keys, NEW e \in Envs
  PROVE  Answer(k, e) \in Answers(k) \cup {None}
<1>1. \A n \in Names : store[e][n] \in Seq(Values)
  BY DEF TypeOK
<1>2. CASE k.query = "list"
  BY <1>2 DEF Answer, Answers
<1>3. CASE k.query = "payload"
  <2>1. store[e][k.name] \in Seq(Values)
    BY <1>1, <1>3, KeyCases
  <2>2. store[e][k.name] # <<>> =>
            store[e][k.name][Len(store[e][k.name])] \in Values
    BY <2>1
  <2> QED BY <1>3, <2>2 DEF Answer, Answers
<1>4. CASE k.query = "versions"
  <2>1. store[e][k.name] \in Seq(Values)
    BY <1>1, <1>4, KeyCases
  <2>2. store[e][k.name] # <<>> => Len(store[e][k.name]) \in Nat \ {0}
    BY <2>1
  <2> QED BY <1>4, <2>2 DEF Answer, Answers, Histories
<1> QED BY <1>2, <1>3, <1>4, KeyCases

LEMMA StoredTyped ==
  ASSUME TypeOK, NEW k \in Keys, fly[k] # None, fly[k].answer # None
  PROVE  /\ fly[k].answer \in Replies(k)
         /\ fly[k].answer.data # None =>
                Entry(fly[k].answer.data, fly[k].answer.asOf, TRUE) \in Entries(k)
<1>1. fly[k] \in Requests(k)
  BY DEF TypeOK
<1>2. fly[k].answer \in Replies(k)
  BY <1>1 DEF Requests
<1> QED BY <1>2 DEF Replies, Entries, Entry

LEMMA NextPage == ASSUME IInv, [Next]_vars PROVE Page'
<1> USE DEF project
<1>0. Page /\ FocusOK(focus) /\ TypeOK /\ FlyFits /\ FocusFits
  BY IsPage DEF IInv
<1>a. /\ env \in Envs /\ CacheOK(cache) /\ FlyOK(fly)
      /\ \A k \in Keys : fly[k] # None /\ k.query # "versions" => fly[k].env = k.env
      /\ \A k \in Keys : fly[k] # None => k \in Watched(env, focus, cache)
  BY <1>0 DEF Page, FlyFits
<1>b. FocusOK(NoFocus) /\ NoFocus.typed = None
  BY DEF FocusOK, Focuses, NoFocus, At, Focus
<1>c. \A k \in Watched(env, focus, cache) :
          k \in Keys /\ (k.query # "versions" => k.env = env)
  BY <1>0, WatchedKeys DEF Page
<1>d. /\ focus.kind = "none" => focus.typed = None
      /\ focus.typed # None /\ ~focus.moved => focus.typed.env = env
  BY <1>0 DEF FocusFits
<1>1. ASSUME NEW k \in Keys, AnswerQuery(k) PROVE Page'
  <2> DEFINE q == Request(fly[k].env, Reply(Answer(k, fly[k].env),
                          IF k.query = "versions" THEN 0 ELSE clock[fly[k].env]))
  <2>1. fly[k] # None /\ fly' = [fly EXCEPT ![k] = q] /\ UNCHANGED <<env, cache, focus, form>>
    BY <1>1 DEF AnswerQuery
  <2>2. fly[k].env \in Envs /\ clock[fly[k].env] \in Nat
    BY <1>0, <2>1 DEF TypeOK, Requests
  <2>3. q \in Requests(k)
    BY <2>2, <1>0, AnswerTyped DEF Request, Reply, Requests, Replies
  <2>4. k \in Watched(env, focus, cache) /\ (k.query # "versions" => fly[k].env = env)
    BY <1>a, <1>c, <2>1
  <2>5. k.query # "versions" => q.env = env
    BY <2>4 DEF Request
  <2> HIDE DEF q
  <2> QED BY <2>1, <2>3, <2>4, <2>5, FlyPage
<1>2. ASSUME NEW k \in Keys, StoreAnswer(k) PROVE Page'
  <2> DEFINE a == fly[k].answer
             c == IF a.data = None THEN cache
                  ELSE [cache EXCEPT ![k] = Entry(a.data, a.asOf, TRUE)]
             r == [fly EXCEPT ![k] = None]
  <2>1. fly[k] # None /\ fly[k].answer # None /\ Render(env, focus, c, r)
    BY <1>2 DEF StoreAnswer
  <2>2. CacheOK(c)
    BY <1>0, <1>a, <2>1, StoredTyped DEF CacheOK
  <2>3. /\ FlyOK(r)
        /\ \A x \in Keys : r[x] # None /\ x.query # "versions" => r[x].env = x.env
    BY <1>a DEF FlyOK
  <2> HIDE DEF c, r
  <2> QED BY <1>0, <1>a, <1>d, <2>1, <2>2, <2>3, RenderPage
<1>3. ASSUME NEW k \in Keys, QueryFails(k) PROVE Page'
  <2>1. fly' = [fly EXCEPT ![k] = None] /\ UNCHANGED <<env, cache, focus, form>>
        /\ k \in Watched(env, focus, cache)
    BY <1>3, <1>a DEF QueryFails
  <2> QED BY <2>1, FlyPage
<1>4. ASSUME NEW k \in Keys, Refetch(k) PROVE Page'
  <2>1. fly' = [fly EXCEPT ![k] = Asked(env)] /\ UNCHANGED <<env, cache, focus, form>>
        /\ k \in Watched(env, focus, cache)
    BY <1>4 DEF Refetch
  <2>2. Asked(env) \in Requests(k) /\ Asked(env).env = env
    BY <1>a DEF Asked, Request, Requests
  <2> QED BY <2>1, <2>2, FlyPage
<1>5. ASSUME NEW e \in Envs, SwitchEnv(e) PROVE Page'
  <2>1. focus.kind = "none" /\ Render(e, focus, cache, fly)
    BY <1>5 DEF SwitchEnv
  <2> QED BY <1>0, <1>a, <1>d, <2>1, RenderPage
<1>6. ASSUME NEW e \in Envs, Hydrate(e) PROVE Page'
  <2> DEFINE f == Focus(focus.kind, focus.name, focus.slot, focus.typed, TRUE)
  <2>1. focus.kind # "none" /\ Render(e, f, cache, fly)
    BY <1>6 DEF Hydrate
  <2>2. FocusOK(f) /\ f.kind # "none" /\ f.moved
    BY <1>0, <2>1 DEF FocusOK, Focuses, Focus
  <2> HIDE DEF f
  <2> QED BY <1>a, <2>1, <2>2, RenderPage
<1>7. ASSUME NEW n \in Names, NEW kind \in {"row", "sheet", "edit"}, Open(kind, n)
      PROVE  Page'
  <2> DEFINE f == At(kind, n, 0)
  <2>1. Render(env, f, cache, fly)
    BY <1>7 DEF Open
  <2>2. FocusOK(f) /\ f.typed = None
    BY DEF FocusOK, Focuses, At, Focus
  <2> HIDE DEF f
  <2> QED BY <1>a, <2>1, <2>2, RenderPage
<1>8. ASSUME EditFromSheet PROVE Page'
  <2> DEFINE f == Focus("edit", focus.name, focus.slot, focus.typed, focus.moved)
  <2>1. focus.kind = "sheet" /\ Render(env, f, cache, fly)
    BY <1>8 DEF EditFromSheet, SheetShows
  <2>2. FocusOK(f) /\ f.kind = "edit" /\ f.typed = focus.typed /\ f.moved = focus.moved
    BY <1>0, <2>1 DEF FocusOK, Focuses, Focus
  <2> HIDE DEF f
  <2> QED BY <1>a, <1>d, <2>1, <2>2, RenderPage
<1>9. ASSUME NEW n \in Names, OpenDelete(n) PROVE Page'
  <2> DEFINE f == At("delete", None, SlotOf(n, env, cache))
  <2>1. Render(env, f, cache, fly)
    BY <1>9 DEF OpenDelete
  <2>2. FocusOK(f) /\ f.typed = None
    BY <1>a, ListedNames DEF FocusOK, Focuses, At, Focus
  <2> HIDE DEF f
  <2> QED BY <1>a, <2>1, <2>2, RenderPage
<1>10. ASSUME TypeName PROVE Page'
  <2> DEFINE typed == [env |-> env, name |-> Target(env, focus, cache)]
             f == Focus(focus.kind, focus.name, focus.slot, typed, focus.moved)
  <2>1. /\ focus.kind \in {"delete", "sheet"} /\ focus' = f
        /\ UNCHANGED <<env, cache, fly, form>>
    BY <1>10 DEF TypeName
  <2>2. Target(env, focus, cache) \in Names
    BY <1>0, <1>a, <2>1, TargetNamed DEF Page
  <2>3. typed \in Typed /\ typed.env = env
    BY <1>a, <2>2 DEF Typed
  <2> HIDE DEF typed
  <2>4. /\ FocusOK(f) /\ f.kind = focus.kind /\ f.name = focus.name
        /\ f.slot = focus.slot /\ f.typed = typed /\ f.moved = focus.moved
    BY <1>0, <2>3 DEF FocusOK, Focuses, Focus
  <2> HIDE DEF f
  <2>5. Target(env, f, cache) = Target(env, focus, cache)
    BY <2>4 DEF Target
  <2>6. Shown(env, f, cache) = Shown(env, focus, cache)
    BY <2>4, <2>5 DEF Shown
  <2>7. /\ Watched(env, f, cache) = Watched(env, focus, cache)
        /\ FormOf(env, f, cache) = FormOf(env, focus, cache)
    BY <2>4, <2>5, <2>6 DEF Watched, FormOf
  <2>8. FlyFits'
    BY <1>0, <2>1, <2>7 DEF FlyFits
  <2>9. FocusFits'
    BY <1>0, <2>1, <2>3, <2>4, <2>7 DEF FocusFits, FocusOK
  <2> QED BY <1>0, <2>1, <2>4, <2>8, <2>9 DEF Page, FocusOK
<1>11. ASSUME Close PROVE Page'
  <2>1. Render(env, NoFocus, cache, fly)
    BY <1>11 DEF Close
  <2> QED BY <1>a, <1>b, <2>1, RenderPage
<1>12. ASSUME Finish PROVE Page'
  <2> DEFINE f == IF pend.open /\ pend.op # "rollback" THEN NoFocus ELSE focus
  <2>1. Render(env, f, cache, fly)
    BY <1>12 DEF Finish
  <2>2. f \in {NoFocus, focus}
    OBVIOUS
  <2> HIDE DEF f
  <2> QED BY <1>0, <1>a, <1>b, <1>d, <2>1, <2>2, RenderPage
<1>13. ASSUME NEW S, NEW K, Post(S, K) PROVE Page'
  BY <1>13, InvalidatePage DEF Post
<1>14. ASSUME Serve PROVE Page'
  BY <1>14, InvalidatePage DEF Serve
<1>15. ASSUME UNCHANGED <<env, cache, fly, focus, form>> PROVE Page'
  BY <1>0, <1>15 DEF Page, FlyFits, FocusFits
<1>16. (\E n \in Names : Create(n)) \/ (\E S \in SUBSET Names : Import(S)) => Page'
  BY <1>13 DEF Create, Import
<1>17. \/ \E k \in Keys : AnswerQuery(k) \/ StoreAnswer(k) \/ QueryFails(k) \/ Refetch(k)
       \/ \E e \in Envs : SwitchEnv(e) \/ Hydrate(e)
       \/ \E n \in Names : \E kind \in {"row", "sheet", "edit"} : Open(kind, n)
       \/ EditFromSheet \/ TypeName \/ Close \/ Serve \/ Finish
       \/ \E n \in Names : OpenDelete(n)
       \/ (\E n \in Names : Create(n)) \/ (\E S \in SUBSET Names : Import(S))
       \/ UNCHANGED <<env, cache, fly, focus, form>>
  BY DEF Next, vars, Save, Delete, Rollback, Send, MutationFails, OthersPut, OthersDelete,
         OthersWrite
<1> QED BY <1>1, <1>2, <1>3, <1>4, <1>5, <1>6, <1>7, <1>8, <1>9, <1>10, <1>11, <1>12,
           <1>14, <1>15, <1>16, <1>17

-----------------------------------------------------------------------------
\* The project and what the tab has heard of it.

Project ==
    /\ store \in [Envs -> [Names -> Seq(Values)]]
    /\ clock \in [Envs -> Nat]
    /\ acked \in [Keys -> Nat]
    /\ StoreTells
    /\ \A k \in Keys : AckedFits(k, acked[k], clock)

LEMMA IsProject == ASSUME IInv PROVE Project
BY DEF IInv, TypeOK, Project, OwnWritesSeen

\* A value added to the versions of a secret, or what is left of none.
LEMMA Appended ==
  ASSUME NEW e \in Envs, NEW n \in Names, NEW s \in Seq(Values), NEW v \in Values,
         \A i \in DOMAIN s : s[i].env = e /\ s[i].name = n,
         v.env = e, v.name = n
  PROVE  /\ Append(s, v) \in Seq(Values)
         /\ \A i \in DOMAIN Append(s, v) :
                Append(s, v)[i].env = e /\ Append(s, v)[i].name = n
<1>1. Append(s, v) \in Seq(Values) /\ DOMAIN Append(s, v) = 1 .. Len(s) + 1
  OBVIOUS
<1>2. \A i \in 1 .. Len(s) + 1 : Append(s, v)[i] = IF i <= Len(s) THEN s[i] ELSE v
  OBVIOUS
<1>3. \A i \in 1 .. Len(s) + 1 : i <= Len(s) => i \in DOMAIN s
  OBVIOUS
<1> QED BY <1>1, <1>2, <1>3

\* The clock of e goes on, and the tab may have heard of writes to e.
LEMMA ClockGoesOn ==
  ASSUME Project, NEW e \in Envs, NEW S \in SUBSET Names, NEW at \in Nat, clock[e] <= at,
         clock' = [clock EXCEPT ![e] = at],
         acked' = acked \/ Hears(e, S, at)
  PROVE  /\ clock' \in [Envs -> Nat] /\ acked' \in [Keys -> Nat]
         /\ \A k \in Keys : AckedFits(k, acked'[k], clock')
<1>1. clock' \in [Envs -> Nat] /\ \A x \in Envs : clock'[x] = IF x = e THEN at ELSE clock[x]
  BY DEF Project
<1>2. /\ acked' \in [Keys -> Nat]
      /\ \A k \in Keys : acked'[k] = acked[k] \/ (k \in Telling(e, S) /\ acked'[k] = at)
  BY DEF Project, Hears
<1>3. \A k \in Telling(e, S) : k.query # "versions" /\ k.env = e
  BY DEF Telling, ListKey, PayloadKey, Key
<1>4. ASSUME NEW k \in Keys PROVE AckedFits(k, acked'[k], clock')
  <2>1. acked[k] \in Nat /\ AckedFits(k, acked[k], clock)
    BY DEF Project
  <2>2. k.query # "versions" => k.env \in Envs /\ clock[k.env] \in Nat
    BY KeyCases DEF Project
  <2>3. CASE acked'[k] = acked[k]
    BY <1>1, <2>1, <2>2, <2>3 DEF AckedFits
  <2>4. CASE k \in Telling(e, S) /\ acked'[k] = at
    BY <1>1, <1>3, <2>4 DEF AckedFits
  <2> QED BY <1>2, <2>3, <2>4
<1> QED BY <1>1, <1>2, <1>4

LEMMA StorePut ==
  ASSUME Project, NEW e \in Envs, NEW n \in Names, NEW s \in Seq(Values), NEW at \in Nat,
         \A i \in DOMAIN s : s[i].env = e /\ s[i].name = n,
         clock[e] <= at,
         store' = [store EXCEPT ![e] = [store[e] EXCEPT ![n] = s]],
         clock' = [clock EXCEPT ![e] = at],
         acked' = acked \/ Hears(e, {n}, at)
  PROVE  Project'
<1>1. store' \in [Envs -> [Names -> Seq(Values)]]
  BY DEF Project
<1>2. /\ clock' \in [Envs -> Nat] /\ acked' \in [Keys -> Nat]
      /\ \A k \in Keys : AckedFits(k, acked'[k], clock')
  BY ClockGoesOn
<1>3. ASSUME NEW x \in Envs, NEW y \in Names, NEW i \in DOMAIN store'[x][y]
      PROVE  store'[x][y][i].env = x /\ store'[x][y][i].name = y
  <2>1. store'[x][y] = IF x = e /\ y = n THEN s ELSE store[x][y]
    BY DEF Project
  <2> QED BY <1>3, <2>1 DEF Project, StoreTells
<1> QED BY <1>1, <1>2, <1>3 DEF Project, StoreTells

\* What the request of a mutation leaves of its secret.
LEMMA WrittenFits ==
  ASSUME IInv, pend # None, ~Refused, NEW at \in Nat \ {0}
  PROVE  LET s == Written(pend.env, pend.name, at)
         IN /\ s \in Seq(Values)
            /\ \A i \in DOMAIN s : s[i].env = pend.env /\ s[i].name = pend.name
<1> DEFINE e == pend.env
           n == pend.name
           old == store[e][n]
<1>1. e \in Envs /\ n \in Names
  BY DEF IInv, TypeOK, Mutations
<1>2. old \in Seq(Values) /\ \A i \in DOMAIN old : old[i].env = e /\ old[i].name = n
  BY <1>1, IsProject DEF Project, StoreTells
<1>3. CASE pend.op = "delete"
  BY <1>3 DEF Written
<1>4. CASE pend.op = "rollback"
  <2>1. pend.note \in RollbackNotes /\ pend.note.version < Len(old)
    BY <1>4, <1>2 DEF IInv, PendFits, Refused, RollbackNotes
  <2>2. pend.note.version \in DOMAIN old
    BY <1>2, <2>1, ConstantsAssumption DEF RollbackNotes
  <2> DEFINE v == old[pend.note.version]
  <2>3. v \in Values /\ v.env = e /\ v.name = n
    BY <1>2, <2>2
  <2>4. Written(e, n, at) = Append(old, v)
    BY <1>4 DEF Written
  <2> HIDE DEF v, old
  <2> QED BY <1>1, <1>2, <2>3, <2>4, Appended
<1>5. CASE pend.op \notin {"delete", "rollback"}
  <2> DEFINE v == [env |-> e, name |-> n, at |-> at]
  <2>1. v \in Values /\ v.env = e /\ v.name = n
    BY <1>1 DEF Values
  <2>2. Written(e, n, at) = Append(old, v)
    BY <1>5 DEF Written
  <2> HIDE DEF v
  <2> QED BY <1>1, <1>2, <2>1, <2>2, Appended
<1> QED BY <1>3, <1>4, <1>5

LEMMA NextProject == ASSUME IInv, [Next]_vars PROVE Project'
<1> USE DEF project
<1>0. Project /\ TypeOK
  BY IsProject DEF IInv
<1>1. CASE Serve
  <2> DEFINE e == pend.env
             n == pend.name
             at == clock[e] + 1
             s == Written(e, n, at)
  <2>1. /\ pend # None /\ ~Refused
        /\ store' = [store EXCEPT ![e] = [store[e] EXCEPT ![n] = s]]
        /\ clock' = [clock EXCEPT ![e] = at]
        /\ Hears(e, {n}, at)
    BY <1>1 DEF Serve
  <2>2. e \in Envs /\ n \in Names
    BY <1>0, <2>1 DEF TypeOK, Mutations
  <2>3. clock[e] \in Nat /\ at \in Nat \ {0} /\ clock[e] <= at
    BY <1>0, <2>2 DEF Project
  <2>4. s \in Seq(Values) /\ \A i \in DOMAIN s : s[i].env = e /\ s[i].name = n
    BY <2>1, <2>3, WrittenFits
  <2> HIDE DEF e, n, at, s
  <2> QED BY <1>0, <2>1, <2>2, <2>3, <2>4, StorePut
<1>2. ASSUME NEW e \in Envs, NEW n \in Names, OthersPut(e, n) PROVE Project'
  <2> DEFINE v == [env |-> e, name |-> n, at |-> clock[e] + 1]
             s == Append(store[e][n], v)
  <2>1. /\ store' = [store EXCEPT ![e] = [store[e] EXCEPT ![n] = s]]
        /\ clock' = [clock EXCEPT ![e] = clock[e] + 1]
        /\ acked' = acked
    BY <1>2 DEF OthersPut, OthersWrite
  <2>2. clock[e] \in Nat
    BY <1>0 DEF Project
  <2>3. v \in Values /\ v.env = e /\ v.name = n
    BY <2>2 DEF Values
  <2> HIDE DEF v
  <2>4. s \in Seq(Values) /\ \A i \in DOMAIN s : s[i].env = e /\ s[i].name = n
    BY <1>0, <2>3, Appended DEF Project, StoreTells
  <2> HIDE DEF s
  <2>5. clock[e] + 1 \in Nat /\ clock[e] <= clock[e] + 1
    BY <2>2
  <2> QED BY <1>0, <2>1, <2>4, <2>5, StorePut
<1>3. ASSUME NEW e \in Envs, NEW n \in Names, OthersDelete(e, n) PROVE Project'
  <2>1. /\ store' = [store EXCEPT ![e] = [store[e] EXCEPT ![n] = <<>>]]
        /\ clock' = [clock EXCEPT ![e] = clock[e] + 1]
        /\ acked' = acked
    BY <1>3 DEF OthersDelete, OthersWrite
  <2>2. clock[e] \in Nat
    BY <1>0 DEF Project
  <2>3. <<>> \in Seq(Values) /\ DOMAIN <<>> = {}
    OBVIOUS
  <2>4. clock[e] + 1 \in Nat /\ clock[e] <= clock[e] + 1
    BY <2>2
  <2> QED BY <1>0, <2>1, <2>3, <2>4, StorePut
<1>4. ASSUME NEW S \in SUBSET Names, NEW K, Post(S, K) PROVE Project'
  <2> DEFINE at == clock[env] + Cardinality(S)
             created(n) == <<[env |-> env, name |-> n, at |-> at]>>
  <2>1. /\ clock' = [clock EXCEPT ![env] = at]
        /\ store' = [store EXCEPT ![env] =
               [n \in Names |-> IF n \in S THEN created(n) ELSE store[env][n]]]
        /\ Hears(env, S, at)
    BY <1>4 DEF Post
  <2>2. env \in Envs /\ clock[env] \in Nat
    BY <1>0 DEF TypeOK
  <2>3. Cardinality(S) \in Nat /\ (S # {} => Cardinality(S) # 0)
    BY ConstantsAssumption, FS_Subset, FS_CardinalityType, FS_EmptySet
  <2>4. at \in Nat /\ clock[env] <= at /\ (S # {} => at # 0)
    BY <2>2, <2>3
  <2> HIDE DEF at
  <2>5. ASSUME NEW n \in S
        PROVE  /\ created(n) \in Seq(Values) /\ DOMAIN created(n) = {1}
               /\ created(n)[1].env = env /\ created(n)[1].name = n
    <3>1. [env |-> env, name |-> n, at |-> at] \in Values
      BY <2>2, <2>4 DEF Values
    <3> QED BY <3>1
  <2> HIDE DEF created
  <2>6. store' \in [Envs -> [Names -> Seq(Values)]]
    BY <1>0, <2>1, <2>2, <2>5 DEF Project
  <2>8. /\ clock' \in [Envs -> Nat] /\ acked' \in [Keys -> Nat]
        /\ \A k \in Keys : AckedFits(k, acked'[k], clock')
    BY <1>0, <2>1, <2>2, <2>4, ClockGoesOn
  <2>7. ASSUME NEW x \in Envs, NEW y \in Names
        PROVE  \A i \in DOMAIN store'[x][y] :
                   store'[x][y][i].env = x /\ store'[x][y][i].name = y
    <3>1. store'[x][y] = IF x = env /\ y \in S THEN created(y) ELSE store[x][y]
      BY <1>0, <2>1 DEF Project
    <3> QED BY <1>0, <2>5, <3>1 DEF Project, StoreTells
  <2> QED BY <2>6, <2>7, <2>8 DEF Project, StoreTells
<1>5. CASE UNCHANGED <<store, clock, acked>>
  BY <1>0, <1>5 DEF Project, StoreTells
<1>6. ASSUME NEW n \in Names, Create(n) PROVE Project'
  BY <1>4, <1>6 DEF Create
<1>7. ASSUME NEW S \in SUBSET Names, Import(S) PROVE Project'
  BY <1>4, <1>7 DEF Import
<1>8. \/ Serve \/ UNCHANGED <<store, clock, acked>>
      \/ \E e \in Envs, n \in Names : OthersPut(e, n) \/ OthersDelete(e, n)
      \/ \E n \in Names : Create(n)
      \/ \E S \in SUBSET Names : Import(S)
  BY DEF Next, vars, AnswerQuery, StoreAnswer, QueryFails, Refetch, SwitchEnv, Hydrate, Open,
         EditFromSheet, OpenDelete, TypeName, Close, Save, Delete, Rollback, Send,
         MutationFails, Finish
<1> QED BY <1>1, <1>2, <1>3, <1>5, <1>6, <1>7, <1>8

-----------------------------------------------------------------------------
\* What is cached and on its way.

\* Cached payloads are of their secret, and what is fresh has seen the tab's writes.
CacheGood(c) ==
    /\ \A e \in Envs, n \in Names :
           c[PayloadKey(e, n)] # None =>
               c[PayloadKey(e, n)].data.env = e /\ c[PayloadKey(e, n)].data.name = n
    /\ \A k \in Keys : c[k] # None /\ c[k].fresh => c[k].asOf >= acked[k]

\* So is and has what the API answered.
ReplyGood(k, a) ==
    /\ \A e \in Envs, n \in Names :
           k = PayloadKey(e, n) /\ a.data # None => a.data.env = e /\ a.data.name = n
    /\ a.asOf >= acked[k]

FlyGood(r) ==
    \A k \in Keys : r[k] # None /\ r[k].answer # None => ReplyGood(k, r[k].answer)

Good == CacheGood(cache) /\ FlyGood(fly)

LEMMA IsGood == ASSUME IInv PROVE Good
<1>1. CacheGood(cache)
  BY DEF IInv, CacheGood, ValuesOfTheirSecret, OwnWritesSeen
<1>2. ASSUME NEW k \in Keys, fly[k] # None, fly[k].answer # None
      PROVE  ReplyGood(k, fly[k].answer)
  BY <1>2 DEF IInv, ReplyGood, FlyTells, OwnWritesSeen
<1> QED BY <1>1, <1>2 DEF Good, FlyGood

LEMMA GoodSays ==
  ASSUME Good, Project PROVE ValuesOfTheirSecret /\ FlyTells /\ OwnWritesSeen
<1>1. ASSUME NEW e \in Envs, NEW n \in Names
      PROVE  /\ ListKey(e) \in Keys /\ PayloadKey(e, n) \in Keys
             /\ \A k \in {ListKey(e), PayloadKey(e, n)} :
                    fly[k] # None /\ fly[k].answer # None => ReplyGood(k, fly[k].answer)
  BY KeyNames DEF Good, FlyGood
<1>2. ValuesOfTheirSecret
  BY DEF Good, CacheGood, ValuesOfTheirSecret
<1>3. FlyTells
  BY <1>1 DEF ReplyGood, FlyTells
<1>4. OwnWritesSeen
  <2>1. \A k \in Keys : fly[k] # None /\ fly[k].answer # None => fly[k].answer.asOf >= acked[k]
    BY DEF Good, FlyGood, ReplyGood
  <2>2. \A k \in Keys : cache[k] # None /\ cache[k].fresh => cache[k].asOf >= acked[k]
    BY DEF Good, CacheGood
  <2>3. \A k \in Keys : AckedFits(k, acked[k], clock)
    BY DEF Project
  <2> QED BY <2>1, <2>2, <2>3 DEF OwnWritesSeen
<1> QED BY <1>2, <1>3, <1>4

\* The page is shown again with what is good.
LEMMA RenderGood ==
  ASSUME NEW e \in Envs, NEW f, FocusOK(f), NEW c, CacheOK(c), NEW r, FlyOK(r),
         CacheGood(c), FlyGood(r), Render(e, f, c, r), UNCHANGED acked
  PROVE  Good'
<1>1. cache' = c /\ \A k \in Keys : fly'[k] # None => fly'[k] \in {r[k], Asked(e)}
  BY Rendered
<1>2. CacheGood(cache)'
  BY <1>1 DEF CacheGood
<1>3. ASSUME NEW k \in Keys, fly'[k] # None, fly'[k].answer # None
      PROVE  ReplyGood(k, fly[k].answer)'
  <2>1. fly'[k] = r[k]
    BY <1>1, <1>3 DEF Asked, Request
  <2>2. ReplyGood(k, r[k].answer)
    BY <1>3, <2>1 DEF FlyGood
  <2> QED BY <2>1, <2>2 DEF ReplyGood
<1> QED BY <1>2, <1>3 DEF Good, FlyGood

\* After a write to e what is under its prefix is neither fresh nor answered, except
\* for first loads, of which nothing new is asked.
LEMMA InvalidateGood ==
  ASSUME IInv, NEW K, Invalidate(K), NEW e \in Envs, Prefix(e) \subseteq K,
         NEW S \in SUBSET Names, NEW at, Hears(e, S, at)
  PROVE  Good'
<1>0. Good /\ TypeOK /\ FlyFits /\ FocusOK(focus)
  BY IsGood, IsPage DEF IInv
<1>1. \A k \in Keys :
          /\ cache'[k] = None <=> cache[k] = None
          /\ cache[k] # None =>
                 /\ cache'[k].data = cache[k].data
                 /\ cache'[k].asOf = cache[k].asOf
                 /\ cache'[k].fresh => cache[k].fresh /\ k \notin K
          /\ fly'[k] \in {fly[k], Asked(env)}
          /\ k \in K /\ ~Joins(k) => fly'[k] \in {None, Asked(env)}
  BY <1>0, Invalidated
<1>2. Asked(env).answer = None
  BY DEF Asked, Request
<1>3. \A k \in Keys : acked'[k] = acked[k] \/ (k \in K /\ ~Joins(k))
  BY DEF Hears, Telling, Prefix
<1>4. ASSUME NEW x \in Envs, NEW n \in Names, cache'[PayloadKey(x, n)] # None
      PROVE  /\ cache'[PayloadKey(x, n)].data.env = x
             /\ cache'[PayloadKey(x, n)].data.name = n
  <2>1. PayloadKey(x, n) \in Keys
    BY KeyNames
  <2> QED BY <1>0, <1>1, <1>4, <2>1 DEF Good, CacheGood
<1>5. ASSUME NEW k \in Keys, cache'[k] # None, cache'[k].fresh
      PROVE  cache'[k].asOf >= acked'[k]
  <2>1. cache[k] # None /\ cache[k].fresh /\ cache'[k].asOf = cache[k].asOf /\ k \notin K
    BY <1>1, <1>5
  <2> QED BY <1>0, <1>3, <2>1 DEF Good, CacheGood
<1>6. ASSUME NEW k \in Keys, fly'[k] # None, fly'[k].answer # None
      PROVE  ReplyGood(k, fly[k].answer)'
  <2>1. fly'[k] = fly[k] /\ ~(k \in K /\ ~Joins(k))
    BY <1>1, <1>2, <1>6
  <2>2. acked'[k] = acked[k] /\ ReplyGood(k, fly[k].answer)
    BY <1>0, <1>3, <1>6, <2>1 DEF Good, FlyGood
  <2> QED BY <2>1, <2>2 DEF ReplyGood
<1> QED BY <1>4, <1>5, <1>6 DEF Good, CacheGood, FlyGood

LEMMA NextGood == ASSUME IInv, [Next]_vars PROVE Good'
<1> USE DEF project
<1>0. Good /\ Page /\ FocusOK(focus) /\ TypeOK /\ Project
  BY IsGood, IsPage, IsProject DEF IInv
<1>a. env \in Envs /\ CacheOK(cache) /\ FlyOK(fly) /\ CacheGood(cache) /\ FlyGood(fly)
  BY <1>0 DEF Page, Good
<1>b. FocusOK(NoFocus)
  BY DEF FocusOK, Focuses, NoFocus, At, Focus
<1>1. ASSUME NEW k \in Keys, AnswerQuery(k) PROVE Good'
  <2> DEFINE e == fly[k].env
             a == Reply(Answer(k, e), IF k.query = "versions" THEN 0 ELSE clock[e])
  <2>1. fly[k] # None /\ fly' = [fly EXCEPT ![k] = Request(e, a)] /\ UNCHANGED <<cache, acked>>
    BY <1>1 DEF AnswerQuery
  <2>2. e \in Envs /\ (k.query # "versions" => e = k.env)
    BY <1>0, <2>1 DEF TypeOK, Requests, Page, FlyFits
  <2>3. ASSUME NEW x \in Envs, NEW n \in Names, k = PayloadKey(x, n), a.data # None
        PROVE  a.data.env = x /\ a.data.name = n
    <3>1. k.query = "payload" /\ k.env = x /\ k.name = n
      BY <2>3, KeyNames
    <3>2. e = x /\ a.data = Answer(k, x)
      BY <2>2, <3>1 DEF Reply
    <3>3. store[x][n] \in Seq(Values)
      BY <1>0 DEF Project
    <3>4. store[x][n] # <<>> /\ a.data = store[x][n][Len(store[x][n])]
      BY <2>3, <3>1, <3>2 DEF Answer
    <3>5. Len(store[x][n]) \in DOMAIN store[x][n]
      BY <3>3, <3>4
    <3> QED BY <1>0, <3>4, <3>5 DEF Project, StoreTells
  <2>4. a.asOf >= acked[k]
    <3>1. a.asOf = IF k.query = "versions" THEN 0 ELSE clock[k.env]
      BY <2>2 DEF Reply
    <3>2. acked[k] \in Nat /\ AckedFits(k, acked[k], clock)
      BY <1>0 DEF Project
    <3>3. k.query # "versions" => clock[k.env] \in Nat
      BY <1>0, <2>2 DEF Project
    <3> HIDE DEF a
    <3> QED BY <3>1, <3>2, <3>3 DEF AckedFits
  <2>5. ReplyGood(k, a)
    BY <2>3, <2>4 DEF ReplyGood
  <2> HIDE DEF a, e
  <2>6. FlyGood(fly')
    BY <1>a, <2>1, <2>5 DEF FlyGood, FlyOK, Request
  <2>7. Good'
    BY <1>a, <2>1, <2>6 DEF Good, CacheGood, FlyGood, ReplyGood
  <2> QED BY <2>7
<1>2. ASSUME NEW k \in Keys, StoreAnswer(k) PROVE Good'
  <2> DEFINE a == fly[k].answer
             c == IF a.data = None THEN cache
                  ELSE [cache EXCEPT ![k] = Entry(a.data, a.asOf, TRUE)]
             r == [fly EXCEPT ![k] = None]
  <2>1. /\ fly[k] # None /\ fly[k].answer # None
        /\ Render(env, focus, c, r) /\ UNCHANGED acked
    BY <1>2 DEF StoreAnswer
  <2>2. CacheOK(c)
    BY <1>0, <1>a, <2>1, StoredTyped DEF CacheOK
  <2>3. FlyOK(r) /\ FlyGood(r)
    BY <1>a DEF FlyOK, FlyGood
  <2>4. ReplyGood(k, a)
    BY <1>a, <2>1 DEF FlyGood
  <2>5. CacheGood(c)
    <3>1. CASE a.data = None
      BY <1>a, <3>1
    <3>2. CASE a.data # None
      <4> DEFINE entry == Entry(a.data, a.asOf, TRUE)
      <4>1. entry.data = a.data /\ entry.asOf = a.asOf
        BY DEF Entry
      <4> HIDE DEF entry, a
      <4>2. c = [cache EXCEPT ![k] = entry]
        BY <3>2 DEF entry
      <4>3. \A x \in Keys : c[x] = IF x = k THEN entry ELSE cache[x]
        BY <1>a, <4>2 DEF CacheOK
      <4> HIDE DEF c
      <4>4. ASSUME NEW e \in Envs, NEW n \in Names
            PROVE  ListKey(e) \in Keys /\ PayloadKey(e, n) \in Keys
        BY KeyNames
      <4> QED BY <1>a, <2>4, <3>2, <4>1, <4>3, <4>4 DEF CacheGood, ReplyGood
    <3> QED BY <3>1, <3>2
  <2> HIDE DEF c, r
  <2> QED BY <1>0, <1>a, <2>1, <2>2, <2>3, <2>5, RenderGood
<1>3. ASSUME NEW k \in Keys, QueryFails(k) \/ Refetch(k) PROVE Good'
  <2>1. /\ fly' \in {[fly EXCEPT ![k] = None], [fly EXCEPT ![k] = Asked(env)]}
        /\ UNCHANGED <<cache, acked>>
    BY <1>3 DEF QueryFails, Refetch
  <2>2. Asked(env).answer = None
    BY DEF Asked, Request
  <2>3. FlyGood(fly')
    BY <1>a, <2>1, <2>2 DEF FlyGood, FlyOK
  <2> QED BY <1>a, <2>1, <2>3 DEF Good, CacheGood, FlyGood, ReplyGood
<1>4. ASSUME NEW e \in Envs, NEW f, FocusOK(f), Render(e, f, cache, fly), UNCHANGED acked
      PROVE  Good'
  BY <1>a, <1>4, RenderGood
<1>5. ASSUME NEW e \in Envs, SwitchEnv(e) \/ Hydrate(e) PROVE Good'
  <2> DEFINE f == Focus(focus.kind, focus.name, focus.slot, focus.typed, TRUE)
  <2>1. FocusOK(f)
    BY <1>0 DEF FocusOK, Focuses, Focus
  <2>2. (Render(e, f, cache, fly) \/ Render(e, focus, cache, fly)) /\ UNCHANGED acked
    BY <1>5 DEF SwitchEnv, Hydrate
  <2> HIDE DEF f
  <2> QED BY <1>0, <1>4, <2>1, <2>2
<1>6. ASSUME NEW n \in Names, NEW kind \in {"row", "sheet", "edit"}, Open(kind, n)
      PROVE  Good'
  <2> DEFINE f == At(kind, n, 0)
  <2>1. Render(env, f, cache, fly) /\ UNCHANGED acked
    BY <1>6 DEF Open
  <2>2. FocusOK(f)
    BY DEF FocusOK, Focuses, At, Focus
  <2> HIDE DEF f
  <2> QED BY <1>a, <1>4, <2>1, <2>2
<1>7. ASSUME EditFromSheet PROVE Good'
  <2> DEFINE f == Focus("edit", focus.name, focus.slot, focus.typed, focus.moved)
  <2>1. focus.kind = "sheet" /\ Render(env, f, cache, fly) /\ UNCHANGED acked
    BY <1>7 DEF EditFromSheet, SheetShows
  <2>2. FocusOK(f)
    BY <1>0, <2>1 DEF FocusOK, Focuses, Focus
  <2> HIDE DEF f
  <2> QED BY <1>a, <1>4, <2>1, <2>2
<1>8. ASSUME NEW n \in Names, OpenDelete(n) PROVE Good'
  <2> DEFINE f == At("delete", None, SlotOf(n, env, cache))
  <2>1. Render(env, f, cache, fly) /\ UNCHANGED acked
    BY <1>8 DEF OpenDelete
  <2>2. FocusOK(f)
    BY <1>a, ListedNames DEF FocusOK, Focuses, At, Focus
  <2> HIDE DEF f
  <2> QED BY <1>a, <1>4, <2>1, <2>2
<1>9. ASSUME Close \/ Finish PROVE Good'
  <2>1. (Render(env, NoFocus, cache, fly) \/ Render(env, focus, cache, fly)) /\ UNCHANGED acked
    BY <1>9 DEF Close, Finish
  <2> QED BY <1>0, <1>a, <1>b, <1>4, <2>1
<1>10. CASE Serve
  <2>1. /\ pend # None
        /\ \E K : Prefix(pend.env) \subseteq K /\ Invalidate(K)
        /\ Hears(pend.env, {pend.name}, clock[pend.env] + 1)
    BY <1>10 DEF Serve
  <2>2. pend.env \in Envs
    BY <1>0, <2>1 DEF TypeOK, Mutations
  <2>3. pend.name \in Names
    BY <1>0, <2>1 DEF TypeOK, Mutations
  <2> QED BY <2>1, <2>2, <2>3, InvalidateGood
<1>11. ASSUME NEW S \in SUBSET Names, NEW K, Post(S, K), Prefix(env) \subseteq K PROVE Good'
  <2>1. Invalidate(K) /\ Hears(env, S, clock[env] + Cardinality(S))
    BY <1>11 DEF Post
  <2> QED BY <1>a, <1>11, <2>1, InvalidateGood
<1>12. ASSUME NEW n \in Names, Create(n) PROVE Good'
  BY <1>11, <1>12 DEF Create
<1>13. ASSUME NEW S \in SUBSET Names, Import(S) PROVE Good'
  <2>1. Prefix(env) \subseteq UNION {Prefix(e) : e \in Envs}
    BY <1>a
  <2> QED BY <1>11, <1>13, <2>1 DEF Import
<1>14. CASE UNCHANGED <<cache, fly, acked>>
  BY <1>a, <1>14 DEF Good, CacheGood, FlyGood, ReplyGood
<1>15. \/ \E k \in Keys : AnswerQuery(k) \/ StoreAnswer(k) \/ QueryFails(k) \/ Refetch(k)
       \/ \E e \in Envs : SwitchEnv(e) \/ Hydrate(e)
       \/ \E n \in Names : \E kind \in {"row", "sheet", "edit"} : Open(kind, n)
       \/ EditFromSheet \/ Close \/ Serve \/ Finish
       \/ (\E n \in Names : OpenDelete(n)) \/ (\E n \in Names : Create(n))
       \/ (\E S \in SUBSET Names : Import(S))
       \/ UNCHANGED <<cache, fly, acked>>
  BY DEF Next, vars, Save, Delete, Rollback, Send, MutationFails, OthersPut, OthersDelete,
         OthersWrite, TypeName
<1> QED BY <1>1, <1>2, <1>3, <1>5, <1>6, <1>7, <1>8, <1>9, <1>10, <1>12, <1>13, <1>14, <1>15

-----------------------------------------------------------------------------
\* Mutations.

Pending == pend \in Mutations \cup {None} /\ PendFits

LEMMA SendPending ==
  ASSUME NEW op \in Actions, NEW n \in Names, env \in Envs,
         NEW note \in SaveNotes \cup DeleteNotes \cup RollbackNotes,
         Send(op, n, note),
         op = "save" => note.base = note.known /\ note.base.env = env,
         op = "delete" => n = note.typed.name /\ (note.moved \/ note.typed.env = env),
         op = "rollback" => note \in RollbackNotes
  PROVE  Pending'
<1> DEFINE m == Mutation(op, env, n, note, "sent", TRUE)
<1>1. pend' = m
  BY DEF Send
<1>2. m \in Mutations /\ m.op = op /\ m.env = env /\ m.name = n /\ m.note = note
  BY DEF Mutation, Mutations
<1> HIDE DEF m
<1> QED BY <1>1, <1>2 DEF Pending, PendFits, SavesWhatTheFormShowed, DeletesWhatWasTyped

LEMMA SamePending ==
  ASSUME Pending, pend # None, NEW phase \in {"sent", "settled"}, NEW open \in BOOLEAN,
         pend' = Mutation(pend.op, pend.env, pend.name, pend.note, phase, open)
  PROVE  Pending'
<1> DEFINE m == Mutation(pend.op, pend.env, pend.name, pend.note, phase, open)
<1>1. m \in Mutations
  BY DEF Pending, Mutation, Mutations
<1>2. m.op = pend.op /\ m.env = pend.env /\ m.name = pend.name /\ m.note = pend.note
  BY DEF Mutation
<1> HIDE DEF m
<1>3. pend' = m
  BY DEF m
<1> QED BY <1>1, <1>2, <1>3
        DEF Pending, PendFits, SavesWhatTheFormShowed, DeletesWhatWasTyped

LEMMA NextPending == ASSUME IInv, [Next]_vars PROVE Pending'
<1>0. Pending /\ Page /\ FocusOK(focus) /\ TypeOK /\ FocusFits /\ ValuesOfTheirSecret
  BY IsPage DEF IInv, TypeOK, Pending
<1>a. /\ env \in Envs /\ CacheOK(cache)
      /\ focus.kind = "delete" => InSlot(focus.slot, env, cache) # {}
  BY <1>0 DEF Page
<1>1. CASE Save
  <2> DEFINE note == [base |-> form, known |-> Shown(env, focus, cache).data]
  <2>1. /\ focus.kind = "edit" /\ form # None /\ "save" \in Actions
        /\ Send("save", focus.name, note)
    BY <1>1 DEF Save, Send
  <2>2. focus.name \in Names /\ form = FormOf(env, focus, cache) /\ form \in Values
    BY <1>0, <2>1 DEF FocusFits, TypeOK
  <2>3. /\ Shown(env, focus, cache) # None /\ form = Shown(env, focus, cache).data
        /\ Shown(env, focus, cache) = cache[PayloadKey(env, focus.name)]
    BY <2>1, <2>2 DEF FormOf, Shown, Target
  <2>4. form.env = env
    BY <1>0, <1>a, <2>2, <2>3 DEF ValuesOfTheirSecret
  <2>5. note \in SaveNotes /\ note.base = form /\ note.known = form
    BY <2>2, <2>3 DEF SaveNotes
  <2> HIDE DEF note
  <2> QED BY <1>a, <2>1, <2>2, <2>4, <2>5, SendPending
<1>2. CASE Delete
  <2> DEFINE note == [typed |-> focus.typed, moved |-> focus.moved]
             n == Target(env, focus, cache)
  <2>1. /\ focus.kind \in {"delete", "sheet"} /\ focus.typed # None /\ focus.typed.name = n
        /\ "delete" \in Actions /\ Send("delete", n, note)
    BY <1>2 DEF Delete, Confirmed, Send
  <2>2. n \in Names
    BY <1>0, <1>a, <2>1, TargetNamed
  <2>3. focus.typed \in Typed /\ focus.moved \in BOOLEAN
    BY <1>0, <2>1 DEF FocusOK, Focuses
  <2>4. note \in DeleteNotes /\ note.typed = focus.typed /\ note.moved = focus.moved
    BY <2>3 DEF DeleteNotes
  <2>5. focus.moved \/ focus.typed.env = env
    BY <1>0, <2>1 DEF FocusFits
  <2> HIDE DEF note, n
  <2> QED BY <1>a, <2>1, <2>2, <2>4, <2>5, SendPending
<1>3. ASSUME NEW v \in 1 .. MaxVersion, Rollback(v) PROVE Pending'
  <2> DEFINE note == [version |-> v]
  <2>1. focus.kind = "sheet" /\ "rollback" \in Actions /\ Send("rollback", focus.name, note)
    BY <1>3 DEF Rollback, SheetShows, Send
  <2>2. focus.name \in Names /\ note \in RollbackNotes
    BY <1>0, <2>1 DEF FocusFits, RollbackNotes
  <2> HIDE DEF note
  <2> QED BY <1>a, <2>1, <2>2, SendPending
<1>4. CASE Serve
  <2>1. pend # None /\ pend.open \in BOOLEAN
    BY <1>0, <1>4 DEF Serve, Pending, Mutations
  <2> QED BY <1>0, <1>4, <2>1, SamePending DEF Serve
<1>5. CASE Close
  <2>1. CASE pend = None
    BY <1>5, <2>1 DEF Close, Pending, PendFits, SavesWhatTheFormShowed, DeletesWhatWasTyped
  <2>2. CASE pend # None
    <3>1. /\ pend.phase \in {"sent", "settled"} /\ FALSE \in BOOLEAN
          /\ pend' = Mutation(pend.op, pend.env, pend.name, pend.note, pend.phase, FALSE)
      BY <1>0, <1>5, <2>2 DEF Close, Pending, Mutations
    <3> QED BY <1>0, <2>2, <3>1, SamePending
  <2> QED BY <2>1, <2>2
<1>6. CASE pend' = None
  BY <1>6 DEF Pending, PendFits, SavesWhatTheFormShowed, DeletesWhatWasTyped
<1>7. CASE UNCHANGED pend
  BY <1>0, <1>7 DEF Pending, PendFits, SavesWhatTheFormShowed, DeletesWhatWasTyped
<1>8. \/ Save \/ Delete \/ Serve \/ Close \/ pend' = None \/ UNCHANGED pend
      \/ \E v \in 1 .. MaxVersion : Rollback(v)
  BY DEF Next, vars, AnswerQuery, StoreAnswer, QueryFails, Refetch, SwitchEnv, Hydrate, Open,
         EditFromSheet, OpenDelete, TypeName, MutationFails, Finish, Create, Import, Post,
         OthersPut, OthersDelete, OthersWrite
<1> QED BY <1>1, <1>2, <1>3, <1>4, <1>5, <1>6, <1>7, <1>8

-----------------------------------------------------------------------------
\* The theorems.

LEMMA Parts == ASSUME Page, Project, Good, Pending PROVE IInv
<1>1. TypeOK
  BY DEF Page, Project, Pending, CacheOK, FlyOK, TypeOK
<1>2. StoreTells /\ FlyFits /\ FocusFits /\ PendFits
  BY DEF Page, Project, Pending
<1>3. ValuesOfTheirSecret /\ FlyTells /\ OwnWritesSeen
  BY GoodSays
<1> QED BY <1>1, <1>2, <1>3 DEF IInv

LEMMA Start == Init => IInv
<1> SUFFICES ASSUME Init PROVE IInv
  OBVIOUS
<1>1. NoFocus.kind = "none" /\ NoFocus.typed = None /\ FocusOK(NoFocus)
  BY DEF FocusOK, Focuses, NoFocus, At, Focus
<1>2. \A k \in Keys :
          Asked(env) \in Requests(k) /\ Asked(env).env = env /\ Asked(env).answer = None
  BY DEF Init, Asked, Request, Requests
<1>3. ListKey(env) \in Watched(env, focus, cache) /\ ListKey(env).env = env
  BY DEF Watched, ListKey, Key
<1>4. /\ env \in Envs /\ focus = NoFocus /\ form = None /\ pend = None
      /\ CacheOK(cache) /\ \A k \in Keys : cache[k] = None
      /\ FlyOK(fly) /\ \A k \in Keys : fly[k] = IF k = ListKey(env) THEN Asked(env) ELSE None
  BY <1>2 DEF Init, CacheOK, FlyOK
<1>5. Page
  BY <1>1, <1>2, <1>3, <1>4 DEF Page, FlyFits, FocusFits, FormOf, FocusOK
<1>6. Project
  <2>1. ASSUME NEW e \in Envs, NEW n \in Names
        PROVE  /\ store[e][n] \in Seq(Values)
               /\ \A i \in DOMAIN store[e][n] :
                      store[e][n][i].env = e /\ store[e][n][i].name = n
    <3> DEFINE old == [i \in 1 .. 2 |-> [env |-> e, name |-> n, at |-> i]]
    <3>1. old \in Seq(Values) /\ DOMAIN old = 1 .. 2
      <4>1. \A i \in 1 .. 2 : [env |-> e, name |-> n, at |-> i] \in Values
        BY DEF Values
      <4> QED BY <4>1
    <3>2. \A i \in DOMAIN old : old[i].env = e /\ old[i].name = n
      OBVIOUS
    <3> HIDE DEF old
    <3>3. store[e][n] = IF <<e, n>> \in Old THEN old ELSE <<>>
      BY DEF Init, old
    <3> QED BY <3>1, <3>2, <3>3
  <2>2. /\ DOMAIN store = Envs /\ store = [e \in Envs |-> store[e]]
        /\ \A e \in Envs : store[e] = [n \in Names |-> store[e][n]]
    BY DEF Init
  <2>3. store \in [Envs -> [Names -> Seq(Values)]]
    BY <2>1, <2>2
  <2>4. clock \in [Envs -> Nat] /\ acked \in [Keys -> Nat]
    BY DEF Init
  <2>5. ASSUME NEW k \in Keys PROVE AckedFits(k, acked[k], clock)
    <3>1. acked[k] = 0 /\ (k.query # "versions" => clock[k.env] \in Nat)
      BY <2>4, KeyCases DEF Init
    <3> QED BY <3>1 DEF AckedFits
  <2> QED BY <2>1, <2>3, <2>4, <2>5 DEF Project, StoreTells
<1>7. Good
  <2>1. \A e \in Envs, n \in Names : ListKey(e) \in Keys /\ PayloadKey(e, n) \in Keys
    BY KeyNames
  <2> QED BY <1>2, <1>4, <2>1 DEF Good, CacheGood, FlyGood
<1>8. Pending
  BY <1>4 DEF Pending, PendFits, SavesWhatTheFormShowed, DeletesWhatWasTyped
<1> QED BY <1>5, <1>6, <1>7, <1>8, Parts

LEMMA Kept == IInv /\ [Next]_vars => IInv'
<1> SUFFICES ASSUME IInv, [Next]_vars PROVE IInv'
  OBVIOUS
<1>1. Page' /\ Project' /\ Good' /\ Pending'
  BY NextPage, NextProject, NextGood, NextPending
<1>2. (Page /\ Project /\ Good /\ Pending => IInv)'
  BY Parts, PTL
<1> QED BY <1>1, <1>2

\* Every variable keeps its type: the cache holds under a key what that query
\* returns, and a delete dialog stands on a row there is.
THEOREM TypeCorrect == Spec => []TypeOK
<1>1. IInv => TypeOK
  BY DEF IInv
<1> QED BY <1>1, Start, Kept, PTL DEF Spec

\* A decrypted value shown for a secret is one it had in the environment it is
\* shown for (secretPayloadQueryOptions).
THEOREM OwnValues == Spec => []ValuesOfTheirSecret
<1>1. IInv => ValuesOfTheirSecret
  BY DEF IInv
<1> QED BY <1>1, Start, Kept, PTL DEF Spec

\* What counts as fresh was read after the tab's own latest finished write of the
\* secrets it tells of, except that a query loading for the first time may lack the
\* writes that finish meanwhile (onSuccess of the mutations).
THEOREM OwnWrites == Spec => []OwnWritesShow
<1>1. IInv => OwnWritesShow
  BY DEF IInv, OwnWritesSeen, OwnWritesShow
<1> QED BY <1>1, Start, Kept, PTL DEF Spec

\* An edit that is saved started from the newest version this tab has read, in the
\* environment it is saved to (EditSecretDialog).
THEOREM Saves == Spec => []SavesWhatTheFormShowed
<1>1. IInv => SavesWhatTheFormShowed
  BY DEF IInv, PendFits
<1> QED BY <1>1, Start, Kept, PTL DEF Spec

\* What is deleted is the secret whose name was typed, in the environment it was
\* typed in unless the preferences changed that under the dialog
\* (DeleteSecretButton).
THEOREM Deletes == Spec => []DeletesWhatWasTyped
<1>1. IInv => DeletesWhatWasTyped
  BY DEF IInv, PendFits
<1> QED BY <1>1, Start, Kept, PTL DEF Spec

=============================================================================
