----------------------------- MODULE AuditProofs -----------------------------
(***************************************************************************)
(* Proofs about the audit log: AuditTrail, for any number of events, any   *)
(* size of a batch, any calendar whose months have a day, any number of    *)
(* faults and starts, and AuditPage, for any filters, any size of a page,  *)
(* any number of rows and edits.                                           *)
(*                                                                         *)
(* Every event of the trail has one place: with its request, on the list,  *)
(* in the batch, held by a drain, in a row, lost or expired.  That the     *)
(* places exclude each other, that the list and the rows hold an event     *)
(* once, and that together they hold every answered request is inductive,  *)
(* and the sum of their sizes follows from it.  That a steady server loses *)
(* nothing rests on the passes being one month ahead of the rows at every  *)
(* midnight.                                                               *)
(***************************************************************************)
EXTENDS AuditTrail, AuditPage, FiniteSetTheorems, WellFoundedInduction, TLAPS

----------------------------------------------------------------------------
(* The inductive invariants.                                               *)

Held == {held} \ {0}

\* The types, without the length of the list, which follows from Places.
Types ==
    /\ today \in [month : 0..LastMonth, day : Nat \ {0}]
    /\ today.day <= MonthLength(today.month)
    /\ partitions \subseteq Months /\ swept \in BOOLEAN
    /\ rows \subseteq [event : Events, month : 0..LastMonth]
    /\ api \in {"up", "stopping", "down"} /\ worker \in {"loop", "brpop", "gone"}
    /\ queue \in Seq(Events)
    /\ answered \subseteq Events /\ batch \subseteq Events
    /\ lost \subseteq Events /\ expired \subseteq Events
    /\ held \in 0..MaxEvents /\ next \in 1..(MaxEvents + 1)
    /\ faults \in 0..MaxFaults /\ starts \in 0..MaxStarts /\ uneven \in BOOLEAN
    /\ Cardinality(batch) < BatchSize
    /\ api = "down" => worker = "gone" /\ held = 0 /\ batch = {} /\ answered = {}

\* The places A to G of the events hold 1..n, each of them once.
Apart(A, B, C, D, E, F, G, n) ==
    /\ A \cap (B \cup C \cup D \cup E \cup F \cup G) = {}
    /\ B \cap (C \cup D \cup E \cup F \cup G) = {}
    /\ C \cap (D \cup E \cup F \cup G) = {}
    /\ D \cap (E \cup F \cup G) = {}
    /\ E \cap (F \cup G) = {}
    /\ F \cap G = {}
    /\ A \cup B \cup C \cup D \cup E \cup F \cup G = 1..n

\* The events of a list and of a set of rows.
Listed(q) == {q[k] : k \in DOMAIN q}
EventsOf(R) == {r.event : r \in R}

\* No event is twice on a list, or has two rows.
NoneTwice(q) == \A j, k \in DOMAIN q : q[j] = q[k] => j = k
OneRowEach(R) == \A q, r \in R : q.event = r.event => q = r

Places ==
    /\ Apart(answered, Listed(queue), batch, Held, EventsOf(rows), lost, expired, next - 1)
    /\ NoneTwice(queue)
    /\ OneRowEach(rows)

\* On a steady server a stopping process holds no request, the rows of today
\* have a partition, and so will those of the first of the next month.
Ahead ==
    /\ faults = 0 /\ api = "stopping" => answered = {} /\ held = 0
    /\ faults = 0 /\ ~uneven /\ api # "down" =>
           /\ today.month \in partitions
           /\ swept \/ ~InEveryMonth(today.day) => today.month + 1 \in partitions
    /\ faults = 0 /\ ~uneven => lost = {}

----------------------------------------------------------------------------
(* Lists, rows and dates.                                                  *)

LEMMA ListAppended ==
  ASSUME NEW q \in Seq(Events), NEW e \in Events, NoneTwice(q), e \notin Listed(q)
  PROVE  /\ Append(q, e) \in Seq(Events) /\ NoneTwice(Append(q, e))
         /\ Listed(Append(q, e)) = Listed(q) \cup {e}
<1> DEFINE p == Append(q, e)
<1>1. /\ p \in Seq(Events) /\ DOMAIN p = 1..(Len(q) + 1) /\ DOMAIN q = 1..Len(q)
      /\ Len(q) \in Nat /\ p[Len(q) + 1] = e /\ \A k \in DOMAIN q : p[k] = q[k]
  OBVIOUS
<1> HIDE DEF p
<1>2. NoneTwice(p) /\ Listed(p) = Listed(q) \cup {e}
  BY <1>1 DEF NoneTwice, Listed
<1> QED BY <1>1, <1>2 DEF p

LEMMA HeadTaken ==
  ASSUME NEW q \in Seq(Events), q # <<>>, NoneTwice(q)
  PROVE  /\ Head(q) \in Events /\ Tail(q) \in Seq(Events) /\ NoneTwice(Tail(q))
         /\ Head(q) \notin Listed(Tail(q)) /\ Listed(q) = {Head(q)} \cup Listed(Tail(q))
<1> DEFINE p == Tail(q)
<1>1. /\ p \in Seq(Events) /\ DOMAIN p = 1..(Len(q) - 1) /\ DOMAIN q = 1..Len(q)
      /\ Len(q) \in Nat \ {0} /\ Head(q) = q[1] /\ \A k \in DOMAIN p : p[k] = q[k + 1]
  OBVIOUS
<1>2. \A j, k \in DOMAIN q : q[j] = q[k] => j = k
  BY DEF NoneTwice
<1>3. q[1] \in Events
  BY <1>1
<1> HIDE DEF p
<1>4. NoneTwice(p)
  BY <1>1, <1>2 DEF NoneTwice
<1>5. Head(q) \notin Listed(p)
  BY <1>1, <1>2 DEF Listed
<1>6. \A k \in DOMAIN q \ {1} : k - 1 \in DOMAIN p /\ q[k] = p[k - 1]
  BY <1>1
<1>7. Listed(q) = {Head(q)} \cup Listed(p)
  BY <1>1, <1>6 DEF Listed
<1> QED BY <1>1, <1>3, <1>4, <1>5, <1>7 DEF p

LEMMA RowsAdded ==
  ASSUME NEW R, OneRowEach(R), NEW S, NEW m, S \cap EventsOf(R) = {}
  PROVE  LET Q == R \cup [event : S, month : {m}]
         IN  OneRowEach(Q) /\ EventsOf(Q) = EventsOf(R) \cup S
<1> DEFINE N == [event : S, month : {m}]
           Q == R \cup N
<1>1. \A r \in N : r.event \in S
  OBVIOUS
<1>2. \A q, r \in N : q.event = r.event => q = r
  OBVIOUS
<1>3. \A e \in S : \E r \in N : r.event = e
  <2> SUFFICES ASSUME NEW e \in S PROVE \E r \in N : r.event = e
    OBVIOUS
  <2> WITNESS [event |-> e, month |-> m] \in N
  <2> QED OBVIOUS
<1> HIDE DEF N
<1>4. OneRowEach(Q)
  BY <1>1, <1>2 DEF OneRowEach, EventsOf
<1>5. EventsOf(Q) = EventsOf(R) \cup S
  BY <1>1, <1>3 DEF EventsOf
<1> QED BY <1>4, <1>5 DEF N

\* A flush writes all of S or forgets all of it.
LEMMA Flushed ==
  ASSUME Types, OneRowEach(rows), NEW S \in SUBSET Events, NEW gone \in SUBSET Events,
         S \cap EventsOf(rows) = {}, Flush(S, gone)
  PROVE  /\ rows' \subseteq [event : Events, month : 0..LastMonth]
         /\ faults' \in 0..MaxFaults /\ lost' \subseteq Events
         /\ OneRowEach(rows')
         /\ \E W \in SUBSET S : /\ EventsOf(rows') = EventsOf(rows) \cup W
                                /\ lost' = lost \cup (S \ W) \cup gone
<1> USE ConstantsAssumption DEF Types
<1>1. CASE Inserted(S, gone)
  <2> DEFINE N == [event : S, month : {today.month}]
  <2>1. rows' = rows \cup N
    BY <1>1 DEF Inserted
  <2>2. OneRowEach(rows') /\ EventsOf(rows') = EventsOf(rows) \cup S
    BY <2>1, RowsAdded
  <2>3. N \subseteq [event : Events, month : 0..LastMonth]
    OBVIOUS
  <2>4. lost' = lost \cup gone /\ faults' = faults
    BY <1>1 DEF Inserted
  <2> QED BY <2>1, <2>2, <2>3, <2>4
<1>2. CASE ~Inserted(S, gone)
  <2>1. rows' = rows /\ lost' = lost \cup S \cup gone
    BY <1>2 DEF Flush, InsertFails
  <2>2. faults' \in 0..MaxFaults
    <3>1. faults' = faults \/ (faults < MaxFaults /\ faults' = faults + 1)
      BY <1>2 DEF Flush, InsertFails, Fault
    <3>2. faults \in Nat /\ MaxFaults \in Nat /\ faults <= MaxFaults
      OBVIOUS
    <3> HIDE DEF Types
    <3> QED BY <3>1, <3>2
  <2>3. S \ {} = S /\ {} \in SUBSET S
    OBVIOUS
  <2> QED BY <2>1, <2>2, <2>3
<1> QED BY <1>1, <1>2

LEMMA MonthsHaveDays ==
  ASSUME NEW m \in Int
  PROVE  MonthLength(m) \in Nat \ {0} /\ (m % Len(Lengths)) + 1 \in DOMAIN Lengths
<1>1. Len(Lengths) \in Nat \ {0} /\ DOMAIN Lengths = 1..Len(Lengths)
  BY ConstantsAssumption
<1>2. (m % Len(Lengths)) + 1 \in DOMAIN Lengths
  BY <1>1
<1> QED BY <1>2, ConstantsAssumption DEF MonthLength

LEMMA DatesCreated ==
  ASSUME NEW d \in [month : 0..LastMonth, day : Nat \ {0}], d.day <= MonthLength(d.month)
  PROVE  /\ CreatedBy(d) \subseteq Months
         /\ d.month \in CreatedBy(d)
         /\ InEveryMonth(d.day) => d.month + 1 \in CreatedBy(d)
<1>0. CreateAhead \in Nat \ {0} /\ LastMonth \in Nat /\ d.month \in 0..LastMonth
  BY ConstantsAssumption
<1>1. \A i \in 0..CreateAhead : AddMonths(d, i).month \in {d.month + i, d.month + i + 1}
  BY <1>0 DEF AddMonths
<1>2. CreatedBy(d) \subseteq Months
  <2> SUFFICES ASSUME NEW i \in 0..CreateAhead PROVE AddMonths(d, i).month \in Months
    BY DEF CreatedBy
  <2>1. d.month + i \in Months /\ d.month + i + 1 \in Months
    BY <1>0 DEF Months
  <2> QED BY <1>1, <2>1
<1>3. AddMonths(d, 0).month = d.month
  BY <1>0 DEF AddMonths
<1>4. d.month \in CreatedBy(d)
  BY <1>0, <1>3 DEF CreatedBy
<1>5. ASSUME InEveryMonth(d.day) PROVE d.month + 1 \in CreatedBy(d)
  <2>1. Len(Lengths) \in Nat \ {0} /\ DOMAIN Lengths = 1..Len(Lengths)
    BY ConstantsAssumption
  <2>2. ((d.month + 1) % Len(Lengths)) + 1 \in DOMAIN Lengths
    BY <1>0, <2>1
  <2>3. d.day <= MonthLength(d.month + 1)
    BY <1>5, <2>1, <2>2 DEF InEveryMonth, MonthLength
  <2>4. AddMonths(d, 1).month = d.month + 1
    BY <1>0, <2>3 DEF AddMonths
  <2> QED BY <1>0, <2>4 DEF CreatedBy
<1> QED BY <1>2, <1>4, <1>5

\* What the pass of a day drops lies RetainMonths back, where that month has the
\* day, and in the past on every day.
LEMMA DatesDropped ==
  ASSUME NEW d \in [month : 0..LastMonth, day : Nat \ {0}], NEW m \in DroppedBy(d)
  PROVE  /\ m \in Int /\ m < d.month
         /\ d.day <= MonthLength(d.month - RetainMonths) => m <= d.month - RetainMonths
<1>1. PICK i \in RetainMonths..(RetainMonths + ScanBack - 1) : m = AddMonths(d, -i).month
  BY DEF DroppedBy
<1>2. /\ RetainMonths \in Nat \ {0, 1} /\ i \in Nat /\ i >= RetainMonths /\ d.month \in Nat
  BY <1>1, ConstantsAssumption
<1>3. m \in {d.month - i, d.month - i + 1}
  BY <1>1 DEF AddMonths
<1>4. ASSUME i = RetainMonths, d.day <= MonthLength(d.month - RetainMonths)
      PROVE  m = d.month - RetainMonths
  <2>1. d.day <= MonthLength(d.month + (-i))
    BY <1>4, <1>2
  <2>2. m = d.month + (-i)
    BY <2>1, <1>1 DEF AddMonths
  <2> QED BY <2>2, <1>2, <1>4
<1>5. m \in Int /\ m < d.month
  BY <1>2, <1>3
<1>6. ASSUME d.day <= MonthLength(d.month - RetainMonths)
      PROVE  m <= d.month - RetainMonths
  <2>1. CASE i = RetainMonths
    BY <1>4, <1>6, <2>1, <1>2
  <2>2. CASE i # RetainMonths
    <3>1. i > RetainMonths
      BY <1>2, <2>2
    <3> QED BY <1>2, <1>3, <3>1
  <2> QED BY <2>1, <2>2
<1> QED BY <1>5, <1>6

----------------------------------------------------------------------------
(* Types and places.                                                       *)

LEMMA InitPlaces == Init => Types /\ Places
<1> SUFFICES ASSUME Init PROVE Types /\ Places
  OBVIOUS
<1>1. Cardinality({}) = 0
  BY FS_EmptySet
<1>2. /\ MaxEvents \in Nat \ {0} /\ BatchSize \in Nat \ {0} /\ CreateAhead \in Nat \ {0}
      /\ LastMonth \in Nat /\ MaxStarts \in Nat /\ MaxFaults \in Nat
  BY ConstantsAssumption
<1>3. Types
  <2>1. today \in [month : 0..LastMonth, day : Nat \ {0}] /\ today.day <= MonthLength(today.month)
    <3>1. MonthLength(0) \in Nat \ {0}
      BY MonthsHaveDays
    <3>2. PICK d \in 1..MonthLength(0) : today = [month |-> 0, day |-> d]
      BY DEF Init
    <3> QED BY <1>2, <3>1, <3>2
  <2>2. uneven \in BOOLEAN
    BY DEF Init
  <2>3. queue \in Seq(Events) /\ 0 \in Months /\ partitions \subseteq Months
    BY <1>2 DEF Init, Months
  <2>4. /\ rows = {} /\ swept = FALSE /\ api = "up" /\ worker = "loop" /\ answered = {}
        /\ batch = {} /\ held = 0 /\ next = 1 /\ faults = 0 /\ starts = 0
        /\ lost = {} /\ expired = {}
    BY DEF Init
  <2>5. /\ Cardinality(batch) < BatchSize /\ held \in 0..MaxEvents /\ next \in 1..(MaxEvents + 1)
        /\ faults \in 0..MaxFaults /\ starts \in 0..MaxStarts
    BY <1>1, <1>2, <2>4
  <2>6. rows \subseteq [event : Events, month : 0..LastMonth] /\ swept \in BOOLEAN
    BY <2>4
  <2> QED BY <2>1, <2>2, <2>3, <2>4, <2>5, <2>6 DEF Types
<1>4. Listed(queue) = {} /\ EventsOf(rows) = {} /\ Held = {} /\ 1..(next - 1) = {}
  BY DEF Init, Listed, EventsOf, Held
<1>5. Places
  BY <1>4 DEF Init, Places, Apart, NoneTwice, OneRowEach
<1> QED BY <1>3, <1>5

\* What a step does to the list, the batch, the requests and the drain.
LEMMA NextPlaces == Types /\ Places /\ [Next]_vars => Types' /\ Places'
<1> SUFFICES ASSUME Types, Places, [Next]_vars PROVE Types' /\ Places'
  OBVIOUS
<1>0. /\ MaxEvents \in Nat \ {0} /\ BatchSize \in Nat \ {0} /\ CreateAhead \in Nat \ {0}
      /\ LastMonth \in Nat /\ MaxStarts \in Nat /\ MaxFaults \in Nat
      /\ Cardinality({}) = 0
  BY ConstantsAssumption, FS_EmptySet
<1> USE <1>0 DEF timeVars, processVars
<1>1. ASSUME Answer PROVE Types' /\ Places'
  <2>1. next \in Events /\ next' = next + 1 /\ answered' = answered \cup {next}
    BY <1>1 DEF Answer, Types, Events
  <2>2. 1..next = (1..(next - 1)) \cup {next} /\ next \notin 1..(next - 1)
    BY <2>1 DEF Events
  <2>3. next' - 1 = next
    BY <2>1 DEF Events
  <2>4. Types'
    BY <1>1, <2>1 DEF Answer, Types, Events
  <2>5. Places'
    BY <1>1, <2>1, <2>2, <2>3 DEF Answer, Places, Apart, Held
  <2> QED BY <2>4, <2>5
<1>2. ASSUME NEW e \in answered, Emit(e) PROVE Types' /\ Places'
  <2>1. e \in Events /\ e \notin Listed(queue) /\ queue \in Seq(Events) /\ NoneTwice(queue)
    BY DEF Types, Places, Apart
  <2>2. /\ queue' \in Seq(Events) /\ NoneTwice(queue') /\ Listed(queue') = Listed(queue) \cup {e}
    BY <1>2, <2>1, ListAppended DEF Emit
  <2>3. Types'
    BY <1>2, <2>2 DEF Emit, Types
  <2>4. Places'
    BY <1>2, <2>2 DEF Emit, Places, Apart, Held
  <2> QED BY <2>3, <2>4
<1>3. ASSUME NEW e \in answered, EmitFails(e) PROVE Types' /\ Places'
  <2>1. Types'
    BY <1>3 DEF EmitFails, Fault, Types
  <2>2. Places'
    BY <1>3 DEF EmitFails, Places, Apart, Held
  <2> QED BY <2>1, <2>2
<1>4. ASSUME WorkerWaits PROVE Types' /\ Places'
  <2>1. Types'
    BY <1>4 DEF WorkerWaits, Types
  <2>2. Places'
    BY <1>4 DEF WorkerWaits, Places, Held
  <2> QED BY <2>1, <2>2
<1>5. ASSUME Pop PROVE Types' /\ Places'
  <2> DEFINE e == Head(queue)
             full == batch \cup {e}
  <2>1. queue \in Seq(Events) /\ queue # <<>> /\ NoneTwice(queue) /\ queue' = Tail(queue)
    BY <1>5 DEF Pop, Types, Places
  <2>2. /\ e \in Events /\ queue' \in Seq(Events) /\ NoneTwice(queue')
        /\ e \notin Listed(queue') /\ Listed(queue) = {e} \cup Listed(queue')
    BY <2>1, HeadTaken
  <2>3. full \in SUBSET Events /\ full \cap EventsOf(rows) = {}
    BY <2>2 DEF Types, Places, Apart
  <2>4. Cardinality(full) \in Nat
    <3>1. IsFiniteSet(Events)
      BY FS_Interval DEF Events
    <3> QED BY <2>3, <3>1, FS_Subset, FS_CardinalityType
  <2>5. CASE Cardinality(full) >= BatchSize
    <3>1. Flush(full, {}) /\ batch' = {}
      BY <1>5, <2>5 DEF Pop
    <3>2. PICK W \in SUBSET full : /\ EventsOf(rows') = EventsOf(rows) \cup W
                                   /\ lost' = lost \cup (full \ W) \cup {}
      BY <2>3, <3>1, Flushed DEF Places
    <3>3. /\ rows' \subseteq [event : Events, month : 0..LastMonth] /\ OneRowEach(rows')
          /\ faults' \in 0..MaxFaults /\ lost' \subseteq Events
      BY <2>3, <3>1, Flushed DEF Places
    <3> HIDE DEF full
    <3>4. Types'
      BY <1>5, <2>2, <3>1, <3>3 DEF Pop, Types
    <3>5. /\ answered' = answered /\ Held' = Held /\ expired' = expired /\ next' = next
          /\ full = batch \cup {e}
      BY <1>5 DEF Pop, Held, full
    <3>6. Places'
      BY <2>2, <3>1, <3>2, <3>3, <3>5 DEF Places, Apart
    <3> QED BY <3>4, <3>6
  <2>6. CASE ~(Cardinality(full) >= BatchSize)
    <3>1. batch' = full /\ UNCHANGED <<rows, lost, faults>>
      BY <1>5, <2>6 DEF Pop
    <3>2. Types'
      BY <1>5, <2>2, <2>3, <2>4, <2>6, <3>1 DEF Pop, Types
    <3>3. Places'
      BY <1>5, <2>2, <3>1 DEF Pop, Places, Apart, Held
    <3> QED BY <3>2, <3>3
  <2> QED BY <2>5, <2>6
<1>6. ASSUME PopTimesOut PROVE Types' /\ Places'
  <2>1. Types'
    BY <1>6 DEF PopTimesOut, Types
  <2>2. Places'
    BY <1>6 DEF PopTimesOut, Places, Held
  <2> QED BY <2>1, <2>2
<1>7. ASSUME WorkerStops PROVE Types' /\ Places'
  <2>1. batch \in SUBSET Events /\ batch \cap EventsOf(rows) = {} /\ InProcess \in SUBSET Events
    BY <1>7 DEF WorkerStops, Types, Places, Apart, Held, InProcess, Events
  <2>2. Flush(batch, InProcess) /\ answered' = {} /\ held' = 0 /\ batch' = {}
    BY <1>7 DEF WorkerStops, Ended
  <2>3. PICK W \in SUBSET batch : /\ EventsOf(rows') = EventsOf(rows) \cup W
                                /\ lost' = lost \cup (batch \ W) \cup InProcess
    BY <2>1, <2>2, Flushed DEF Places
  <2>4. /\ rows' \subseteq [event : Events, month : 0..LastMonth] /\ OneRowEach(rows')
        /\ faults' \in 0..MaxFaults /\ lost' \subseteq Events
    BY <2>1, <2>2, Flushed DEF Places
  <2>5. UNCHANGED <<queue, expired, next>>
    BY <1>7 DEF WorkerStops, Ended
  <2>6. Types'
    BY <1>7, <2>2, <2>4 DEF WorkerStops, Ended, Types
  <2>7. Places'
    BY <2>2, <2>3, <2>4, <2>5 DEF Places, Apart, Held, InProcess
  <2> QED BY <2>6, <2>7
<1>8. ASSUME TimerFlush PROVE Types' /\ Places'
  <2>1. batch \in SUBSET Events /\ batch \cap EventsOf(rows) = {} /\ {} \in SUBSET Events
    BY <1>8 DEF TimerFlush, Types, Places, Apart, Held, InProcess, Events
  <2>2. Flush(batch, {}) /\ batch' = {}
    BY <1>8 DEF TimerFlush, Ended
  <2>3. PICK W \in SUBSET batch : /\ EventsOf(rows') = EventsOf(rows) \cup W
                                /\ lost' = lost \cup (batch \ W) \cup {}
    BY <2>1, <2>2, Flushed DEF Places
  <2>4. /\ rows' \subseteq [event : Events, month : 0..LastMonth] /\ OneRowEach(rows')
        /\ faults' \in 0..MaxFaults /\ lost' \subseteq Events
    BY <2>1, <2>2, Flushed DEF Places
  <2>5. UNCHANGED <<answered, held, queue, expired, next>>
    BY <1>8 DEF TimerFlush, Ended
  <2>6. Types'
    BY <1>8, <2>2, <2>4 DEF TimerFlush, Ended, Types
  <2>7. Places'
    BY <2>2, <2>3, <2>4, <2>5 DEF Places, Apart, Held, InProcess
  <2> QED BY <2>6, <2>7
<1>9. ASSUME DrainPops PROVE Types' /\ Places'
  <2> DEFINE e == Head(queue)
  <2>1. queue \in Seq(Events) /\ queue # <<>> /\ NoneTwice(queue) /\ queue' = Tail(queue)
    BY <1>9 DEF DrainPops, Types, Places
  <2>2. /\ e \in Events /\ queue' \in Seq(Events) /\ NoneTwice(queue')
        /\ e \notin Listed(queue') /\ Listed(queue) = {e} \cup Listed(queue')
    BY <2>1, HeadTaken
  <2>3. held = 0 /\ held' = e /\ api = "up"
    BY <1>9 DEF DrainPops
  <2> HIDE DEF e
  <2>4. Types'
    <3>1. held' \in 0..MaxEvents /\ queue' \in Seq(Events)
      BY <2>2, <2>3 DEF Events
    <3>2. UNCHANGED <<timeVars, rows, processVars, answered, batch, next, faults, lost,
                      expired, uneven>>
      BY <1>9 DEF DrainPops
    <3> QED BY <2>3, <3>1, <3>2 DEF Types, timeVars, processVars
  <2>5. Held = {} /\ Held' = {e}
    BY <2>2, <2>3 DEF Held, Events
  <2>6. UNCHANGED <<answered, batch, rows, lost, expired, next>>
    BY <1>9 DEF DrainPops
  <2>7. Places'
    BY <2>2, <2>5, <2>6 DEF Places, Apart
  <2> QED BY <2>4, <2>7
<1>10. ASSUME DrainFlushes PROVE Types' /\ Places'
  <2>1. /\ {held} = Held /\ Held' = {} /\ {held} \in SUBSET Events
        /\ {held} \cap EventsOf(rows) = {} /\ {} \in SUBSET Events
    BY <1>10 DEF DrainFlushes, Types, Places, Apart, Held, Events
  <2>2. Flush({held}, {}) /\ held' = 0
    BY <1>10 DEF DrainFlushes
  <2>3. PICK W \in SUBSET {held} : /\ EventsOf(rows') = EventsOf(rows) \cup W
                                   /\ lost' = lost \cup ({held} \ W) \cup {}
    BY <2>1, <2>2, Flushed DEF Places
  <2>4. /\ rows' \subseteq [event : Events, month : 0..LastMonth] /\ OneRowEach(rows')
        /\ faults' \in 0..MaxFaults /\ lost' \subseteq Events
    BY <2>1, <2>2, Flushed DEF Places
  <2>5. UNCHANGED <<answered, queue, batch, expired, next>>
    BY <1>10 DEF DrainFlushes
  <2>6. Types'
    BY <1>10, <2>2, <2>4 DEF DrainFlushes, Types
  <2>7. Places'
    BY <2>1, <2>3, <2>4, <2>5 DEF Places, Apart
  <2> QED BY <2>6, <2>7
<1>11. ASSUME Stop PROVE Types' /\ Places'
  <2>1. faults' = faults \/ (faults < MaxFaults /\ faults' = faults + 1)
    BY <1>11 DEF Stop, Fault
  <2>2. faults' \in 0..MaxFaults
    BY <2>1 DEF Types
  <2>3. Types'
    BY <1>11, <2>2 DEF Stop, Types
  <2>4. Places'
    BY <1>11 DEF Stop, Places, Held
  <2> QED BY <2>3, <2>4
<1>12. ASSUME Crash PROVE Types' /\ Places'
  <2>1. InProcess \subseteq Events
    BY DEF InProcess, Types, Events
  <2>2. Types'
    BY <1>12, <2>1 DEF Crash, Ended, Fault, Types
  <2>3. /\ answered' = {} /\ Held' = {} /\ batch' = {}
        /\ lost' = lost \cup answered \cup Held \cup batch
        /\ UNCHANGED <<queue, rows, expired, next>>
    BY <1>12 DEF Crash, Ended, InProcess, Held
  <2>4. Places'
    BY <2>3 DEF Places, Apart
  <2> QED BY <2>2, <2>4
<1>13. ASSUME Start PROVE Types' /\ Places'
  <2>1. uneven' \in BOOLEAN
    BY <1>13 DEF Start
  <2>2. starts' \in 0..MaxStarts
    BY <1>13 DEF Start, Types
  <2>3. UNCHANGED <<today, partitions, rows, answered, queue, batch, held, next, faults, lost,
        expired>>
    BY <1>13 DEF Start
  <2>4. api' = "up" /\ worker' = "loop" /\ swept' = FALSE
    BY <1>13 DEF Start
  <2>5. Types'
    BY <2>1, <2>2, <2>3, <2>4 DEF Types
  <2>6. Places'
    BY <2>3 DEF Places, Held
  <2> QED BY <2>5, <2>6
<1>14. ASSUME Sweep PROVE Types' /\ Places'
  <2>1. PICK made \in SUBSET CreatedBy(today), gone \in SUBSET DroppedBy(today) :
          /\ \/ made = CreatedBy(today) /\ gone = DroppedBy(today) /\ UNCHANGED faults
             \/ made \cup gone = {} /\ Fault
             \/ made # CreatedBy(today) /\ made # {} /\ gone = DroppedBy(today) /\ Fault
          /\ partitions' = (partitions \cup made) \ gone
          /\ rows' = {r \in rows : r.month \notin gone}
          /\ expired' = expired \cup {r.event : r \in {q \in rows : q.month \in gone}}
    BY <1>14 DEF Sweep
  <2> DEFINE out == {r.event : r \in {q \in rows : q.month \in gone}}
  <2>2. made \subseteq Months
    BY DatesCreated DEF Types
  <2>3. faults' = faults \/ (faults < MaxFaults /\ faults' = faults + 1)
    BY <2>1 DEF Fault
  <2>4. faults' \in 0..MaxFaults
    BY <2>3 DEF Types
  <2>5. out \subseteq Events
    BY DEF Types
  <2>6. Types'
    BY <1>14, <2>1, <2>2, <2>4, <2>5 DEF Sweep, Types
  <2>7. /\ EventsOf(rows) = EventsOf(rows') \cup out
        /\ EventsOf(rows') \cap out = {} /\ OneRowEach(rows')
    BY <2>1 DEF EventsOf, Places, OneRowEach
  <2>8. expired' = expired \cup out
    BY <2>1
  <2>9. UNCHANGED <<answered, queue, batch, held, lost, next>>
    BY <1>14 DEF Sweep
  <2> HIDE DEF out
  <2>10. Places'
    BY <2>7, <2>8, <2>9 DEF Places, Apart, Held
  <2> QED BY <2>6, <2>10
<1>15. ASSUME NextDay PROVE Types' /\ Places'
  <2>1. today' \in [month : 0..LastMonth, day : Nat \ {0}]
        /\ today'.day <= MonthLength(today'.month)
    <3>1. CASE today.day < MonthLength(today.month)
      <4>1. MonthLength(today.month) \in Nat \ {0}
        BY MonthsHaveDays DEF Types
      <4> QED BY <1>15, <3>1, <4>1 DEF NextDay, Types
    <3>2. CASE ~(today.day < MonthLength(today.month))
      <4>1. today.month + 1 \in 0..LastMonth
        BY <1>15, <3>2 DEF NextDay, Types
      <4>2. MonthLength(today.month + 1) \in Nat \ {0}
        <5>1. today.month + 1 \in Int
          BY <4>1
        <5> QED BY <5>1, MonthsHaveDays
      <4> QED BY <1>15, <3>2, <4>1, <4>2 DEF NextDay
    <3> QED BY <3>1, <3>2
  <2>2. Types'
    BY <1>15, <2>1 DEF NextDay, Types
  <2>3. Places'
    BY <1>15 DEF NextDay, Places, Held
  <2> QED BY <2>2, <2>3
<1>16. CASE UNCHANGED vars
  BY <1>16 DEF vars, Types, Places, Held
<1> QED
  BY <1>1, <1>2, <1>3, <1>4, <1>5, <1>6, <1>7, <1>8, <1>9, <1>10, <1>11, <1>12, <1>13, <1>14, <1>15,
     <1>16
     DEF Next, WorkerStep

----------------------------------------------------------------------------
(* The months of a steady server.                                          *)

LEMMA InitAhead == Init => Ahead
<1> SUFFICES ASSUME Init PROVE Ahead
  OBVIOUS
<1>1. today.month = 0 /\ partitions = {0} /\ swept = FALSE /\ api = "up" /\ lost = {}
  BY DEF Init
<1>2. uneven = ~InEveryMonth(today.day)
  BY DEF Init
<1> QED BY <1>1, <1>2 DEF Ahead

\* While the rows of today have a partition and no fault happens, a flush loses
\* nothing.
LEMMA SteadyFlush ==
  ASSUME NEW S, NEW gone, Flush(S, gone), today.month \in partitions,
         faults \in Nat, faults' = 0
  PROVE  lost' = lost \cup gone /\ faults = 0
<1>1. CASE S = {}
  BY <1>1 DEF Flush
<1>2. CASE S # {}
  <2>1. Inserted(S, gone) \/ InsertFails(S, gone)
    BY <1>2 DEF Flush
  <2>2. ~Fault
    BY DEF Fault
  <2> QED BY <2>1, <2>2 DEF Inserted, InsertFails
<1> QED BY <1>1, <1>2

\* Steps that leave the calendar and the process alone need no more than this.
LEMMA StillAhead ==
  ASSUME Ahead, UNCHANGED <<timeVars, api, uneven>>,
         faults' = 0 => faults = 0,
         faults' = 0 /\ ~uneven => lost' \subseteq lost,
         faults' = 0 /\ api = "stopping" /\ answered = {} /\ held = 0
            => answered' = {} /\ held' = 0
  PROVE  Ahead'
  BY DEF Ahead, timeVars

LEMMA NextAhead == Types /\ Ahead /\ [Next]_vars => Ahead'
<1> SUFFICES ASSUME Types, Ahead, [Next]_vars PROVE Ahead'
  OBVIOUS
<1>0. faults \in Nat
  BY DEF Types
<1> USE <1>0
<1>1. ASSUME NEW S, NEW gone, Flush(S, gone), faults' = 0, ~uneven, api # "down"
      PROVE  lost' = lost \cup gone /\ faults = 0
  <2>1. faults' = faults \/ (Fault /\ faults' = faults + 1)
    BY <1>1 DEF Flush, Inserted, InsertFails, Fault
  <2>2. faults = 0
    BY <1>1, <2>1
  <2>3. today.month \in partitions
    BY <1>1, <2>2 DEF Ahead
  <2> QED BY <1>1, <2>3, SteadyFlush
<1>2. ASSUME NEW S, NEW gone, Flush(S, gone), faults' = 0 PROVE faults = 0
  <2>1. faults' = faults \/ faults' = faults + 1
    BY <1>2 DEF Flush, Inserted, InsertFails, Fault
  <2> QED BY <1>2, <2>1
<1>3. ASSUME Answer PROVE Ahead'
  BY <1>3, StillAhead DEF Answer, processVars
<1>4. ASSUME NEW e \in answered, Emit(e) PROVE Ahead'
  BY <1>4, StillAhead DEF Emit, processVars
<1>5. ASSUME NEW e \in answered, EmitFails(e) PROVE Ahead'
  <2>1. faults' # 0
    BY <1>5 DEF EmitFails, Fault
  <2> QED BY <1>5, <2>1, StillAhead DEF EmitFails, processVars
<1>6. ASSUME WorkerWaits PROVE Ahead'
  BY <1>6, StillAhead DEF WorkerWaits
<1>7. ASSUME Pop PROVE Ahead'
  <2> DEFINE full == batch \cup {Head(queue)}
  <2>1. Flush(full, {}) \/ UNCHANGED <<rows, lost, faults>>
    BY <1>7 DEF Pop
  <2> HIDE DEF full
  <2>2. api # "down"
    BY <1>7 DEF Pop, Types
  <2>3. /\ faults' = 0 => faults = 0
        /\ faults' = 0 /\ ~uneven => lost' \subseteq lost
    BY <1>1, <1>2, <2>1, <2>2
  <2> QED BY <1>7, <2>3, StillAhead DEF Pop
<1>8. ASSUME PopTimesOut PROVE Ahead'
  BY <1>8, StillAhead DEF PopTimesOut
<1>9. ASSUME WorkerStops PROVE Ahead'
  <2>1. Flush(batch, InProcess) /\ api = "stopping" /\ api' = "down" /\ uneven' = uneven
    BY <1>9 DEF WorkerStops, Ended
  <2>2. ASSUME faults' = 0, ~uneven PROVE lost' = {}
    <3>1. lost' = lost \cup InProcess /\ faults = 0
      BY <1>1, <2>1, <2>2
    <3>2. InProcess = {} /\ lost = {}
      BY <2>1, <2>2, <3>1 DEF Ahead, InProcess
    <3> QED BY <3>1, <3>2
  <2> QED BY <2>1, <2>2 DEF Ahead
<1>10. ASSUME TimerFlush PROVE Ahead'
  <2>1. Flush(batch, {}) /\ api # "down"
    BY <1>10 DEF TimerFlush, Types
  <2>2. /\ faults' = 0 => faults = 0
        /\ faults' = 0 /\ ~uneven => lost' \subseteq lost
    BY <1>1, <1>2, <2>1
  <2> QED BY <1>10, <2>2, StillAhead DEF TimerFlush, processVars
<1>11. ASSUME DrainPops PROVE Ahead'
  BY <1>11, StillAhead DEF DrainPops, processVars
<1>12. ASSUME DrainFlushes PROVE Ahead'
  <2>1. Flush({held}, {}) /\ api # "down"
    BY <1>12 DEF DrainFlushes
  <2>2. /\ faults' = 0 => faults = 0
        /\ faults' = 0 /\ ~uneven => lost' \subseteq lost
    BY <1>1, <1>2, <2>1
  <2> QED BY <1>12, <2>2, StillAhead DEF DrainFlushes, processVars
<1>13. ASSUME Stop PROVE Ahead'
  <2>1. CASE answered = {} /\ held = 0 /\ UNCHANGED faults
    BY <1>13, <2>1 DEF Stop, Ahead, timeVars
  <2>2. CASE Fault
    <3>1. faults' # 0
      BY <2>2 DEF Fault
    <3> QED BY <3>1 DEF Ahead
  <2> QED BY <1>13, <2>1, <2>2 DEF Stop
<1>14. ASSUME Crash PROVE Ahead'
  <2>1. faults' # 0
    BY <1>14 DEF Crash, Fault
  <2> QED BY <2>1 DEF Ahead
<1>15. ASSUME Start PROVE Ahead'
  <2>1. /\ api' = "up" /\ swept' = FALSE /\ UNCHANGED <<today, partitions, faults, lost>>
        /\ uneven' = (uneven \/ ~InEveryMonth(today.day) \/ today.month \notin partitions)
    BY <1>15 DEF Start
  <2> QED BY <2>1 DEF Ahead
<1>16. ASSUME Sweep PROVE Ahead'
  <2>1. SUFFICES ASSUME faults' = 0 PROVE Ahead'
    BY DEF Ahead
  <2>2. PICK made \in SUBSET CreatedBy(today), gone \in SUBSET DroppedBy(today) :
          /\ \/ made = CreatedBy(today) /\ gone = DroppedBy(today) /\ UNCHANGED faults
             \/ made \cup gone = {} /\ Fault
             \/ made # CreatedBy(today) /\ made # {} /\ gone = DroppedBy(today) /\ Fault
          /\ partitions' = (partitions \cup made) \ gone
    BY <1>16 DEF Sweep
  <2>3. ~Fault
    BY <2>1 DEF Fault
  <2>4. made = CreatedBy(today) /\ gone = DroppedBy(today) /\ faults = 0
    BY <2>1, <2>2, <2>3
  <2>5. /\ today.month \in CreatedBy(today)
        /\ InEveryMonth(today.day) => today.month + 1 \in CreatedBy(today)
    BY DatesCreated DEF Types
  <2>6. today.month \notin DroppedBy(today) /\ today.month + 1 \notin DroppedBy(today)
    <3>1. \A m \in DroppedBy(today) : m \in Int /\ m < today.month
      BY DatesDropped DEF Types
    <3>2. today.month \in Nat
      BY DEF Types
    <3> QED BY <3>1, <3>2
  <2>7. UNCHANGED <<today, api, answered, held, lost, uneven>> /\ ~swept
    BY <1>16 DEF Sweep, processVars
  <2> QED BY <2>2, <2>4, <2>5, <2>6, <2>7 DEF Ahead
<1>17. ASSUME NextDay PROVE Ahead'
  <2>1. /\ (api = "down" \/ swept) /\ swept' = FALSE
        /\ UNCHANGED <<partitions, api, answered, held, faults, lost, uneven>>
    BY <1>17 DEF NextDay, processVars
  <2>2. CASE today.day < MonthLength(today.month)
    <3>1. today'.month = today.month
      BY <1>17, <2>2 DEF NextDay
    <3> QED BY <2>1, <3>1 DEF Ahead
  <2>3. CASE ~(today.day < MonthLength(today.month))
    <3>1. today'.month = today.month + 1 /\ today'.day = 1
      BY <1>17, <2>3 DEF NextDay
    <3>2. InEveryMonth(1)
      BY ConstantsAssumption DEF InEveryMonth
    <3> QED BY <2>1, <3>1, <3>2 DEF Ahead
  <2> QED BY <2>2, <2>3
<1>18. CASE UNCHANGED vars
  BY <1>18, StillAhead DEF vars, processVars
<1> QED
  BY <1>3, <1>4, <1>5, <1>6, <1>7, <1>8, <1>9, <1>10, <1>11, <1>12, <1>13, <1>14, <1>15,
     <1>16, <1>17, <1>18
     DEF Next, WorkerStep

----------------------------------------------------------------------------
(* The sizes of the places.                                                *)

LEMMA DisjointSizes ==
  ASSUME NEW S, NEW T, IsFiniteSet(S), IsFiniteSet(T), S \cap T = {}
  PROVE  IsFiniteSet(S \cup T) /\ Cardinality(S \cup T) = Cardinality(S) + Cardinality(T)
<1>1. IsFiniteSet(S \cup T)
      /\ Cardinality(S \cup T) = Cardinality(S) + Cardinality(T) - Cardinality({})
  BY FS_Union
<1>2. Cardinality(S) \in Nat /\ Cardinality(T) \in Nat /\ Cardinality({}) = 0
  BY FS_CardinalityType, FS_EmptySet
<1> QED BY <1>1, <1>2

LEMMA ApartSizes ==
  ASSUME NEW n \in Nat, NEW A, NEW B, NEW C, NEW D, NEW E, NEW F, NEW G,
         Apart(A, B, C, D, E, F, G, n)
  PROVE  Cardinality(A) + Cardinality(B) + Cardinality(C) + Cardinality(D)
         + Cardinality(F) + Cardinality(E) + Cardinality(G) = n
<1>1. IsFiniteSet(1..n) /\ Cardinality(1..n) = n
  BY FS_Interval
<1>2. /\ A \subseteq 1..n /\ B \subseteq 1..n /\ C \subseteq 1..n /\ D \subseteq 1..n
      /\ E \subseteq 1..n /\ F \subseteq 1..n /\ G \subseteq 1..n
  BY DEF Apart
<1>3. \A S \in SUBSET (1..n) : IsFiniteSet(S) /\ Cardinality(S) \in Nat
  BY <1>1, FS_Subset, FS_CardinalityType
<1>4. Cardinality(F \cup G) = Cardinality(F) + Cardinality(G)
  BY <1>2, <1>3, DisjointSizes DEF Apart
<1>5. Cardinality(E \cup (F \cup G)) = Cardinality(E) + Cardinality(F \cup G)
  <2>1. E \cap (F \cup G) = {} /\ F \cup G \subseteq 1..n
    BY <1>2 DEF Apart
  <2> QED BY <1>2, <1>3, <2>1, DisjointSizes
<1>6. Cardinality(D \cup (E \cup (F \cup G))) = Cardinality(D) + Cardinality(E \cup (F \cup G))
  <2>1. D \cap (E \cup (F \cup G)) = {} /\ E \cup (F \cup G) \subseteq 1..n
    BY <1>2 DEF Apart
  <2> QED BY <1>2, <1>3, <2>1, DisjointSizes
<1>7. Cardinality(C \cup (D \cup (E \cup (F \cup G))))
      = Cardinality(C) + Cardinality(D \cup (E \cup (F \cup G)))
  <2>1. /\ C \cap (D \cup (E \cup (F \cup G))) = {}
        /\ D \cup (E \cup (F \cup G)) \subseteq 1..n
    BY <1>2 DEF Apart
  <2> QED BY <1>2, <1>3, <2>1, DisjointSizes
<1>8. Cardinality(B \cup (C \cup (D \cup (E \cup (F \cup G)))))
      = Cardinality(B) + Cardinality(C \cup (D \cup (E \cup (F \cup G))))
  <2>1. /\ B \cap (C \cup (D \cup (E \cup (F \cup G)))) = {}
        /\ C \cup (D \cup (E \cup (F \cup G))) \subseteq 1..n
    BY <1>2 DEF Apart
  <2> QED BY <1>2, <1>3, <2>1, DisjointSizes
<1>9. Cardinality(A \cup (B \cup (C \cup (D \cup (E \cup (F \cup G))))))
      = Cardinality(A) + Cardinality(B \cup (C \cup (D \cup (E \cup (F \cup G)))))
  <2>1. /\ A \cap (B \cup (C \cup (D \cup (E \cup (F \cup G))))) = {}
        /\ B \cup (C \cup (D \cup (E \cup (F \cup G)))) \subseteq 1..n
    BY <1>2 DEF Apart
  <2> QED BY <1>2, <1>3, <2>1, DisjointSizes
<1>10. A \cup (B \cup (C \cup (D \cup (E \cup (F \cup G))))) = 1..n
  BY DEF Apart
<1>11. /\ Cardinality(A) \in Nat /\ Cardinality(B) \in Nat /\ Cardinality(C) \in Nat
       /\ Cardinality(D) \in Nat /\ Cardinality(E) \in Nat /\ Cardinality(F) \in Nat
       /\ Cardinality(G) \in Nat
  BY <1>2, <1>3
<1>12. Cardinality(A \cup (B \cup (C \cup (D \cup (E \cup (F \cup G))))))
       = Cardinality(A) + (Cardinality(B) + (Cardinality(C) + (Cardinality(D)
         + (Cardinality(E) + (Cardinality(F) + Cardinality(G))))))
  BY <1>4, <1>5, <1>6, <1>7, <1>8, <1>9
<1>13. Cardinality(A) + (Cardinality(B) + (Cardinality(C) + (Cardinality(D)
         + (Cardinality(E) + (Cardinality(F) + Cardinality(G)))))) = n
  BY <1>1, <1>10, <1>12
<1> QED BY <1>11, <1>13

LEMMA ListSize ==
  ASSUME NEW q \in Seq(Events), NoneTwice(q)
  PROVE  Cardinality(Listed(q)) = Len(q)
<1>1. DOMAIN q = 1..Len(q) /\ Len(q) \in Nat
  OBVIOUS
<1>2. q \in Bijection(1..Len(q), Listed(q))
  BY <1>1 DEF Bijection, Injection, Surjection, IsInjective, Listed, NoneTwice
<1>3. ExistsBijection(1..Len(q), Listed(q))
  BY <1>2 DEF ExistsBijection
<1>4. IsFiniteSet(1..Len(q)) /\ Cardinality(1..Len(q)) = Len(q)
  BY <1>1, FS_Interval
<1> QED BY <1>3, <1>4, FS_Bijection

LEMMA RowsSize ==
  ASSUME NEW R, OneRowEach(R), IsFiniteSet(EventsOf(R))
  PROVE  Cardinality(R) = Cardinality(EventsOf(R))
<1> DEFINE f == [r \in R |-> r.event]
<1>1. f \in Injection(R, EventsOf(R))
  BY DEF Injection, IsInjective, EventsOf, OneRowEach
<1>2. f \in Surjection(R, EventsOf(R))
  BY DEF Surjection, EventsOf
<1> QED BY <1>1, <1>2, FS_Injection

----------------------------------------------------------------------------
(* The theorems.                                                           *)

LEMMA InPlaces == Spec => [](Types /\ Places)
<1>1. Types /\ Places /\ [Next]_vars => (Types /\ Places)'
  BY NextPlaces
<1> QED BY <1>1, InitPlaces, PTL DEF Spec

\* Every answered request has its event in exactly one place, and at most one
\* row, with the worker and any number of drains at the same list, restarts and
\* crashes (writer.go:100, "safe to call concurrently").
THEOREM OnePlaceEach == Spec => []ExactlyOnce
<1>1. Types /\ Places => ExactlyOnce
  <2> SUFFICES ASSUME Types, Places PROVE ExactlyOnce
    OBVIOUS
  <2>1. Queued = Listed(queue) /\ Stored = EventsOf(rows)
    BY DEF Queued, Stored, Listed, EventsOf
  <2>2. next - 1 \in Nat
    BY ConstantsAssumption DEF Types
  <2>3. Cardinality(Listed(queue)) = Len(queue)
    BY ListSize DEF Types, Places
  <2>4. EventsOf(rows) \subseteq 1..(next - 1)
    BY DEF Places, Apart
  <2>5. IsFiniteSet(EventsOf(rows))
    <3>1. IsFiniteSet(1..(next - 1))
      BY <2>2, FS_Interval
    <3> QED BY <2>4, <3>1, FS_Subset
  <2>6. Cardinality(rows) = Cardinality(EventsOf(rows))
    BY <2>5, RowsSize DEF Places
  <2>7. Cardinality(answered) + Cardinality(Listed(queue)) + Cardinality(batch)
        + Cardinality(Held) + Cardinality(lost) + Cardinality(EventsOf(rows))
        + Cardinality(expired) = next - 1
    BY <2>2, ApartSizes DEF Places
  <2>8. answered \cup Listed(queue) \cup batch \cup Held \cup EventsOf(rows) \cup lost
        \cup expired = 1..(next - 1)
    BY DEF Places, Apart
  <2>9. /\ Cardinality(answered) \in Nat /\ Cardinality(Listed(queue)) \in Nat
        /\ Cardinality(batch) \in Nat /\ Cardinality(Held) \in Nat
        /\ Cardinality(lost) \in Nat /\ Cardinality(EventsOf(rows)) \in Nat
        /\ Cardinality(expired) \in Nat
    <3>1. \A S \in SUBSET (1..(next - 1)) : Cardinality(S) \in Nat
      <4>1. IsFiniteSet(1..(next - 1))
        BY <2>2, FS_Interval
      <4> QED BY <4>1, FS_Subset, FS_CardinalityType
    <3> QED BY <2>8, <3>1
  <2>10. Cardinality(answered) + Len(queue) + Cardinality(batch)
         + Cardinality({held} \ {0}) + Cardinality(rows) + Cardinality(lost)
         + Cardinality(expired) = next - 1
    BY <2>2, <2>3, <2>6, <2>7, <2>9 DEF Held
  <2>11. answered \cup Queued \cup batch \cup ({held} \ {0}) \cup Stored \cup lost
         \cup expired = 1..(next - 1)
    BY <2>1, <2>8 DEF Held
  <2> QED BY <2>1, <2>3, <2>6, <2>10, <2>11 DEF ExactlyOnce
<1> QED BY <1>1, InPlaces, PTL

\* The variables keep their types; the list is never longer than the requests.
THEOREM TypeCorrect == Spec => []TypeOK
<1>1. Types /\ Places => TypeOK
  <2> SUFFICES ASSUME Types, Places PROVE TypeOK
    OBVIOUS
  <2>1. Cardinality(Listed(queue)) = Len(queue)
    BY ListSize DEF Types, Places
  <2>2. MaxEvents \in Nat
    BY ConstantsAssumption
  <2>3. IsFiniteSet(Events) /\ Cardinality(Events) = MaxEvents
    BY <2>2, FS_Interval DEF Events
  <2>4. Listed(queue) \in SUBSET Events
    BY DEF Types, Listed
  <2>5. Len(queue) <= MaxEvents
    BY <2>1, <2>3, <2>4, FS_Subset
  <2> QED BY <2>5 DEF Types, TypeOK
<1> QED BY <1>1, InPlaces, PTL

\* Without an error, a crash or an abandoned request no event is lost, as long
\* as the process is never started on a day that some month lacks nor in a month
\* without a partition (writer.go, retention.go).
THEOREM SteadyKeeps == Spec => []SteadyServerLosesNothing
<1>1. Types /\ Ahead /\ [Next]_vars => Ahead'
  BY NextAhead
<1>2. Ahead => SteadyServerLosesNothing
  BY DEF Ahead, SteadyServerLosesNothing
<1> QED BY <1>1, <1>2, InitAhead, InPlaces, PTL DEF Spec

\* A pass drops no row before its month lies RetainMonths back, on every day that
\* the month RetainMonths back has (retention.go, runRetention).
THEOREM RowsKept == Spec => KeptForRetention
<1>1. Types /\ [Next]_vars =>
          (today.day <= MonthLength(today.month - RetainMonths) =>
               \A r \in rows \ rows' : r.month <= today.month - RetainMonths)
  <2> SUFFICES ASSUME Types, [Next]_vars, NEW r \in rows \ rows',
                      today.day <= MonthLength(today.month - RetainMonths)
               PROVE  r.month <= today.month - RetainMonths
    OBVIOUS
  <2>1. ASSUME NEW S, NEW gone, Flush(S, gone) PROVE rows \subseteq rows'
    BY <2>1 DEF Flush, Inserted, InsertFails
  <2>2. CASE Sweep
    <3>1. PICK gone \in SUBSET DroppedBy(today) : rows' = {q \in rows : q.month \notin gone}
      BY <2>2 DEF Sweep
    <3>2. r.month \in DroppedBy(today)
      BY <3>1
    <3> QED BY <3>2, DatesDropped DEF Types
  <2>3. CASE Pop
    BY <2>1, <2>3 DEF Pop
  <2>4. CASE WorkerStops \/ TimerFlush \/ DrainFlushes
    BY <2>1, <2>4 DEF WorkerStops, TimerFlush, DrainFlushes
  <2>5. CASE UNCHANGED rows
    BY <2>5
  <2>6. Sweep \/ Pop \/ WorkerStops \/ TimerFlush \/ DrainFlushes \/ UNCHANGED rows
    BY DEF Next, WorkerStep, vars, Answer, Emit, EmitFails, WorkerWaits, PopTimesOut,
           DrainPops, Stop, Crash, Start, NextDay
  <2> QED BY <2>2, <2>3, <2>4, <2>5, <2>6
<1> QED BY <1>1, InPlaces, PTL DEF Spec, KeptForRetention

----------------------------------------------------------------------------
(***************************************************************************)
(* The audit page.                                                         *)
(*                                                                         *)
(* An answer, once it is cached, is still a page of the rows that were     *)
(* there when it was read: later ones are committed behind them, and no    *)
(* row changes.  A row that is on neither of two neighbouring pages, but   *)
(* between their rows in time, was after the nearer page and before the    *)
(* further one; then so was all of the nearer page and what was before it, *)
(* which is one row more than the further page leaves out.                 *)
(***************************************************************************)

\* The first n rows of l without those of time d and before, as far as they pass.
Upto(a, l, n, d) == {i \in 1..n : l[i].time > d /\ Filtered(a, l[i])}

\* The answer is the page a of the log l as it was when its rows up to time d were gone.
Listing(answer, a, l, d) ==
    /\ answer.at \in 0..Len(l)
    /\ answer.rows \in Cuts(l, Upto(a, l, answer.at, d), Offset(a))

Snapshots ==
    /\ \A a \in Addresses : cache[a] # None => \E d \in 0..dropped : Listing(cache[a], a, log, d)
    /\ fly \notin {None, Asked} => \E d \in 0..dropped : Listing(fly, address, log, d)

----------------------------------------------------------------------------
(* Rows and pages.                                                         *)

PageSizes ==
    /\ PerPage \in Nat \ {0} /\ MaxRows \in Nat /\ MaxEdits \in Nat /\ MaxTime \in Nat
    /\ FirstRows \in 0..MaxRows

LEMMA PageSizesHold == PageSizes
  BY PageAssumption DEF PageSizes

LEMMA RowTime ==
  ASSUME NEW l \in Seq(Rows), NEW i \in 1..Len(l)
  PROVE  l[i].time \in 1..MaxTime /\ l[i].time \in Nat
<1>1. l[i] \in Rows /\ MaxTime \in Nat
  BY PageSizesHold DEF PageSizes
<1>2. l[i].time \in 1..MaxTime
  BY <1>1 DEF Rows
<1> QED BY <1>1, <1>2

LEMMA RowsFinite ==
  ASSUME NEW n \in Nat, NEW T \in SUBSET (1..n)
  PROVE  IsFiniteSet(T) /\ Cardinality(T) \in Nat /\ Cardinality(T) <= n
<1>1. IsFiniteSet(1..n) /\ Cardinality(1..n) = n
  BY FS_Interval
<1> QED BY <1>1, FS_Subset, FS_CardinalityType

\* Sets of rows that have none in common.
LEMMA RowsDisjoint ==
  ASSUME NEW S, NEW T, IsFiniteSet(S), IsFiniteSet(T), S \cap T = {}
  PROVE  Cardinality(T \cup S) = Cardinality(T) + Cardinality(S)
<1>1. T \cap S = {} /\ Cardinality({}) = 0 /\ Cardinality(S) \in Nat /\ Cardinality(T) \in Nat
  BY FS_EmptySet, FS_CardinalityType
<1>2. Cardinality(T \cup S) = Cardinality(T) + Cardinality(S) - Cardinality(T \cap S)
  BY FS_Union
<1>3. Cardinality(T \cap S) = 0
  BY <1>1
<1> QED BY <1>1, <1>2, <1>3

LEMMA NextWindow ==
  ASSUME NEW a \in Addresses
  PROVE  /\ Offset(a) \in Nat
         /\ Offset(AtPage(a, a.page + 1)) = Offset(a) + PerPage
         /\ a.page = 1 => Offset(a) = 0
<1>1. PICK p \in Nat : a.page = p + 1
  <2>1. a.page \in Nat \ {0}
    BY PageSizesHold DEF PageSizes, Addresses, LastPage
  <2> QED BY <2>1
<1>2. PerPage \in Nat
  BY PageSizesHold DEF PageSizes
<1>3. Offset(a) = p * PerPage
  BY <1>1 DEF Offset
<1>4. Offset(AtPage(a, a.page + 1)) = (p + 1) * PerPage
  BY <1>1 DEF Offset, AtPage
<1> QED BY <1>1, <1>2, <1>3, <1>4

LEMMA PageCount ==
  ASSUME NEW c \in Nat
  PROVE  (c + PerPage - 1) \div PerPage \in 0..c
<1> DEFINE q == (c + PerPage - 1) \div PerPage
<1>1. PerPage \in Nat \ {0}
  BY PageSizesHold DEF PageSizes
<1>2. q \in Int /\ PerPage * q <= c + PerPage - 1 /\ c + PerPage - 1 < PerPage * (q + 1)
  BY <1>1
<1> HIDE DEF q
<1>3. q >= 0
  <2>1. SUFFICES ASSUME q + 1 <= 0 PROVE FALSE
    BY <1>2
  <2>2. PerPage * (q + 1) <= 0
    BY <1>1, <1>2, <2>1
  <2> QED BY <1>1, <1>2, <2>2
<1>4. q <= c
  <2>1. SUFFICES ASSUME q >= c + 1 PROVE FALSE
    BY <1>2
  <2>2. PerPage * (c + 1) <= PerPage * q
    BY <1>1, <1>2, <2>1
  <2>3. PerPage * (c + 1) >= c + PerPage
    BY <1>1
  <2> QED BY <1>1, <1>2, <2>2, <2>3
<1> QED BY <1>2, <1>3, <1>4 DEF q

----------------------------------------------------------------------------
(* Types.                                                                  *)

LEMMA ServedType ==
  ASSUME PageTypeOK, NEW pages \in 0..MaxRows,
         NEW S \in Cuts(log, Matching(address), Offset(address)), NEW answer,
         answer = [rows |-> S, page |-> address.page, pages |-> pages, at |-> Len(log)]
  PROVE  answer \in Answers /\ answer.page = address.page /\ Listing(answer, address, log, dropped)
<1>1. Len(log) \in 0..MaxRows /\ DOMAIN log = 1..Len(log) /\ Len(log) \in Nat
  BY PageSizesHold DEF PageSizes, PageTypeOK
<1>2. Matching(address) = Upto(address, log, Len(log), dropped)
  BY <1>1 DEF Matching, Upto
<1>3. S \in SUBSET (1..MaxRows)
  <2>1. S \subseteq Matching(address) /\ Matching(address) \subseteq 1..Len(log)
    BY <1>1 DEF Cuts, Matching
  <2>2. 1..Len(log) \subseteq 1..MaxRows
    BY <1>1, PageSizesHold DEF PageSizes
  <2> QED BY <2>1, <2>2
<1>4. answer.rows = S /\ answer.at = Len(log) /\ answer.page = address.page
  OBVIOUS
<1>5. answer \in Answers
  BY <1>1, <1>3 DEF Answers, PageTypeOK, Addresses
<1> QED BY <1>1, <1>2, <1>4, <1>5 DEF Listing

LEMMA CountType ==
  ASSUME PageTypeOK
  PROVE  (Cardinality(Matching(address)) + PerPage - 1) \div PerPage \in 0..MaxRows
<1>1. Len(log) \in Nat /\ Len(log) <= MaxRows /\ Matching(address) \subseteq 1..Len(log) /\ MaxRows \in Nat
  BY PageSizesHold DEF PageSizes, PageTypeOK, Matching
<1>2. PICK c \in Nat : c = Cardinality(Matching(address)) /\ c <= Len(log)
  BY <1>1, RowsFinite
<1>3. (c + PerPage - 1) \div PerPage \in 0..c
  BY PageCount
<1>4. 0..c \subseteq 0..MaxRows
  BY <1>1, <1>2
<1> QED BY <1>2, <1>3, <1>4

LEMMA ArrivedType ==
  ASSUME PageTypeOK, RowArrives
  PROVE  \E row \in Rows : log' = Append(log, row)
<1>1. PICK act \in Actions, res \in Results, t \in (dropped + 1)..MaxTime :
        log' = Append(log, [action |-> act, result |-> res, time |-> t])
  BY DEF RowArrives
<1>2. t \in 1..MaxTime
  BY DEF PageTypeOK
<1> QED BY <1>1, <1>2 DEF Rows

LEMMA PageInitType == PageInit => PageTypeOK /\ ChoicesHold /\ Snapshots
<1> SUFFICES ASSUME PageInit PROVE PageTypeOK /\ ChoicesHold /\ Snapshots
  OBVIOUS
<1>1. First \in Addresses
  BY PageSizesHold DEF First, Addresses, LastPage, PageSizes
<1>2. PageTypeOK
  <2>1. log \in Seq(Rows) /\ Len(log) <= MaxRows
    <3>1. log \in [1..FirstRows -> Rows] /\ FirstRows \in Nat /\ FirstRows <= MaxRows
      BY PageSizesHold DEF PageInit, PageSizes
    <3>2. log \in Seq(Rows) /\ Len(log) = FirstRows
      BY <3>1
    <3> QED BY <3>1, <3>2
  <2>2. /\ cache \in [Addresses -> Answers \cup {None}] /\ last = None /\ fly = Asked
        /\ counted = None /\ dropped = 0 /\ edits = 0
    BY DEF PageInit
  <2>3. /\ latest = First /\ address = First /\ box = All /\ timer = FALSE /\ failed = FALSE
        /\ chosen \in [action : Actions \cup {All}, result : Results \cup {All}]
    BY DEF PageInit
  <2>4. dropped \in 0..MaxTime /\ edits \in 0..MaxEdits
    BY <2>2, PageSizesHold DEF PageSizes
  <2> QED BY <1>1, <2>1, <2>2, <2>3, <2>4 DEF PageTypeOK
<1>3. ChoicesHold
  BY DEF PageInit, First, ChoicesHold
<1>4. Snapshots
  BY DEF PageInit, Snapshots
<1> QED BY <1>2, <1>3, <1>4

LEMMA ShownType == PageTypeOK => Shown \in Answers \cup {None}
  BY DEF PageTypeOK, Shown

LEMMA Moved ==
  ASSUME NEW a \in Addresses, NEW p \in 1..LastPage
  PROVE  AtPage(a, p) \in Addresses /\ AtPage(a, p).page = p
         /\ AtPage(a, p).action = a.action /\ AtPage(a, p).result = a.result
  BY DEF AtPage, Addresses

LEMMA PageNextType == PageTypeOK /\ ChoicesHold /\ [PageNext]_pageVars => PageTypeOK' /\ ChoicesHold'
<1> SUFFICES ASSUME PageTypeOK, ChoicesHold, [PageNext]_pageVars PROVE PageTypeOK' /\ ChoicesHold'
  OBVIOUS
<1>0. MaxRows \in Nat /\ MaxEdits \in Nat /\ MaxTime \in Nat /\ 1 \in 1..LastPage
  BY PageSizesHold DEF PageSizes, LastPage
<1> USE <1>0, NoneAssumption DEF PageTypeOK
<1>1. ASSUME NEW t \in Actions \cup {All}, Type(t) PROVE PageTypeOK' /\ ChoicesHold'
  BY <1>1 DEF Type, Edit, ChoicesHold
<1>2. ASSUME NEW r \in Results \cup {All}, Select(r) PROVE PageTypeOK' /\ ChoicesHold'
  <2>1. latest' \in Addresses
    BY <1>2 DEF Select, Addresses
  <2>2. PageTypeOK'
    BY <1>2, <2>1 DEF Select, Edit
  <2> QED BY <1>2, <2>2 DEF Select, ChoicesHold
<1>3. ASSUME TimerFires PROVE PageTypeOK' /\ ChoicesHold'
  <2>1. latest' \in Addresses
    BY <1>3 DEF TimerFires, Addresses
  <2>2. PageTypeOK'
    BY <1>3, <2>1 DEF TimerFires
  <2> QED BY <1>3, <2>2 DEF TimerFires, ChoicesHold
<1>4. ASSUME TurnPage PROVE PageTypeOK' /\ ChoicesHold'
  <2>1. Shown \in Answers
    BY <1>4, ShownType DEF TurnPage
  <2>2. PICK p \in 1..LastPage : latest' = AtPage(latest, p)
    <3>1. CASE Shown.page < Shown.pages /\ latest' = AtPage(latest, Shown.page + 1)
      <4>1. Shown.page + 1 \in 1..LastPage
        BY <2>1, <3>1 DEF Answers, LastPage
      <4> QED BY <3>1, <4>1
    <3>2. CASE Shown.page > 1 /\ latest' = AtPage(latest, Shown.page - 1)
      <4>1. Shown.page - 1 \in 1..LastPage
        BY <2>1, <3>2 DEF Answers, LastPage
      <4> QED BY <3>2, <4>1
    <3> QED BY <1>4, <3>1, <3>2 DEF TurnPage
  <2>3. latest' \in Addresses /\ latest'.action = latest.action /\ latest'.result = latest.result
    BY <2>2, Moved
  <2>4. PageTypeOK'
    BY <1>4, <2>3 DEF TurnPage, Edit
  <2> QED BY <1>4, <2>3, <2>4 DEF TurnPage, ChoicesHold
<1>5. ASSUME Land PROVE PageTypeOK' /\ ChoicesHold'
  <2>1. box' \in Actions \cup {All} /\ last' \in Answers \cup {None} /\ fly' \in {Asked, None}
    BY <1>5, ShownType DEF Land, BoxAfter, Addresses
  <2> QED BY <1>5, <2>1 DEF Land, ChoicesHold
<1>6. ASSUME Refetch PROVE PageTypeOK' /\ ChoicesHold'
  BY <1>6 DEF Refetch, ChoicesHold
<1>7. ASSUME Count PROVE PageTypeOK' /\ ChoicesHold'
  <2>1. counted' \in 0..MaxRows /\ fly' = Asked
    BY <1>7, CountType DEF Count
  <2> QED BY <1>7, <2>1 DEF Count, ChoicesHold
<1>8. ASSUME Serve PROVE PageTypeOK' /\ ChoicesHold'
  <2>1. fly' \in Answers /\ fly'.page = address.page /\ counted' = None
    BY <1>8, ServedType DEF Serve
  <2> QED BY <1>8, <2>1 DEF Serve, ChoicesHold
<1>9. ASSUME Store PROVE PageTypeOK' /\ ChoicesHold'
  BY <1>9 DEF Store, ChoicesHold
<1>10. ASSUME ReadFails PROVE PageTypeOK' /\ ChoicesHold'
  <2>1. failed' \in BOOLEAN
    BY <1>10 DEF ReadFails
  <2>2. UNCHANGED <<log, dropped, latest, address, box, cache, last, edits, chosen>>
    BY <1>10 DEF ReadFails
  <2>3. fly' = None /\ counted' = None /\ timer' = TRUE
    BY <1>10 DEF ReadFails
  <2> QED BY <2>1, <2>2, <2>3 DEF ChoicesHold
<1>11. ASSUME RowArrives PROVE PageTypeOK' /\ ChoicesHold'
  <2>1. PICK row \in Rows : log' = Append(log, row)
    BY <1>11, ArrivedType
  <2>2. log' \in Seq(Rows) /\ Len(log') = Len(log) + 1 /\ Len(log') <= MaxRows /\ Len(log) \in Nat
    BY <1>11, <2>1 DEF RowArrives
  <2>3. UNCHANGED <<dropped, latest, address, box, timer, cache, last, fly, counted, failed, edits, chosen>>
    BY <1>11 DEF RowArrives
  <2> QED BY <2>2, <2>3 DEF ChoicesHold
<1>12. ASSUME RowsDropped PROVE PageTypeOK' /\ ChoicesHold'
  <2>1. PICK i \in 1..Len(log) : dropped' = log[i].time
    BY <1>12 DEF RowsDropped
  <2>2. dropped' \in 0..MaxTime
    BY <2>1, RowTime
  <2> QED BY <1>12, <2>2 DEF RowsDropped, ChoicesHold
<1>13. CASE UNCHANGED pageVars
  BY <1>13 DEF pageVars, ChoicesHold
<1> QED
  BY <1>1, <1>2, <1>3, <1>4, <1>5, <1>6, <1>7, <1>8, <1>9, <1>10, <1>11, <1>12, <1>13
     DEF PageNext

----------------------------------------------------------------------------
(* Cached answers.                                                         *)

\* An answer is what it was while rows are committed after it.
LEMMA ListingKept ==
  ASSUME NEW l \in Seq(Rows), NEW row \in Rows, NEW answer, NEW a, NEW d, Listing(answer, a, l, d)
  PROVE  Listing(answer, a, Append(l, row), d)
<1> DEFINE m == Append(l, row)
           n == answer.at
           T == Upto(a, l, n, d)
<1>1. /\ Len(l) \in Nat /\ n \in 0..Len(l) /\ Len(m) = Len(l) + 1
      /\ \A j \in 1..Len(l) : m[j] = l[j]
  BY DEF Listing
<1> HIDE DEF m
<1>2. n \in 0..Len(m) /\ \A i \in 1..n : m[i] = l[i]
  BY <1>1
<1>3. Upto(a, m, n, d) = T /\ T \subseteq 1..n
  BY <1>2 DEF Upto
<1> HIDE DEF T
<1>4. ASSUME NEW X \in SUBSET T, NEW Y \in SUBSET T PROVE NoneNewer(m, X, Y) <=> NoneNewer(l, X, Y)
  BY <1>2, <1>3 DEF NoneNewer
<1>5. ASSUME NEW S \in SUBSET T, NEW before \in SUBSET (T \ S)
      PROVE  /\ NoneNewer(m, before, T \ before) <=> NoneNewer(l, before, T \ before)
             /\ NoneNewer(m, S, T \ (before \cup S)) <=> NoneNewer(l, S, T \ (before \cup S))
  BY <1>4
<1>6. Cuts(m, T, Offset(a)) = Cuts(l, T, Offset(a))
  BY <1>5 DEF Cuts
<1>7. answer.rows \in Cuts(m, Upto(a, m, n, d), Offset(a))
  BY <1>3, <1>6 DEF Listing, T
<1> QED BY <1>2, <1>7 DEF m, Listing

LEMMA NextSnapshots == PageTypeOK /\ Snapshots /\ [PageNext]_pageVars => Snapshots'
<1> SUFFICES ASSUME PageTypeOK, Snapshots, [PageNext]_pageVars PROVE Snapshots'
  OBVIOUS
<1> USE NoneAssumption
<1>1. CASE Serve
  <2>1. UNCHANGED <<log, dropped, address, cache>>
    BY <1>1 DEF Serve
  <2>2. Listing(fly', address, log, dropped) /\ dropped \in 0..dropped
    BY <1>1, ServedType DEF Serve, PageTypeOK
  <2> QED BY <2>1, <2>2 DEF Snapshots
<1>2. CASE Store
  <2>1. /\ UNCHANGED <<log, dropped, address>> /\ fly' = None
        /\ cache' = [cache EXCEPT ![address] = fly] /\ fly \notin {None, Asked}
    BY <1>2 DEF Store
  <2>2. ASSUME NEW a \in Addresses, cache'[a] # None
        PROVE  \E d \in 0..dropped : Listing(cache'[a], a, log, d)
    BY <2>1, <2>2 DEF Snapshots, PageTypeOK
  <2> QED BY <2>1, <2>2 DEF Snapshots
<1>3. CASE RowArrives
  <2>1. PICK row \in Rows : log' = Append(log, row)
    BY <1>3, ArrivedType
  <2>2. UNCHANGED <<dropped, address, cache, fly>> /\ log \in Seq(Rows)
    BY <1>3 DEF RowArrives, PageTypeOK
  <2>3. ASSUME NEW answer, NEW a, NEW d, Listing(answer, a, log, d)
        PROVE  Listing(answer, a, log', d)
    BY <2>1, <2>2, <2>3, ListingKept
  <2> QED BY <2>2, <2>3 DEF Snapshots
<1>4. CASE RowsDropped
  <2>1. UNCHANGED <<log, address, cache, fly>>
    BY <1>4 DEF RowsDropped
  <2>2. dropped \in Nat /\ dropped' \in Nat /\ dropped <= dropped'
    <3>1. PICK i \in 1..Len(log) : log[i].time > dropped /\ dropped' = log[i].time
      BY <1>4 DEF RowsDropped, PageTypeOK
    <3>2. log \in Seq(Rows) /\ dropped \in Nat
      BY DEF PageTypeOK
    <3> QED BY <3>1, <3>2, RowTime
  <2>3. 0..dropped \subseteq 0..dropped'
    BY <2>2
  <2> QED BY <2>1, <2>3 DEF Snapshots
<1>5. CASE Land
  <2>1. UNCHANGED <<log, dropped, cache>> /\ fly' \in {Asked, None}
    BY <1>5 DEF Land
  <2> QED BY <2>1 DEF Snapshots
<1>6. CASE UNCHANGED <<log, dropped, address, cache>> /\ fly' \in {fly, Asked, None}
  BY <1>6 DEF Snapshots
<1> QED
  BY <1>1, <1>2, <1>3, <1>4, <1>5, <1>6
     DEF PageNext, Type, Select, TimerFires, TurnPage, Refetch, Count, ReadFails, pageVars

----------------------------------------------------------------------------
(* Neighbouring pages.                                                     *)

\* Of the rows T, before is what is left out before the page S.
Before(before, l, T, o, S) ==
    /\ before \subseteq T /\ S \subseteq T /\ before \cap S = {}
    /\ NoneNewer(l, before, T \ before) /\ NoneNewer(l, S, T \ (before \cup S))
    /\ IsFiniteSet(before) /\ IsFiniteSet(S)
    /\ Cardinality(before) \in Nat /\ Cardinality(before) <= o
    /\ before \cup S # T => Cardinality(before \cup S) = o + PerPage

LEMMA LeftOut ==
  ASSUME NEW l, NEW n \in Nat, NEW T \in SUBSET (1..n), NEW o \in Nat, NEW S \in Cuts(l, T, o)
  PROVE  \E before : Before(before, l, T, o, S)
<1>1. PICK before \in SUBSET (T \ S) :
        /\ NoneNewer(l, before, T \ before) /\ NoneNewer(l, S, T \ (before \cup S))
        /\ Cardinality(before) <= o /\ (before # T => Cardinality(before) = o)
        /\ Cardinality(S) <= PerPage /\ (before \cup S # T => Cardinality(S) = PerPage)
  BY DEF Cuts
<1>2. /\ S \subseteq T /\ before \subseteq T /\ before \cap S = {}
      /\ IsFiniteSet(S) /\ IsFiniteSet(before) /\ Cardinality(before) \in Nat
  <2>1. S \in SUBSET (1..n) /\ before \in SUBSET (1..n) /\ S \subseteq T
    BY DEF Cuts
  <2> QED BY <2>1, RowsFinite
<1>3. Cardinality(before \cup S) = Cardinality(before) + Cardinality(S)
  BY <1>2, RowsDisjoint
<1>4. ASSUME before \cup S # T PROVE Cardinality(before \cup S) = o + PerPage
  <2>1. before # T
    BY <1>2, <1>4
  <2> QED BY <1>1, <1>3, <1>4, <2>1
<1> QED BY <1>1, <1>2, <1>4 DEF Before

\* Two pages of one filter leave out no row between them that was there for both and has a time
\* of its own.
LEMMA NoGap ==
  ASSUME NEW a \in Addresses, NEW l \in Seq(Rows), NEW near, NEW far, NEW d \in Nat, NEW e \in Nat,
         near.at \in Nat, far.at \in Nat, near.at <= far.at,
         NEW i \in 1..near.at, NEW j \in near.rows, NEW k \in far.rows,
         Listing(near, a, l, d), Listing(far, AtPage(a, a.page + 1), l, e),
         Filtered(a, l[i]), l[i].time > d, l[i].time > e,
         \A x \in 1..near.at \ {i} : Filtered(a, l[x]) => l[x].time # l[i].time,
         l[j].time > l[i].time, l[k].time < l[i].time
  PROVE  i \in near.rows \cup far.rows
<1> DEFINE b == AtPage(a, a.page + 1)
           T == Upto(a, l, near.at, d)
           U == Upto(a, l, far.at, e)
           R == near.rows
           S == far.rows
<1>1. SUFFICES ASSUME i \notin R, i \notin S PROVE FALSE
  OBVIOUS
<1>2. \A row : Filtered(b, row) <=> Filtered(a, row)
  BY DEF Filtered, AtPage
<1>3. Upto(b, l, far.at, e) = U
  BY <1>2 DEF Upto
<1>4. Offset(a) \in Nat /\ Offset(b) = Offset(a) + PerPage /\ Offset(b) \in Nat /\ PerPage \in Nat
  BY NextWindow, PageSizesHold DEF PageSizes
<1>5. near.at <= Len(l) /\ far.at <= Len(l) /\ Len(l) \in Nat
  BY DEF Listing
<1>6. \A x \in 1..Len(l) : l[x].time \in Nat
  BY RowTime
<1>7. T \in SUBSET (1..near.at) /\ U \in SUBSET (1..far.at) /\ i \in T /\ i \in U
  BY DEF Upto
<1>8. PICK P : Before(P, l, T, Offset(a), R)
  <2>1. R \in Cuts(l, T, Offset(a))
    BY DEF Listing
  <2> HIDE DEF R, T
  <2> QED BY <1>4, <1>7, <2>1, LeftOut
<1>9. PICK Q : Before(Q, l, U, Offset(a) + PerPage, S)
  <2>1. S \in Cuts(l, U, Offset(a) + PerPage)
    BY <1>3, <1>4 DEF Listing
  <2> HIDE DEF S, U
  <2>2. Offset(a) + PerPage \in Nat
    BY <1>4
  <2> QED BY <1>7, <2>1, <2>2, LeftOut
<1> USE DEF Before
<1>10. i \in T \ (P \cup R)
  <2>1. j \in T \ P /\ j \in 1..Len(l) /\ i \in 1..Len(l)
    BY <1>5, <1>7, <1>8
  <2>2. ~(l[i].time >= l[j].time)
    BY <1>6, <2>1
  <2>3. i \notin P
    BY <1>8, <2>1, <2>2 DEF NoneNewer
  <2> QED BY <1>1, <1>7, <2>3
<1>11. i \in Q
  <2>1. k \in S /\ k \in 1..Len(l) /\ i \in 1..Len(l)
    BY <1>5, <1>7, <1>9
  <2>2. ~(l[k].time >= l[i].time)
    BY <1>6, <2>1
  <2>3. i \notin U \ (Q \cup S)
    BY <1>9, <2>1, <2>2 DEF NoneNewer
  <2> QED BY <1>1, <1>7, <2>3
<1>12. ASSUME NEW x \in P \cup R PROVE x \in Q \ {i}
  <2>1. x \in T /\ x # i /\ l[x].time >= l[i].time
    <3>1. CASE x \in P
      <4>1. i \in T \ P
        BY <1>10
      <4> QED BY <1>8, <1>10, <3>1, <4>1 DEF NoneNewer
    <3>2. CASE x \in R
      BY <1>8, <1>10, <3>2 DEF NoneNewer
    <3> QED BY <3>1, <3>2
  <2>2. x \in 1..near.at /\ Filtered(a, l[x]) /\ l[x].time # l[i].time
    BY <2>1 DEF Upto
  <2>3. l[x].time \in Nat /\ l[i].time \in Nat /\ l[x].time > l[i].time
    BY <1>5, <1>6, <2>1, <2>2
  <2>4. x \in U
    BY <2>2, <2>3 DEF Upto
  <2>5. x \notin U \ Q
    <3>1. ~(l[i].time >= l[x].time)
      BY <2>3
    <3> QED BY <1>9, <1>11, <3>1 DEF NoneNewer
  <2> QED BY <2>1, <2>4, <2>5
<1> HIDE DEF T, U, R, S
<1>13. Cardinality(P \cup R) = Offset(a) + PerPage
  BY <1>8, <1>10
<1>14. IsFiniteSet(Q) /\ IsFiniteSet(P \cup R) /\ Cardinality(Q) \in Nat
  BY <1>8, <1>9, FS_Union
<1>15. Cardinality(P \cup R \cup {i}) = Offset(a) + PerPage + 1 /\ P \cup R \cup {i} \subseteq Q
  BY <1>11, <1>12, <1>13, <1>14, FS_AddElement
<1>16. Offset(a) + PerPage + 1 <= Cardinality(Q)
  BY <1>14, <1>15, FS_Subset
<1> QED BY <1>4, <1>9, <1>14, <1>16

\* No row that was there is newer than all of the first page.
LEMMA FirstPage ==
  ASSUME NEW a \in Addresses, NEW l \in Seq(Rows), NEW near, NEW d \in Nat, a.page = 1,
         near.at \in Nat, Listing(near, a, l, d), NEW i \in 1..near.at,
         Filtered(a, l[i]), l[i].time > d
  PROVE  \E j \in near.rows : l[j].time >= l[i].time
<1> DEFINE T == Upto(a, l, near.at, d)
           R == near.rows
<1>1. Offset(a) = 0 /\ PerPage \in Nat \ {0}
  BY NextWindow, PageSizesHold DEF PageSizes
<1>2. T \in SUBSET (1..near.at) /\ i \in T
  BY DEF Upto
<1>3. PICK before : Before(before, l, T, 0, R)
  <2>1. R \in Cuts(l, T, 0)
    BY <1>1 DEF Listing
  <2> HIDE DEF R, T
  <2> QED BY <1>2, <2>1, LeftOut
<1>4. before = {}
  BY <1>3, FS_EmptySet DEF Before
<1>5. i \in 1..Len(l) /\ l[i].time \in Nat
  <2>1. i \in 1..Len(l)
    BY DEF Listing
  <2> QED BY <2>1, RowTime
<1>6. CASE i \in R
  BY <1>5, <1>6
<1>7. CASE i \notin R
  <2>1. before \cup R = R /\ i \in T \ R
    BY <1>2, <1>4, <1>7
  <2>2. before \cup R # T
    BY <2>1
  <2>3. Cardinality(before \cup R) = 0 + PerPage
    BY <1>3, <2>2 DEF Before
  <2>4. before \cup R # {}
    <3>1. SUFFICES ASSUME before \cup R = {} PROVE FALSE
      OBVIOUS
    <3>2. Cardinality(before \cup R) = 0
      BY <3>1, FS_EmptySet
    <3> QED BY <1>1, <2>3, <3>2
  <2> QED BY <1>3, <2>1, <2>4 DEF Before, NoneNewer
<1> QED BY <1>6, <1>7

----------------------------------------------------------------------------
(* The theorems.                                                           *)

\* The variables keep their types: a page turned to is one an answer promised.
THEOREM PageTypeCorrect == PageSpec => [](PageTypeOK /\ ChoicesHold)
<1>1. PageTypeOK /\ ChoicesHold /\ [PageNext]_pageVars => (PageTypeOK /\ ChoicesHold)'
  BY PageNextType
<1> QED BY <1>1, PageInitType, PTL DEF PageSpec

\* The address has the filter chosen last in the box and the one chosen last in
\* the menu, however slowly navigations arrive (audit.tsx, navigate).
THEOREM Choices == PageSpec => []ChoicesHold
  BY PageTypeCorrect, PTL

\* What is cached is still a page of the rows that were there when it was read,
\* in an order of their times, whatever was committed or dropped since.
THEOREM Cached == PageSpec => []Snapshots
<1>1. PageTypeOK /\ Snapshots /\ [PageNext]_pageVars => Snapshots'
  BY NextSnapshots
<1> QED BY <1>1, PageInitType, PageTypeCorrect, PTL DEF PageSpec

\* Two neighbouring pages of one filter leave out no row between them that was
\* in the log when the nearer was read and had a time of its own, whatever order
\* the query put rows of one time in and whatever was committed late; and no row
\* that was there is newer than all of the first page (the API's offset and
\* order, under the page's cache).
THEOREM NoGaps == PageSpec => []PagesLeaveNoGap
<1>1. PageTypeOK /\ Snapshots => PagesLeaveNoGap
  <2> SUFFICES ASSUME PageTypeOK, Snapshots, NEW a \in Addresses, cache[a] # None
               PROVE  LET b == AtPage(a, a.page + 1)
                          near == cache[a]
                          Left(i) == Filtered(a, log[i]) /\ log[i].time > dropped
                      IN  /\ a.page = 1 => \A i \in 1..near.at :
                                Left(i) => \E j \in near.rows : log[j].time >= log[i].time
                          /\ (b \in Addresses /\ cache[b] # None /\ cache[b].at >= near.at) =>
                                \A i \in 1..near.at :
                                   (/\ Left(i) /\ AloneInTime(a, i, near.at)
                                    /\ \E j \in near.rows : log[j].time > log[i].time
                                    /\ \E j \in cache[b].rows : log[j].time < log[i].time)
                                   => i \in near.rows \cup cache[b].rows
    BY DEF PagesLeaveNoGap
  <2> DEFINE b == AtPage(a, a.page + 1)
             near == cache[a]
             far == cache[b]
  <2>1. dropped \in Nat /\ near \in Answers /\ near.at \in Nat /\ log \in Seq(Rows)
    BY DEF PageTypeOK, Answers
  <2>2. PICK d \in 0..dropped : Listing(near, a, log, d)
    BY DEF Snapshots
  <2>3. \A i \in 1..near.at : log[i].time \in Nat
    <3>1. Len(log) \in Nat /\ near.at <= Len(log)
      BY <2>1, <2>2 DEF Listing
    <3> QED BY <2>1, <3>1, RowTime
  <2>4. ASSUME a.page = 1, NEW i \in 1..near.at, Filtered(a, log[i]), log[i].time > dropped
        PROVE  \E j \in near.rows : log[j].time >= log[i].time
    <3>1. d \in Nat /\ log[i].time > d
      BY <2>1, <2>3, <2>4
    <3> HIDE DEF near
    <3> QED BY <2>1, <2>2, <2>4, <3>1, FirstPage
  <2>5. ASSUME b \in Addresses, far # None, far.at >= near.at, NEW i \in 1..near.at,
               Filtered(a, log[i]), log[i].time > dropped, AloneInTime(a, i, near.at),
               NEW j \in near.rows, log[j].time > log[i].time,
               NEW k \in far.rows, log[k].time < log[i].time
        PROVE  i \in near.rows \cup far.rows
    <3>1. far \in Answers /\ far.at \in Nat
      BY <2>5 DEF PageTypeOK, Answers
    <3>2. PICK e \in 0..dropped : Listing(far, b, log, e)
      BY <2>5 DEF Snapshots
    <3>3. d \in Nat /\ e \in Nat /\ log[i].time > d /\ log[i].time > e /\ near.at <= far.at
      BY <2>1, <2>3, <2>5, <3>1
    <3>4. \A x \in 1..near.at \ {i} : Filtered(a, log[x]) => log[x].time # log[i].time
      BY <2>5 DEF AloneInTime
    <3> HIDE DEF near, far
    <3> QED BY <2>1, <2>2, <2>5, <3>1, <3>2, <3>3, <3>4, NoGap
  <2> QED BY <2>4, <2>5
<1> QED BY <1>1, PageTypeCorrect, Cached, PTL

=============================================================================
