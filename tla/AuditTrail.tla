------------------------------ MODULE AuditTrail ------------------------------
(***************************************************************************)
(* The audit trail of the API, from the answered request to the row that   *)
(* is dropped when it is too old.                                          *)
(*                                                                         *)
(* A middleware emits one event for every answered request into a Redis    *)
(* list; the worker of the API process takes events off the list, batches  *)
(* them and inserts a batch when it is full or a timer fires; an admin may *)
(* drain the list from a request.  The rows live in one partition per      *)
(* month; a daily pass creates the partitions to come and drops the old.   *)
(* The process may be stopped, may crash, and is started again; the list   *)
(* outlives it.                                                            *)
(***************************************************************************)
EXTENDS Integers, Sequences, FiniteSets

CONSTANTS
    MaxEvents,     \* bound: requests answered
    BatchSize,     \* events of a full batch
    Lengths,       \* days of the months, in the order in which they recur
    RetainMonths,  \* RetentionPolicy
    CreateAhead,
    ScanBack,      \* months the pass looks back beyond RetainMonths
    LastMonth,     \* bound: months the behaviour lasts
    MaxStarts,     \* bound: times the process is started again
    MaxFaults      \* bound: errors, abandoned requests and crashes

ASSUME ConstantsAssumption ==
    /\ {MaxEvents, BatchSize, CreateAhead, ScanBack} \subseteq Nat \ {0}
    /\ RetainMonths \in Nat \ {0, 1}
    /\ {LastMonth, MaxStarts, MaxFaults} \subseteq Nat
    /\ Lengths \in Seq(Nat \ {0}) /\ Lengths # <<>>

VARIABLES
    today,       \* the date, UTC
    partitions,  \* months that have a partition of audit_logs
    rows,        \* its rows: the event and the month of created_at
    swept,       \* did the running process make its pass of the day
    api,         \* the process: "up", "stopping" or "down"
    worker,      \* its worker: at the top of its "loop", in "brpop", or "gone"
    answered,    \* requests answered whose event is not emitted yet
    queue,       \* audit:queue, oldest first
    batch,       \* events the worker holds
    held,        \* the event a drain request holds, 0 when none
    next,        \* the next request
    faults, starts,
    \* History, for the properties only.
    lost,        \* events that are gone without a row
    expired,     \* events whose row went with its partition
    uneven       \* was the process started on a day that some month lacks,
                 \* or in a month without a partition

timeVars == <<today, partitions, swept>>
processVars == <<api, worker, starts>>
vars == <<timeVars, rows, processVars, answered, queue, batch, held, next, faults,
          lost, expired, uneven>>

Events == 1..MaxEvents

-----------------------------------------------------------------------------
(* The calendar.                                                           *)

MonthLength(m) == Lengths[(m % Len(Lengths)) + 1]

\* time.AddDate(0, i, 0): a day the month lacks runs over into the next month.
AddMonths(d, i) ==
    LET m == d.month + i
    IN  IF d.day <= MonthLength(m) THEN [month |-> m, day |-> d.day]
        ELSE [month |-> m + 1, day |-> d.day - MonthLength(m)]

After(d, e) == d.month > e.month \/ (d.month = e.month /\ d.day > e.day)

InEveryMonth(day) == \A k \in DOMAIN Lengths : day <= Lengths[k]

\* Partitions the pass of day d creates and, among those, drops.
CreatedBy(d) == {AddMonths(d, i).month : i \in 0..CreateAhead}

\* Mutant: the scan starts a month too early.
DroppedByEarly(d) ==
    {AddMonths(d, -i).month : i \in (RetainMonths - 1)..(RetainMonths + ScanBack - 1)}

DroppedBy(d) ==
    LET cutoff == AddMonths(d, -RetainMonths)
        back(i) == AddMonths(d, -i)
    IN  {back(i).month : i \in {j \in RetainMonths..(RetainMonths + ScanBack - 1) :
                                    ~After(back(j), cutoff)}}

-----------------------------------------------------------------------------

\* The process was just started, in a month that has its partition; its first
\* pass is still to come.
Init ==
    /\ today \in {[month |-> 0, day |-> d] : d \in 1..MonthLength(0)}
    /\ partitions = {0}
    /\ rows = {}
    /\ swept = FALSE
    /\ api = "up" /\ worker = "loop"
    /\ answered = {} /\ queue = <<>> /\ batch = {} /\ held = 0
    /\ next = 1
    /\ faults = 0 /\ starts = 0
    /\ lost = {} /\ expired = {}
    /\ uneven = ~InEveryMonth(today.day)

Fault == faults < MaxFaults /\ faults' = faults + 1

(* The middleware.                                                         *)

\* The answer leaves before the event is emitted.
Answer ==
    /\ api = "up" /\ next <= MaxEvents
    /\ answered' = answered \cup {next}
    /\ next' = next + 1
    /\ UNCHANGED <<timeVars, rows, processVars, queue, batch, held, faults, lost,
                   expired, uneven>>

Emit(e) ==
    /\ api # "down" /\ e \in answered
    /\ answered' = answered \ {e}
    /\ queue' = Append(queue, e)
    /\ UNCHANGED <<timeVars, rows, processVars, batch, held, next, faults, lost,
                   expired, uneven>>

\* Redis is down, or the request's context has ended: its client hung up or its
\* 30 s are over.
EmitFails(e) ==
    /\ api # "down" /\ e \in answered
    /\ Fault
    /\ answered' = answered \ {e}
    /\ lost' = lost \cup {e}
    /\ UNCHANGED <<timeVars, rows, processVars, queue, batch, held, next, expired, uneven>>

(* One INSERT for all events of S; an error is logged and S forgotten.     *)
(* What else is lost in the same step is in gone.                          *)

Inserted(S, gone) ==
    /\ today.month \in partitions
    /\ rows' = rows \cup [event : S, month : {today.month}]
    /\ lost' = lost \cup gone
    /\ UNCHANGED faults

InsertFails(S, gone) ==
    /\ \/ today.month \notin partitions /\ UNCHANGED faults
       \/ Fault
    /\ lost' = lost \cup S \cup gone
    /\ UNCHANGED rows

Flush(S, gone) ==
    IF S = {} THEN lost' = lost \cup gone /\ UNCHANGED <<rows, faults>>
    ELSE Inserted(S, gone) \/ InsertFails(S, gone)

(* The worker.                                                             *)

\* Neither the timer nor the end of its context is ready: wait for an event.
WorkerWaits ==
    /\ api = "up" /\ worker = "loop"
    /\ worker' = "brpop"
    /\ UNCHANGED <<timeVars, rows, api, starts, answered, queue, batch, held, next,
                   faults, lost, expired, uneven>>

\* Mutant: the batch that was written is kept.
PopKeepsBatch ==
    /\ worker = "brpop" /\ queue # <<>>
    /\ LET full == batch \cup {Head(queue)}
       IN  IF Cardinality(full) >= BatchSize
           THEN Flush(full, {}) /\ batch' = batch
           ELSE batch' = full /\ UNCHANGED <<rows, lost, faults>>
    /\ queue' = Tail(queue)
    /\ worker' = "loop"
    /\ UNCHANGED <<timeVars, api, starts, answered, held, next, expired, uneven>>

\* The event joins the batch, which goes when it is full.
Pop ==
    /\ worker = "brpop" /\ queue # <<>>
    /\ LET full == batch \cup {Head(queue)}
       IN  IF Cardinality(full) >= BatchSize
           THEN Flush(full, {}) /\ batch' = {}
           ELSE batch' = full /\ UNCHANGED <<rows, lost, faults>>
    /\ queue' = Tail(queue)
    /\ worker' = "loop"
    /\ UNCHANGED <<timeVars, api, starts, answered, held, next, expired, uneven>>

PopTimesOut ==
    /\ worker = "brpop" /\ queue = <<>>
    /\ worker' = "loop"
    /\ UNCHANGED <<timeVars, rows, api, starts, answered, queue, batch, held, next,
                   faults, lost, expired, uneven>>

\* Mutant: the timer writes only a batch that is full.
TimerFlushFull ==
    /\ worker = "loop" /\ Cardinality(batch) >= BatchSize
    /\ Flush(batch, {})
    /\ batch' = {}
    /\ UNCHANGED <<timeVars, processVars, answered, queue, held, next, expired, uneven>>

TimerFlush ==
    /\ worker = "loop" /\ batch # {}
    /\ Flush(batch, {})
    /\ batch' = {}
    /\ UNCHANGED <<timeVars, processVars, answered, queue, held, next, expired, uneven>>

(* An admin's request takes one event after the other off the list.        *)

DrainPops ==
    /\ api = "up" /\ held = 0 /\ queue # <<>>
    /\ held' = Head(queue)
    /\ queue' = Tail(queue)
    /\ UNCHANGED <<timeVars, rows, processVars, answered, batch, next, faults, lost,
                   expired, uneven>>

DrainFlushes ==
    /\ api # "down" /\ held # 0
    /\ Flush({held}, {})
    /\ held' = 0
    /\ UNCHANGED <<timeVars, processVars, answered, queue, batch, next, expired, uneven>>

-----------------------------------------------------------------------------
(* The process.                                                            *)

\* On a signal the server waits for its requests, at most 10 s, then asks the
\* worker to stop.
Stop ==
    /\ api = "up"
    /\ \/ answered = {} /\ held = 0 /\ UNCHANGED faults
       \/ Fault
    /\ api' = "stopping"
    /\ UNCHANGED <<timeVars, rows, worker, starts, answered, queue, batch, held, next,
                   lost, expired, uneven>>

\* What the process holds besides the batch ends with it.
InProcess == answered \cup ({held} \ {0})

Ended ==
    /\ api' = "down" /\ worker' = "gone"
    /\ answered' = {} /\ held' = 0 /\ batch' = {}

\* Mutant: the batch is forgotten at the stop.
WorkerStopsUnflushed ==
    /\ api = "stopping" /\ worker = "loop"
    /\ lost' = lost \cup InProcess \cup batch
    /\ Ended
    /\ UNCHANGED <<timeVars, rows, faults, starts, queue, next, expired, uneven>>

\* The worker writes its batch and the process ends; the list stays.
WorkerStops ==
    /\ api = "stopping" /\ worker = "loop"
    /\ Flush(batch, InProcess)
    /\ Ended
    /\ UNCHANGED <<timeVars, starts, queue, next, expired, uneven>>

Crash ==
    /\ api # "down"
    /\ Fault
    /\ lost' = lost \cup InProcess \cup batch
    /\ Ended
    /\ UNCHANGED <<timeVars, rows, starts, queue, next, expired, uneven>>

\* A new process: its worker runs at once, beside its first pass.
Start ==
    /\ api = "down" /\ starts < MaxStarts
    /\ api' = "up" /\ worker' = "loop"
    /\ starts' = starts + 1
    /\ swept' = FALSE
    /\ uneven' = (uneven \/ ~InEveryMonth(today.day) \/ today.month \notin partitions)
    /\ UNCHANGED <<today, partitions, rows, answered, queue, batch, held, next, faults,
                   lost, expired>>

(* The pass of the day: months are created, then dropped with their rows.  *)

Sweep ==
    /\ api # "down" /\ ~swept
    /\ \E made \in SUBSET CreatedBy(today), gone \in SUBSET DroppedBy(today) :
          /\ \/ made = CreatedBy(today) /\ gone = DroppedBy(today) /\ UNCHANGED faults
             \/ made \cup gone = {} /\ Fault
             \/ made # CreatedBy(today) /\ made # {} /\ gone = DroppedBy(today) /\ Fault
          /\ partitions' = (partitions \cup made) \ gone
          /\ rows' = {r \in rows : r.month \notin gone}
          /\ expired' = expired \cup {r.event : r \in {q \in rows : q.month \in gone}}
    /\ swept' = TRUE
    /\ UNCHANGED <<today, processVars, answered, queue, batch, held, next, lost, uneven>>

\* Midnight.  A running process makes its pass every 24 h.
NextDay ==
    /\ api = "down" \/ swept
    /\ today.month < LastMonth \/ today.day < MonthLength(today.month)
    /\ today' = IF today.day < MonthLength(today.month)
                THEN [month |-> today.month, day |-> today.day + 1]
                ELSE [month |-> today.month + 1, day |-> 1]
    /\ swept' = FALSE
    /\ UNCHANGED <<partitions, rows, processVars, answered, queue, batch, held, next,
                   faults, lost, expired, uneven>>

WorkerStep == WorkerWaits \/ Pop \/ PopTimesOut \/ WorkerStops

Next ==
    \/ Answer \/ (\E e \in answered : Emit(e) \/ EmitFails(e))
    \/ WorkerStep \/ TimerFlush \/ DrainPops \/ DrainFlushes
    \/ Stop \/ Crash \/ Start \/ Sweep \/ NextDay

Spec == Init /\ [][Next]_vars

\* The worker never rests, and select takes the timer's channel before its
\* default branch whenever the timer has fired.
FairSpec == Spec /\ WF_vars(WorkerStep) /\ SF_vars(TimerFlush)

-----------------------------------------------------------------------------
(* Properties.                                                             *)

Months == 0..(LastMonth + CreateAhead + 1)

\* The variables have their types, and what a drain holds is still of this process.
TypeOK ==
    /\ today \in [month : 0..LastMonth, day : Nat \ {0}]
    /\ today.day <= MonthLength(today.month)
    /\ partitions \subseteq Months /\ swept \in BOOLEAN
    /\ rows \subseteq [event : Events, month : 0..LastMonth]
    /\ api \in {"up", "stopping", "down"} /\ worker \in {"loop", "brpop", "gone"}
    /\ queue \in Seq(Events) /\ Len(queue) <= MaxEvents
    /\ answered \cup batch \cup lost \cup expired \subseteq Events
    /\ held \in 0..MaxEvents /\ next \in 1..(MaxEvents + 1)
    /\ faults \in 0..MaxFaults /\ starts \in 0..MaxStarts /\ uneven \in BOOLEAN
    /\ Cardinality(batch) < BatchSize
    /\ api = "down" => worker = "gone" /\ held = 0 /\ batch = {} /\ answered = {}

Queued == {queue[k] : k \in DOMAIN queue}
Stored == {r.event : r \in rows}

\* Every answered request has its event in exactly one place, and at most one
\* row, with the worker and drains taking events off the same list, restarts and
\* crashes (writer.go:100, "safe to call concurrently").  Bound: one drain at a time
\* holds an event.
ExactlyOnce ==
    /\ Cardinality(rows) = Cardinality(Stored)
    /\ Cardinality(Queued) = Len(queue)
    /\ Cardinality(answered) + Len(queue) + Cardinality(batch)
       + Cardinality({held} \ {0}) + Cardinality(rows) + Cardinality(lost)
       + Cardinality(expired) = next - 1
    /\ answered \cup Queued \cup batch \cup ({held} \ {0}) \cup Stored \cup lost
       \cup expired = 1..(next - 1)

\* Without an error, a crash or an abandoned request no event is lost, over any
\* stops and restarts and the turns of the months, as long as the process was
\* never started on a day that some month lacks nor in a month without a
\* partition: the daily passes are ahead of the rows (writer.go, retention.go).
SteadyServerLosesNothing == faults = 0 /\ ~uneven => lost = {}

\* A pass drops no row before its month lies RetainMonths back, on every day that
\* the month RetainMonths back has.  On another one, the 29th of February with
\* years of twelve months, the cutoff runs over into the next month, which is
\* dropped with it (retention.go, runRetention).
KeptForRetention ==
    [][today.day <= MonthLength(today.month - RetainMonths) =>
           \A r \in rows \ rows' : r.month <= today.month - RetainMonths]_vars

\* An event on the list or in the batch is written or lost, or the process ends
\* first: the timer moves a batch that never fills (writer.go, worker).
QueuedEventsLeave ==
    \A e \in Events : (e \in Queued \cup batch) ~>
                          (e \notin Queued \cup batch \/ api = "down")

===============================================================================
