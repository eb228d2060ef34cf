-------------------------- MODULE ScheduleLedger --------------------------
(***************************************************************************)
(* Phase 1 of the worker's tick: poll_tenant_schedules selects the due     *)
(* schedules of a tenant, runs each in a savepoint and appends one         *)
(* scheduled_run row per grid tick.  Several workers may poll the same     *)
(* tenant at once (infra starts one process per tenant and tick, and a     *)
(* late one overlaps the next); nothing serialises them but the two unique *)
(* indexes of the ledger and the tenant's audit-chain lock, which a run    *)
(* takes when it writes its first audit event and keeps to the end of its  *)
(* savepoint or transaction.                                               *)
(*                                                                         *)
(* Time is a small clock.  An INTERVAL grid is anchor + k * interval; the  *)
(* business month-end of month m falls on 2m + 1, or one instant earlier   *)
(* once a holiday refresh makes that a holiday, so the same month has two  *)
(* possible instants and one period key.                                   *)
(***************************************************************************)
EXTENDS Integers, FiniteSets, Sequences, FiniteSetsExt

CONSTANTS
    Workers,        \* worker processes polling one tenant
    Schedules,      \* schedule ids, numbers: the polls are ORDER BY id
    Monthly,        \* those with the BUSINESS_MONTH_END cadence; the others are INTERVAL
    Anchor,         \* schedule |-> its start boundary
    Interval,       \* step of every INTERVAL grid
    MaxTime,        \* bound: last instant of the clock
    MaxRefreshes,   \* bound: holiday refreshes
    MaxFaults       \* bound: crashes and lost records

ASSUME ConstantsAssumption ==
    /\ Schedules \subseteq Nat /\ IsFiniteSet(Schedules)
    /\ Monthly \subseteq Schedules
    /\ Anchor \in [Schedules -> Nat]
    /\ Interval \in Nat \ {0}
    /\ {MaxTime, MaxRefreshes, MaxFaults} \subseteq Nat

VARIABLES
    clock,      \* wall-clock instant
    calendar,   \* the bound holiday calendar: "plain", "early" or "unresolved"
    refreshes,  \* holiday refreshes so far
    status,     \* schedule |-> "NONE" (not created), "ACTIVE" or "PAUSED"
    ledger,     \* committed scheduled_run rows
    runs,       \* committed calculation_run rows
    at,         \* worker |-> where its poll is
    seen,       \* worker |-> tick_now, read once per poll
    due,        \* worker |-> the rest of the list select_active_due returned
    rows,       \* worker |-> ledger rows of its open transaction
    born,       \* worker |-> runs of its open transaction
    faults      \* crashes and lost records so far

vars == <<clock, calendar, refreshes, status, ledger, runs, at, seen, due, rows, born, faults>>
world == <<clock, calendar, refreshes, status>>
shared == <<ledger, runs>>

NoPeriod == -1
NoRun == "no run"

-----------------------------------------------------------------------------
(* The grid. *)

\* _month_end_tick_at_or_before: the latest business month-end that is not in the future.
MonthEnd(now, cal) == Max({e \in {IF cal = "early" THEN 2 * m ELSE 2 * m + 1 : m \in -1 .. MaxTime} :
                              e <= now})

\* The INTERVAL branch of current_tick, with its `if k < 0: k = 0` clamp.
IntervalTick(s, now) == Anchor[s] + Interval * Max({0, (now - Anchor[s]) \div Interval})

current_tick(s, now, cal) == IF s \in Monthly THEN MonthEnd(now, cal) ELSE IntervalTick(s, now)

\* _resolve_business_calendar raises (no declared coverage, a corrupt or uncovered month): the
\* schedule is skipped this cycle.
Resolvable(s, cal) == s \in Monthly => cal # "unresolved"

StartExcluded(s, tick, now) == tick <= Anchor[s]     \* mutant: the boundary itself is left out
IgnoreClock(s, tick, now) == tick < Anchor[s]       \* mutant: the leg SCH-2 added, alone
OutsideStart(s, tick, now) == tick < Anchor[s] \/ now < Anchor[s]

\* _period_key, the month an instant belongs to, stamped on BUSINESS_MONTH_END rows only.
PeriodKey(s, tick) == IF s \in Monthly THEN tick \div 2 ELSE NoPeriod

\* A ledger row, and when two of them violate one of the two unique indexes.
Row(s, tick, now, run, outcome) ==
    [sched |-> s, tick |-> tick, period |-> PeriodKey(s, tick), fired |-> now,
     run |-> run, outcome |-> outcome]
ClashOnTick(r, q) == r.sched = q.sched /\ r.tick = q.tick      \* mutant: no period index
Clash(r, q) ==
    /\ r.sched = q.sched
    /\ r.tick = q.tick \/ (r.period = q.period /\ r.period # NoPeriod)

-----------------------------------------------------------------------------
(* What a poll selects. *)

\* `already` and `served`: a committed row holds this tick, or this month.
Served(s, tick) == \E r \in ledger : Clash(r, Row(s, tick, clock, NoRun, "FAILED"))

IsDue(s, now) ==
    /\ status[s] = "ACTIVE"
    /\ Resolvable(s, calendar)
    /\ LET tick == current_tick(s, now, calendar)
       IN  ~OutsideStart(s, tick, now) /\ ~Served(s, tick)

\* The orders in which select_active_due may return a set of due entries: ORDER BY schedule.id.
AnyOrder(S) == {o \in [1 .. Cardinality(S) -> S] : S = {o[i] : i \in DOMAIN o}}      \* mutant: no ORDER BY
Orders(S) ==
    {o \in [1 .. Cardinality(S) -> S] :
        /\ S = {o[i] : i \in DOMAIN o}
        /\ \A i, j \in DOMAIN o : i < j => o[i].sched < o[j].sched}

-----------------------------------------------------------------------------
(* Transactions. *)

\* A run's first audit event takes the tenant's chain lock; it is held while the transaction
\* still has a run, and a savepoint rolled back with its only run gives it back.
ChainFree(w) == \A o \in Workers \ {w} : born[o] = {}

\* A unique-index entry of another open transaction makes the insert wait.
InsertWaitsFor(w, r) == {o \in Workers \ {w} : \E q \in rows[o] : Clash(q, r)}
Occupied(r) == \E q \in ledger : Clash(q, r)

Entry(w) == Head(due[w])
Attempt(w) == [sched |-> Entry(w).sched, tick |-> Entry(w).tick, by |-> w]
RowOf(w) ==
    LET e == Entry(w)
    IN  IF at[w] = "record" THEN Row(e.sched, e.tick, seen[w], NoRun, "FAILED")
        ELSE Row(e.sched, e.tick, seen[w], w, IF at[w] = "insert" THEN "DISPATCHED" ELSE "FAILED")

\* ROLLBACK TO SAVEPOINT: the phantom run goes.
KeepPhantom(w) == born[w]                                    \* mutant: no savepoint rollback
RolledBack(w) == born[w] \ {Attempt(w)}

-----------------------------------------------------------------------------
Init ==
    /\ clock = 0 /\ calendar = "plain" /\ refreshes = 0 /\ faults = 0
    /\ status = [s \in Schedules |-> "NONE"]
    /\ ledger = {} /\ runs = {}
    /\ at = [w \in Workers |-> "idle"]
    /\ seen = [w \in Workers |-> 0]
    /\ due = [w \in Workers |-> <<>>]
    /\ rows = [w \in Workers |-> {}]
    /\ born = [w \in Workers |-> {}]

\* The worker leaves the head of its list behind and takes the next.
Proceed(w) ==
    /\ due' = [due EXCEPT ![w] = Tail(@)]
    /\ at' = [at EXCEPT ![w] = "next"]

\* A new transaction: tick_now is read.
StartPoll(w) ==
    /\ at[w] = "idle"
    /\ at' = [at EXCEPT ![w] = "select"]
    /\ seen' = [seen EXCEPT ![w] = clock]
    /\ UNCHANGED <<world, shared, due, rows, born, faults>>

\* select_active_due.  Statuses, calendar and ledger are read now and not again.
SelectDue(w) ==
    /\ at[w] = "select"
    /\ at' = [at EXCEPT ![w] = "next"]
    /\ \E order \in Orders({[sched |-> s, tick |-> current_tick(s, seen[w], calendar)] :
                               s \in {t \in Schedules : IsDue(t, seen[w])}}) :
          due' = [due EXCEPT ![w] = order]
    /\ UNCHANGED <<world, shared, seen, rows, born, faults>>

\* dispatch_one up to the family's binder: a row committed since for this very tick is returned.
Dispatch(w) ==
    /\ at[w] = "next" /\ due[w] # <<>>
    /\ IF \E r \in ledger : r.sched = Entry(w).sched /\ r.tick = Entry(w).tick
       THEN Proceed(w)
       ELSE at' = [at EXCEPT ![w] = "run"] /\ UNCHANGED due
    /\ UNCHANGED <<world, shared, seen, rows, born, faults>>

\* The binder creates the run and it ends COMPLETED or FAILED.
RunEnds(w) ==
    /\ at[w] = "run" /\ ChainFree(w)
    /\ born' = [born EXCEPT ![w] = @ \cup {Attempt(w)}]
    /\ \E place \in {"insert", "insert_failed"} : at' = [at EXCEPT ![w] = place]
    /\ UNCHANGED <<world, shared, seen, due, rows, faults>>

ToRetry(w) ==                                       \* mutant: the poll tries again on the spot
    /\ born' = [born EXCEPT ![w] = RolledBack(w)]
    /\ at' = [at EXCEPT ![w] = "run"]

\* Anything raised in the savepoint but a duplicate: it is rolled back, evidence follows.
ToRecord(w) ==
    /\ born' = [born EXCEPT ![w] = RolledBack(w)]
    /\ at' = [at EXCEPT ![w] = "record"]

\* A refusal before the run exists (no upstream run, incomplete snapshot), or an error after it.
Raises(w) ==
    /\ at[w] \in {"run", "insert", "insert_failed"}
    /\ ToRecord(w)
    /\ UNCHANGED <<world, shared, seen, due, rows, faults>>

\* The ledger INSERT of dispatch_one.
InsertRow(w) ==
    /\ at[w] \in {"insert", "insert_failed"}
    /\ ~Occupied(RowOf(w)) /\ InsertWaitsFor(w, RowOf(w)) = {}
    /\ rows' = [rows EXCEPT ![w] = @ \cup {RowOf(w)}]
    /\ Proceed(w)
    /\ UNCHANGED <<world, shared, seen, born, faults>>

\* _is_tick_dedup: another poll committed this tick or this month; the savepoint is rolled back
\* and the schedule is SKIPPED_DUPLICATE.
SkipDuplicate(w) ==
    /\ at[w] \in {"insert", "insert_failed"}
    /\ Occupied(RowOf(w))
    /\ born' = [born EXCEPT ![w] = RolledBack(w)]
    /\ Proceed(w)
    /\ UNCHANGED <<world, shared, seen, rows, faults>>

\* _record_failed: a FAILED row without a run, unless another poll occupied the tick.
RecordFailed(w) ==
    /\ at[w] = "record"
    /\ \/ Occupied(RowOf(w)) /\ UNCHANGED rows
       \/ /\ ~Occupied(RowOf(w)) /\ InsertWaitsFor(w, RowOf(w)) = {}
          /\ rows' = [rows EXCEPT ![w] = @ \cup {RowOf(w)}]
    /\ Proceed(w)
    /\ UNCHANGED <<world, shared, seen, born, faults>>

\* ... or not even that succeeds: UNRECORDED, and the tick is left for the next poll.
Unrecorded(w) ==
    /\ at[w] = "record"
    /\ Proceed(w)
    /\ UNCHANGED <<world, shared, seen, rows, born>>
LoseRecord(w) ==
    /\ faults < MaxFaults /\ faults' = faults + 1
    /\ Unrecorded(w)

\* The terminal commit of phases 1 and 2.
CommitPoll(w) ==
    /\ at[w] = "next" /\ due[w] = <<>>
    /\ ledger' = ledger \cup rows[w]
    /\ runs' = runs \cup born[w]
    /\ rows' = [rows EXCEPT ![w] = {}]
    /\ born' = [born EXCEPT ![w] = {}]
    /\ at' = [at EXCEPT ![w] = "idle"]
    /\ seen' = [seen EXCEPT ![w] = 0]
    /\ UNCHANGED <<world, due, faults>>

\* The process or its connection dies, or phase 2 raises: nothing of the transaction remains.
Crash(w) ==
    /\ at[w] # "idle" /\ faults < MaxFaults
    /\ faults' = faults + 1
    /\ at' = [at EXCEPT ![w] = "idle"]
    /\ seen' = [seen EXCEPT ![w] = 0]
    /\ due' = [due EXCEPT ![w] = <<>>]
    /\ rows' = [rows EXCEPT ![w] = {}]
    /\ born' = [born EXCEPT ![w] = {}]
    /\ UNCHANGED <<world, shared>>

-----------------------------------------------------------------------------
(* Waits, and the database's deadlock detector. *)

OnIndex(w) == IF at[w] \in {"insert", "insert_failed", "record"} THEN InsertWaitsFor(w, RowOf(w)) ELSE {}
OnChain(w) == IF at[w] = "run" THEN {o \in Workers \ {w} : born[o] # {}} ELSE {}

WaitsFor(w) == OnIndex(w) \cup OnChain(w)

\* SQLSTATE 40P01 for one member of a cycle: the statement raises, the savepoint is rolled back;
\* in the recording savepoint this is the UNRECORDED outcome.
DeadlockVictim(w) ==
    /\ \E G \in SUBSET Workers : w \in G /\ \A o \in G : WaitsFor(o) \cap G # {}
    /\ \/ at[w] # "record" /\ ToRecord(w) /\ UNCHANGED <<world, shared, seen, due, rows>>
       \/ Unrecorded(w)
    /\ UNCHANGED faults

-----------------------------------------------------------------------------
(* Time, calendars and the people who manage schedules. *)

Tick == clock < MaxTime /\ clock' = clock + 1
        /\ UNCHANGED <<calendar, refreshes, status, shared, at, seen, due, rows, born, faults>>

RefreshHolidays(c) ==
    /\ refreshes < MaxRefreshes /\ c # calendar
    /\ calendar' = c /\ refreshes' = refreshes + 1
    /\ UNCHANGED <<clock, status, shared, at, seen, due, rows, born, faults>>

create_schedule(s) ==
    /\ status[s] = "NONE"
    /\ status' = [status EXCEPT ![s] = "ACTIVE"]
    /\ UNCHANGED <<clock, calendar, refreshes, shared, at, seen, due, rows, born, faults>>

\* pause_schedule and resume_schedule.  The request loads the row and writes the status without a
\* lock; a write of what was loaded is a no-op, so each request amounts to one change or none.
set_status(s, new) ==
    /\ status[s] \in {"ACTIVE", "PAUSED"} \ {new}
    /\ status' = [status EXCEPT ![s] = new]
    /\ UNCHANGED <<clock, calendar, refreshes, shared, at, seen, due, rows, born, faults>>

Step(w) ==
    \/ StartPoll(w) \/ SelectDue(w) \/ Dispatch(w) \/ RunEnds(w) \/ InsertRow(w)
    \/ SkipDuplicate(w) \/ RecordFailed(w) \/ CommitPoll(w) \/ DeadlockVictim(w)

Next ==
    \/ \E w \in Workers : Step(w) \/ Raises(w) \/ LoseRecord(w) \/ Crash(w)
    \/ Tick
    \/ \E c \in {"plain", "early", "unresolved"} : RefreshHolidays(c)
    \/ \E s \in Schedules : create_schedule(s) \/ \E new \in {"ACTIVE", "PAUSED"} : set_status(s, new)

Spec == Init /\ [][Next]_vars

\* Infra keeps polling, statements return unless they wait for a lock, the deadlock detector breaks
\* every cycle; crashes and lost records are finitely many (MaxFaults).  Nothing is assumed of the
\* clock, of people, or of errors: no statement may count on raising to get out of a wait.
FairSpec == Spec /\ \A w \in Workers : WF_vars(Step(w))

-----------------------------------------------------------------------------
(* Properties. *)

Places == {"idle", "select", "next", "run", "insert", "insert_failed", "record"}
Entries == [sched : Schedules, tick : 0 .. MaxTime]
LedgerRows == [sched : Schedules, tick : 0 .. MaxTime, period : Int, fired : 0 .. MaxTime,
               run : Workers \cup {NoRun}, outcome : {"DISPATCHED", "FAILED"}]
Attempts == [sched : Schedules, tick : 0 .. MaxTime, by : Workers]

\* Types, and what the places of a poll imply: nothing is selected before its instant has come,
\* a poll holds nothing before it selects, a worker inside a dispatch has an entry to dispatch.
TypeOK ==
    /\ clock \in 0 .. MaxTime /\ refreshes \in 0 .. MaxRefreshes /\ faults \in 0 .. MaxFaults
    /\ calendar \in {"plain", "early", "unresolved"}
    /\ status \in [Schedules -> {"NONE", "ACTIVE", "PAUSED"}]
    /\ ledger \subseteq LedgerRows /\ runs \subseteq Attempts
    /\ at \in [Workers -> Places]
    /\ seen \in [Workers -> 0 .. MaxTime]
    /\ due \in [Workers -> Seq(Entries)]
    /\ rows \in [Workers -> SUBSET LedgerRows] /\ born \in [Workers -> SUBSET Attempts]
    /\ \A w \in Workers :
          /\ at[w] \in {"idle", "select"} => due[w] = <<>> /\ rows[w] = {} /\ born[w] = {}
          /\ at[w] \in {"run", "insert", "insert_failed", "record"} => due[w] # <<>>
          /\ \A i \in DOMAIN due[w] : due[w][i].tick <= seen[w]

\* uq_scheduled_run_schedule_tick and uq_scheduled_run_schedule_period, seen from the outside:
\* however many workers poll, die and are refreshed under, one grid point of a schedule, and one
\* business month of a monthly one, is fired once.
FiredOnce ==
    \A r, q \in ledger :
        r.sched = q.sched /\ (r.tick = q.tick \/ (r.sched \in Monthly /\ PeriodKey(r.sched, r.tick) = PeriodKey(q.sched, q.tick)))
            => r = q

\* The loser of a race rolls back its phantom governed run: a committed calculation_run is the
\* run of a ledger row, and a row's run exists.
NoPhantomRun ==
    /\ \A x \in runs : \E r \in ledger : r.sched = x.sched /\ r.tick = x.tick /\ r.run = x.by
    /\ \A r \in ledger : r.run # NoRun => [sched |-> r.sched, tick |-> r.tick, by |-> r.run] \in runs

\* The phase selectors' ORDER BY id: index entries alone never make a cycle of waits.  (A cycle
\* through the chain lock remains possible; DeadlockVictim resolves it.)
IndexWaitsAreOrdered ==
    ~\E G \in SUBSET Workers : G # {} /\ \A w \in G : OnIndex(w) \cap G # {}

\* The current grid point of s, if it has one now, has its row.
Settled(s) ==
    \/ status[s] # "ACTIVE" \/ ~Resolvable(s, calendar)
    \/ LET tick == current_tick(s, clock, calendar)
       IN  \/ tick < Anchor[s] \/ clock < Anchor[s]
           \/ \E r \in ledger : r.sched = s /\
                 (r.tick = tick \/ (s \in Monthly /\ r.period = PeriodKey(s, tick)))

\* Every schedule left ACTIVE over a resolvable calendar gets the row of its current grid point,
\* unless the clock or an operator moves on: again and again nothing is owed.
EveryTickServed == []<>(\A s \in Schedules : Settled(s))

\* Record and continue: no schedule's trouble, no wait and no deadlock keeps a poll from ending.
EveryPollEnds == \A w \in Workers : at[w] = "select" ~> at[w] = "idle"

=============================================================================
