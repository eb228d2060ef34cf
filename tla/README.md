# Formal models of the investment-risk platform

This directory holds TLA+ modules that model the transactional core of the
platform, TLC configurations that check them on small instances, and TLAPS
proofs of the results that matter most. The code is the reference: each
definition is a translation of the lines `PROJECT.json` gives for it under
`map`, and its names follow the code where TLA+ allows it.

The platform is a multi-tenant Python application (FastAPI, SQLAlchemy,
PostgreSQL, a worker that ticks). Nearly all of its state is in one database,
so its concurrency is the concurrency of database transactions: API requests
and worker processes that read, wait for a lock, read again, write and commit
or vanish. The models are of those transactions, at READ COMMITTED, which is
what the code runs at (no isolation level is set anywhere). Numerical
analytics (VaR, covariance, exposure, liquidity) are not modelled.

Contents: 1 the system, 2 the modules, 3 the runs and their bounds, 4 fairness,
5 proofs, 6 where code and documentation disagree, 7 what is not modelled,
8 the plan. Paths below are relative to
`src/packages/shared-python/src/irp_shared/` (shared library),
`src/apps/worker/src/irp_worker/` (worker) and
`src/apps/backend/src/irp_backend/api/` (HTTP API).

## 1. The system

### Components modelled now

| component | state | operations | correct when |
|---|---|---|---|
| audit trail (`audit/service.py`) | `audit_event` (a hash chain per tenant), `audit_checkpoint`, a transaction-scoped advisory lock per chain | `record_event`, `verify_chain`, `verify_all_chains`, `create_checkpoint` | committed rows are numbered 1, 2, 3... in commit order and link; a reader that has seen n has seen everything below n |
| breach workflow (`limit/lifecycle.py`, worker `deadlines.py`, API `breaches.py`) | `breach_action`: an append-only timeline per breach; the state is that of its last row | assign, respond, review (accept, reject), close, escalate; `select_overdue_breaches` | one legal history, that of the two-lines-of-defence machine: responders never sign, only a fresh answer is accepted, the owner survives; each deadline is acted on, once |
| breach notification (`notification/service.py`, worker `notifications.py`) | `breach_notification`; the cursor is `MAX(source_sequence_no)` of it, there is no queue | `pending_alarm_events`, `notify_for_event`, the sinks | no alarm and no entitled recipient is passed by the cursor |
| entitlement administration (`entitlement/admin_service.py`, API `tenant_admin.py`) | `app_user.status`, `user_role` with validity, `entitlement_request` (append-only) | `request_entitlement_change`, `approve_entitlement_change`, `create_user` | the tenant always has an administrator; two people agree wherever there are two; a request is decided once |
| limit governance (`limit/service.py`, API `limits.py`) | `limit_definition` | create, update, suspend, resume, approve | what is live is what an independent approver signed |
| scheduling (`scheduling/service.py`, worker `scheduler.py`, API `schedule_admin.py`) | `schedule`, `scheduled_run` (the firing ledger), `calculation_run` | phase 1 of the tick: select, dispatch in savepoints, record failures, commit; create, pause, resume; holiday refresh | a grid point and a business month fire once; the loser of a race leaves no run; nothing current is lost |
| reproduction alarms (`reproduction/service.py`, worker `reproduction_alarms.py`) | `NOTIFY.DISPATCH` events about a verdict; what is owed is a fold over them, there is no cursor | `unalarmed_verdicts`, `alarm_for_verdict`, `record_alarm_transaction_failure` | a verdict retired as delivered was heard by everybody entitled; retries are bounded and end |
| bitemporal records and snapshots (`marketdata/factor.py`, `db/bitemporal.py`, `snapshot/service.py`) | `factor_return` with a valid and a system axis, `factor`, snapshots with their pins | capture, supersede, correct, the as-of read, `build_covariance_snapshot`, `verify_snapshot` | one version holds at each pair of instants; no amendment is lost; what is pinned does not move |
| governed runs, validation, the sweep (`calc/`, `model/validation.py`, `model/service.py`, `reproduction/service.py`) | `calculation_run`, `model_validation`, `reproduction_check`, the sweep's own run | `execute_governed_run` and its gate, `record_validation`, `run_reproduction_sweep` | a rejection is not undone by an exception; an alarm has a cause other than an outage; a green night checked everything; a run that can no longer be reproduced is reported |

### How they interact

* Every write of every component appends to the tenant's audit chain in the
  same transaction, so the chain lock is the one lock everybody meets, and the
  order in which a transaction takes it and other locks (the row of a breach or
  limit, a unique-index entry) decides whether two transactions can deadlock.
* The notification phase reads the chain as its queue. It relies on the chain's
  promise that nothing appears below a visible number. That promise is the
  module `AuditLog`; `AuditChain` is shown to implement it and
  `NotificationCursor` uses it in place of the chain.
* One tick of a tenant's worker runs scheduling (1), limit evaluation (2),
  breach deadlines (3), notification (4) and reproduction alarms (5) in that
  order, each phase in its own transaction or transactions (1 and 2 share one).
  Several processes may tick one tenant at once: they are started from outside
  and a late one overlaps the next.
* Dispatches and alarms run inside SAVEPOINTs (`begin_nested`). Rolling one
  back discards its rows *and* gives back the locks taken since, which is why
  the chain and the schedule ledger model savepoints and not only transactions.
* API requests load a row, are authorised and read their clock before the
  service waits for its lock. What was read before the wait may be stale after
  it; most of section 6 comes from there.
* A sweep is a governed run dispatched by the schedule. It holds the chain lock
  from its first event to its commit, so whatever has passed its own checks
  queues up behind it and commits on the strength of a reading that may be
  minutes old. Its verdicts are the verdicts phase 5 alarms about.
* Runs compute from snapshots, which pin bitemporal rows; the sweep may compare
  a run with its recomputation only because the pins do not move.

### What is hard about it

PROJECT.json lists the hazards with the line where each bites. The kinds are:
interleaved appends and savepoint rollbacks (chain), stale reads across a lock
wait (clock, identity map, expected sequence), long legal sequences of verbs by
several people (breach rounds, suspend-edit-resume), failures in the middle of a
batch whose cursor cannot represent a gap (notification), crashes before a
terminal commit with work of several schedules in it (scheduling), waits in
cycles (index entry against chain lock), deadlines that race an answer, failures
recorded by a sibling transaction that may fail as well (alarms), a partial
unique index that guards one row of a history (bitemporal), a read that is many
statements while writers commit between them (snapshots), and a night's work
whose success is judged by itself (sweep).

### Components not modelled, or only in part

Limit evaluation, the worker's tick as a whole, supervisor, tenant onboarding,
ingestion mappings, model registration, row-level security: section 8.
Positions, reference and market data other than factor returns, analytics, data
quality, lineage, reports, file ingestion, classification, deployment, demo,
frontend, migrations: record keeping, numerics or I/O; section 7. Every one is a
row of `components`.

## 2. The modules

Each component is one module with its VARIABLES, one action per operation or
step, bounds as CONSTANTS whose comments say `bound`, a type invariant and the
properties. `MC_*` modules only give constants their values. Definitions
commented `mutant:` are plausible bugs next to the definition they would
replace; nothing refers to them.

**AuditLog** is the promise: a log that grows at its end, atomically.

**AuditChain** (`audit/service.py`). A transaction is `idle`, `open`, `reading`
(holds the lock and has read the tail) or `failed` (its INSERT met the unique
key). `LockAndRead` is `_lock_chain` and the SELECT of the last row;
`InsertEvent` is the INSERT with the flush; they are separate because other
transactions run between them. `Savepoint`, `ReleaseSavepoint` and
`RollbackToSavepoint` are the callers' `begin_nested` blocks: the rollback cuts
the flushed rows and gives back the lock if it was taken inside. Hash functions
are uninterpreted constants; TLC gets injective ones. `VerifyChain` and
`CreateCheckpoint` are two steps since the code reads the tail a second time.
No action changes or deletes a committed row: that is what the listeners in
`audit/models.py` and the database triggers refuse.

**BreachMachine / BreachLifecycle** (`limit/lifecycle.py`). A call picks its
verb, clock and (optionally) the `expected_seq` it saw (`Call`, `Select` for
the tick), waits for `FOR UPDATE` on the breach (`LockBreach`), and then, on the
timeline committed by then, is refused or inserts a row (`Refuse`, `Insert`),
whose uncommitted key other inserts wait for, and commits or dies. `Permitted`
is the conjunction of the guards of the six verbs; `ToState` is the transition
table; `GoverningAssign`, `Responders`, `CurrentEpochResponse` and `Owner` are
the helpers of the same names. `BreachMachine` is what the two lines of defence
rely on, in terms of state, owner, responders and signers; `BreachLifecycle`
implements it under the mapping at the end of the module.

**NotificationCursor** (`notification/service.py`, `notifications.py`). A worker
reads the cursor, then the alarms above it (two statements, two steps), and
handles each alarm in a transaction of its own: `Resolve` the recipients,
`Deliver` to all of them, and only then, for each, `InsertRow` and `Emit` the
audit event (which takes the chain lock), and `Commit`. A unique key already
committed ends the alarm (`Dedup`); any other failure stops the batch
(`StopBatch`), for otherwise a later alarm would move the cursor past the failed
one. `permanent` is not state of the program: it names those whom no
revocation will touch in this behaviour, so that "entitled all along" can be
said. The guard `Alarms # {}` of `ReadCursor` only leaves out polls that find an
empty trail.

**EntitlementAdmin** (`admin_service.py`). A call is authorised, reads its clock,
and waits for the tenant's advisory lock: `Authorise`, `ReadClock`. What it does
under the lock, to its COMMIT, is one step (`RequestChange`, `ApproveChange`),
with `at` the clock it read and not the time it is. Grants are intervals;
`Admins(at)` is `valid_admin_user_ids`. A refused call is `GiveUp`.

**LimitGovernance** (`limit/service.py`). A request loads the row (`Load`) and
later, under the row lock, edits, toggles or approves it in one step.
`WriteBack` is the unit of work of the ORM: a column is written iff its value
differs from the loaded one. An edit re-reads the status alone under the lock,
an approval the whole row. `acts` is a history: the LIMIT.* events.

**ScheduleLedger** (`scheduling/service.py`, `scheduler.py`). A poll reads
`tick_now`, selects what is due in the order of ids, and dispatches each entry
in a savepoint: run, ledger INSERT, or one of the failures (duplicate, refused,
error, not even recorded); one COMMIT ends it. `MonthEnd` is the business
month-end as a function of the holidays as they are now, so a refresh moves the
instant of a month while its period key stays. A family's run is one step that
takes the chain lock: what it computes is not modelled. `InsertWaitsFor` and
`ChainFree` are the waits, `DeadlockVictim` is SQLSTATE 40P01 for one member of a
cycle. Selecting is one step though the code issues a few SELECTs per schedule;
the unique keys, which do not depend on what was read, decide in the end.

**ReproductionAlarms** (`reproduction/service.py`, `reproduction_alarms.py`). A
worker reads the queue, which is `Queued` over the dispatch events (`Concluded`,
`Exhausted`: the latest attempt failed nobody, or `MAX_ALARM_ATTEMPTS` were
made). For each verdict it mints an attempt id, reads the holders and those
already told, delivers to the rest, and commits one row per recipient; the rows
of one transaction are adjacent on the chain and are one entry here. A
transaction that raises is rolled back with its rows, but not with its
deliveries, and `RecordFailure` writes a row under the same id in a sibling
transaction. A commit may land unacknowledged, the sibling may fail, a payload
may be unreadable, holders come and go. `Steadfast` names those whom nothing
touches, so that "heard by everybody entitled" can be said.

**CurrentBelief / BitemporalReturns** (`marketdata/factor.py`,
`snapshot/service.py`). A writer loads the open head of its key and reads its
clock in one step, and closes that head and inserts its successor in another:
the code takes no lock before it reads. Supersession closes the valid axis
without a trace on the system axis, correction closes the system axis.
`UniqueHead` is `uq_factor_return_current`, which refuses the second of two
writers. A build freezes its cutoffs, lists the dates of each factor, reads one
version per date, each in a statement of its own at READ COMMITTED, intersects
the dates and pins. `CurrentBelief` says what a reader of today's view relies
on: one amendment at a time, each to the newest version, from an instant on.

**GovernedRuns** (`calc/scaffold.py`, `model/validation.py`,
`reproduction/service.py`). `Bind` is the gate and the INSERT of a run,
`CommitRun` what follows once the chain lock is free; `File` and `CommitRecord`
are the two halves of `record_validation` in the same way. The sweep
(`StartSweep`, then per family `Skip`, `Judge` and `RecordVerdict` or
`FailToCheck` and `FailToRecord`, `EndSweep`) holds the lock throughout.
`Discarding` is the savepoint that throws the recompute's own run away;
`Night` is the terminal state the sweep gives itself. What is executed is a
kernel: a version of one of the models of a family (`Gated`: the gate of
`assert_model_version_of` applies), or the one computation of a family that binds
no model, such as EXPOSURE_AGGREGATE. A release says of each kernel what it
computes, a number, and whether it is `able` to execute an earlier run again: it
is not when a reader, an adapter, the binder or the comparison raises or refuses.
A run may be `bare`: without a snapshot, without rows, with nothing that can be
compared. `Verdicts` collects the exits of `check_one_family`: MATCH and DIVERGED
need a recompute that returned, every refusal and every empty comparison is
UNREPRODUCIBLE, and a database error is no verdict (`FailToCheck`). Clock reads
are distinct: the code calls equal stamps "OUT OF CONTRACT".

## 3. The runs

| run | instance | what it shows |
|---|---|---|
| `audit_chain` | 3 transactions, 3 rows, two event types | `ChainIntact`, `CheckpointsHold`, and the chain implements `AuditLog`. Three transactions are the fewest with one holding the lock, one waiting and one rolled back; three rows let a savepoint keep one row and lose one behind a committed one. |
| `breach` | 2 people, one of them in both lines, 2 workers, 5 rows, 3 instants, 1 crash | `TimelineChained`, `ConditionedCallsAreFresh`, the refinement `ImplementsMachine`, and `EveryDeadlineActedOn`. Five rows are what it takes to answer, reject, escalate and accept without a new answer, or to escalate in two epochs. |
| `notify` | 2 workers, 2 users, 2 alarms, 1 grant or revocation, 1 fault, any initial holders | `NoAlarmSkipped`, `NobodyOverlooked`, `EveryAlarmHandled`. Two alarms and one fault are the least in which a later success passes an earlier failure; nobody may hold the permission (SUPPRESSED). |
| `entitlement` | 3 users, 1 to 3 first administrators, 2 calls, 2 instants, 3 log rows | `OrphanedOnlyOutOfOrder`, `DecidedOnce`, `NobodyActsAlone`. Two calls and two instants are enough for a clock to be overtaken. Three rows cannot hold two requests and two approvals: that two administrators revoke each other is in `entitlement_orphan`, with four, and in the theorems. |
| `entitlement_orphan` | 2 administrators, 4 log rows | violates `NeverOrphaned` (section 6). |
| `limit` | 3 people, 2 configurations, 2 requests, 5 acts | `DraftLeftByApproval`, `LiveAsSignedUnlessOvertaken`: what the gate does guarantee with requests overtaking each other. |
| `limit_overtaken` | the same, 6 acts | violates `LiveAsSigned`. |
| `limit_shaper` | one request at a time, 7 acts | violates `NoShaperSigns`. |
| `schedule` | 2 workers, an interval and a monthly schedule, 2 instants, 1 refresh, 1 fault | `FiredOnce`, `NoPhantomRun`, `IndexWaitsAreOrdered`, `EveryTickServed`, `EveryPollEnds`. The instants are the two possible month-ends of one month; two schedules are the fewest in which an index entry and the chain lock make a cycle. |
| `alarms` | 1 verdict, 2 workers, 2 recipients of whom one comes and goes, a ceiling of 2 attempts, 1 fault | `DeliveredWasHeard`, `AttemptsBounded`, `EveryVerdictRetired`. Two workers and a ceiling of 2 are the least in which an attempt overshoots it. |
| `bitemporal` | 2 writers on one key of 2 factors and 2 dates, a window of 2 (the least the code builds), 3 versions, 2 instants, 1 snapshot | `OneTruth`, `PinsHold`, `CutoffsReproduceUnlessClosed`, and the refinement `ImplementsBelief`. Three versions let a correction follow a supersession and the reverse; the written key is the one on which the window's dates depend. With two dates the window takes all that are common; that it takes the most recent of more is in the model and the proofs only. |
| `governed` | VAR with 2 gated model versions and EXPOSURE_AGGREGATE, which binds none; 2 validators, 1 binder, 2 clock reads, 1 deployment, 1 fault | `UnRejectedOnlyInFlight`, `AlarmsHaveACause`, `GreenMeansChecked`, `DivergenceSurfaces`. Two families are the fewest in which an outage under one leaves the other judged; two versions of one family let the subject change model; the deployment changes one kernel's result or its ability to be executed again. |

Larger shapes, too long to repeat each time, were explored apart and passed:
alarms with 2 verdicts and one worker (1 and 2 faults), with 2 workers and 2
faults, and with 2 verdicts and 2 workers without faults (2.1 million states);
entitlement with 2 users and 4 log rows (5.7 million states). Beyond every shape
there are the proofs of section 5.

Deadlock is checked wherever the system runs for ever. `entitlement`, `limit` and
`bitemporal` bound a history (`MaxLog`, `MaxActs`, `MaxVersions`) that nothing
empties, so their instances stop at the bound and say `CHECK_DEADLOCK FALSE`. Symmetry is used for
interchangeable transactions, users, calls and writers, and in no run with a
liveness property. Every property has a mutant in PROJECT.json: a change of one
mapped definition under which the same run violates it.

Bounds that appear as guards: `MaxRows`, `MaxTime`, `MaxActions`, `MaxCrashes`,
`MaxAlarms`, `MaxChanges`, `MaxFaults`, `MaxLog`, `MaxActs`, `MaxRefreshes`,
`MaxVersions`, `MaxEdits`, `MaxSnapshots`, `MaxClock`, `MaxDeploys`.
Each limits how often something may happen, never what happens.

## 4. Fairness

* Workers poll for ever (`run_supervisor` loops, infra restarts ticks) and a
  statement that waits for nobody returns: weak fairness of a worker's steps
  (`Step`, `Select`, `Handle`). None is assumed of people, of the clock, of
  grants or holiday refreshes, of errors, or of crashes.
* PostgreSQL queues lock waiters in order of arrival: strong fairness of taking
  a contended lock (`LockBreach`, `Emit`).
* PostgreSQL's detector breaks every cycle of waits: `DeadlockVictim` is one of
  the fair steps. In `ScheduleLedger` raising is not: no wait may end because
  the waiting statement happens to fail.
* In `ReproductionAlarms` the steps of each worker are fair and nothing else:
  sinks may refuse and transactions may be rolled back for ever, and
  `EveryVerdictRetired` must hold all the same. In `GovernedRuns` the sweep's
  steps are: the schedule fires it every night, which is what `schedule` shows
  of any schedule (`EveryTickServed`). Deployments, binders and validators are
  not.
* Faults are finitely many per behaviour (`MaxFaults`, `MaxCrashes`): a worker
  that fails for ever serves nothing, and the code does not say otherwise.

## 5. Proofs

All nine components have theorems that hold for every value of the constants: any
number of workers, people, transactions or rows, any bound. They are in modules
`<component>_proofs`; `LimitsAndNotices_proofs` holds those of two components that
share nothing, `LimitGovernance` and `NotificationCursor`, whose Init, Next, Spec
and type invariant carry the prefix `Cursor` for that reason. Each component has
one inductive invariant (`IInv`, `CursorIInv`), a lemma per action or group of
actions that keeps it (`...Keeps`), the theorem that it is invariant, and the
theorems for readers:

| module | theorems | properties |
|---|---|---|
| `AuditChain_proofs` | `TypeCorrect`, `ChainIsIntact`, `NobodyCollides`, `CheckpointsAreSound`, `NothingArrivesLate`, `ChainImplementsLog` | all of run `audit_chain`, and two more |
| `BreachLifecycle_proofs` | `TypeCorrect`, `TimelineIsLegal`, `ConditionsHoldAtCommit`, `TimelineImplementsMachine` | all of `breach` but liveness, the refinement included |
| `EntitlementAdmin_proofs` | `TypeCorrect`, `RequestsAreDecidedOnce`, `AdministratorsRemain`, `FourEyesHold` | all of `entitlement` |
| `LimitsAndNotices_proofs` | `TypeCorrect`, `DraftsAreApproved`, `LiveIsSigned` | all of `limit` |
| | `CursorTypeCorrect`, `NoSilentSkip`, `AllAreTold`, `RowsAndEventsAgree`, `PhaseWritesTheTrail`, `CirclesAreBroken`, `SinksRunUnlocked` | all of `notify` but liveness, and four more |
| `ScheduleLedger_proofs` | `TypeCorrect`, `EveryTickFiredOnce`, `RunsHaveRows`, `IndexEntriesNeverDeadlock`, `OneHolder`, `CirclesAreOfTheChain` | all of `schedule` but liveness, and two more |
| `ReproductionAlarms_proofs` | `TypeCorrect`, `SilenceIsEarned`, `RetriesAreBounded` | all of `alarms` but liveness |
| `BitemporalReturns_proofs` | `TypeCorrect`, `OneVersionHolds`, `SnapshotsHold`, `CutoffsReproduce`, `ReturnsImplementBelief` | all of `bitemporal`, the refinement included |
| `GovernedRuns_proofs` | `TypeCorrect`, `ExceptionsUnReject`, `NoFalseAlarms`, `GreenIsEarned` | all of `governed` but liveness |

The assumptions on constants are the named ASSUMEs of the modules and say no more
than that bounds are numbers, ids are ordered where the code orders by them, a
null value is none of the values, and what the code iterates over is finite. Hash
functions need not be injective: what is proved is that rows link, which is what
`verify_chain` tests.

Why the invariants are needed, and the argument of each:

* **Audit chain.** An insert relies on the tail it read being still the tail.
  `HolderOnly` (only the holder of the lock has uncommitted rows),
  `VisibleIntact` (what each transaction would see after its own commit
  verifies), `TailCurrent` (what was read under the lock is the last row) and
  `SavepointsSound` (a savepoint whose rollback gives the lock back gives every
  row back, the case `begin_nested` makes dangerous). The refinement follows from
  `ChainIntact` before and after a commit: row n of the table is event n.
* **Breach.** `Exclusive`: whoever has read the timeline holds the row lock and
  has read what is committed now. `Planned`: a row not yet committed extends the
  committed timeline legally. `Sound`: a timeline has a governing assignment,
  its owner is somebody, later escalations name it. The mapping to the machine
  is then one case per verb.
* **Entitlement.** The checks ask who administers the tenant at the clock the
  call read, the property who does so now. `Settled` closes the gap: as long as
  rows took effect in the order of their clocks, no grant begins or ends after
  the last of them, so a grant in force at a later clock is one that never ends.
* **Limit.** The properties are about the history of acts; `Told` links it to the
  row (the last act says what the row is), and `EditedRow` says which loaded
  columns the flush can leave behind.
* **Notification.** The cursor is the largest number recorded, so what is recorded
  must be closed downwards (`Covered`). It is, although workers read the cursor
  and the alarms in two statements and record behind each other's backs: what a
  worker has not in its queue below something it has was recorded when it looked
  (`ReadingSound`), it takes the least first, and it drops its whole queue when
  one alarm fails. An alarm is recorded whole since nobody gets lost between the
  recipients resolved, the outcomes and the rows of the transaction (`Counted`).
  Rows committed and in flight have different keys (`Apart`), so a commit adds as
  many rows as `NOTIFY.DISPATCH` events. `Locked` (whoever has recorded one
  recipient and goes on has the chain lock) gives the deadlocks: a circle of waits
  of any length contains the lock's holder waiting for the row of one that waits
  for the lock, which is the pair `DeadlockVictim` resolves (`CirclesAreBroken`).
* **Schedule.** `Distinct`: rows in flight and committed do not meet in either
  index. `InOrder`: a poll's rows are about schedules its list has left behind,
  so a savepoint rolled back takes no earlier row's run with it (`OwnRuns`).
  From the same invariant every wait for an index entry goes to a worker further
  down the list of schedules; the one furthest down of a circle, which exists
  since a list is finite, would wait for nobody (`IndexEntriesNeverDeadlock`).
  So whatever circle is left, of any length, goes through the one holder of the
  chain lock, which waits for an index entry (`CirclesAreOfTheChain`).
* **Alarms.** `Heard` and `InMaking`: an entry that failed nobody reached the
  steadfast, and whoever an attempt under way counts as told is on the wire.
  `RoomForOwed`: attempts made and workers that may still add one, together,
  never exceed the bound; that is what makes counting across workers inductive.
* **Bitemporal.** `Chained`: the last version is the head, and each earlier one
  ended, on one axis, before every later one starts there. The index speaks of
  heads only; a writer that gets past it must have amended the last version
  (`AmendsTheLast`), however old its reading is. For the cutoffs: a pinned
  version had begun by both (`PinnedInForce`), and versions are only ever closed or
  added (`StepsGrow`), so it still holds at them unless it was closed behind one,
  and `OneTruth` leaves no room for a second.
* **Governed runs.** What a transaction under way still owes: an exception looked
  at a log without a rejection (`GuardLooked`), an uncommitted verdict has its
  cause already, in a release or a record that nothing rewrites (`Caused`), the sweep has left, failed on or judged whatever it
  found due, which stays due since nobody commits a run behind its lock
  (`SweepSound`).

Only model-checked: liveness (`EveryDeadlineActedOn`, `EveryAlarmHandled`,
`EveryTickServed`, `EveryPollEnds`, `EveryVerdictRetired`, `DivergenceSurfaces`),
which the prover does not do, as it does not do ENABLED or induction over data.
Every other property of a passing run is a theorem; the runs that expect a
violation show what the theorems except by name. No module declares a RECURSIVE
operator.

## 6. Where code and documentation disagree

1. **A tenant can lose its last administrator** (`entitlement_orphan`).
   `approve_entitlement_change` reads its clock before `_lock_tenant`. Of two
   approvals, the one with the earlier clock may take the lock second; it
   then asks who is a valid administrator *at its own clock*, still counts the
   one the other has end-dated since, and ends the last. `AdministratorsRemain`
   proves it is the only way: whenever rows bear their clocks in commit order, an
   administrator remains. The concurrency test of the repository passes the same
   instant to both approvals, which hides it.
2. **An unsigned configuration can be live** (`limit_overtaken`). `update_limit`
   re-reads the status under the lock but keeps the object loaded before. If the
   limit was DRAFT when loaded and has been approved since, demoting it sets the
   attribute back to its loaded value and the flush does not write it: the new
   threshold is written, the row stays ACTIVE. `LiveIsSigned` proves that this is
   the only way.
3. **A shaper can sign** (`limit_shaper`). The makers are the author and the
   *last* editor; one person changes the threshold, another the name, and the
   first may approve.

Remarks that are narrower than a finding, each pinned down by a property that
holds:

* `model/validation.py:257` says an EXCEPTION can "neither substitute for a
  revalidation NOR un-reject". The guard reads before the call waits for the
  chain lock; a rejection committed meanwhile, with an earlier stamp, is
  outranked, so the claim does not hold as it is written. `UnRejectedOnlyInFlight`
  excepts exactly that race and says that nothing else un-rejects; the hazard
  itself stands in PROJECT.json without a property.
* `snapshot/service.py:991` says "the frozen header cutoffs reproduce the pinned
  content". A supersession that reaches back to the valid cutoff edits `valid_to`
  in place and changes what the cutoffs select;
  `CutoffsReproduceUnlessClosed` names the only two ways. The pins themselves
  hold (`PinsHold`). Since a build is many statements, a supersession committed
  in its middle can also make a date drop out of the common window silently.
* `reproduction/registry.py:586` excludes families whose computation reads the
  wall clock, but every recompute passes the validation gate, which reads it
  too: the same run is reproducible today and UNREPRODUCIBLE when the exception
  has run out. `AlarmsHaveACause` counts that as a cause, next to the others
  that `check_one_family` names: a release that cannot execute the run again, and
  a run with nothing to compare. An UNREPRODUCIBLE verdict therefore does not by
  itself say that a version was stood down; what it never says is that a database
  failed.
* A holiday refresh that moves the month-end of a fired month into the future
  makes the month before current again; if that one was missed it fires, behind
  the later one. Each month still fires once (`FiredOnce`).
* A poll can wait in a cycle for an index entry and the chain lock: `ORDER BY id`
  only excludes cycles of index entries alone (`IndexWaitsAreOrdered`), and the
  database breaks the others (`EveryPollEnds`). The code says as much.
* A breach that is answered after its escalation keeps being selected by every
  tick, each time stopped by `uq_breach_escalation`.

## 7. Not modelled, and why

The models stand for about five thousand of the repository's lines. The rest is
mostly of three kinds that a model checker adds nothing to: numerical kernels
(VaR, covariance, bootstraps, exposure, performance, liquidity), record keeping
repeated table by table in one shape (of which factor returns are modelled), and
the plumbing of a large API.

* Tenancy: every module is one tenant. Row-level security makes tenants disjoint.
* What a run computes, reports, positions, valuations, curves, prices, reference
  data: decimals, matrices and records; TLC would enumerate data that no property
  here tells apart. Holidays appear as the two possible month-ends.
* Texts (narratives, evidence, names, reasons), formatting and canonical JSON:
  refusals for empty text are left out. Sinks are outcomes.
* Reads for screens, `alarm_channel_health` among them: they change nothing.
* Lineage edges and data-quality results: written next to what they are about, in
  the same transaction, and read by nothing that is modelled.
* Clock skew between hosts, and clocks that run backwards: one clock per model.
* The deployment scripts, demo campaigns, frontend and migrations; constraints
  the migrations create are modelled where an operation can meet them.

## 8. What is left

In the order in which it would add most:

1. `TickLocks`: the phases of a tick as a composition, with the locks they take
   (chain, limit share lock, breach rows, index entries) and limit evaluation;
   the question is which cycles of waits remain and that each is survived, and
   that the tenant context is re-armed after each commit.
2. `Supervisor`: discovery, failure streaks, starvation of a tenant by another.
3. The race of two first bootstraps of a model; onboarding as the first step of
   `EntitlementAdmin`; ratification of ingestion mappings, for which
   `LimitGovernance` is the pattern.
4. Once `TickLocks` exists: that every circle of waits of a tick is broken, on the
   pattern of `CirclesAreBroken` and `IndexEntriesNeverDeadlock`.

To check: `tlc -config MC_AuditChain.cfg MC_AuditChain` and likewise for the other
runs of `PROJECT.json`; `tlapm AuditChain_proofs.tla` and likewise for the other
`*_proofs` modules.
