------------------------ MODULE ReproductionAlarms ------------------------
(***************************************************************************)
(* Phase 5 of the worker's tick: poll_tenant_reproduction_alarms tells     *)
(* every holder of the review permission about every alarming verdict      *)
(* (DIVERGED, UNREPRODUCIBLE) of the nightly sweep.  There is no cursor:   *)
(* a verdict is owed an alarm until the NOTIFY.DISPATCH rows about it say  *)
(* that its latest attempt concluded for everyone it tried, or that it has *)
(* been attempted MaxAttempts times.                                       *)
(*                                                                         *)
(* An attempt is one transaction: the holders and those already told are   *)
(* read, every delivery is made, then one row per recipient is written     *)
(* under the chain lock and committed, so its rows are adjacent and appear *)
(* as one entry of log[v].  A transaction that raises is rolled back and a *)
(* sibling transaction records the failure under the same attempt id; that *)
(* may fail too.  Several workers may serve the same tenant at once.       *)
(***************************************************************************)
EXTENDS Integers, FiniteSets, Sequences

CONSTANTS
    Workers,        \* worker processes serving one tenant
    Verdicts,       \* alarming verdicts, numbers: the queue is ordered by age
    Recipients,     \* users of the tenant
    Steadfast,      \* those who hold the permission throughout
    MaxAttempts,    \* MAX_ALARM_ATTEMPTS
    MaxFaults       \* bound: crashes, lost acknowledgements, lost records, unreadable rows

ASSUME ConstantsAssumption ==
    /\ IsFiniteSet(Workers)
    /\ Verdicts \subseteq Nat
    /\ Steadfast \subseteq Recipients
    /\ MaxAttempts \in Nat \ {0}
    /\ MaxFaults \in Nat

VARIABLES
    raised,     \* verdicts committed by the sweep so far
    holders,    \* users who hold the permission now
    log,        \* verdict |-> the entries about it, in the order of the chain
    poisoned,   \* verdicts with a row whose payload cannot be read
    wire,       \* verdict |-> users whose sink accepted an alarm about it
    at,         \* worker |-> where its phase is
    pending,    \* worker |-> what is left of the queue it read
    work,       \* worker |-> the attempt it is making
    faults      \* faults so far

vars == <<raised, holders, log, poisoned, wire, at, pending, work, faults>>
world == <<raised, holders, poisoned>>

\* uuid4: a name no durable row carries yet.
Ids == Workers \X Nat
Mint(w, v) == <<w, Len(log[v])>>

\* The rows of one transaction.  A recipient is reached by a SENT or a SKIPPED row, failed by a
\* FAILED one; SUPPRESSED is the entry with neither, and a rollback is a failure of its own.
ROLLBACK == "rollback"
Entry(id, reached, failed) == [id |-> id, reached |-> reached, failed |-> failed]
Entries == [id : Ids, reached : SUBSET Recipients, failed : SUBSET (Recipients \cup {ROLLBACK})]

\* An attempt in the making: its id, the holders it is for, those of them already told, and those
\* the sink has accepted.
Attempt(id, asked, told, heard) == [id |-> id, asked |-> asked, told |-> told, heard |-> heard]
Works == [id : Ids, asked : SUBSET Recipients, told : SUBSET Recipients, heard : SUBSET Recipients]
NoWork(w) == Attempt(<<w, 0>>, {}, {}, {})

-----------------------------------------------------------------------------
(* The fold over the rows. *)

Attempts(v) == {log[v][i].id : i \in DOMAIN log[v]}

\* The latest attempt, by sequence number, and whether all of its rows are successes.
SomebodyHeard(v) ==                                 \* mutant: one good address retires it
    v \notin poisoned /\ \E i \in DOMAIN log[v] : log[v][i].reached # {}
Concluded(v) ==
    /\ v \notin poisoned
    /\ log[v] # <<>>
    /\ \A i \in DOMAIN log[v] : log[v][i].id = log[v][Len(log[v])].id => log[v][i].failed = {}

Exhausted(v) == Cardinality(Attempts(v)) >= MaxAttempts

\* VERDICT_ALARM_DELIVERED, _CEILING and _QUEUED.
Delivered(v) == Concluded(v)
CeilingRetired(v) == Exhausted(v) /\ ~Concluded(v)
Queued(v) == v \in raised /\ ~Delivered(v) /\ ~CeilingRetired(v)

\* already_delivered_recipients, for THIS verdict.
AlreadyTold(v) == UNION {log[v][i].reached : i \in DOMAIN log[v]}

-----------------------------------------------------------------------------
Init ==
    /\ raised = {} /\ poisoned = {} /\ faults = 0
    /\ holders \in {H \in SUBSET Recipients : Steadfast \subseteq H}
    /\ log = [v \in Verdicts |-> <<>>]
    /\ wire = [v \in Verdicts |-> {}]
    /\ at = [w \in Workers |-> "idle"]
    /\ pending = [w \in Workers |-> {}]
    /\ work = [w \in Workers |-> NoWork(w)]

InHand(w) == CHOOSE v \in pending[w] : \A u \in pending[w] : v <= u

Fault == faults < MaxFaults /\ faults' = faults + 1

\* The loop moves on; nothing of the attempt is remembered.
NextVerdict(w) ==
    /\ at' = [at EXCEPT ![w] = "next"]
    /\ pending' = [pending EXCEPT ![w] = @ \ {InHand(w)}]
    /\ work' = [work EXCEPT ![w] = NoWork(w)]

Append_(v, entry) == log' = [log EXCEPT ![v] = Append(@, entry)]

\* unalarmed_verdicts.  (A read that raises skips the phase: nothing happens.)
ReadQueue(w) ==
    /\ at[w] = "idle"
    /\ at' = [at EXCEPT ![w] = "next"]
    /\ pending' = [pending EXCEPT ![w] = {v \in Verdicts : Queued(v)}]
    /\ UNCHANGED <<world, log, wire, work, faults>>

EndPhase(w) ==
    /\ at[w] = "next" /\ pending[w] = {}
    /\ at' = [at EXCEPT ![w] = "idle"]
    /\ UNCHANGED <<world, log, wire, pending, work, faults>>

\* alarm_for_verdict up to the deliveries: the verdict is NOT looked at again.
StartAttempt(w) ==
    /\ at[w] = "next" /\ pending[w] # {}
    /\ at' = [at EXCEPT ![w] = "deliver"]
    /\ work' = [work EXCEPT ![w] = Attempt(Mint(w, InHand(w)), holders, AlreadyTold(InHand(w)), {})]
    /\ UNCHANGED <<world, log, wire, pending, faults>>

\* Every delivery; a sink refuses or raises as it likes.  With nobody to ask there is none.
DeliverAll(w) ==
    /\ at[w] = "deliver"
    /\ at' = [at EXCEPT ![w] = "emit"]
    /\ \E accepted \in SUBSET (work[w].asked \ work[w].told) :
          /\ work' = [work EXCEPT ![w].heard = accepted]
          /\ wire' = [wire EXCEPT ![InHand(w)] = @ \cup accepted]
    /\ UNCHANGED <<world, log, pending, faults>>

\* What the emits of an attempt say: SENT and SKIPPED are reached, the rest failed.
Outcome(w) ==
    LET reached == work[w].heard \cup (work[w].asked \cap work[w].told)
    IN  Entry(work[w].id, reached, work[w].asked \ reached)

\* The emits and the commit.
CommitAttempt(w) ==
    /\ at[w] = "emit"
    /\ Append_(InHand(w), Outcome(w))
    /\ NextVerdict(w)
    /\ UNCHANGED <<world, wire, faults>>

\* The commit lands but its acknowledgement does not: the worker takes it for a failure.
CommitUnacknowledged(w) ==
    /\ at[w] = "emit" /\ Fault
    /\ Append_(InHand(w), Outcome(w))
    /\ at' = [at EXCEPT ![w] = "record"]
    /\ UNCHANGED <<world, wire, pending, work>>

\* Anything raised before the commit: rollback, and on to the sibling transaction.
HastyRollback(w) ==                                 \* mutant: the loop has moved on already
    /\ at[w] \in {"deliver", "emit"}
    /\ at' = [at EXCEPT ![w] = "record"]
    /\ pending' = [pending EXCEPT ![w] = @ \ {InHand(w)}]
    /\ UNCHANGED <<world, log, wire, work, faults>>
Rollback(w) ==
    /\ at[w] \in {"deliver", "emit"}
    /\ at' = [at EXCEPT ![w] = "record"]
    /\ UNCHANGED <<world, log, wire, pending, work, faults>>

\* record_alarm_transaction_failure, under the id of the attempt that failed.
NoRecord(w) ==                                      \* mutant: a rollback leaves no trace
    /\ at[w] = "record"
    /\ NextVerdict(w)
    /\ UNCHANGED <<world, log, wire, faults>>
FreshRecord(w) ==                                   \* mutant: the failure is an attempt of its own
    /\ at[w] = "record"
    /\ Append_(InHand(w), Entry(Mint(w, InHand(w)), {}, {ROLLBACK}))
    /\ NextVerdict(w)
    /\ UNCHANGED <<world, wire, faults>>
RecordFailure(w) ==
    /\ at[w] = "record"
    /\ Append_(InHand(w), Entry(work[w].id, {}, {ROLLBACK}))
    /\ NextVerdict(w)
    /\ UNCHANGED <<world, wire, faults>>

\* ... or that fails as well: "this attempt is NOT counted against the retry bound".
LoseRecord(w) ==
    /\ at[w] = "record" /\ Fault
    /\ NextVerdict(w)
    /\ UNCHANGED <<world, log, wire>>

Crash(w) ==
    /\ at[w] # "idle" /\ Fault
    /\ at' = [at EXCEPT ![w] = "idle"]
    /\ pending' = [pending EXCEPT ![w] = {}]
    /\ work' = [work EXCEPT ![w] = NoWork(w)]
    /\ UNCHANGED <<world, log, wire>>

-----------------------------------------------------------------------------
(* What happens around the phase. *)

\* The sweep commits an alarming verdict.
RaiseVerdict(v) ==
    /\ v \notin raised
    /\ raised' = raised \cup {v}
    /\ UNCHANGED <<holders, log, poisoned, wire, at, pending, work, faults>>

\* A role edit or the end of an assignment: the holder set "which this function does not own".
ChangeHolder(r) ==
    /\ r \notin Steadfast
    /\ holders' = IF r \in holders THEN holders \ {r} ELSE holders \cup {r}
    /\ UNCHANGED <<raised, log, poisoned, wire, at, pending, work, faults>>

\* A buggy caller of record_event leaves a row nobody can read.
Poison(v) ==
    /\ v \in raised /\ v \notin poisoned /\ Fault
    /\ poisoned' = poisoned \cup {v}
    /\ UNCHANGED <<raised, holders, log, wire, at, pending, work>>

Step(w) == ReadQueue(w) \/ EndPhase(w) \/ StartAttempt(w) \/ DeliverAll(w) \/ CommitAttempt(w) \/ RecordFailure(w)

Next ==
    \/ \E w \in Workers : Step(w) \/ Rollback(w) \/ CommitUnacknowledged(w) \/ LoseRecord(w) \/ Crash(w)
    \/ \E v \in Verdicts : RaiseVerdict(v) \/ Poison(v)
    \/ \E r \in Recipients : ChangeHolder(r)

Spec == Init /\ [][Next]_vars

\* The supervisor keeps ticking and statements return.  Sinks may refuse and transactions may be
\* rolled back for ever; crashes and records that cannot be written are finitely many.
FairSpec == Spec /\ \A w \in Workers : WF_vars(Step(w))

-----------------------------------------------------------------------------
(* Properties. *)

\* Types, and that only a worker in the middle of an attempt has a verdict in hand.
TypeOK ==
    /\ raised \subseteq Verdicts /\ poisoned \subseteq raised
    /\ Steadfast \subseteq holders /\ holders \subseteq Recipients
    /\ log \in [Verdicts -> Seq(Entries)]
    /\ wire \in [Verdicts -> SUBSET Recipients]
    /\ at \in [Workers -> {"idle", "next", "deliver", "emit", "record"}]
    /\ pending \in [Workers -> SUBSET Verdicts]
    /\ work \in [Workers -> Works]
    /\ faults \in 0 .. MaxFaults
    /\ \A w \in Workers : at[w] \in {"deliver", "emit", "record"} => pending[w] # {}

\* A verdict the fold calls DELIVERED was accepted by the sink of everybody who held the permission
\* all along, whichever workers, rollbacks, lost commits and skips led there: the courtesy skip and
\* the per-attempt conclusion never add up to a silent drop (alarm_for_verdict, OQ-ALR-4).
DeliveredWasHeard == \A v \in Verdicts : Delivered(v) => Steadfast \subseteq wire[v]

\* MAX_ALARM_ATTEMPTS bounds what a verdict costs: overlapping workers that read the queue before
\* the last attempt was committed add one attempt each, never more, and the record of a rolled back
\* attempt never counts it twice.
AttemptsBounded ==
    \A v \in Verdicts : Cardinality(Attempts(v)) <= MaxAttempts - 1 + Cardinality(Workers)

\* The retirement rule terminates: sinks that refuse for ever, recipients that come and go, rows
\* nobody can read and transactions that never commit leave no verdict in the queue for good.
EveryVerdictRetired == []<>(\A v \in Verdicts : ~Queued(v))

=============================================================================
