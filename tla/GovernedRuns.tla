--------------------------- MODULE GovernedRuns ---------------------------
(***************************************************************************)
(* Governed runs, the validations that stand a model version down, and the *)
(* nightly sweep that re-executes the latest run of every family.          *)
(*                                                                         *)
(* A binder passes the validation gate, inserts its run, and waits for the *)
(* tenant's chain lock with its first audit event.  A validator passes the *)
(* guard on EXCEPTIONs, stamps its record, and waits for the same lock     *)
(* with its last statement.  The sweep takes the lock with its first event *)
(* and keeps it to the end: one long transaction, behind which the calls   *)
(* that have passed their checks queue up.  Per family it looks up the     *)
(* latest completed run, reads its rows, recomputes them in a savepoint    *)
(* that is always rolled back, compares, and writes a verdict.             *)
(*                                                                         *)
(* A kernel is what one binder executes: a version of one of the models of *)
(* a family (VAR has several), or the one computation of a family that     *)
(* binds no model and passes no gate (EXPOSURE_AGGREGATE, REPORT).  Inputs *)
(* are pinned, so its result is a function of the release, and so is       *)
(* whether an earlier run can be executed again: a reader, an adapter, a   *)
(* binder or the comparison may refuse.  A run may also lack what it takes *)
(* to be compared, whatever the release.  Reads of the clock are distinct: *)
(* records with equal stamps are "OUT OF CONTRACT".                        *)
(***************************************************************************)
EXTENDS Integers, FiniteSets, Sequences

CONSTANTS
    Families,       \* REPRODUCIBLE_FAMILIES
    Place,          \* family |-> where it comes in the order of their keys
    Kernels,        \* what binders execute
    Gated,          \* those that bind a model version
    Family,         \* kernel |-> the family its runs belong to
    Validators,     \* calls of record_validation
    Binders,        \* calls that execute a governed run
    MaxClock,       \* bound: reads of the clock
    MaxDeploys,     \* bound: deployments
    MaxFaults       \* bound: database failures and crashes

ASSUME ConstantsAssumption ==
    /\ {MaxClock, MaxDeploys, MaxFaults} \subseteq Nat
    /\ Gated \subseteq Kernels /\ Family \in [Kernels -> Families]
    /\ Place \in [Families -> Nat]

VARIABLES
    clock,          \* reads of the clock so far
    releases,       \* what each release makes of each kernel; the last is deployed
    records,        \* gated kernel |-> its version's committed validations, in the order of their commits
    overdue,        \* stamps of the EXCEPTIONs whose next_review_due has passed
    runs,           \* committed runs
    filing,         \* validator |-> the record it is about to commit
    binding,        \* binder |-> the run it is about to commit
    sweep,          \* the sweep in progress
    checks,         \* committed verdicts
    nights,         \* what committed sweeps say of themselves
    faults

vars == <<clock, releases, records, overdue, runs, filing, binding, sweep, checks, nights, faults>>

None == [at |-> "none"]
Stamps == 1 .. MaxClock

\* value is what it computes; able, that it can execute an earlier run again and compare the rows.
Release(value, able) == [value |-> value, able |-> able]
Releases == [value : 0 .. MaxDeploys, able : BOOLEAN]
Now(k) == releases[Len(releases)][k]

\* seen is how many records of the version were committed when the guard looked.
Record(kind, stamp, seen) == [at |-> "filed", kind |-> kind, stamp |-> stamp, seen |-> seen]
Records == [at : {"filed"}, kind : {"APPROVED", "REJECTED", "EXCEPTION"}, stamp : Stamps, seen : Nat]
\* bare: no snapshot, no stored rows, or rows of several base currencies.
Run(k, created, code_version, bare, status, by) ==
    [kernel |-> k, created |-> created, code_version |-> code_version, bare |-> bare,
     status |-> status, by |-> by]
Runs == [kernel : Kernels, created : Nat, code_version : Nat, bare : BOOLEAN,
         status : {"COMPLETED", "FAILED"}, by : {"binder", "sweep"}]
Value(r) == releases[r.code_version][r.kernel].value

\* code_version is that of the sweep's own run.
Check(f, subject, code_version, verdict) ==
    [family |-> f, subject |-> subject, code_version |-> code_version, verdict |-> verdict]
Checks == [family : Families, subject : Nat, code_version : Nat,
           verdict : {"MATCH", "DIVERGED", "UNREPRODUCIBLE"}]

Alarming(c) == c.verdict \in {"DIVERGED", "UNREPRODUCIBLE"}

-----------------------------------------------------------------------------
(* Validations and the gate. *)

Real(record) == record.kind # "EXCEPTION"
Excepted(log) == TRUE                                           \* mutant: no substitution guard
NoRealYet(log) == \A i \in DOMAIN log : ~Real(log[i])

\* latest_validation: by stamp, whatever the order of the commits.
Operative(record, log) == \A i \in DOMAIN log : log[i].stamp <= record.stamp

\* assert_model_version_of: neither rejected nor on an EXCEPTION that has expired.
Refused(record) == record.kind = "REJECTED" \/ (record.kind = "EXCEPTION" /\ record.stamp \in overdue)
MayBind(k) ==
    k \in Gated =>
        \A i \in DOMAIN records[k] : Operative(records[k][i], records[k]) => ~Refused(records[k][i])

-----------------------------------------------------------------------------
Init ==
    /\ clock = 0
    /\ releases = << [k \in Kernels |-> Release(0, TRUE)] >>
    /\ records = [k \in Gated |-> <<>>]
    /\ overdue = {} /\ runs = {} /\ checks = {} /\ nights = {}
    /\ filing = [v \in Validators |-> None]
    /\ binding = [b \in Binders |-> None]
    /\ sweep = None
    /\ faults = 0

ReadClock == clock < MaxClock /\ clock' = clock + 1
Fault == faults < MaxFaults /\ faults' = faults + 1

\* The chain lock: everyone but the sweep holds it for one step.
LockFree == sweep = None

\* record_validation, to the stamp.
File(v, k, kind) ==
    /\ filing[v] = None
    /\ kind = "EXCEPTION" => NoRealYet(records[k])
    /\ ReadClock
    /\ filing' = [filing EXCEPT ![v] = [kernel |-> k, record |-> Record(kind, clock', Len(records[k]))]]
    /\ UNCHANGED <<releases, records, overdue, runs, binding, sweep, checks, nights, faults>>

\* ... MODEL.VALIDATE, which waits for the lock, and the commit.
CommitRecord(v) ==
    /\ filing[v] # None /\ LockFree
    /\ records' = [records EXCEPT ![filing[v].kernel] = Append(@, filing[v].record)]
    /\ filing' = [filing EXCEPT ![v] = None]
    /\ UNCHANGED <<clock, releases, overdue, runs, binding, sweep, checks, nights, faults>>

\* The review date of an EXCEPTION passes.
Expire(k, i) ==
    /\ records[k][i].kind = "EXCEPTION"
    /\ overdue' = overdue \cup {records[k][i].stamp}
    /\ UNCHANGED <<clock, releases, records, runs, filing, binding, sweep, checks, nights, faults>>

\* A binder, to create_run's INSERT.
Bind(b, k) ==
    /\ binding[b] = None
    /\ MayBind(k)
    /\ ReadClock
    /\ binding' = [binding EXCEPT ![b] = [kernel |-> k, created |-> clock']]
    /\ UNCHANGED <<releases, records, overdue, runs, filing, sweep, checks, nights, faults>>

\* ... its events and the commit: execute_governed_run, FAILED and without rows when the presence
\* gate finds gaps.
CommitRun(b, status, bare) ==
    /\ binding[b] # None /\ LockFree
    /\ status = "FAILED" => bare
    /\ runs' = runs \cup
          {Run(binding[b].kernel, binding[b].created, Len(releases), bare, status, "binder")}
    /\ binding' = [binding EXCEPT ![b] = None]
    /\ UNCHANGED <<clock, releases, records, overdue, filing, sweep, checks, nights, faults>>

\* A call is refused, rolled back or dies: nothing remains.
GiveUp ==
    /\ \/ \E v \in Validators : filing[v] # None /\ filing' = [filing EXCEPT ![v] = None] /\ UNCHANGED binding
       \/ \E b \in Binders : binding[b] # None /\ binding' = [binding EXCEPT ![b] = None] /\ UNCHANGED filing
    /\ UNCHANGED <<clock, releases, records, overdue, runs, sweep, checks, nights, faults>>

\* A release that changes what a kernel computes from the same inputs, or breaks or repairs the
\* re-execution of its runs; the processes restart.  Several changes are several releases.
Deploy(k, release) ==
    /\ Len(releases) <= MaxDeploys
    /\ release # Now(k) /\ (release.value = Now(k).value \/ release.able = Now(k).able)
    /\ releases' = Append(releases, [releases[Len(releases)] EXCEPT ![k] = release])
    /\ filing' = [v \in Validators |-> None]
    /\ binding' = [b \in Binders |-> None]
    /\ sweep' = None
    /\ UNCHANGED <<clock, records, overdue, runs, checks, nights, faults>>

-----------------------------------------------------------------------------
(* The sweep. *)

Completed(f) == {r \in runs : Family[r.kernel] = f /\ r.status = "COMPLETED"}

\* latest_completed_run: a set of at most one.
Subject(f) == {r \in Completed(f) : \A other \in Completed(f) : other.created <= r.created}

\* run_reproduction_sweep, up to its first event.  due is kept for the properties.
StartSweep ==
    /\ sweep = None
    /\ sweep' = [left |-> Families, inHand |-> None, rows |-> {}, born |-> {}, failing |-> FALSE,
                 lost |-> {}, due |-> {f \in Families : Completed(f) # {}}]
    /\ UNCHANGED <<clock, releases, records, overdue, runs, filing, binding, checks, nights, faults>>

Judging(f) ==
    /\ sweep # None /\ sweep.inHand = None
    /\ f \in sweep.left /\ \A other \in sweep.left : Place[f] <= Place[other]

\* The rest of the sweep goes on, and so do the transaction's other rows.
Sweeping(next) ==
    /\ sweep' = next
    /\ UNCHANGED <<clock, releases, records, overdue, runs, filing, binding, checks, nights>>

\* SKIPPED: no completed run.
Skip(f) ==
    /\ Judging(f) /\ Subject(f) = {}
    /\ Sweeping([sweep EXCEPT !.left = @ \ {f}])
    /\ UNCHANGED faults

\* The recompute executes the binder, whose run the savepoint takes out again (_Discard).
Keeping(recomputed) == {recomputed}                             \* mutant: the savepoint is released
Discarding(recomputed) == {}

\* The binder runs and its rows can be compared with the stored ones.
Reexecutes(k) == Now(k).able /\ MayBind(k)

\* compare_rows.
Differs(r) == Now(r.kernel).value # Value(r)

\* check_one_family, the database willing.  A refusal of any kind is UNREPRODUCIBLE, and so is a
\* comparison of nothing with nothing; rows where the run has none diverge.
Verdicts(r) ==
    {verdict \in {"MATCH", "DIVERGED", "UNREPRODUCIBLE"} :
        \/ verdict = "MATCH" /\ Reexecutes(r.kernel) /\ ~r.bare /\ ~Differs(r)
        \/ verdict = "DIVERGED" /\ Reexecutes(r.kernel) /\ Differs(r)
        \/ verdict = "UNREPRODUCIBLE" /\ (r.bare \/ ~Reexecutes(r.kernel))}

Recomputed(r) == Run(r.kernel, clock + 1, Len(releases), FALSE, "COMPLETED", "sweep")

Judge(f) ==
    /\ Judging(f)
    /\ \E r \in Subject(f) : \E verdict \in Verdicts(r) :
          Sweeping([sweep EXCEPT
              !.inHand = Check(f, r.created, Len(releases), verdict),
              !.born = @ \cup IF Reexecutes(r.kernel) THEN Discarding(Recomputed(r)) ELSE {}])
    /\ UNCHANGED faults

\* UNCHECKABLE: the database failed under the lookup, the read or the recompute.
JudgeAnyway(f) ==                                               \* mutant: an outage is a verdict
    /\ Judging(f) /\ Fault
    /\ \E r \in Subject(f) : Sweeping([sweep EXCEPT !.inHand = Check(f, r.created, Len(releases), "UNREPRODUCIBLE")])
FailQuietly(f) ==                                               \* mutant: nobody reads `unresolved`
    /\ Judging(f) /\ Fault
    /\ Sweeping([sweep EXCEPT !.left = @ \ {f}])
FailToCheck(f) ==
    /\ Judging(f) /\ Fault
    /\ Sweeping([sweep EXCEPT !.left = @ \ {f}, !.failing = TRUE])

\* RECORDED: the verdict's own savepoint.
RecordVerdict ==
    /\ sweep # None /\ sweep.inHand # None
    /\ Sweeping([sweep EXCEPT !.left = @ \ {sweep.inHand.family}, !.inHand = None,
                              !.rows = @ \cup {sweep.inHand}])
    /\ UNCHANGED faults

\* UNRECORDED: the judgement exists, its row does not.
FailToRecord ==
    /\ sweep # None /\ sweep.inHand # None /\ Fault
    /\ Sweeping([sweep EXCEPT !.left = @ \ {sweep.inHand.family}, !.inHand = None, !.failing = TRUE,
                              !.lost = @ \cup {c \in {sweep.inHand} : Alarming(c)}])

\* What the sweep's run says: COMPLETED or FAILED, with the lost alarms named.
Night ==
    [status |-> IF sweep.failing \/ sweep.rows = {} THEN "FAILED" ELSE "COMPLETED",
     lost |-> sweep.lost # {}, due |-> sweep.due, checked |-> {c.family : c \in sweep.rows}]

EndSweep ==
    /\ sweep # None /\ sweep.left = {}
    /\ checks' = checks \cup sweep.rows
    /\ runs' = runs \cup sweep.born
    /\ nights' = nights \cup {Night}
    /\ sweep' = None
    /\ UNCHANGED <<clock, releases, records, overdue, filing, binding, faults>>

\* The dispatch's savepoint or the tick's transaction is lost, and the night with it.
LoseSweep ==
    /\ sweep # None /\ Fault
    /\ sweep' = None
    /\ UNCHANGED <<clock, releases, records, overdue, runs, filing, binding, checks, nights>>

-----------------------------------------------------------------------------
Step == StartSweep \/ (\E f \in Families : Skip(f) \/ Judge(f)) \/ RecordVerdict \/ EndSweep

Next ==
    \/ Step \/ FailToRecord \/ LoseSweep \/ GiveUp
    \/ \E v \in Validators :
          CommitRecord(v) \/ \E k \in Gated, kind \in {"APPROVED", "REJECTED", "EXCEPTION"} : File(v, k, kind)
    \/ \E b \in Binders :
          \/ \E k \in Kernels : Bind(b, k)
          \/ \E status \in {"COMPLETED", "FAILED"}, bare \in BOOLEAN : CommitRun(b, status, bare)
    \/ \E f \in Families : FailToCheck(f)
    \/ \E k \in Gated : \E i \in DOMAIN records[k] : Expire(k, i)
    \/ \E k \in Kernels, release \in Releases : Deploy(k, release)

Spec == Init /\ [][Next]_vars

\* The schedule fires a sweep every night and its statements return; outages are finitely many.
FairSpec == Spec /\ WF_vars(Step)

-----------------------------------------------------------------------------
(* Properties. *)

Filings == [kernel : Gated, record : Records]
Bindings == [kernel : Kernels, created : Stamps]
Sweeps == [left : SUBSET Families, inHand : Checks \cup {None}, rows : SUBSET Checks, born : SUBSET Runs,
           failing : BOOLEAN, lost : SUBSET Checks, due : SUBSET Families]
Nights == [status : {"COMPLETED", "FAILED"}, lost : BOOLEAN, due : SUBSET Families, checked : SUBSET Families]

\* Types, and that no committed run is what a recompute left behind.
TypeOK ==
    /\ clock \in 0 .. MaxClock /\ faults \in 0 .. MaxFaults
    /\ releases \in Seq([Kernels -> Releases]) /\ Len(releases) \in 1 .. MaxDeploys + 1
    /\ records \in [Gated -> Seq(Records)]
    /\ overdue \subseteq Stamps
    /\ runs \subseteq {r \in Runs : r.by = "binder"}
    /\ filing \in [Validators -> Filings \cup {None}]
    /\ binding \in [Binders -> Bindings \cup {None}]
    /\ sweep = None \/ sweep \in Sweeps
    /\ checks \subseteq Checks
    /\ nights \subseteq Nights

\* An EXCEPTION outranks a rejection only if it was filed before the rejection was committed, both
\* waiting for the lock: what is left of "can neither substitute for a revalidation NOR un-reject".
UnRejectedOnlyInFlight ==
    \A k \in Gated : \A e, r \in DOMAIN records[k] :
        (records[k][e].kind = "EXCEPTION" /\ records[k][r].kind = "REJECTED"
            /\ records[k][r].stamp < records[k][e].stamp) => records[k][e].seen < r

\* A recorded alarm has a cause in the world: a DIVERGED run is one of which the sweep's release
\* computes something else, an UNREPRODUCIBLE one has nothing to compare, or that release cannot
\* execute it again, or its version was stood down or its exception ran out.  A database that fails
\* under the sweep is none of these (ReproductionInfrastructureFailure), whatever was deployed since.
StoodDown(k) == k \in Gated /\ \E i \in DOMAIN records[k] : Refused(records[k][i])
Cause(c, r) ==
    LET release == releases[c.code_version][r.kernel]
    IN  /\ c.verdict = "DIVERGED" => release.value # Value(r)
        /\ c.verdict = "UNREPRODUCIBLE" => r.bare \/ ~release.able \/ StoodDown(r.kernel)
AlarmsHaveACause ==
    \A c \in checks : \E r \in Completed(c.family) : r.created = c.subject /\ Cause(c, r)

\* A sweep that calls itself COMPLETED has recorded a verdict for every family that had a completed
\* run when it took the lock, and at least one; a lost alarm is never part of a green night.
GreenMeansChecked ==
    \A n \in nights : n.status = "COMPLETED" => n.due \subseteq n.checked /\ n.checked # {} /\ ~n.lost

\* Once the latest run of a family can no longer be reproduced, because the code moved on, broke or
\* its version was stood down, some night says so about that run: no outage hides it for good, and
\* no recompute ever becomes the run it is compared with.
Made(f) == {r \in Completed(f) : r.by = "binder"}
Latest(f) == {r \in Made(f) : \A other \in Made(f) : other.created <= r.created}
Surfaced(f, r) == \E c \in checks : c.family = f /\ c.subject = r.created /\ Alarming(c)
DivergenceSurfaces ==
    \A f \in Families : []<>(\A r \in Latest(f) : "MATCH" \in Verdicts(r) \/ Surfaced(f, r))
=============================================================================
