------------------------ MODULE GovernedRuns_proofs ------------------------
(***************************************************************************)
(* For any number of families, kernels, validators, binders, releases and  *)
(* faults: an exception outranks a rejection only when both waited for the *)
(* chain lock, an alarm has a cause, and a green night checked everything. *)
(*                                                                         *)
(* The three rest on what a transaction in progress still owes the world:  *)
(* an exception looked at a log without a rejection (GuardLooked), a       *)
(* verdict not yet committed has its cause already, in a release that is   *)
(* never rewritten and a record that is never removed (Caused), the sweep  *)
(* has left, failed on or judged whatever it found due, which stays due    *)
(* because nobody commits a run behind its lock (SweepSound).              *)
(***************************************************************************)
EXTENDS GovernedRuns, SequenceTheorems, WellFoundedInduction, TLAPS

-----------------------------------------------------------------------------
(* The inductive invariant. *)

\* An EXCEPTION, filed or committed, saw a log with no rejection and no approval in it.
LookedAt(record, log) ==
  /\ record.seen <= Len(log)
  /\ record.kind = "EXCEPTION" => \A i \in 1 .. record.seen : ~Real(log[i])
GuardLooked ==
  /\ \A k \in Gated : \A e \in 1 .. Len(records[k]) : LookedAt(records[k][e], records[k])
  /\ \A v \in Validators : filing[v] # None => LookedAt(filing[v].record, records[filing[v].kernel])

RunsSound ==
  /\ \A r \in runs : r.created \in Stamps /\ r.code_version \in 1 .. Len(releases)
  /\ \A b \in Binders : binding[b] # None => binding[b].created \in Stamps

\* What makes a verdict true, and stays.
Caused(c) ==
  /\ c.code_version \in 1 .. Len(releases)
  /\ \E r \in Completed(c.family) : r.created = c.subject /\ Cause(c, r)
Judged == checks \cup IF sweep = None THEN {}
                      ELSE sweep.rows \cup IF sweep.inHand = None THEN {} ELSE {sweep.inHand}

SweepSound ==
  sweep # None =>
    /\ sweep.born = {}
    /\ sweep.due = {f \in Families : Completed(f) # {}}
    /\ sweep.lost # {} => sweep.failing
    /\ sweep.failing \/ sweep.due \subseteq sweep.left \cup {c.family : c \in sweep.rows}

IInv ==
  /\ TypeOK /\ GuardLooked /\ RunsSound /\ SweepSound
  /\ \A c \in Judged : Caused(c)
  /\ GreenMeansChecked

-----------------------------------------------------------------------------
(* Lemmas. *)

\* Of completed runs one is the latest.
LEMMA LatestExists ==
  ASSUME TypeOK, RunsSound, NEW f \in Families, Completed(f) # {}
  PROVE  Subject(f) # {}
<1> DEFINE R == {pair \in Nat \X Nat : pair[1] < pair[2]}
           S == {MaxClock - r.created : r \in Completed(f)}
<1>1. \A r \in Completed(f) : r.created \in 1 .. MaxClock
  BY DEF RunsSound, Completed, Stamps
<1>2. MaxClock \in Nat
  BY ConstantsAssumption
<1>3. S \in SUBSET Nat /\ S # {}
  BY <1>1, <1>2
<1>4. IsWellFoundedOn(R, Nat)
  BY NatLessThanWellFounded DEF OpToRel
<1>5. PICK m \in S : \A n \in S : ~ (<<n, m>> \in R)
  BY <1>3, <1>4, WFMin
<1>6. \A n \in S : ~ (n < m)
  BY <1>3, <1>5
<1>7. PICK r \in Completed(f) : m = MaxClock - r.created
  BY <1>5
<1>8. ASSUME NEW other \in Completed(f) PROVE other.created <= r.created
  <2>1. MaxClock - other.created \in S
    OBVIOUS
  <2>2. ~ (MaxClock - other.created < MaxClock - r.created)
    BY <1>6, <1>7, <2>1
  <2> QED
    BY <1>1, <1>2, <2>2
<1> QED
  BY <1>7, <1>8 DEF Subject

\* The world moves on: runs, releases, records and expiries are added.
Later ==
  /\ runs \subseteq runs'
  /\ Len(releases) \in Nat /\ Len(releases') \in Nat /\ Len(releases) <= Len(releases')
  /\ \A n \in 1 .. Len(releases) : releases'[n] = releases[n]
  /\ overdue \subseteq overdue'
  /\ \A k \in Gated : /\ Len(records[k]) \in Nat /\ Len(records'[k]) \in Nat
                      /\ Len(records[k]) <= Len(records'[k])
                      /\ DOMAIN records[k] = 1 .. Len(records[k])
                      /\ DOMAIN records'[k] = 1 .. Len(records'[k])
                      /\ \A i \in 1 .. Len(records[k]) : records'[k][i] = records[k][i]

\* A version that was stood down is one that was.
LEMMA StoodDownStays ==
  ASSUME Later, NEW k, StoodDown(k)
  PROVE  StoodDown(k)'
<1>1. k \in Gated
  BY DEF StoodDown
<1>2. PICK i \in DOMAIN records[k] : Refused(records[k][i])
  BY DEF StoodDown
<1>3. i \in DOMAIN records'[k] /\ records'[k][i] = records[k][i]
  BY <1>1, <1>2 DEF Later
<1> QED
  BY <1>1, <1>2, <1>3 DEF StoodDown, Later, Refused

\* A cause stays one.
LEMMA CauseStays ==
  ASSUME RunsSound, Later, NEW c \in Checks, Caused(c)
  PROVE  Caused(c)'
<1>1. PICK r \in Completed(c.family) : r.created = c.subject /\ Cause(c, r)
  BY DEF Caused
<1>2. r \in Completed(c.family)'
  BY <1>1 DEF Completed, Later
<1>3. c.code_version \in 1 .. Len(releases) /\ r.code_version \in 1 .. Len(releases)
  BY <1>1 DEF Caused, RunsSound, Completed
<1>4. releases'[c.code_version] = releases[c.code_version] /\ Value(r)' = Value(r)
  BY <1>3 DEF Later, Value
<1>5. Cause(c, r)'
  BY <1>1, <1>4, StoodDownStays DEF Cause
<1>6. c.code_version \in 1 .. Len(releases')
  BY <1>3 DEF Later
<1> QED
  BY <1>1, <1>2, <1>5, <1>6 DEF Caused

\* What an EXCEPTION looked at stays as it was.
LEMMA LookStays ==
  ASSUME Later, NEW k \in Gated, NEW record \in Records, LookedAt(record, records[k])
  PROVE  LookedAt(record, records'[k])
<1>1. record.seen \in Nat /\ record.seen <= Len(records[k])
  BY DEF LookedAt, Records
<1>2. \A i \in 1 .. record.seen : i \in 1 .. Len(records[k])
  BY <1>1 DEF Later
<1> QED
  BY <1>1, <1>2 DEF LookedAt, Later

\* Steps in which no record, run or release is added let the world be, trivially.
LEMMA SameWorld ==
  ASSUME TypeOK, runs' = runs, releases' = releases, records' = records, overdue' = overdue
  PROVE  Later
<1>1. Len(releases) \in Nat /\ \A k \in Gated : records[k] \in Seq(Records)
  BY LenProperties DEF TypeOK
<1> QED
  BY <1>1, LenProperties DEF Later

\* Everything begins empty.
LEMMA InitEstablishes == Init => IInv
<1> SUFFICES ASSUME Init PROVE IInv
  OBVIOUS
<1>1. TypeOK
  <2>1. Release(0, TRUE) \in Releases /\ MaxDeploys \in Nat
    BY ConstantsAssumption DEF Release, Releases
  <2>2. [k \in Kernels |-> Release(0, TRUE)] \in [Kernels -> Releases]
    BY <2>1
  <2>3. PICK first \in [Kernels -> Releases] : releases = <<first>>
    BY <2>2 DEF Init
  <2>4. releases \in Seq([Kernels -> Releases]) /\ Len(releases) = 1
    BY <2>3
  <2>5. records \in [Gated -> Seq(Records)]
    BY EmptySeq DEF Init
  <2>6. Len(releases) \in 1 .. MaxDeploys + 1
    BY <2>1, <2>4
  <2>7. 0 \in 0 .. MaxClock /\ 0 \in 0 .. MaxFaults
    BY ConstantsAssumption
  <2> QED
    BY <2>4, <2>5, <2>6, <2>7 DEF Init, TypeOK
<1>2. GuardLooked
  BY EmptySeq DEF Init, GuardLooked
<1> QED
  BY <1>1, <1>2 DEF Init, IInv, RunsSound, SweepSound, Judged, GreenMeansChecked

\* Verdicts, committed or not, are typed.
LEMMA JudgedTyped ==
  ASSUME TypeOK
  PROVE  Judged \subseteq Checks
BY DEF TypeOK, Judged, Sweeps

-----------------------------------------------------------------------------
(* Every action preserves the invariant. *)

\* A step that leaves the sweep alone, or ends it without a trace.
LEMMA WorldStep ==
  ASSUME IInv, TypeOK', GuardLooked', RunsSound', Later, checks' = checks, nights' = nights,
         sweep' = sweep \/ sweep' = None, sweep' # None => runs' = runs
  PROVE  IInv'
<1>1. \A c \in Judged' : Caused(c)'
  <2> SUFFICES ASSUME NEW c \in Judged' PROVE Caused(c)'
    OBVIOUS
  <2>1. c \in Judged
    BY DEF Judged
  <2>2. c \in Checks /\ Caused(c)
    BY <2>1, JudgedTyped DEF IInv
  <2> QED
    BY <2>2, CauseStays DEF IInv
<1>2. SweepSound'
  BY DEF IInv, SweepSound, Completed
<1>3. GreenMeansChecked'
  BY DEF IInv, GreenMeansChecked
<1> QED
  BY <1>1, <1>2, <1>3 DEF IInv

\* Filed calls that are still waiting, or have given up, are sound if nothing was recorded.
LEMMA QuietCalls ==
  ASSUME IInv, records' = records, releases' = releases, runs' = runs,
         \A v \in Validators : filing'[v] = filing[v] \/ filing'[v] = None,
         \A b \in Binders : binding'[b] = binding[b] \/ binding'[b] = None
  PROVE  GuardLooked' /\ RunsSound'
<1>1. GuardLooked'
  BY DEF IInv, GuardLooked
<1>2. RunsSound'
  BY DEF IInv, RunsSound
<1> QED
  BY <1>1, <1>2

\* An EXCEPTION is filed only while the log it looks at has no other record in it.
LEMMA FileStep ==
  ASSUME IInv, NEW v \in Validators, NEW k \in Gated,
         NEW kind \in {"APPROVED", "REJECTED", "EXCEPTION"}, File(v, k, kind)
  PROVE  IInv'
<1> USE DEF IInv
<1> DEFINE record == Record(kind, clock', Len(records[k]))
<1>1. records[k] \in Seq(Records) /\ Len(records[k]) \in Nat /\ DOMAIN records[k] = 1 .. Len(records[k])
  BY LenProperties DEF TypeOK
<1>2. clock' \in Stamps /\ clock' \in 0 .. MaxClock
  BY ConstantsAssumption DEF File, ReadClock, TypeOK, Stamps
<1>3. /\ record \in Records /\ record.kind = kind /\ record.seen = Len(records[k])
  BY <1>1, <1>2 DEF Record, Records
<1>4. LookedAt(record, records[k])
  BY <1>1, <1>3 DEF LookedAt, File, NoRealYet
<1>5. [kernel |-> k, record |-> record] \in Filings
  BY <1>3 DEF Filings
<1> HIDE DEF record
<1>6. /\ filing' = [filing EXCEPT ![v] = [kernel |-> k, record |-> record]]
      /\ releases' = releases /\ records' = records /\ overdue' = overdue /\ runs' = runs
      /\ binding' = binding /\ sweep' = sweep /\ checks' = checks /\ nights' = nights /\ faults' = faults
  BY DEF File, record
<1>7. TypeOK'
  BY <1>2, <1>5, <1>6 DEF TypeOK
<1>8. GuardLooked'
  BY <1>4, <1>6 DEF GuardLooked, TypeOK
<1>9. RunsSound'
  BY <1>6 DEF RunsSound
<1>10. Later
  BY <1>6, SameWorld
<1> QED
  BY <1>6, <1>7, <1>8, <1>9, <1>10, WorldStep

\* A committed record is the last of its family's log.
LEMMA CommitRecordStep ==
  ASSUME IInv, NEW v \in Validators, CommitRecord(v)
  PROVE  IInv'
<1> USE DEF IInv
<1>1. /\ filing[v] \in Filings /\ LookedAt(filing[v].record, records[filing[v].kernel])
  BY DEF CommitRecord, TypeOK, GuardLooked
<1>2. PICK k \in Gated, record \in Records : filing[v].kernel = k /\ filing[v].record = record
  BY <1>1 DEF Filings
<1>3. /\ records' = [records EXCEPT ![k] = Append(@, record)]
      /\ filing' = [filing EXCEPT ![v] = None]
      /\ clock' = clock /\ releases' = releases /\ overdue' = overdue /\ runs' = runs /\ binding' = binding
      /\ sweep' = sweep /\ checks' = checks /\ nights' = nights /\ faults' = faults
  BY <1>2 DEF CommitRecord
<1>4. \A other \in Gated : records[other] \in Seq(Records) /\ Len(records[other]) \in Nat
                          /\ DOMAIN records[other] = 1 .. Len(records[other])
  BY LenProperties DEF TypeOK
<1>5. /\ records'[k] = Append(records[k], record) /\ records'[k] \in Seq(Records)
      /\ Len(records'[k]) = Len(records[k]) + 1
      /\ records'[k][Len(records[k]) + 1] = record
      /\ \A i \in 1 .. Len(records[k]) : records'[k][i] = records[k][i]
      /\ DOMAIN records'[k] = 1 .. Len(records'[k])
      /\ \A other \in Gated : other # k => records'[other] = records[other]
  BY <1>3, <1>4, AppendProperties, LenProperties DEF TypeOK
<1>6. TypeOK'
  BY <1>3, <1>5 DEF TypeOK
<1>7. Later
  <2>1. Len(releases) \in Nat
    BY LenProperties DEF TypeOK
  <2> QED
    BY <1>3, <1>4, <1>5, <2>1 DEF Later
<1>8. ASSUME NEW other \in Gated, NEW e \in 1 .. Len(records'[other])
      PROVE  LookedAt(records'[other][e], records'[other])
  <2>1. CASE e \in 1 .. Len(records[other])
    <3>1. records'[other][e] = records[other][e] /\ records[other][e] \in Records
      BY <1>4, <1>7, <2>1, ElementOfSeq DEF Later
    <3>2. LookedAt(records[other][e], records[other])
      BY <2>1 DEF GuardLooked
    <3> QED
      BY <1>7, <3>1, <3>2, LookStays
  <2>2. CASE other = k /\ e = Len(records[k]) + 1
    BY <1>1, <1>2, <1>5, <1>7, <2>2, LookStays
  <2> QED
    BY <1>4, <1>5, <2>1, <2>2
<1>9. ASSUME NEW u \in Validators, filing'[u] # None
      PROVE  LookedAt(filing'[u].record, records'[filing'[u].kernel])
  <2>1. filing'[u] = filing[u] /\ filing[u] \in Filings
    BY <1>3, <1>9 DEF TypeOK
  <2>2. LookedAt(filing[u].record, records[filing[u].kernel])
    BY <1>9, <2>1 DEF GuardLooked
  <2> QED
    BY <1>7, <2>1, <2>2, LookStays DEF Filings
<1>10. GuardLooked'
  BY <1>8, <1>9 DEF GuardLooked
<1>11. RunsSound'
  BY <1>3 DEF RunsSound
<1> QED
  BY <1>3, <1>6, <1>7, <1>10, <1>11, WorldStep

\* A run carries the stamp of its insert and the release of its commit.
LEMMA BinderSteps ==
  ASSUME IInv, NEW b \in Binders,
         \/ \E k \in Kernels : Bind(b, k)
         \/ \E status \in {"COMPLETED", "FAILED"}, bare \in BOOLEAN : CommitRun(b, status, bare)
  PROVE  IInv'
<1> USE DEF IInv
<1>1. CASE \E k \in Kernels : Bind(b, k)
  <2>1. PICK k \in Kernels : Bind(b, k)
    BY <1>1
  <2>2. clock' \in Stamps /\ clock' \in 0 .. MaxClock
    BY <2>1, ConstantsAssumption DEF Bind, ReadClock, TypeOK, Stamps
  <2>3. /\ binding' = [binding EXCEPT ![b] = [kernel |-> k, created |-> clock']]
        /\ releases' = releases /\ records' = records /\ overdue' = overdue /\ runs' = runs
        /\ filing' = filing /\ sweep' = sweep /\ checks' = checks /\ nights' = nights /\ faults' = faults
    BY <2>1 DEF Bind
  <2>4. TypeOK'
    BY <2>2, <2>3 DEF TypeOK, Bindings
  <2>5. GuardLooked'
    BY <2>3 DEF GuardLooked
  <2>6. RunsSound'
    BY <2>2, <2>3 DEF RunsSound, TypeOK
  <2>7. Later
    BY <2>3, SameWorld
  <2> QED
    BY <2>3, <2>4, <2>5, <2>6, <2>7, WorldStep
<1>2. CASE \E status \in {"COMPLETED", "FAILED"}, bare \in BOOLEAN : CommitRun(b, status, bare)
  <2>1. PICK status \in {"COMPLETED", "FAILED"}, bare \in BOOLEAN : CommitRun(b, status, bare)
    BY <1>2
  <2>2. binding[b] \in Bindings /\ binding[b].created \in Stamps /\ sweep = None
    BY <2>1 DEF CommitRun, TypeOK, RunsSound, LockFree
  <2>3. PICK k \in Kernels, created \in Stamps : binding[b].kernel = k /\ binding[b].created = created
    BY <2>2 DEF Bindings
  <2>4. PICK n \in Nat \ {0} : n = Len(releases)
    BY LenProperties DEF TypeOK
  <2>5. /\ runs' = runs \cup {Run(k, created, n, bare, status, "binder")}
        /\ binding' = [binding EXCEPT ![b] = None]
        /\ clock' = clock /\ releases' = releases /\ records' = records /\ overdue' = overdue
        /\ filing' = filing /\ sweep' = sweep /\ checks' = checks /\ nights' = nights /\ faults' = faults
    BY <2>1, <2>3, <2>4 DEF CommitRun
  <2>6. created \in Nat
    BY ConstantsAssumption DEF Stamps
  <2>7. /\ Run(k, created, n, bare, status, "binder") \in {r \in Runs : r.by = "binder"}
        /\ Run(k, created, n, bare, status, "binder").created = created
        /\ Run(k, created, n, bare, status, "binder").code_version = n
    BY <2>6 DEF Run, Runs
  <2>8. TypeOK'
    BY <2>5, <2>7 DEF TypeOK
  <2>9. GuardLooked'
    BY <2>5 DEF GuardLooked
  <2>10. RunsSound'
    BY <2>4, <2>5, <2>7 DEF RunsSound, TypeOK
  <2>11. Later
    <3>1. \A g \in Gated : records[g] \in Seq(Records)
      BY DEF TypeOK
    <3> QED
      BY <2>4, <2>5, <3>1, LenProperties DEF Later
  <2> QED
    BY <2>2, <2>5, <2>8, <2>9, <2>10, <2>11, WorldStep
<1> QED
  BY <1>1, <1>2

\* Calls that give up, reviews that fall due, deployments, and nothing at all.
LEMMA OtherSteps ==
  ASSUME IInv,
         \/ GiveUp \/ LoseSweep \/ UNCHANGED vars
         \/ \E k \in Gated : \E i \in DOMAIN records[k] : Expire(k, i)
         \/ \E k \in Kernels, release \in Releases : Deploy(k, release)
  PROVE  IInv'
<1> USE DEF IInv
<1>0. None \in Filings \cup {None} /\ None \in Bindings \cup {None}
  OBVIOUS
<1>1. CASE GiveUp \/ LoseSweep \/ UNCHANGED vars
  <2>1. /\ clock' = clock /\ releases' = releases /\ records' = records /\ overdue' = overdue /\ runs' = runs
        /\ checks' = checks /\ nights' = nights
        /\ sweep' = sweep \/ sweep' = None
        /\ faults' \in 0 .. MaxFaults
    BY <1>1, ConstantsAssumption DEF GiveUp, LoseSweep, Fault, vars, TypeOK
  <2>2. /\ filing' \in [Validators -> Filings \cup {None}]
        /\ binding' \in [Binders -> Bindings \cup {None}]
        /\ \A v \in Validators : filing'[v] = filing[v] \/ filing'[v] = None
        /\ \A b \in Binders : binding'[b] = binding[b] \/ binding'[b] = None
    BY <1>0, <1>1 DEF GiveUp, LoseSweep, vars, TypeOK
  <2>3. TypeOK'
    BY <2>1, <2>2 DEF TypeOK
  <2>4. Later
    BY <2>1, SameWorld
  <2> QED
    BY <2>1, <2>2, <2>3, <2>4, QuietCalls, WorldStep
<1>2. ASSUME NEW k \in Kernels, NEW release \in Releases, Deploy(k, release) PROVE IInv'
  <2>1. releases \in Seq([Kernels -> Releases]) /\ Len(releases) \in 1 .. MaxDeploys + 1
    BY DEF TypeOK
  <2>2. PICK n \in Nat \ {0} : n = Len(releases) /\ n \in DOMAIN releases
    BY <2>1, LenProperties
  <2>3. PICK next \in [Kernels -> Releases] : next = [releases[n] EXCEPT ![k] = release]
    <3>1. releases[n] \in [Kernels -> Releases]
      BY <2>1, <2>2, ElementOfSeq
    <3>2. [releases[n] EXCEPT ![k] = release] \in [Kernels -> Releases]
      BY <3>1
    <3> QED
      BY <3>2
  <2>4. /\ clock' = clock /\ records' = records /\ overdue' = overdue /\ runs' = runs
        /\ checks' = checks /\ nights' = nights /\ sweep' = None /\ faults' = faults
        /\ filing' = [v \in Validators |-> None] /\ binding' = [b \in Binders |-> None]
        /\ releases' = Append(releases, next) /\ n <= MaxDeploys
    BY <1>2, <2>2, <2>3 DEF Deploy
  <2>5. /\ releases' \in Seq([Kernels -> Releases]) /\ Len(releases') = n + 1
        /\ \A m \in 1 .. n : releases'[m] = releases[m]
    BY <2>1, <2>2, <2>4, AppendProperties
  <2>6. n + 1 \in 1 .. MaxDeploys + 1
    BY <2>2, <2>4, ConstantsAssumption
  <2>7. TypeOK'
    BY <2>4, <2>5, <2>6 DEF TypeOK
  <2>8. GuardLooked'
    BY <2>4 DEF GuardLooked
  <2>9. RunsSound'
    BY <2>2, <2>4, <2>5 DEF RunsSound
  <2>10. Later
    <3>1. \A g \in Gated : records[g] \in Seq(Records)
      BY DEF TypeOK
    <3> QED
      BY <2>2, <2>4, <2>5, <3>1, LenProperties DEF Later
  <2> QED
    BY <2>4, <2>7, <2>8, <2>9, <2>10, WorldStep
<1>3. ASSUME NEW k \in Gated, NEW i \in DOMAIN records[k], Expire(k, i) PROVE IInv'
  <2>1. /\ clock' = clock /\ releases' = releases /\ records' = records /\ runs' = runs
        /\ filing' = filing /\ binding' = binding /\ checks' = checks /\ nights' = nights
        /\ sweep' = sweep /\ faults' = faults
        /\ overdue' = overdue \cup {records[k][i].stamp}
    BY <1>3 DEF Expire
  <2>2. Len(releases) \in Nat /\ \A g \in Gated : records[g] \in Seq(Records)
    BY LenProperties DEF TypeOK
  <2>3. records[k][i] \in Records
    BY <2>2, ElementOfSeq, LenProperties
  <2>4. TypeOK'
    BY <2>1, <2>3 DEF TypeOK, Records
  <2>5. Later
    BY <2>1, <2>2, LenProperties DEF Later
  <2>6. GuardLooked' /\ RunsSound'
    BY <2>1, QuietCalls
  <2> QED
    BY <2>1, <2>4, <2>5, <2>6, WorldStep
<1> QED
  BY <1>1, <1>2, <1>3

\* A step of the sweep that commits nothing.
LEMMA SweepStep ==
  ASSUME IInv, sweep' \in Sweeps, faults' \in 0 .. MaxFaults, SweepSound',
         clock' = clock, releases' = releases, records' = records, overdue' = overdue, runs' = runs,
         filing' = filing, binding' = binding, checks' = checks, nights' = nights,
         \A c \in Judged' : c \in Checks /\ Caused(c)
  PROVE  IInv'
<1> USE DEF IInv
<1>1. TypeOK'
  BY DEF TypeOK
<1>2. GuardLooked' /\ RunsSound' /\ GreenMeansChecked'
  BY DEF GuardLooked, RunsSound, GreenMeansChecked
<1>3. Later
  BY SameWorld
<1>4. \A c \in Judged' : Caused(c)'
  BY <1>3, CauseStays
<1> QED
  BY <1>1, <1>2, <1>4

\* A sweep in progress is one.
LEMMA SweepTyped ==
  ASSUME TypeOK, sweep # None
  PROVE  sweep \in Sweeps /\ None \notin Sweeps
BY DEF TypeOK, Sweeps, None

\* The sweep takes stock of the families that are due.
LEMMA StartSweepStep ==
  ASSUME IInv, StartSweep
  PROVE  IInv'
<1>1. /\ sweep' \in Sweeps
      /\ sweep'.born = {} /\ sweep'.lost = {} /\ sweep'.rows = {} /\ sweep'.inHand = None
      /\ sweep'.left = Families /\ sweep'.due = {f \in Families : Completed(f) # {}}
  BY DEF StartSweep, Sweeps
<1>2. SweepSound'
  BY <1>1 DEF SweepSound, Completed, StartSweep
<1>3. \A c \in Judged' : c \in Judged
  BY <1>1 DEF Judged, StartSweep
<1>4. \A c \in Judged' : c \in Checks /\ Caused(c)
  BY <1>3, JudgedTyped DEF IInv
<1> QED
  BY <1>1, <1>2, <1>4, SweepStep DEF StartSweep, IInv, TypeOK

\* A family is skipped only if it was not due.
LEMMA SkipStep ==
  ASSUME IInv, NEW f \in Families, Skip(f)
  PROVE  IInv'
<1>1. sweep # None /\ f \in sweep.left /\ sweep \in Sweeps /\ None \notin Sweeps
  BY SweepTyped DEF IInv, Skip, Judging
<1>2. sweep' = [sweep EXCEPT !.left = @ \ {f}]
  BY DEF Skip, Sweeping
<1>3. /\ sweep' \in Sweeps /\ sweep'.left = sweep.left \ {f}
      /\ sweep'.born = sweep.born /\ sweep'.due = sweep.due /\ sweep'.lost = sweep.lost
      /\ sweep'.failing = sweep.failing /\ sweep'.rows = sweep.rows /\ sweep'.inHand = sweep.inHand
  BY <1>1, <1>2 DEF Sweeps
<1>4. f \notin sweep.due
  BY <1>1, LatestExists DEF IInv, SweepSound, Skip
<1>5. SweepSound'
  BY <1>1, <1>3, <1>4 DEF IInv, SweepSound, Completed, Skip, Sweeping
<1>6. \A c \in Judged' : c \in Judged
  BY <1>1, <1>3 DEF Judged, Skip, Sweeping
<1>7. \A c \in Judged' : c \in Checks /\ Caused(c)
  BY <1>6, JudgedTyped DEF IInv
<1> QED
  BY <1>3, <1>5, <1>7, SweepStep DEF Skip, Sweeping, IInv, TypeOK

\* A gate that refuses stands before a version that was stood down.
LEMMA RefusalCaused ==
  ASSUME NEW k, ~MayBind(k)
  PROVE  StoodDown(k)
BY DEF MayBind, StoodDown

\* A verdict is true when it is reached.
LEMMA VerdictCaused ==
  ASSUME IInv, NEW f \in Families, NEW r \in Subject(f), NEW verdict \in Verdicts(r)
  PROVE  \E c \in Checks : c = Check(f, r.created, Len(releases), verdict) /\ Caused(c)
<1>1. r \in Completed(f) /\ r \in Runs
  BY DEF Subject, Completed, IInv, TypeOK
<1>2. PICK n \in Nat : n = Len(releases) /\ n \in 1 .. Len(releases)
  BY LenProperties DEF IInv, TypeOK
<1>3. r.created \in Nat /\ verdict \in {"MATCH", "DIVERGED", "UNREPRODUCIBLE"}
  BY <1>1 DEF Runs, Verdicts
<1>4. PICK c \in Checks : c = Check(f, r.created, n, verdict)
  BY <1>2, <1>3 DEF Check, Checks
<1>5. c.family = f /\ c.subject = r.created /\ c.code_version = n /\ c.verdict = verdict
  BY <1>4 DEF Check
<1>6. ASSUME verdict = "DIVERGED"
      PROVE  releases[n][r.kernel].value # Value(r)
  BY <1>2, <1>6 DEF Verdicts, Differs, Now
<1>7. ASSUME verdict = "UNREPRODUCIBLE"
      PROVE  r.bare \/ ~releases[n][r.kernel].able \/ StoodDown(r.kernel)
  BY <1>2, <1>7, RefusalCaused DEF Verdicts, Reexecutes, Now
<1>8. Cause(c, r)
  BY <1>5, <1>6, <1>7 DEF Cause
<1> QED
  BY <1>1, <1>2, <1>4, <1>5, <1>8 DEF Caused

\* The family in hand is still left.
LEMMA JudgeStep ==
  ASSUME IInv, NEW f \in Families, Judge(f)
  PROVE  IInv'
<1>1. sweep # None /\ f \in sweep.left /\ sweep \in Sweeps /\ None \notin Sweeps
  BY SweepTyped DEF IInv, Judge, Judging
<1>2. PICK c \in Checks : Caused(c) /\ sweep' = [sweep EXCEPT !.inHand = c, !.born = @ \cup {}]
  <2>1. PICK r \in Subject(f) : \E verdict \in Verdicts(r) :
          sweep' = [sweep EXCEPT !.inHand = Check(f, r.created, Len(releases), verdict), !.born = @ \cup {}]
    BY DEF Judge, Sweeping, Discarding
  <2>2. PICK verdict \in Verdicts(r) :
          sweep' = [sweep EXCEPT !.inHand = Check(f, r.created, Len(releases), verdict), !.born = @ \cup {}]
    BY <2>1
  <2> QED
    BY <2>2, VerdictCaused
<1>4. /\ sweep' \in Sweeps /\ sweep'.left = sweep.left
      /\ sweep'.born = sweep.born /\ sweep'.due = sweep.due /\ sweep'.lost = sweep.lost
      /\ sweep'.failing = sweep.failing /\ sweep'.rows = sweep.rows /\ sweep'.inHand = c
  BY <1>1, <1>2 DEF Sweeps
<1>5. SweepSound'
  BY <1>1, <1>4 DEF IInv, SweepSound, Completed, Judge, Sweeping
<1>6. \A d \in Judged' : d \in Judged \/ d = c
  BY <1>1, <1>4 DEF Judged, Judge, Sweeping
<1>7. \A d \in Judged' : d \in Checks /\ Caused(d)
  BY <1>2, <1>6, JudgedTyped DEF IInv
<1> QED
  BY <1>4, <1>5, <1>7, SweepStep DEF Judge, Sweeping, IInv, TypeOK

\* A family is taken off the list with its verdict recorded, or with the sweep failing.
LEMMA RecordSteps ==
  ASSUME IInv, RecordVerdict \/ FailToRecord \/ \E f \in Families : FailToCheck(f)
  PROVE  IInv'
<1>1. sweep # None /\ sweep \in Sweeps /\ None \notin Sweeps
  BY SweepTyped DEF IInv, RecordVerdict, FailToRecord, FailToCheck, Judging
<1>2. /\ clock' = clock /\ releases' = releases /\ records' = records /\ overdue' = overdue /\ runs' = runs
      /\ filing' = filing /\ binding' = binding /\ checks' = checks /\ nights' = nights
      /\ faults' \in 0 .. MaxFaults
  <2>1. Fault \/ faults' = faults
    BY DEF RecordVerdict, FailToRecord, FailToCheck
  <2>2. faults \in 0 .. MaxFaults /\ MaxFaults \in Nat
    BY ConstantsAssumption DEF IInv, TypeOK
  <2>3. faults' \in 0 .. MaxFaults
    BY <2>1, <2>2 DEF Fault
  <2> QED
    BY <2>3 DEF RecordVerdict, FailToRecord, FailToCheck, Sweeping
<1>3. CASE RecordVerdict
  <2>1. sweep.inHand \in Checks /\ sweep.inHand # None
    BY <1>1, <1>3 DEF RecordVerdict, Sweeps
  <2>2. sweep' = [sweep EXCEPT !.left = @ \ {sweep.inHand.family}, !.inHand = None,
                              !.rows = @ \cup {sweep.inHand}]
    BY <1>3 DEF RecordVerdict, Sweeping
  <2>3. /\ sweep' \in Sweeps /\ sweep'.left = sweep.left \ {sweep.inHand.family}
        /\ sweep'.born = sweep.born /\ sweep'.due = sweep.due /\ sweep'.lost = sweep.lost
        /\ sweep'.failing = sweep.failing /\ sweep'.rows = sweep.rows \cup {sweep.inHand}
        /\ sweep'.inHand = None
    BY <1>1, <2>1, <2>2 DEF Sweeps
  <2>4. SweepSound'
    BY <1>1, <1>2, <2>3 DEF IInv, SweepSound, Completed
  <2>5. \A c \in Judged' : c \in Judged
    BY <1>1, <1>2, <2>1, <2>3 DEF Judged
  <2> QED
    BY <1>2, <2>3, <2>4, <2>5, JudgedTyped, SweepStep DEF IInv
<1>4. CASE FailToRecord
  <2>1. sweep.inHand \in Checks
    BY <1>1, <1>4 DEF FailToRecord, Sweeps
  <2>2. sweep' = [sweep EXCEPT !.left = @ \ {sweep.inHand.family}, !.inHand = None, !.failing = TRUE,
                              !.lost = @ \cup {c \in {sweep.inHand} : Alarming(c)}]
    BY <1>4 DEF FailToRecord, Sweeping
  <2>3. /\ sweep' \in Sweeps /\ sweep'.born = sweep.born /\ sweep'.due = sweep.due
        /\ sweep'.failing /\ sweep'.rows = sweep.rows /\ sweep'.inHand = None
    BY <1>1, <2>1, <2>2 DEF Sweeps
  <2>4. SweepSound'
    BY <1>1, <1>2, <2>3 DEF IInv, SweepSound, Completed
  <2>5. \A c \in Judged' : c \in Judged
    BY <1>1, <1>2, <2>3 DEF Judged
  <2> QED
    BY <1>2, <2>3, <2>4, <2>5, JudgedTyped, SweepStep DEF IInv
<1>5. ASSUME NEW f \in Families, FailToCheck(f) PROVE IInv'
  <2>1. sweep' = [sweep EXCEPT !.left = @ \ {f}, !.failing = TRUE]
    BY <1>5 DEF FailToCheck, Sweeping
  <2>2. /\ sweep' \in Sweeps /\ sweep'.born = sweep.born /\ sweep'.due = sweep.due
        /\ sweep'.failing /\ sweep'.rows = sweep.rows /\ sweep'.inHand = sweep.inHand
    BY <1>1, <2>1 DEF Sweeps
  <2>3. SweepSound'
    BY <1>1, <1>2, <2>2 DEF IInv, SweepSound, Completed
  <2>4. \A c \in Judged' : c \in Judged
    BY <1>1, <1>2, <2>2 DEF Judged
  <2> QED
    BY <1>2, <2>2, <2>3, <2>4, JudgedTyped, SweepStep DEF IInv
<1> QED
  BY <1>3, <1>4, <1>5

\* What is committed is what was judged; a night without failures judged what was due.
LEMMA EndSweepStep ==
  ASSUME IInv, EndSweep
  PROVE  IInv'
<1> USE DEF IInv
<1>1. /\ sweep # None /\ sweep \in Sweeps /\ sweep.left = {} /\ sweep.born = {} /\ sweep' = None
      /\ clock' = clock /\ releases' = releases /\ records' = records /\ overdue' = overdue
      /\ filing' = filing /\ binding' = binding /\ faults' = faults
      /\ checks' = checks \cup sweep.rows /\ nights' = nights \cup {Night}
  BY SweepTyped DEF EndSweep, SweepSound
<1>2. runs' = runs
  BY <1>1 DEF EndSweep
<1>3. /\ Night.status = IF sweep.failing \/ sweep.rows = {} THEN "FAILED" ELSE "COMPLETED"
      /\ Night.lost = (sweep.lost # {}) /\ Night.due = sweep.due
      /\ Night.checked = {c.family : c \in sweep.rows}
  BY DEF Night
<1>4. Night \in Nights
  BY <1>1 DEF Night, Nights, Sweeps, Checks
<1>5. TypeOK'
  BY <1>1, <1>2, <1>4 DEF TypeOK, Sweeps
<1>6. Night.status = "COMPLETED" => Night.due \subseteq Night.checked /\ Night.checked # {} /\ ~Night.lost
  BY <1>1, <1>3 DEF SweepSound
<1>7. GreenMeansChecked'
  BY <1>1, <1>6 DEF GreenMeansChecked
<1>8. GuardLooked' /\ RunsSound'
  BY <1>1, <1>2 DEF GuardLooked, RunsSound
<1>9. Later
  BY <1>1, <1>2, SameWorld
<1>10. \A c \in Judged' : c \in Judged
  BY <1>1 DEF Judged
<1>11. \A c \in Judged' : Caused(c)'
  BY <1>9, <1>10, JudgedTyped, CauseStays
<1>12. SweepSound'
  BY <1>1 DEF SweepSound
<1> QED
  BY <1>5, <1>7, <1>8, <1>11, <1>12

\* The invariant is inductive.
THEOREM Invariance == Spec => []IInv
<1>1. IInv /\ [Next]_vars => IInv'
  <2> SUFFICES ASSUME IInv, [Next]_vars PROVE IInv'
    OBVIOUS
  <2>1. ASSUME Step PROVE IInv'
    BY <2>1, StartSweepStep, SkipStep, JudgeStep, RecordSteps, EndSweepStep DEF Step
  <2>2. ASSUME NEW v \in Validators,
               CommitRecord(v) \/ \E k \in Gated, kind \in {"APPROVED", "REJECTED", "EXCEPTION"} : File(v, k, kind)
        PROVE  IInv'
    BY <2>2, FileStep, CommitRecordStep
  <2> QED
    BY <2>1, <2>2, BinderSteps, RecordSteps, OtherSteps DEF Next
<1> QED
  BY <1>1, InitEstablishes, PTL DEF Spec

\* Every variable stays well typed, and no committed run is what a recompute left behind (_Discard).
THEOREM TypeCorrect == Spec => []TypeOK
BY Invariance, PTL DEF IInv

\* An exception outranks a rejection only if both waited for the chain lock (record_validation).
THEOREM ExceptionsUnReject == Spec => []UnRejectedOnlyInFlight
<1>1. IInv => UnRejectedOnlyInFlight
  <2> SUFFICES ASSUME IInv, NEW k \in Gated, NEW e \in DOMAIN records[k], NEW r \in DOMAIN records[k],
                      records[k][e].kind = "EXCEPTION", records[k][r].kind = "REJECTED"
               PROVE  records[k][e].seen < r
    BY DEF UnRejectedOnlyInFlight
  <2>1. records[k] \in Seq(Records) /\ DOMAIN records[k] = 1 .. Len(records[k])
    BY LenProperties DEF IInv, TypeOK
  <2>2. records[k][e] \in Records /\ r \in Nat \ {0}
    BY <2>1, ElementOfSeq
  <2>3. records[k][e].seen \in Nat
    BY <2>2 DEF Records
  <2>4. \A i \in 1 .. records[k][e].seen : ~Real(records[k][i])
    BY <2>1 DEF IInv, GuardLooked, LookedAt
  <2>5. Real(records[k][r])
    BY DEF Real
  <2> QED
    BY <2>2, <2>3, <2>4, <2>5
<1> QED
  BY <1>1, Invariance, PTL

\* A recorded alarm has a cause in the world: another result, nothing to compare, a release that
\* cannot execute the run again, or a version stood down, and never the database (check_one_family).
THEOREM NoFalseAlarms == Spec => []AlarmsHaveACause
<1>1. IInv => AlarmsHaveACause
  BY DEF IInv, AlarmsHaveACause, Caused, Judged
<1> QED
  BY <1>1, Invariance, PTL

\* A green night checked everything that was due and lost no alarm (run_reproduction_sweep).
THEOREM GreenIsEarned == Spec => []GreenMeansChecked
BY Invariance, PTL DEF IInv
=============================================================================
