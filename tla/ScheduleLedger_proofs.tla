------------------------ MODULE ScheduleLedger_proofs ------------------------
(***************************************************************************)
(* For any number of workers and schedules, and however long they poll: a  *)
(* grid point of a schedule, and a business month of a monthly one, is     *)
(* fired once; a committed run is the run of a ledger row; and index       *)
(* entries alone never make a cycle of waits, so that each passes through  *)
(* the one holder of the chain lock.                                       *)
(*                                                                         *)
(* The two unique indexes keep rows of different transactions apart        *)
(* (Distinct).  A transaction is kept apart from itself by the order of    *)
(* its list (InOrder): its rows are about schedules it has left behind, so *)
(* a savepoint that is rolled back takes no earlier row's run with it.     *)
(***************************************************************************)
EXTENDS ScheduleLedger, SequenceTheorems, FiniteSetTheorems, TLAPS

-----------------------------------------------------------------------------
(* The inductive invariant. *)

\* A row is committed, or of an open transaction.
InFlight(r) == r \in ledger \/ \E w \in Workers : r \in rows[w]

Distinct == \A r, q : InFlight(r) /\ InFlight(q) /\ Clash(r, q) => r = q

InOrder ==
    \A w \in Workers :
        /\ \A i, j \in DOMAIN due[w] : i < j => due[w][i].sched < due[w][j].sched
        /\ \A r \in rows[w], i \in DOMAIN due[w] : r.sched < due[w][i].sched

\* A month-end row bears its month, the others none.
Keyed(r) == r.period = PeriodKey(r.sched, r.tick)
AllKeyed == \A r : InFlight(r) => Keyed(r)

RunIn(x, S) == \E r \in S : r.sched = x.sched /\ r.tick = x.tick /\ r.run = x.by
AttemptOf(r) == [sched |-> r.sched, tick |-> r.tick, by |-> r.run]
Inserting(w) == at[w] \in {"insert", "insert_failed"}

\* The runs of a transaction are those of its rows, and the one whose row is to be inserted.
OwnRuns ==
    \A w \in Workers :
        /\ \A x \in born[w] : x.by = w /\ ((Inserting(w) /\ x = Attempt(w)) \/ RunIn(x, rows[w]))
        /\ \A r \in rows[w] : r.run # NoRun => AttemptOf(r) \in born[w]
        /\ Inserting(w) => Attempt(w) \in born[w]

IInv == TypeOK /\ Distinct /\ InOrder /\ AllKeyed /\ OwnRuns /\ NoPhantomRun

-----------------------------------------------------------------------------
(* Lemmas. *)

\* A due grid point is neither before the epoch nor in the future.
LEMMA TickInRange ==
    ASSUME NEW s \in Schedules, NEW now \in 0 .. MaxTime, NEW cal, NEW tick, tick = current_tick(s, now, cal),
           ~OutsideStart(s, tick, now)
    PROVE  tick \in 0 .. now
<1>1. MaxTime \in Nat /\ now \in Nat /\ Anchor[s] \in Nat /\ Interval \in Nat /\ Interval > 0
  BY ConstantsAssumption
<1>2. CASE s \in Monthly
  <2> DEFINE ends == {e \in {IF cal = "early" THEN 2 * m ELSE 2 * m + 1 : m \in -1 .. MaxTime} : e <= now}
  <2>1. \E x \in ends : \A y \in ends : x >= y
    <3>0. now \div 2 \in Nat /\ (now = 2 * (now \div 2) \/ now = 2 * (now \div 2) + 1)
      BY <1>1
    <3>1. PICK k \in Nat : now = 2 * k \/ now = 2 * k + 1
      BY <3>0
    <3>2. k \in -1 .. MaxTime /\ k - 1 \in -1 .. MaxTime
      BY <1>1, <3>1
    <3>3. CASE cal = "early"
      <4>1. 2 * k \in ends
        BY <1>1, <3>1, <3>2, <3>3
      <4>2. \A y \in ends : 2 * k >= y
        BY <1>1, <3>1, <3>3
      <4> QED
        BY <4>1, <4>2
    <3>4. CASE cal # "early" /\ now = 2 * k + 1
      <4>1. 2 * k + 1 \in ends
        BY <1>1, <3>2, <3>4
      <4>2. \A y \in ends : 2 * k + 1 >= y
        BY <1>1, <3>4
      <4> QED
        BY <4>1, <4>2
    <3>5. CASE cal # "early" /\ now = 2 * k
      <4>1. 2 * (k - 1) + 1 \in ends
        BY <1>1, <3>2, <3>5
      <4>2. \A y \in ends : 2 * (k - 1) + 1 >= y
        BY <1>1, <3>5
      <4> QED
        BY <4>1, <4>2
    <3> QED
      BY <3>1, <3>3, <3>4, <3>5
  <2>2. \A e \in ends : e \in Int /\ e <= now
    BY <1>1
  <2>3. tick = Max(ends)
    BY <1>2 DEF current_tick, MonthEnd
  <2> HIDE DEF ends
  <2>4. tick \in ends
    BY <2>1, <2>3 DEF Max
  <2>5. tick \in Int /\ tick <= now
    BY <2>2, <2>4
  <2> QED
    BY <1>1, <2>5 DEF OutsideStart
<1>3. CASE s \notin Monthly
  <2> DEFINE k == (now - Anchor[s]) \div Interval
  <2>1. now - Anchor[s] \in Nat
    <3>1. ~(now < Anchor[s])
      BY DEF OutsideStart
    <3> QED
      BY <1>1, <3>1
  <2>2. k \in Nat /\ Interval * k <= now - Anchor[s]
    BY <1>1, <2>1
  <2>3. Max({0, k}) = k
    BY <2>2 DEF Max
  <2>4. tick = Anchor[s] + Interval * k
    BY <1>3, <2>3 DEF current_tick, IntervalTick
  <2>5. Interval * k \in Nat
    BY <1>1, <2>2
  <2> HIDE DEF k
  <2> QED
    BY <1>1, <2>2, <2>4, <2>5
<1> QED
  BY <1>2, <1>3

LEMMA SchedIsNat ==
    /\ \A r \in LedgerRows : r.sched \in Nat /\ r.sched \in Schedules
    /\ \A e \in Entries : e.sched \in Nat
BY ConstantsAssumption DEF LedgerRows, Entries

\* A finite set of numbers has a largest one.
LEMMA LargestNumber ==
    ASSUME NEW S \in SUBSET Nat, IsFiniteSet(S), S # {}
    PROVE  \E m \in S : \A n \in S : n <= m
<1> DEFINE Above(a) == {b \in S : b > a}
           family == {Above(a) : a \in S}
<1>1. IsWellFoundedOn(StrictSubsetOrdering(S), FiniteSubsetsOf(S))
  BY FS_StrictSubsetOrderingWellFounded
<1>2. family \in SUBSET FiniteSubsetsOf(S) /\ family # {}
  <2>1. \A a \in S : Above(a) \subseteq S /\ IsFiniteSet(Above(a))
    BY FS_Subset
  <2> QED
    BY <2>1 DEF FiniteSubsetsOf
<1>3. PICK U \in family : \A V \in family : ~ (<<V, U>> \in StrictSubsetOrdering(S))
  BY <1>1, <1>2, WFMin
<1>4. PICK m \in S : U = Above(m)
  BY <1>3
<1>5. ASSUME NEW n \in S PROVE n <= m
  <2> SUFFICES ASSUME n > m PROVE FALSE
    OBVIOUS
  <2>1. S \subseteq Nat /\ n \in S /\ m \in S
    OBVIOUS
  <2>2. n \in Nat /\ m \in Nat
    BY <2>1
  <2>3. \A b \in S : b > n => b > m
    BY <2>1, <2>2
  <2>4. ~(n > n)
    BY <2>2
  <2>5. n \in Above(m) /\ n \notin Above(n) /\ Above(n) \subseteq Above(m)
    BY <2>1, <2>3, <2>4
  <2>6. Above(n) # Above(m) /\ Above(n) \subseteq S /\ Above(m) \subseteq S
    BY <2>5
  <2>7. <<Above(n), Above(m)>> \in StrictSubsetOrdering(S)
    BY <2>5, <2>6 DEF StrictSubsetOrdering
  <2> QED
    BY <1>3, <1>4, <2>7
<1> QED
  BY <1>5

LEMMA TailFacts ==
    ASSUME NEW d \in Seq(Entries), d # <<>>
    PROVE  /\ Tail(d) \in Seq(Entries) /\ Head(d) = d[1] /\ Head(d) \in Entries
           /\ 1 \in DOMAIN d /\ DOMAIN d \subseteq Nat /\ DOMAIN Tail(d) \subseteq Nat
           /\ \A i \in DOMAIN Tail(d) : i + 1 \in DOMAIN d /\ Tail(d)[i] = d[i + 1] /\ 1 < i + 1
<1>1. Len(d) \in Nat /\ Len(d) # 0 /\ DOMAIN d = 1 .. Len(d)
  BY LenProperties, EmptySeq
<1>2. Tail(d) \in Seq(Entries) /\ Len(Tail(d)) = Len(d) - 1 /\ \A i \in 1 .. Len(Tail(d)) : Tail(d)[i] = d[i + 1]
  BY HeadTailProperties
<1>3. DOMAIN Tail(d) = 1 .. (Len(d) - 1)
  BY <1>2, LenProperties
<1>4. Head(d) = d[1] /\ 1 \in DOMAIN d
  BY <1>1, HeadTailProperties
<1>5. \A i \in DOMAIN Tail(d) : i + 1 \in DOMAIN d /\ 1 < i + 1 /\ i \in 1 .. Len(Tail(d))
  BY <1>1, <1>2, <1>3
<1>6. d[1] \in Entries
  BY <1>1
<1> QED
  BY <1>1, <1>2, <1>3, <1>4, <1>5, <1>6

AttemptAt(w, d) == [sched |-> Head(d).sched, tick |-> Head(d).tick, by |-> w]

\* A row of w's current entry that meets no other in the indexes.
FreshRow(w, r) ==
    /\ r \in LedgerRows /\ Keyed(r) /\ r.sched = Head(due[w]).sched
    /\ \A q \in ledger : ~Clash(q, r)
    /\ \A o \in Workers \ {w} : \A q \in rows[o] : ~Clash(q, r)

\* A step of a poll that commits nothing keeps its place in the list or leaves the head behind,
\* with a row for it or without.
PollStep(w, place, d, rs, bs) ==
    /\ at' = [at EXCEPT ![w] = place] /\ due' = [due EXCEPT ![w] = d]
    /\ rows' = [rows EXCEPT ![w] = rs] /\ born' = [born EXCEPT ![w] = bs]
    /\ UNCHANGED <<world, ledger, runs, seen>> /\ faults' \in 0 .. MaxFaults
    /\ due[w] # <<>> /\ d \in {due[w], Tail(due[w])}
    /\ place \in Places \ {"idle", "select"}
    /\ place # "next" => d # <<>>
    /\ rs = rows[w] \/ \E r : FreshRow(w, r) /\ d = Tail(due[w]) /\ rs = rows[w] \cup {r}
    /\ bs \subseteq Attempts
    /\ \A x \in bs : /\ x.by = w
                     /\ \/ place \in {"insert", "insert_failed"} /\ x = AttemptAt(w, d)
                        \/ RunIn(x, rs)
    /\ \A r \in rs : r.run # NoRun => AttemptOf(r) \in bs
    /\ place \in {"insert", "insert_failed"} => AttemptAt(w, d) \in bs

LEMMA PollStepKeeps ==
    ASSUME IInv, NEW w \in Workers, NEW place, NEW d, NEW rs, NEW bs, PollStep(w, place, d, rs, bs)
    PROVE  IInv'
<1>1. /\ at' = [at EXCEPT ![w] = place] /\ due' = [due EXCEPT ![w] = d]
      /\ rows' = [rows EXCEPT ![w] = rs] /\ born' = [born EXCEPT ![w] = bs]
      /\ UNCHANGED <<clock, calendar, refreshes, status, ledger, runs, seen>> /\ faults' \in 0 .. MaxFaults
      /\ due[w] # <<>> /\ d \in {due[w], Tail(due[w])}
      /\ place \in Places \ {"idle", "select"} /\ (place # "next" => d # <<>>)
      /\ bs \subseteq Attempts
  BY DEF PollStep, world
<1>2. due[w] \in Seq(Entries) /\ rows[w] \subseteq LedgerRows
  BY DEF IInv, TypeOK
<1>3. rs = rows[w] \/ \E r : FreshRow(w, r) /\ d = Tail(due[w]) /\ rs = rows[w] \cup {r}
  BY DEF PollStep
<1>4. ASSUME NEW o \in Workers
      PROVE  /\ o = w => at'[o] = place /\ due'[o] = d /\ rows'[o] = rs /\ born'[o] = bs
             /\ o # w => at'[o] = at[o] /\ due'[o] = due[o] /\ rows'[o] = rows[o] /\ born'[o] = born[o]
  BY <1>1 DEF IInv, TypeOK
<1>5. d \in Seq(Entries) /\ \A i \in DOMAIN d : d[i].tick <= seen[w]
  <2>1. CASE d = due[w]
    BY <2>1 DEF IInv, TypeOK
  <2>2. CASE d = Tail(due[w])
    <3>1. \A i \in DOMAIN d : i + 1 \in DOMAIN due[w] /\ d[i] = due[w][i + 1]
      BY <1>1, <1>2, <2>2, TailFacts
    <3>2. d \in Seq(Entries)
      BY <1>1, <1>2, <2>2, TailFacts
    <3> QED
      BY <3>1, <3>2 DEF IInv, TypeOK
  <2> QED
    BY <1>1, <2>1, <2>2
<1>6. rs \subseteq LedgerRows
  BY <1>2, <1>3 DEF FreshRow
<1>7. TypeOK'
  <2>1. /\ at' \in [Workers -> Places] /\ due' \in [Workers -> Seq(Entries)]
        /\ rows' \in [Workers -> SUBSET LedgerRows] /\ born' \in [Workers -> SUBSET Attempts]
    BY <1>1, <1>5, <1>6 DEF IInv, TypeOK
  <2>2. ASSUME NEW o \in Workers
        PROVE  /\ at'[o] \in {"idle", "select"} => due'[o] = <<>> /\ rows'[o] = {} /\ born'[o] = {}
               /\ at'[o] \in {"run", "insert", "insert_failed", "record"} => due'[o] # <<>>
               /\ \A i \in DOMAIN due'[o] : due'[o][i].tick <= seen'[o]
    <3>1. CASE o = w
      BY <1>1, <1>4, <1>5, <3>1
    <3>2. CASE o # w
      BY <1>1, <1>4, <3>2 DEF IInv, TypeOK
    <3> QED
      BY <3>1, <3>2
  <2> QED
    BY <1>1, <2>1, <2>2 DEF IInv, TypeOK
<1>8. ASSUME NEW r, InFlight(r)' PROVE InFlight(r) \/ FreshRow(w, r)
  BY <1>1, <1>3, <1>4, <1>8 DEF InFlight
<1>9. ASSUME NEW r, FreshRow(w, r), NEW q, InFlight(q) PROVE ~Clash(q, r) /\ ~Clash(r, q)
  <2>1. ASSUME q \in rows[w] PROVE q.sched # r.sched
    <3>1. q.sched < due[w][1].sched /\ r.sched = due[w][1].sched
      BY <1>1, <1>2, <1>9, <2>1, TailFacts DEF IInv, InOrder, FreshRow
    <3>2. q.sched \in Nat /\ r.sched \in Nat
      BY <1>2, <1>9, <2>1, SchedIsNat DEF FreshRow
    <3> QED
      BY <3>1, <3>2
  <2>2. ~Clash(q, r)
    BY <1>9, <2>1 DEF InFlight, FreshRow, Clash
  <2> QED
    BY <2>2 DEF Clash
<1>10. Distinct'
  <2> SUFFICES ASSUME NEW r, NEW q, InFlight(r)', InFlight(q)', Clash(r, q) PROVE r = q
    BY DEF Distinct, Clash
  <2>1. CASE InFlight(r) /\ InFlight(q)
    BY <2>1 DEF IInv, Distinct
  <2>2. CASE FreshRow(w, r) /\ FreshRow(w, q)
    BY <1>1, <1>3, <1>4, <1>9, <2>2 DEF InFlight, FreshRow
  <2> QED
    BY <1>8, <1>9, <2>1, <2>2
<1>11. AllKeyed'
  BY <1>8 DEF IInv, AllKeyed, FreshRow, Keyed, PeriodKey
<1>12. InOrder'
  <2> SUFFICES ASSUME NEW o \in Workers
               PROVE  /\ \A i, j \in DOMAIN due'[o] : i < j => due'[o][i].sched < due'[o][j].sched
                      /\ \A r \in rows'[o], i \in DOMAIN due'[o] : r.sched < due'[o][i].sched
    BY DEF InOrder
  <2>1. CASE o # w
    BY <1>4, <2>1 DEF IInv, InOrder
  <2>2. CASE o = w /\ d = due[w] /\ rs = rows[w]
    BY <1>4, <2>2 DEF IInv, InOrder
  <2>3. CASE o = w /\ d = Tail(due[w])
    <3>1. \A i \in DOMAIN d : i \in Nat /\ i + 1 \in DOMAIN due[w] /\ d[i] = due[w][i + 1] /\ 1 < i + 1
      BY <1>1, <1>2, <2>3, TailFacts
    <3>2. ASSUME NEW i \in DOMAIN d, NEW j \in DOMAIN d, i < j PROVE d[i].sched < d[j].sched
      <4>1. i + 1 < j + 1
        BY <3>1, <3>2
      <4> QED
        BY <3>1, <4>1 DEF IInv, InOrder
    <3>3. ASSUME NEW r \in rs, NEW i \in DOMAIN d PROVE r.sched < d[i].sched
      <4>1. CASE r \in rows[w]
        BY <3>1, <4>1 DEF IInv, InOrder
      <4>2. CASE r.sched = due[w][1].sched
        BY <1>1, <1>2, <3>1, <4>2, TailFacts DEF IInv, InOrder
      <4> QED
        BY <1>1, <1>2, <1>3, <4>1, <4>2, TailFacts DEF FreshRow
    <3> QED
      BY <1>4, <2>3, <3>2, <3>3
  <2> QED
    BY <1>1, <1>3, <2>1, <2>2, <2>3
<1>13. OwnRuns'
  <2> SUFFICES ASSUME NEW o \in Workers
               PROVE  /\ \A x \in born'[o] : x.by = o /\ ((Inserting(o)' /\ x = Attempt(o)') \/ RunIn(x, rows'[o]))
                      /\ \A r \in rows'[o] : r.run # NoRun => AttemptOf(r) \in born'[o]
                      /\ Inserting(o)' => Attempt(o)' \in born'[o]
    BY DEF OwnRuns, RunIn, AttemptOf
  <2>1. CASE o = w
    <3>1. (Inserting(o)' <=> place \in {"insert", "insert_failed"}) /\ Attempt(o)' = AttemptAt(w, d)
      BY <1>4, <2>1 DEF Inserting, Attempt, AttemptAt, Entry
    <3> QED
      BY <1>4, <2>1, <3>1 DEF PollStep
  <2>2. CASE o # w
    <3>1. (Inserting(o)' <=> Inserting(o)) /\ Attempt(o)' = Attempt(o)
      BY <1>4, <2>2 DEF Inserting, Attempt, Entry
    <3> QED
      BY <1>4, <2>2, <3>1 DEF IInv, OwnRuns
  <2> QED
    BY <2>1, <2>2
<1>14. NoPhantomRun'
  BY <1>1 DEF IInv, NoPhantomRun
<1> QED
  BY <1>7, <1>10, <1>11, <1>12, <1>13, <1>14 DEF IInv

\* Where the database and the lists of the polls stay as they are.
LEMMA QuietKeeps ==
    ASSUME IInv, TypeOK', UNCHANGED <<ledger, runs, due, rows, born>>,
           \A w \in Workers : Inserting(w)' <=> Inserting(w)
    PROVE  IInv'
<1>1. Distinct' /\ AllKeyed'
  BY DEF IInv, Distinct, AllKeyed, InFlight, Clash, Keyed, PeriodKey
<1>2. InOrder'
  BY DEF IInv, InOrder
<1>3. \A w \in Workers : Attempt(w)' = Attempt(w)
  BY DEF Attempt, Entry
<1>4. OwnRuns'
  BY <1>3 DEF IInv, OwnRuns, RunIn, AttemptOf
<1>5. NoPhantomRun'
  BY DEF IInv, NoPhantomRun
<1> QED
  BY <1>1, <1>2, <1>4, <1>5 DEF IInv

\* A transaction that ends without a commit.
LEMMA AbandonKeeps ==
    ASSUME IInv, NEW w \in Workers, Crash(w)
    PROVE  IInv'
<1>1. /\ at' = [at EXCEPT ![w] = "idle"] /\ seen' = [seen EXCEPT ![w] = 0] /\ due' = [due EXCEPT ![w] = <<>>]
      /\ rows' = [rows EXCEPT ![w] = {}] /\ born' = [born EXCEPT ![w] = {}]
      /\ UNCHANGED <<clock, calendar, refreshes, status, ledger, runs>>
  BY DEF Crash, world, shared
<1>2. faults' \in 0 .. MaxFaults /\ 0 \in 0 .. MaxTime
  BY ConstantsAssumption DEF Crash, IInv, TypeOK
<1>3. ASSUME NEW o \in Workers
      PROVE  /\ o = w => at'[o] = "idle" /\ due'[o] = <<>> /\ rows'[o] = {} /\ born'[o] = {}
             /\ o # w => /\ at'[o] = at[o] /\ due'[o] = due[o] /\ rows'[o] = rows[o] /\ born'[o] = born[o]
                        /\ seen'[o] = seen[o]
  BY <1>1 DEF IInv, TypeOK
<1>4. TypeOK'
  <2>1. /\ at' \in [Workers -> Places] /\ seen' \in [Workers -> 0 .. MaxTime] /\ due' \in [Workers -> Seq(Entries)]
        /\ rows' \in [Workers -> SUBSET LedgerRows] /\ born' \in [Workers -> SUBSET Attempts]
    BY <1>1, <1>2 DEF IInv, TypeOK, Places
  <2>2. ASSUME NEW o \in Workers
        PROVE  /\ at'[o] \in {"idle", "select"} => due'[o] = <<>> /\ rows'[o] = {} /\ born'[o] = {}
               /\ at'[o] \in {"run", "insert", "insert_failed", "record"} => due'[o] # <<>>
               /\ \A i \in DOMAIN due'[o] : due'[o][i].tick <= seen'[o]
    <3>1. CASE o = w
      <4>1. DOMAIN due'[o] = {}
        BY <1>3, <3>1
      <4> QED
        BY <1>3, <3>1, <4>1
    <3>2. CASE o # w
      BY <1>3, <3>2 DEF IInv, TypeOK
    <3> QED
      BY <3>1, <3>2
  <2> QED
    BY <1>1, <1>2, <2>1, <2>2 DEF IInv, TypeOK
<1>5. \A r : InFlight(r)' => InFlight(r)
  BY <1>1, <1>3 DEF InFlight
<1>6. Distinct' /\ AllKeyed'
  BY <1>5 DEF IInv, Distinct, AllKeyed, Clash, Keyed, PeriodKey
<1>7. InOrder'
  <2>1. DOMAIN due'[w] = {} /\ rows'[w] = {}
    BY <1>3
  <2> QED
    BY <1>3, <2>1 DEF IInv, InOrder
<1>8. OwnRuns'
  <2>1. ~Inserting(w)' /\ born'[w] = {} /\ rows'[w] = {}
    BY <1>3 DEF Inserting
  <2>2. ASSUME NEW o \in Workers, o # w PROVE (Inserting(o)' <=> Inserting(o)) /\ Attempt(o)' = Attempt(o)
    BY <1>3, <2>2 DEF Inserting, Attempt, Entry
  <2> QED
    BY <1>3, <2>1, <2>2 DEF IInv, OwnRuns, RunIn, AttemptOf
<1>9. NoPhantomRun'
  BY <1>1 DEF IInv, NoPhantomRun
<1> QED
  BY <1>4, <1>6, <1>7, <1>8, <1>9 DEF IInv

\* The terminal commit: rows and runs become visible together.
LEMMA CommitKeeps ==
    ASSUME IInv, NEW w \in Workers, CommitPoll(w)
    PROVE  IInv'
<1>1. /\ at[w] = "next" /\ due[w] = <<>>
      /\ ledger' = ledger \cup rows[w] /\ runs' = runs \cup born[w]
      /\ at' = [at EXCEPT ![w] = "idle"] /\ seen' = [seen EXCEPT ![w] = 0]
      /\ rows' = [rows EXCEPT ![w] = {}] /\ born' = [born EXCEPT ![w] = {}]
      /\ UNCHANGED <<clock, calendar, refreshes, status, due, faults>>
  BY DEF CommitPoll, world
<1>2. 0 \in 0 .. MaxTime
  BY ConstantsAssumption
<1>3. ASSUME NEW o \in Workers
      PROVE  /\ o = w => at'[o] = "idle" /\ due'[o] = <<>> /\ rows'[o] = {} /\ born'[o] = {}
             /\ o # w => /\ at'[o] = at[o] /\ due'[o] = due[o] /\ rows'[o] = rows[o] /\ born'[o] = born[o]
                        /\ seen'[o] = seen[o]
  BY <1>1 DEF IInv, TypeOK
<1>4. TypeOK'
  <2>1. /\ at' \in [Workers -> Places] /\ seen' \in [Workers -> 0 .. MaxTime]
        /\ rows' \in [Workers -> SUBSET LedgerRows] /\ born' \in [Workers -> SUBSET Attempts]
    BY <1>1, <1>2 DEF IInv, TypeOK, Places
  <2>2. ledger' \subseteq LedgerRows /\ runs' \subseteq Attempts
    BY <1>1 DEF IInv, TypeOK
  <2>3. ASSUME NEW o \in Workers
        PROVE  /\ at'[o] \in {"idle", "select"} => due'[o] = <<>> /\ rows'[o] = {} /\ born'[o] = {}
               /\ at'[o] \in {"run", "insert", "insert_failed", "record"} => due'[o] # <<>>
               /\ \A i \in DOMAIN due'[o] : due'[o][i].tick <= seen'[o]
    <3>1. CASE o = w
      <4>1. DOMAIN due'[o] = {}
        BY <1>3, <3>1
      <4> QED
        BY <1>3, <3>1, <4>1
    <3>2. CASE o # w
      BY <1>3, <3>2 DEF IInv, TypeOK
    <3> QED
      BY <3>1, <3>2
  <2> QED
    BY <1>1, <2>1, <2>2, <2>3 DEF IInv, TypeOK
<1>5. \A r : InFlight(r)' => InFlight(r)
  BY <1>1, <1>3 DEF InFlight
<1>6. Distinct' /\ AllKeyed'
  BY <1>5 DEF IInv, Distinct, AllKeyed, Clash, Keyed, PeriodKey
<1>7. InOrder'
  <2>1. DOMAIN due'[w] = {} /\ rows'[w] = {}
    BY <1>3
  <2> QED
    BY <1>3, <2>1 DEF IInv, InOrder
<1>8. OwnRuns'
  <2>1. ~Inserting(w)' /\ born'[w] = {} /\ rows'[w] = {}
    BY <1>3 DEF Inserting
  <2>2. ASSUME NEW o \in Workers, o # w PROVE (Inserting(o)' <=> Inserting(o)) /\ Attempt(o)' = Attempt(o)
    BY <1>3, <2>2 DEF Inserting, Attempt, Entry
  <2> QED
    BY <1>3, <2>1, <2>2 DEF IInv, OwnRuns, RunIn, AttemptOf
<1>9. NoPhantomRun'
  <2>1. ASSUME NEW x \in runs' PROVE \E r \in ledger' : r.sched = x.sched /\ r.tick = x.tick /\ r.run = x.by
    <3>1. CASE x \in runs
      BY <1>1, <3>1 DEF IInv, NoPhantomRun
    <3>2. CASE x \in born[w]
      <4>1. RunIn(x, rows[w])
        BY <1>1, <3>2 DEF IInv, OwnRuns, Inserting
      <4> QED
        BY <1>1, <4>1 DEF RunIn
    <3> QED
      BY <1>1, <3>1, <3>2
  <2>2. ASSUME NEW r \in ledger', r.run # NoRun PROVE [sched |-> r.sched, tick |-> r.tick, by |-> r.run] \in runs'
    <3>1. CASE r \in ledger
      BY <1>1, <2>2, <3>1 DEF IInv, NoPhantomRun
    <3>2. CASE r \in rows[w]
      BY <1>1, <2>2, <3>2 DEF IInv, OwnRuns, AttemptOf
    <3> QED
      BY <1>1, <3>1, <3>2
  <2> QED
    BY <2>1, <2>2 DEF NoPhantomRun
<1> QED
  BY <1>4, <1>6, <1>7, <1>8, <1>9 DEF IInv

\* What select_active_due returns, in the order of ids.
LEMMA SelectKeeps ==
    ASSUME IInv, NEW w \in Workers, SelectDue(w)
    PROVE  IInv'
<1> DEFINE found == {[sched |-> s, tick |-> current_tick(s, seen[w], calendar)] :
                         s \in {t \in Schedules : IsDue(t, seen[w])}}
<1>1. PICK d \in Orders(found) :
         /\ at[w] = "select" /\ at' = [at EXCEPT ![w] = "next"] /\ due' = [due EXCEPT ![w] = d]
         /\ UNCHANGED <<clock, calendar, refreshes, status, ledger, runs, seen, rows, born, faults>>
  BY DEF SelectDue, world, shared
<1>2. seen[w] \in 0 .. MaxTime /\ MaxTime \in Nat
  BY ConstantsAssumption DEF IInv, TypeOK
<1>3. ASSUME NEW e \in found PROVE e \in Entries /\ e.tick <= seen[w] /\ e.sched \in Schedules
  <2>1. PICK s \in Schedules : IsDue(s, seen[w]) /\ e = [sched |-> s, tick |-> current_tick(s, seen[w], calendar)]
    BY <1>3
  <2>2. PICK tick : tick = current_tick(s, seen[w], calendar)
    OBVIOUS
  <2>3. ~OutsideStart(s, tick, seen[w])
    BY <2>1, <2>2 DEF IsDue
  <2>4. tick \in 0 .. seen[w]
    BY <1>2, <2>2, <2>3, TickInRange
  <2>5. tick \in 0 .. MaxTime /\ tick <= seen[w]
    BY <1>2, <2>4
  <2> QED
    BY <2>1, <2>2, <2>5 DEF Entries
<1>4. Cardinality(found) \in Nat
  <2> DEFINE f == [e \in found |-> e.sched]
  <2>1. ASSUME NEW a \in found, NEW b \in found, a.sched = b.sched PROVE a = b
    BY <2>1
  <2>2. f \in Injection(found, Schedules)
    BY <1>3, <2>1 DEF Injection, IsInjective
  <2>3. IsFiniteSet(found)
    BY <2>2, ConstantsAssumption, FS_Injection
  <2> QED
    BY <2>3, FS_CardinalityType
<1> HIDE DEF found
<1>5. /\ d \in [1 .. Cardinality(found) -> found]
      /\ \A i, j \in DOMAIN d : i < j => d[i].sched < d[j].sched
  BY DEF Orders
<1>6. DOMAIN d = 1 .. Cardinality(found) /\ \A i \in DOMAIN d : d[i] \in Entries /\ d[i].tick <= seen[w]
  BY <1>3, <1>5
<1>7. d \in Seq(Entries)
  BY <1>4, <1>5, <1>6
<1>8. ASSUME NEW o \in Workers
      PROVE  /\ o = w => at'[o] = "next" /\ due'[o] = d /\ rows[o] = {} /\ born[o] = {}
             /\ o # w => at'[o] = at[o] /\ due'[o] = due[o]
  BY <1>1 DEF IInv, TypeOK
<1>9. TypeOK'
  <2>1. at' \in [Workers -> Places] /\ due' \in [Workers -> Seq(Entries)]
    BY <1>1, <1>7 DEF IInv, TypeOK, Places
  <2>2. ASSUME NEW o \in Workers
        PROVE  /\ at'[o] \in {"idle", "select"} => due'[o] = <<>> /\ rows'[o] = {} /\ born'[o] = {}
               /\ at'[o] \in {"run", "insert", "insert_failed", "record"} => due'[o] # <<>>
               /\ \A i \in DOMAIN due'[o] : due'[o][i].tick <= seen'[o]
    <3>1. CASE o = w
      BY <1>1, <1>6, <1>8, <3>1
    <3>2. CASE o # w
      BY <1>1, <1>8, <3>2 DEF IInv, TypeOK
    <3> QED
      BY <3>1, <3>2
  <2> QED
    BY <1>1, <2>1, <2>2 DEF IInv, TypeOK
<1>10. Distinct' /\ AllKeyed'
  BY <1>1 DEF IInv, Distinct, AllKeyed, InFlight, Clash, Keyed, PeriodKey
<1>11. InOrder'
  BY <1>1, <1>5, <1>8 DEF IInv, InOrder
<1>12. OwnRuns'
  <2>1. ~Inserting(w)' /\ born'[w] = {} /\ rows'[w] = {}
    BY <1>1, <1>8 DEF Inserting
  <2>2. ASSUME NEW o \in Workers, o # w PROVE (Inserting(o)' <=> Inserting(o)) /\ Attempt(o)' = Attempt(o)
    BY <1>8, <2>2 DEF Inserting, Attempt, Entry
  <2> QED
    BY <1>1, <2>1, <2>2 DEF IInv, OwnRuns, RunIn, AttemptOf
<1>13. NoPhantomRun'
  BY <1>1 DEF IInv, NoPhantomRun
<1> QED
  BY <1>9, <1>10, <1>11, <1>12, <1>13 DEF IInv

-----------------------------------------------------------------------------
(* The steps of a dispatch. *)

\* Every row of a transaction is about a schedule that its list has left behind.
LEMMA HeadIsNew ==
    ASSUME IInv, NEW w \in Workers, due[w] # <<>>
    PROVE  /\ \A r \in rows[w] : AttemptOf(r) # Attempt(w)
           /\ Attempt(w) \in Attempts /\ Attempt(w).by = w
           /\ Attempt(w) = AttemptAt(w, due[w]) /\ Entry(w) \in Entries
<1>1. due[w] \in Seq(Entries) /\ rows[w] \subseteq LedgerRows
  BY DEF IInv, TypeOK
<1>2. Head(due[w]) = due[w][1] /\ Head(due[w]) \in Entries /\ 1 \in DOMAIN due[w]
  BY <1>1, TailFacts
<1>3. Attempt(w) \in Attempts /\ Attempt(w).by = w /\ Attempt(w) = AttemptAt(w, due[w]) /\ Entry(w) \in Entries
  BY <1>2 DEF Attempt, Attempts, Entry, Entries, AttemptAt
<1>4. ASSUME NEW r \in rows[w] PROVE AttemptOf(r) # Attempt(w)
  <2>1. r.sched < due[w][1].sched
    BY <1>2 DEF IInv, InOrder
  <2>2. r.sched \in Nat /\ due[w][1].sched \in Nat
    BY <1>1, <1>2, SchedIsNat
  <2>3. r.sched # Entry(w).sched
    BY <1>2, <2>1, <2>2 DEF Entry
  <2> QED
    BY <2>3 DEF AttemptOf, Attempt
<1> QED
  BY <1>3, <1>4

\* What ROLLBACK TO SAVEPOINT leaves are the runs of the rows inserted before.
LEMMA SavepointKeepsTheRest ==
    ASSUME IInv, NEW w \in Workers, due[w] # <<>>
    PROVE  /\ RolledBack(w) \subseteq Attempts
           /\ \A x \in RolledBack(w) : x.by = w /\ RunIn(x, rows[w])
           /\ \A r \in rows[w] : r.run # NoRun => AttemptOf(r) \in RolledBack(w)
<1>1. born[w] \subseteq Attempts
  BY DEF IInv, TypeOK
<1>2. \A x \in RolledBack(w) : x.by = w /\ RunIn(x, rows[w])
  BY DEF IInv, OwnRuns, RolledBack
<1>3. \A r \in rows[w] : r.run # NoRun => AttemptOf(r) \in RolledBack(w)
  BY HeadIsNew DEF IInv, OwnRuns, RolledBack
<1> QED
  BY <1>1, <1>2, <1>3 DEF RolledBack

\* The INSERT the indexes let through.
LEMMA InsertedIsFresh ==
    ASSUME IInv, NEW w \in Workers, due[w] # <<>>, ~Occupied(RowOf(w)), InsertWaitsFor(w, RowOf(w)) = {}
    PROVE  /\ FreshRow(w, RowOf(w))
           /\ at[w] = "record" => RowOf(w).run = NoRun
           /\ at[w] # "record" => AttemptOf(RowOf(w)) = Attempt(w)
<1>1. Entry(w) \in Entries
  BY HeadIsNew
<1>2. Entry(w).sched \in Schedules /\ Entry(w).tick \in 0 .. MaxTime /\ seen[w] \in 0 .. MaxTime
  BY <1>1 DEF Entries, IInv, TypeOK
<1>3. PeriodKey(Entry(w).sched, Entry(w).tick) \in Int
  BY <1>2 DEF PeriodKey, NoPeriod
<1>4. RowOf(w) \in LedgerRows /\ RowOf(w).sched = Entry(w).sched /\ RowOf(w).tick = Entry(w).tick
      /\ RowOf(w).period = PeriodKey(Entry(w).sched, Entry(w).tick)
  BY <1>2, <1>3 DEF RowOf, Row, LedgerRows
<1>5. (at[w] = "record" => RowOf(w).run = NoRun) /\ (at[w] # "record" => RowOf(w).run = w)
  BY DEF RowOf, Row
<1>6. /\ \A q \in ledger : ~Clash(q, RowOf(w))
      /\ \A o \in Workers \ {w} : \A q \in rows[o] : ~Clash(q, RowOf(w))
  BY DEF Occupied, InsertWaitsFor
<1>7. FreshRow(w, RowOf(w))
  BY <1>4, <1>6 DEF FreshRow, Keyed, Entry
<1>8. at[w] # "record" => AttemptOf(RowOf(w)) = Attempt(w)
  BY <1>4, <1>5 DEF AttemptOf, Attempt
<1> QED
  BY <1>5, <1>7, <1>8

\* A step of a poll that inserts nothing and rolls nothing back.
LEMMA MoveKeeps ==
    ASSUME IInv, NEW w \in Workers, due[w] # <<>>, ~Inserting(w), NEW place \in {"next", "run"},
           at' = [at EXCEPT ![w] = place],
           due' = IF place = "next" THEN [due EXCEPT ![w] = Tail(@)] ELSE due,
           UNCHANGED <<world, ledger, runs, seen, rows, born>>, faults' \in 0 .. MaxFaults
    PROVE  IInv'
<1>1. PICK d, rs, bs : d = (IF place = "next" THEN Tail(due[w]) ELSE due[w]) /\ rs = rows[w] /\ bs = born[w]
  OBVIOUS
<1>2. due' = [due EXCEPT ![w] = d] /\ rows' = [rows EXCEPT ![w] = rs] /\ born' = [born EXCEPT ![w] = bs]
  BY <1>1 DEF IInv, TypeOK
<1>3. bs \subseteq Attempts /\ \A x \in bs : x.by = w /\ RunIn(x, rs)
  BY <1>1 DEF IInv, TypeOK, OwnRuns
<1>4. \A r \in rs : r.run # NoRun => AttemptOf(r) \in bs
  BY <1>1 DEF IInv, OwnRuns
<1>5. PollStep(w, place, d, rs, bs)
  BY <1>1, <1>2, <1>3, <1>4 DEF PollStep, Places
<1> QED
  BY <1>5, PollStepKeeps

\* A savepoint rolled back: the worker goes on to record the failure, or to the next schedule.
LEMMA RollbackKeeps ==
    ASSUME IInv, NEW w \in Workers, due[w] # <<>>, NEW place \in {"next", "record"},
           at' = [at EXCEPT ![w] = place], born' = [born EXCEPT ![w] = RolledBack(w)],
           due' = IF place = "next" THEN [due EXCEPT ![w] = Tail(@)] ELSE due,
           UNCHANGED <<world, ledger, runs, seen, rows, faults>>
    PROVE  IInv'
<1>1. PICK d, rs, bs : d = (IF place = "next" THEN Tail(due[w]) ELSE due[w]) /\ rs = rows[w] /\ bs = RolledBack(w)
  OBVIOUS
<1>2. due' = [due EXCEPT ![w] = d] /\ rows' = [rows EXCEPT ![w] = rs] /\ born' = [born EXCEPT ![w] = bs]
      /\ faults' \in 0 .. MaxFaults
  BY <1>1 DEF IInv, TypeOK
<1>3. /\ bs \subseteq Attempts /\ \A x \in bs : x.by = w /\ RunIn(x, rs)
      /\ \A r \in rs : r.run # NoRun => AttemptOf(r) \in bs
  BY <1>1, SavepointKeepsTheRest
<1>4. PollStep(w, place, d, rs, bs)
  BY <1>1, <1>2, <1>3 DEF PollStep, Places
<1> QED
  BY <1>4, PollStepKeeps

\* The binder's run.
LEMMA RunKeeps ==
    ASSUME IInv, NEW w \in Workers, RunEnds(w)
    PROVE  IInv'
<1>1. due[w] # <<>> /\ ~Inserting(w)
  BY DEF RunEnds, Inserting, IInv, TypeOK
<1>2. PICK place \in {"insert", "insert_failed"} : at' = [at EXCEPT ![w] = place]
  BY DEF RunEnds
<1>3. PICK d, rs, bs : d = due[w] /\ rs = rows[w] /\ bs = born[w] \cup {Attempt(w)}
  OBVIOUS
<1>4. due' = [due EXCEPT ![w] = d] /\ rows' = [rows EXCEPT ![w] = rs] /\ born' = [born EXCEPT ![w] = bs]
      /\ faults' \in 0 .. MaxFaults /\ UNCHANGED <<world, ledger, runs, seen>>
  BY <1>3 DEF RunEnds, IInv, TypeOK, shared
<1>5. Attempt(w) = AttemptAt(w, d) /\ Attempt(w) \in Attempts /\ Attempt(w).by = w
  BY <1>1, <1>3, HeadIsNew
<1>6. bs \subseteq Attempts /\ \A x \in bs : x.by = w /\ (x = AttemptAt(w, d) \/ RunIn(x, rs))
  BY <1>1, <1>3, <1>5 DEF IInv, TypeOK, OwnRuns
<1>7. (\A r \in rs : r.run # NoRun => AttemptOf(r) \in bs) /\ AttemptAt(w, d) \in bs
  BY <1>3, <1>5 DEF IInv, OwnRuns
<1>8. PollStep(w, place, d, rs, bs)
  BY <1>1, <1>2, <1>3, <1>4, <1>6, <1>7 DEF PollStep, Places
<1> QED
  BY <1>8, PollStepKeeps

\* A row inserted, with its run or as the evidence of a failure.
LEMMA InsertKeeps ==
    ASSUME IInv, NEW w \in Workers, at[w] \in {"insert", "insert_failed", "record"},
           ~Occupied(RowOf(w)), InsertWaitsFor(w, RowOf(w)) = {},
           rows' = [rows EXCEPT ![w] = @ \cup {RowOf(w)}], Proceed(w),
           UNCHANGED <<world, ledger, runs, seen, born, faults>>
    PROVE  IInv'
<1>1. due[w] # <<>>
  BY DEF IInv, TypeOK
<1>2. PICK r, d, rs, bs : r = RowOf(w) /\ d = Tail(due[w]) /\ rs = rows[w] \cup {r} /\ bs = born[w]
  OBVIOUS
<1>3. due' = [due EXCEPT ![w] = d] /\ rows' = [rows EXCEPT ![w] = rs] /\ born' = [born EXCEPT ![w] = bs]
      /\ at' = [at EXCEPT ![w] = "next"] /\ faults' \in 0 .. MaxFaults
  BY <1>2 DEF Proceed, IInv, TypeOK
<1>4. FreshRow(w, r) /\ (at[w] = "record" => r.run = NoRun) /\ (at[w] # "record" => AttemptOf(r) = Attempt(w))
  BY <1>1, <1>2, InsertedIsFresh
<1>5. bs \subseteq Attempts /\ \A x \in bs : x.by = w
  BY <1>2 DEF IInv, TypeOK, OwnRuns
<1>6. ASSUME NEW x \in bs PROVE RunIn(x, rs)
  <2>1. CASE RunIn(x, rows[w])
    BY <1>2, <2>1 DEF RunIn
  <2>2. CASE Inserting(w) /\ x = Attempt(w)
    <3>1. x = AttemptOf(r)
      BY <1>4, <2>2 DEF Inserting
    <3> QED
      BY <1>2, <3>1 DEF RunIn, AttemptOf
  <2> QED
    BY <1>2, <2>1, <2>2 DEF IInv, OwnRuns
<1>7. ASSUME NEW q \in rs, q.run # NoRun PROVE AttemptOf(q) \in bs
  <2>1. CASE q \in rows[w]
    BY <1>2, <1>7, <2>1 DEF IInv, OwnRuns
  <2>2. CASE q = r
    BY <1>2, <1>4, <1>7, <2>2 DEF IInv, OwnRuns, Inserting
  <2> QED
    BY <1>2, <2>1, <2>2
<1>8. PollStep(w, "next", d, rs, bs)
  BY <1>1, <1>2, <1>3, <1>4, <1>5, <1>6, <1>7 DEF PollStep, Places
<1> QED
  BY <1>8, PollStepKeeps

-----------------------------------------------------------------------------
(* Initial states and steps. *)

LEMMA InitKeeps == Init => IInv
<1> SUFFICES ASSUME Init PROVE IInv
  OBVIOUS
<1>1. TypeOK
  BY ConstantsAssumption DEF Init, TypeOK, Places
<1>2. Distinct /\ AllKeyed
  BY DEF Init, Distinct, AllKeyed, InFlight
<1>3. InOrder
  BY DEF Init, InOrder
<1>4. OwnRuns
  BY DEF Init, OwnRuns, Inserting
<1>5. NoPhantomRun
  BY DEF Init, NoPhantomRun
<1> QED
  BY <1>1, <1>2, <1>3, <1>4, <1>5 DEF IInv

\* Time, calendars, people, and the start of a poll.
LEMMA OutsideKeeps ==
    ASSUME IInv,
           \/ Tick \/ UNCHANGED vars
           \/ \E c \in {"plain", "early", "unresolved"} : RefreshHolidays(c)
           \/ \E s \in Schedules : create_schedule(s) \/ \E new \in {"ACTIVE", "PAUSED"} : set_status(s, new)
    PROVE  IInv'
<1>1. UNCHANGED <<ledger, runs, at, seen, due, rows, born, faults>>
  BY DEF Tick, RefreshHolidays, create_schedule, set_status, vars, shared
<1>2. /\ clock' \in 0 .. MaxTime /\ refreshes' \in 0 .. MaxRefreshes
      /\ calendar' \in {"plain", "early", "unresolved"}
      /\ status' \in [Schedules -> {"NONE", "ACTIVE", "PAUSED"}]
  <2>1. /\ clock \in 0 .. MaxTime /\ refreshes \in 0 .. MaxRefreshes
        /\ calendar \in {"plain", "early", "unresolved"}
        /\ status \in [Schedules -> {"NONE", "ACTIVE", "PAUSED"}]
        /\ MaxTime \in Nat /\ MaxRefreshes \in Nat
    BY ConstantsAssumption DEF IInv, TypeOK
  <2>2. CASE Tick
    BY <2>1, <2>2 DEF Tick
  <2>3. CASE UNCHANGED vars
    BY <2>1, <2>3 DEF vars
  <2>4. ASSUME NEW c \in {"plain", "early", "unresolved"}, RefreshHolidays(c)
        PROVE  /\ clock' = clock /\ refreshes' \in 0 .. MaxRefreshes /\ status' = status
               /\ calendar' \in {"plain", "early", "unresolved"}
    BY <2>1, <2>4 DEF RefreshHolidays
  <2>5. ASSUME NEW s \in Schedules, create_schedule(s) \/ \E new \in {"ACTIVE", "PAUSED"} : set_status(s, new)
        PROVE  /\ UNCHANGED <<clock, calendar, refreshes>>
               /\ status' \in [Schedules -> {"NONE", "ACTIVE", "PAUSED"}]
    BY <2>1, <2>5 DEF create_schedule, set_status
  <2> QED
    BY <2>1, <2>2, <2>3, <2>4, <2>5
<1>3. TypeOK'
  BY <1>1, <1>2 DEF IInv, TypeOK
<1>4. \A w \in Workers : Inserting(w)' <=> Inserting(w)
  BY <1>1 DEF Inserting
<1> QED
  BY <1>1, <1>3, <1>4, QuietKeeps

LEMMA StartKeeps ==
    ASSUME IInv, NEW w \in Workers, StartPoll(w)
    PROVE  IInv'
<1>1. /\ at[w] = "idle" /\ at' = [at EXCEPT ![w] = "select"] /\ seen' = [seen EXCEPT ![w] = clock]
      /\ UNCHANGED <<clock, calendar, refreshes, status, ledger, runs, due, rows, born, faults>>
  BY DEF StartPoll, world, shared
<1>2. ASSUME NEW o \in Workers
      PROVE  /\ o = w => at'[o] = "select" /\ due[o] = <<>> /\ rows[o] = {} /\ born[o] = {}
             /\ o # w => at'[o] = at[o] /\ seen'[o] = seen[o]
  BY <1>1 DEF IInv, TypeOK
<1>3. at' \in [Workers -> Places] /\ seen' \in [Workers -> 0 .. MaxTime]
  BY <1>1 DEF IInv, TypeOK, Places
<1>4. ASSUME NEW o \in Workers
      PROVE  /\ at'[o] \in {"idle", "select"} => due'[o] = <<>> /\ rows'[o] = {} /\ born'[o] = {}
             /\ at'[o] \in {"run", "insert", "insert_failed", "record"} => due'[o] # <<>>
             /\ \A i \in DOMAIN due'[o] : due'[o][i].tick <= seen'[o]
  <2>1. CASE o = w
    <3>1. DOMAIN due'[o] = {}
      BY <1>1, <1>2, <2>1
    <3> QED
      BY <1>1, <1>2, <2>1, <3>1
  <2>2. CASE o # w
    BY <1>1, <1>2, <2>2 DEF IInv, TypeOK
  <2> QED
    BY <2>1, <2>2
<1>5. TypeOK'
  BY <1>1, <1>3, <1>4 DEF IInv, TypeOK
<1>6. \A o \in Workers : Inserting(o)' <=> Inserting(o)
  BY <1>1, <1>2 DEF Inserting
<1> QED
  BY <1>1, <1>5, <1>6, QuietKeeps

LEMMA NextKeeps == IInv /\ [Next]_vars => IInv'
<1> SUFFICES ASSUME IInv, [Next]_vars PROVE IInv'
  OBVIOUS
<1>1. CASE \E w \in Workers : Step(w) \/ Raises(w) \/ LoseRecord(w) \/ Crash(w)
  <2>0. PICK w \in Workers : Step(w) \/ Raises(w) \/ LoseRecord(w) \/ Crash(w)
    BY <1>1
  <2>t. at[w] \in Places /\ (at[w] \in {"run", "insert", "insert_failed", "record"} => due[w] # <<>>)
        /\ faults \in 0 .. MaxFaults
    BY DEF IInv, TypeOK
  <2>1. CASE StartPoll(w)
    BY <2>1, StartKeeps
  <2>2. CASE SelectDue(w)
    BY <2>2, SelectKeeps
  <2>3. CASE Dispatch(w)
    <3>1. due[w] # <<>> /\ ~Inserting(w) /\ UNCHANGED <<world, ledger, runs, seen, rows, born>>
          /\ faults' \in 0 .. MaxFaults
      BY <2>3, <2>t DEF Dispatch, Inserting, shared
    <3>2. PICK place \in {"next", "run"} :
             /\ at' = [at EXCEPT ![w] = place]
             /\ due' = IF place = "next" THEN [due EXCEPT ![w] = Tail(@)] ELSE due
      BY <2>3 DEF Dispatch, Proceed
    <3> QED
      BY <3>1, <3>2, MoveKeeps
  <2>4. CASE RunEnds(w)
    BY <2>4, RunKeeps
  <2>5. CASE InsertRow(w)
    BY <2>5, InsertKeeps DEF InsertRow, shared
  <2>6. CASE SkipDuplicate(w)
    <3>1. due[w] # <<>>
      BY <2>6, <2>t DEF SkipDuplicate
    <3> QED
      BY <2>6, <3>1, RollbackKeeps DEF SkipDuplicate, Proceed, shared
  <2>7. CASE RecordFailed(w)
    <3>1. due[w] # <<>> /\ ~Inserting(w)
      BY <2>7, <2>t DEF RecordFailed, Inserting
    <3>2. CASE UNCHANGED rows
      BY <2>7, <2>t, <3>1, <3>2, MoveKeeps DEF RecordFailed, Proceed, shared
    <3>3. CASE ~Occupied(RowOf(w)) /\ InsertWaitsFor(w, RowOf(w)) = {} /\ rows' = [rows EXCEPT ![w] = @ \cup {RowOf(w)}]
      BY <2>7, <3>3, InsertKeeps DEF RecordFailed, shared
    <3> QED
      BY <2>7, <3>2, <3>3 DEF RecordFailed
  <2>8. CASE CommitPoll(w)
    BY <2>8, CommitKeeps
  <2>9. ASSUME Unrecorded(w), faults' \in 0 .. MaxFaults PROVE IInv'
    <3>1. due[w] # <<>> /\ ~Inserting(w)
      BY <2>9, <2>t DEF Unrecorded, Inserting
    <3> QED
      BY <2>9, <3>1, MoveKeeps DEF Unrecorded, Proceed, shared
  <2>10. ASSUME ToRecord(w), due[w] # <<>>, UNCHANGED <<world, shared, seen, due, rows, faults>> PROVE IInv'
    BY <2>10, RollbackKeeps DEF ToRecord, shared
  <2>11. CASE DeadlockVictim(w)
    <3>1. WaitsFor(w) # {}
      BY <2>11 DEF DeadlockVictim
    <3>2. due[w] # <<>>
      BY <2>t, <3>1 DEF WaitsFor, OnIndex, OnChain
    <3> QED
      BY <2>9, <2>10, <2>11, <2>t, <3>2 DEF DeadlockVictim
  <2>12. CASE Raises(w)
    BY <2>10, <2>12, <2>t DEF Raises
  <2>13. CASE LoseRecord(w)
    <3>1. faults' \in 0 .. MaxFaults
      BY <2>13, <2>t, ConstantsAssumption DEF LoseRecord
    <3> QED
      BY <2>9, <2>13, <3>1 DEF LoseRecord
  <2>14. CASE Crash(w)
    BY <2>14, AbandonKeeps
  <2> QED
    BY <2>0, <2>1, <2>2, <2>3, <2>4, <2>5, <2>6, <2>7, <2>8, <2>11, <2>12, <2>13, <2>14 DEF Step
<1> QED
  BY <1>1, OutsideKeeps DEF Next

-----------------------------------------------------------------------------
(* Theorems. *)

\* The inductive invariant holds for any workers, schedules, anchors and grids.
THEOREM Invariance == Spec => []IInv
BY InitKeeps, NextKeeps, PTL DEF Spec

\* Type correctness, and what the places of a poll imply of its list and its transaction.
THEOREM TypeCorrect == Spec => []TypeOK
<1>1. IInv => TypeOK
  BY DEF IInv
<1> QED
  BY <1>1, Invariance, PTL

\* The two unique indexes of scheduled_run suffice: one grid point of a schedule, and one business
\* month of a monthly one, is fired once, whatever workers overlap, die or are refreshed under.
THEOREM EveryTickFiredOnce == Spec => []FiredOnce
<1>1. ASSUME IInv PROVE FiredOnce
  <2> SUFFICES ASSUME NEW r \in ledger, NEW q \in ledger, r.sched = q.sched,
                      r.tick = q.tick \/ (r.sched \in Monthly /\ PeriodKey(r.sched, r.tick) = PeriodKey(q.sched, q.tick))
               PROVE  r = q
    BY DEF FiredOnce
  <2>1. InFlight(r) /\ InFlight(q) /\ r.tick \in 0 .. MaxTime
    BY <1>1 DEF InFlight, IInv, TypeOK, LedgerRows
  <2>2. r.period = PeriodKey(r.sched, r.tick) /\ q.period = PeriodKey(q.sched, q.tick)
    BY <1>1, <2>1 DEF IInv, AllKeyed, Keyed
  <2>3. r.sched \in Monthly => PeriodKey(r.sched, r.tick) # NoPeriod
    <3>1. r.tick \in Nat /\ r.tick \div 2 >= 0
      BY <2>1
    <3> QED
      BY <3>1 DEF PeriodKey, NoPeriod
  <2>4. Clash(r, q)
    BY <2>2, <2>3 DEF Clash
  <2> QED
    BY <1>1, <2>1, <2>4 DEF IInv, Distinct
<1> QED
  BY <1>1, Invariance, PTL

\* The savepoints of dispatch_one: a committed calculation_run is the run of a committed ledger row
\* and a row's run exists, because what a rollback takes is never the run of an earlier row.
THEOREM RunsHaveRows == Spec => []NoPhantomRun
<1>1. IInv => NoPhantomRun
  BY DEF IInv
<1> QED
  BY <1>1, Invariance, PTL

\* Whoever waits for an index entry waits for a worker that is further down the list.
LEMMA IndexWaitsGoUp ==
    ASSUME IInv, NEW w \in Workers, NEW o \in OnIndex(w), OnIndex(o) # {}
    PROVE  Entry(w).sched < Entry(o).sched
<1>1. /\ at[w] \in {"insert", "insert_failed", "record"}
      /\ at[o] \in {"insert", "insert_failed", "record"}
      /\ o \in Workers
  BY DEF OnIndex, InsertWaitsFor
<1>2. PICK q \in rows[o] : Clash(q, RowOf(w))
  BY <1>1 DEF OnIndex, InsertWaitsFor
<1>3. q.sched = Entry(w).sched
  BY <1>2 DEF Clash, RowOf, Row
<1>4. due[o] \in Seq(Entries) /\ due[o] # <<>>
  BY <1>1 DEF IInv, TypeOK
<1>5. Entry(o) = due[o][1] /\ 1 \in DOMAIN due[o]
  BY <1>4, TailFacts DEF Entry
<1> QED
  BY <1>1, <1>2, <1>3, <1>5 DEF IInv, InOrder

\* The phase selectors' ORDER BY id: index entries alone never make a cycle of waits, since in a
\* cycle somebody would be furthest down the list.
THEOREM IndexEntriesNeverDeadlock == Spec => []IndexWaitsAreOrdered
<1>1. ASSUME IInv PROVE IndexWaitsAreOrdered
  <2> SUFFICES ASSUME NEW G \in SUBSET Workers, G # {}, \A w \in G : OnIndex(w) \cap G # {}
               PROVE  FALSE
    BY DEF IndexWaitsAreOrdered
  <2> DEFINE S == {Entry(w).sched : w \in G}
  <2>1. ASSUME NEW w \in G PROVE Entry(w).sched \in Schedules
    <3>1. at[w] \in {"insert", "insert_failed", "record"}
      BY DEF OnIndex
    <3>2. due[w] \in Seq(Entries) /\ due[w] # <<>>
      BY <1>1, <3>1 DEF IInv, TypeOK
    <3> QED
      BY <3>2, TailFacts DEF Entry, Entries
  <2>2. S \in SUBSET Nat /\ IsFiniteSet(S) /\ S # {}
    <3>1. S \subseteq Schedules /\ S # {}
      BY <2>1
    <3> HIDE DEF S
    <3> QED
      BY <3>1, FS_Subset, ConstantsAssumption
  <2>3. PICK m \in S : \A n \in S : n <= m
    BY <2>2, LargestNumber
  <2>4. PICK w \in G : m = Entry(w).sched
    BY <2>3
  <2>5. PICK o \in G : o \in OnIndex(w)
    OBVIOUS
  <2>6. Entry(w).sched < Entry(o).sched
    BY <1>1, <2>5, IndexWaitsGoUp
  <2>7. Entry(o).sched \in S /\ Entry(o).sched \in Nat /\ m \in Nat
    BY <2>2
  <2>8. Entry(o).sched <= m
    BY <2>3, <2>7
  <2> HIDE DEF S
  <2> QED
    BY <2>4, <2>6, <2>7, <2>8
<1> QED
  BY <1>1, Invariance, PTL

\* Two open transactions do not both have a run: its first event took the tenant's chain lock.
ChainIsExclusive == \A w, o \in Workers : born[w] # {} /\ born[o] # {} => w = o

\* A transaction's runs become more only when nobody else has any (record_event, the chain lock).
LEMMA ChainStaysExclusive ==
    ASSUME TypeOK, ChainIsExclusive, [Next]_vars
    PROVE  ChainIsExclusive'
<1>1. born \in [Workers -> SUBSET Attempts]
  BY DEF TypeOK
<1>2. ASSUME NEW w \in Workers, RunEnds(w) PROVE ChainIsExclusive'
  <2>1. \A o \in Workers \ {w} : born[o] = {} /\ born'[o] = {}
    BY <1>1, <1>2 DEF RunEnds, ChainFree
  <2> QED
    BY <2>1 DEF ChainIsExclusive
<1>3. ASSUME \A o \in Workers : born'[o] \subseteq born[o] PROVE ChainIsExclusive'
  <2>1. \A o \in Workers : born'[o] # {} => born[o] # {}
    BY <1>3
  <2> QED
    BY <2>1 DEF ChainIsExclusive
<1>4. CASE UNCHANGED born
  BY <1>3, <1>4
<1>5. ASSUME NEW w \in Workers, Step(w) \/ Raises(w) \/ LoseRecord(w) \/ Crash(w), ~RunEnds(w)
      PROVE  \A o \in Workers : born'[o] \subseteq born[o]
  <2>1. CASE born' = [born EXCEPT ![w] = RolledBack(w)]
    BY <1>1, <2>1 DEF RolledBack
  <2>2. CASE born' = [born EXCEPT ![w] = {}]
    BY <1>1, <2>2
  <2>3. CASE born' = born
    BY <2>3
  <2> QED
    BY <1>5, <2>1, <2>2, <2>3
       DEF Step, StartPoll, SelectDue, Dispatch, InsertRow, SkipDuplicate, RecordFailed, CommitPoll,
           DeadlockVictim, Raises, ToRecord, LoseRecord, Unrecorded, Crash
<1>6. \/ UNCHANGED born
      \/ \E w \in Workers : Step(w) \/ Raises(w) \/ LoseRecord(w) \/ Crash(w)
  BY DEF Next, vars, Tick, RefreshHolidays, create_schedule, set_status
<1> QED
  BY <1>2, <1>3, <1>4, <1>5, <1>6

\* The chain lock is the tenant's: at no time do two polls have uncommitted runs.
THEOREM OneHolder == Spec => []ChainIsExclusive
<1>1. Init => ChainIsExclusive
  BY DEF Init, ChainIsExclusive
<1>2. TypeOK /\ ChainIsExclusive /\ [Next]_vars => ChainIsExclusive'
  BY ChainStaysExclusive
<1> QED
  BY <1>1, <1>2, TypeCorrect, PTL DEF Spec

\* Among workers of whom each waits for one of them, one has the chain lock and waits for an
\* index entry, another waits for that lock.
CirclesPassTheChain ==
    \A G \in SUBSET Workers :
        G # {} /\ (\A w \in G : WaitsFor(w) \cap G # {}) =>
            \E holder, waiter \in G : /\ holder \in OnChain(waiter)
                                      /\ OnIndex(holder) \cap G # {}

\* A poll that left a FAILED row waits for the chain lock for its next run, while the lock's holder
\* waits for that row (dispatch_one after _record_failed).  There are no other circles: of any
\* length, each passes through the one holder of the chain lock.
THEOREM CirclesAreOfTheChain == Spec => []CirclesPassTheChain
<1>1. ASSUME IndexWaitsAreOrdered, ChainIsExclusive PROVE CirclesPassTheChain
  <2> SUFFICES ASSUME NEW G \in SUBSET Workers, G # {}, \A w \in G : WaitsFor(w) \cap G # {}
               PROVE  \E holder, waiter \in G : holder \in OnChain(waiter) /\ OnIndex(holder) \cap G # {}
    BY DEF CirclesPassTheChain
  <2>1. PICK waiter \in G : OnIndex(waiter) \cap G = {}
    BY <1>1 DEF IndexWaitsAreOrdered
  <2>2. PICK holder \in G : holder \in OnChain(waiter)
    BY <2>1 DEF WaitsFor
  <2>3. born[holder] # {}
    BY <2>2 DEF OnChain
  <2>4. OnChain(holder) = {}
    BY <1>1, <2>3 DEF OnChain, ChainIsExclusive
  <2>5. OnIndex(holder) \cap G # {}
    BY <2>4 DEF WaitsFor
  <2> QED
    BY <2>2, <2>5
<1> QED
  BY <1>1, IndexEntriesNeverDeadlock, OneHolder, PTL
=============================================================================
