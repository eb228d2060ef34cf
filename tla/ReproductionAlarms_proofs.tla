------------------------ MODULE ReproductionAlarms_proofs ------------------------
(***************************************************************************)
(* For any number of workers, verdicts, recipients, attempts and faults:   *)
(* a verdict the fold calls delivered was heard by everybody who held the  *)
(* permission throughout, and the retries of a verdict are bounded.        *)
(*                                                                         *)
(* Hearing: an entry without failures reached everyone it was for, those   *)
(* it was for include the steadfast, and whoever an entry or an attempt    *)
(* under way counts as reached or told is on the wire (Heard, InMaking).   *)
(*                                                                         *)
(* Bounding: a worker OWES a verdict while it may still add an attempt to  *)
(* it.  A verdict in the queue has room for one attempt of every worker,   *)
(* and whoever adds one owes no longer (RoomForOwed).                      *)
(***************************************************************************)
EXTENDS ReproductionAlarms, SequenceTheorems, FiniteSetTheorems, WellFoundedInduction, TLAPS

-----------------------------------------------------------------------------
(* The inductive invariant. *)

\* An entry that claims to have reached somebody did, and one that failed nobody reached everyone
\* who had to be.
Heard ==
  \A v \in Verdicts : \A i \in DOMAIN log[v] :
    /\ log[v][i].reached \subseteq wire[v]
    /\ log[v][i].failed = {} => Steadfast \subseteq log[v][i].reached

\* The same of an attempt under way.
InMaking ==
  \A w \in Workers : at[w] \in {"deliver", "emit", "record"} =>
    /\ Steadfast \subseteq work[w].asked
    /\ work[w].told \subseteq wire[InHand(w)]
    /\ work[w].heard \subseteq wire[InHand(w)]

Finite == \A v \in Verdicts : IsFiniteSet(Attempts(v))

\* w may still add an attempt to v: it has v before it and has not recorded the one in hand.
Owes(w, v) ==
  /\ v \in pending[w]
  /\ ~(at[w] = "record" /\ InHand(w) = v /\ work[w].id \in Attempts(v))
Owing(v) == {w \in Workers : Owes(w, v)}

RoomForOwed ==
  \A v \in Verdicts :
    Cardinality(Attempts(v)) + Cardinality(Owing(v)) <= MaxAttempts - 1 + Cardinality(Workers)

IInv == TypeOK /\ Heard /\ InMaking /\ Finite /\ RoomForOwed

-----------------------------------------------------------------------------
(* Lemmas. *)

\* The numbers are well ordered.
LEMMA LeastNumber ==
  ASSUME NEW S \in SUBSET Nat, S # {}
  PROVE  \E m \in S : \A n \in S : m <= n
<1> DEFINE R == {pair \in Nat \X Nat : pair[1] < pair[2]}
<1>1. IsWellFoundedOn(R, Nat)
  BY NatLessThanWellFounded DEF OpToRel
<1>2. PICK m \in S : \A n \in S : ~ (<<n, m>> \in R)
  BY <1>1, WFMin
<1>3. \A n \in S : ~ (n < m)
  BY <1>2
<1> QED
  BY <1>3

\* A worker with a verdict before it has one in hand.
LEMMA HandIsFull ==
  ASSUME TypeOK, NEW w \in Workers, pending[w] # {}
  PROVE  InHand(w) \in pending[w] /\ InHand(w) \in Verdicts
<1>1. pending[w] \in SUBSET Nat /\ pending[w] \subseteq Verdicts
  BY ConstantsAssumption DEF TypeOK
<1>2. \E v \in pending[w] : \A u \in pending[w] : v <= u
  BY <1>1, LeastNumber
<1> QED
  BY <1>1, <1>2 DEF InHand

\* What an entry appended to the history of v changes.
LEMMA AppendedEntry ==
  ASSUME TypeOK, NEW v \in Verdicts, NEW e \in Entries, Append_(v, e)
  PROVE  /\ log' \in [Verdicts -> Seq(Entries)]
         /\ Attempts(v)' = Attempts(v) \cup {e.id}
         /\ \A u \in Verdicts : u # v => log'[u] = log[u] /\ Attempts(u)' = Attempts(u)
         /\ \A i \in DOMAIN log'[v] :
               (i \in DOMAIN log[v] /\ log'[v][i] = log[v][i]) \/ log'[v][i] = e
<1>1. log[v] \in Seq(Entries) /\ log'[v] = Append(log[v], e)
  BY DEF TypeOK, Append_
<1>2. log' \in [Verdicts -> Seq(Entries)]
  BY AppendProperties DEF TypeOK, Append_
<1>3. \A u \in Verdicts : u # v => log'[u] = log[u]
  BY DEF TypeOK, Append_
<1>4. /\ DOMAIN log'[v] = DOMAIN log[v] \cup {Len(log[v]) + 1}
      /\ \A i \in DOMAIN log[v] : log'[v][i] = log[v][i]
      /\ log'[v][Len(log[v]) + 1] = e
  BY <1>1, AppendProperties
<1>5. Attempts(v)' = Attempts(v) \cup {e.id}
  BY <1>4 DEF Attempts
<1>6. \A u \in Verdicts : u # v => Attempts(u)' = Attempts(u)
  BY <1>3 DEF Attempts
<1> QED
  BY <1>2, <1>3, <1>4, <1>5, <1>6

\* The entry an attempt ends with is well typed, says whom it reached, and fails nobody only if it
\* reached the steadfast.
LEMMA OutcomeTells ==
  ASSUME IInv, NEW w \in Workers, at[w] \in {"deliver", "emit", "record"}
  PROVE  /\ Outcome(w) \in Entries
         /\ Outcome(w).id = work[w].id
         /\ Outcome(w).reached \subseteq wire[InHand(w)]
         /\ Outcome(w).failed = {} => Steadfast \subseteq Outcome(w).reached
<1>1. work[w] \in Works
  BY DEF IInv, TypeOK
<1>2. /\ Steadfast \subseteq work[w].asked
      /\ work[w].told \subseteq wire[InHand(w)] /\ work[w].heard \subseteq wire[InHand(w)]
  BY DEF IInv, InMaking
<1> QED
  BY <1>1, <1>2 DEF Outcome, Entry, Entries, Works

\* Those told already are on the wire.
LEMMA ToldAreHeard ==
  ASSUME TypeOK, Heard, NEW v \in Verdicts
  PROVE  AlreadyTold(v) \subseteq wire[v]
BY DEF TypeOK, Heard, AlreadyTold

\* Sets of owing workers are finite and have at most as many members as there are workers.
LEMMA OwingBound ==
  ASSUME NEW S \in SUBSET Workers
  PROVE  /\ IsFiniteSet(S) /\ Cardinality(S) \in Nat /\ Cardinality(Workers) \in Nat
         /\ Cardinality(S) <= Cardinality(Workers)
         /\ \A w \in S : IsFiniteSet(S \ {w}) /\ Cardinality(S \ {w}) = Cardinality(S) - 1
         /\ \A T \in SUBSET S : IsFiniteSet(T) /\ Cardinality(T) \in Nat /\ Cardinality(T) <= Cardinality(S)
<1>1. IsFiniteSet(Workers)
  BY ConstantsAssumption
<1>2. IsFiniteSet(S) /\ Cardinality(S) <= Cardinality(Workers)
  BY <1>1, FS_Subset
<1>3. Cardinality(S) \in Nat /\ Cardinality(Workers) \in Nat
  BY <1>1, <1>2, FS_CardinalityType
<1>4. \A w \in S : IsFiniteSet(S \ {w}) /\ Cardinality(S \ {w}) = Cardinality(S) - 1
  BY <1>2, FS_RemoveElement
<1>5. \A T \in SUBSET S : IsFiniteSet(T) /\ Cardinality(T) <= Cardinality(S)
  BY <1>2, FS_Subset
<1> QED
  BY <1>2, <1>3, <1>4, <1>5, FS_CardinalityType

\* Nobody owes more, nothing was attempted: there is still room.
LEMMA RoomKept ==
  ASSUME RoomForOwed, Finite, NEW v \in Verdicts,
         Attempts(v)' = Attempts(v), Owing(v)' \subseteq Owing(v)
  PROVE  Cardinality(Attempts(v)') + Cardinality(Owing(v)') <= MaxAttempts - 1 + Cardinality(Workers)
<1>1. Owing(v) \in SUBSET Workers
  BY DEF Owing
<1>2. Cardinality(Owing(v)') <= Cardinality(Owing(v)) /\ Cardinality(Owing(v)') \in Nat
      /\ Cardinality(Owing(v)) \in Nat /\ Cardinality(Workers) \in Nat
  BY <1>1, OwingBound
<1>3. Cardinality(Attempts(v)) \in Nat
  BY FS_CardinalityType DEF Finite
<1> QED
  BY <1>2, <1>3, ConstantsAssumption DEF RoomForOwed

\* One attempt more, and a worker that owed it no longer does: there is still room.
LEMMA RoomUsed ==
  ASSUME RoomForOwed, Finite, NEW v \in Verdicts, NEW w \in Workers, NEW id,
         Attempts(v)' = Attempts(v) \cup {id},
         Owing(v)' \subseteq Owing(v),
         id \in Attempts(v) \/ w \in Owing(v) \ Owing(v)'
  PROVE  /\ IsFiniteSet(Attempts(v)')
         /\ Cardinality(Attempts(v)') + Cardinality(Owing(v)') <= MaxAttempts - 1 + Cardinality(Workers)
<1>1. IsFiniteSet(Attempts(v)) /\ Cardinality(Attempts(v)) \in Nat
  BY FS_CardinalityType DEF Finite
<1>2. /\ IsFiniteSet(Attempts(v)')
      /\ Cardinality(Attempts(v)') = IF id \in Attempts(v) THEN Cardinality(Attempts(v))
                                                           ELSE Cardinality(Attempts(v)) + 1
  BY <1>1, FS_AddElement
<1>3. CASE id \in Attempts(v)
  <2>1. Attempts(v)' = Attempts(v)
    BY <1>3
  <2> QED
    BY <1>2, <2>1, RoomKept
<1>4. CASE id \notin Attempts(v)
  <2>1. Owing(v) \in SUBSET Workers /\ w \in Owing(v) /\ Owing(v)' \subseteq Owing(v) \ {w}
    BY <1>4 DEF Owing
  <2>2. Cardinality(Owing(v) \ {w}) = Cardinality(Owing(v)) - 1
    BY <2>1, OwingBound
  <2>3. Owing(v) \ {w} \in SUBSET Workers
    BY <2>1
  <2>4. Cardinality(Owing(v)') <= Cardinality(Owing(v) \ {w}) /\ Cardinality(Owing(v)') \in Nat
        /\ Cardinality(Owing(v)) \in Nat /\ Cardinality(Workers) \in Nat
    BY <2>1, <2>3, OwingBound
  <2> QED
    BY <1>1, <1>2, <1>4, <2>2, <2>4, ConstantsAssumption DEF RoomForOwed
<1> QED
  BY <1>3, <1>4

\* A worker whose queue does not change keeps what it has in hand.
LEMMA SameHand ==
  ASSUME NEW w, pending'[w] = pending[w]
  PROVE  InHand(w)' = InHand(w)
BY DEF InHand

\* A step of w makes nobody else owe more.
LEMMA OthersOwe ==
  ASSUME NEW w \in Workers, NEW v \in Verdicts,
         \A u \in Workers \ {w} : pending'[u] = pending[u] /\ at'[u] = at[u] /\ work'[u] = work[u],
         Attempts(v) \subseteq Attempts(v)',
         Owes(w, v)' => Owes(w, v)
  PROVE  Owing(v)' \subseteq Owing(v)
<1>1. \A u \in Workers \ {w} : InHand(u)' = InHand(u)
  BY SameHand
<1>2. \A u \in Workers \ {w} : Owes(u, v)' => Owes(u, v)
  BY <1>1 DEF Owes
<1> QED
  BY <1>2 DEF Owing

\* A step that records nothing preserves what the histories satisfy.
LEMMA QuietStep ==
  ASSUME IInv, log' = log, \A v \in Verdicts : wire[v] \subseteq wire'[v],
         \A v \in Verdicts : Owing(v)' \subseteq Owing(v)
  PROVE  Heard' /\ Finite' /\ RoomForOwed'
<1>1. \A v \in Verdicts : Attempts(v)' = Attempts(v)
  BY DEF Attempts
<1>2. Heard'
  BY DEF IInv, Heard
<1>3. Finite'
  BY <1>1 DEF IInv, Finite
<1>4. RoomForOwed'
  BY <1>1, RoomKept DEF IInv, RoomForOwed
<1> QED
  BY <1>2, <1>3, <1>4

\* A step of w that records an entry about the verdict in its hand, and after which w owes it no
\* longer, preserves what the histories satisfy.
LEMMA RecordingStep ==
  ASSUME IInv, NEW w \in Workers, NEW e \in Entries, NEW hand \in Verdicts,
         at[w] \in {"deliver", "emit", "record"}, hand = InHand(w),
         Append_(hand, e), e.id = work[w].id, wire' = wire,
         e.reached \subseteq wire[hand],
         e.failed = {} => Steadfast \subseteq e.reached,
         \A u \in Workers \ {w} : pending'[u] = pending[u] /\ at'[u] = at[u] /\ work'[u] = work[u],
         pending'[w] \subseteq pending[w],
         at'[w] = "record" => pending'[w] = pending[w] /\ work'[w] = work[w],
         ~Owes(w, hand)'
  PROVE  log' \in [Verdicts -> Seq(Entries)] /\ Heard' /\ Finite' /\ RoomForOwed'
<1>1. hand \in pending[w] /\ TypeOK
  BY HandIsFull DEF IInv, TypeOK
<1>2. /\ log' \in [Verdicts -> Seq(Entries)]
      /\ Attempts(hand)' = Attempts(hand) \cup {e.id}
      /\ \A u \in Verdicts : u # hand => log'[u] = log[u] /\ Attempts(u)' = Attempts(u)
      /\ \A i \in DOMAIN log'[hand] :
            (i \in DOMAIN log[hand] /\ log'[hand][i] = log[hand][i]) \/ log'[hand][i] = e
  BY <1>1, AppendedEntry
<1>3. Heard'
  <2>1. ASSUME NEW v \in Verdicts, NEW i \in DOMAIN log'[v]
        PROVE  /\ log'[v][i].reached \subseteq wire[v]
               /\ log'[v][i].failed = {} => Steadfast \subseteq log'[v][i].reached
    <3>1. CASE v # hand
      BY <1>2, <2>1, <3>1 DEF IInv, Heard
    <3>2. CASE v = hand
      <4>1. (i \in DOMAIN log[v] /\ log'[v][i] = log[v][i]) \/ log'[v][i] = e
        BY <1>2, <2>1, <3>2
      <4> QED
        BY <3>2, <4>1 DEF IInv, Heard
    <3> QED
      BY <3>1, <3>2
  <2> QED
    BY <2>1 DEF Heard
<1>4. ASSUME NEW v \in Verdicts PROVE Attempts(v) \subseteq Attempts(v)'
  BY <1>2, <1>4
<1>5. ASSUME NEW v \in Verdicts, v # hand PROVE Owes(w, v)' => Owes(w, v)
  <2>1. CASE at[w] = "record" /\ hand = v
    BY <1>5, <2>1
  <2>2. CASE ~(at[w] = "record" /\ hand = v)
    BY <2>2 DEF Owes
  <2> QED
    BY <2>1, <2>2
<1>6. ASSUME NEW v \in Verdicts PROVE Owing(v)' \subseteq Owing(v)
  <2>1. Attempts(v) \subseteq Attempts(v)' /\ (Owes(w, v)' => Owes(w, v))
    BY <1>4, <1>5
  <2> QED
    BY <2>1, OthersOwe
<1>7. e.id \in Attempts(hand) \/ w \in Owing(hand) \ Owing(hand)'
  <2>1. w \notin Owing(hand)'
    BY DEF Owing
  <2>2. e.id \notin Attempts(hand) => Owes(w, hand)
    BY <1>1 DEF Owes
  <2> QED
    BY <2>1, <2>2 DEF Owing
<1>8. /\ IsFiniteSet(Attempts(hand)')
      /\ Cardinality(Attempts(hand)') + Cardinality(Owing(hand)') <= MaxAttempts - 1 + Cardinality(Workers)
  <2>1. Owing(hand)' \subseteq Owing(hand)
    BY <1>1, <1>6
  <2> QED
    BY <1>1, <1>2, <1>7, <2>1, RoomUsed DEF IInv
<1>9. Finite'
  BY <1>2, <1>8 DEF IInv, Finite
<1>10. RoomForOwed'
  <2>1. ASSUME NEW v \in Verdicts, v # hand
        PROVE  Cardinality(Attempts(v)') + Cardinality(Owing(v)') <= MaxAttempts - 1 + Cardinality(Workers)
    <3>1. Attempts(v)' = Attempts(v) /\ Owing(v)' \subseteq Owing(v)
      BY <1>2, <1>6, <2>1
    <3> QED
      BY <3>1, RoomKept DEF IInv
  <2> QED
    BY <1>8, <2>1 DEF RoomForOwed
<1> QED
  BY <1>2, <1>3, <1>9, <1>10

-----------------------------------------------------------------------------
(* Every action preserves the invariant. *)

\* Nothing has been raised, attempted or told.
LEMMA InitEstablishes == Init => IInv
<1> SUFFICES ASSUME Init PROVE IInv
  OBVIOUS
<1>1. TypeOK
  <2>1. \A w \in Workers : NoWork(w) \in Works
    BY DEF NoWork, Attempt, Works, Ids
  <2> QED
    BY <2>1, ConstantsAssumption, EmptySeq DEF Init, TypeOK
<1>2. Heard /\ InMaking
  BY DEF Init, Heard, InMaking
<1>3. \A v \in Verdicts : Attempts(v) = {} /\ Owing(v) = {}
  BY DEF Init, Attempts, Owing, Owes
<1>4. Finite
  BY <1>3, FS_EmptySet DEF Finite
<1>5. RoomForOwed
  <2>1. Cardinality({}) = 0 /\ Cardinality(Workers) \in Nat
    BY FS_EmptySet, FS_CardinalityType, ConstantsAssumption
  <2>2. 0 + 0 <= MaxAttempts - 1 + Cardinality(Workers)
    BY <2>1, ConstantsAssumption
  <2>3. ASSUME NEW v \in Verdicts
        PROVE  Cardinality(Attempts(v)) + Cardinality(Owing(v)) <= MaxAttempts - 1 + Cardinality(Workers)
    <3>1. Attempts(v) = {} /\ Owing(v) = {}
      BY <1>3
    <3> QED
      BY <2>1, <2>2, <3>1
  <2> QED
    BY <2>3 DEF RoomForOwed
<1> QED
  BY <1>1, <1>2, <1>4, <1>5 DEF IInv

\* A verdict read from the queue has been attempted too rarely to be out of room, even if every
\* worker owes it an attempt.
LEMMA ReadQueueStep ==
  ASSUME IInv, NEW w \in Workers, ReadQueue(w)
  PROVE  IInv'
<1>1. TypeOK'
  BY DEF IInv, TypeOK, ReadQueue, world
<1>2. InMaking'
  <2>1. \A u \in Workers : at'[u] \in {"deliver", "emit", "record"} => u # w
    BY DEF IInv, TypeOK, ReadQueue
  <2>2. \A u \in Workers : u # w => pending'[u] = pending[u] /\ at'[u] = at[u]
    BY DEF IInv, TypeOK, ReadQueue
  <2>3. \A u \in Workers : u # w => InHand(u)' = InHand(u)
    BY <2>2, SameHand
  <2> QED
    BY <2>1, <2>2, <2>3 DEF IInv, InMaking, ReadQueue
<1>3. Heard' /\ Finite'
  BY DEF IInv, Heard, Finite, Attempts, ReadQueue
<1>4. RoomForOwed'
  <2>1. ASSUME NEW v \in Verdicts
        PROVE  Cardinality(Attempts(v)') + Cardinality(Owing(v)') <= MaxAttempts - 1 + Cardinality(Workers)
    <3>1. Attempts(v)' = Attempts(v)
      BY DEF Attempts, ReadQueue
    <3>2. CASE Queued(v)
      <4>1. ~ (Cardinality(Attempts(v)) >= MaxAttempts)
        BY <3>2 DEF Queued, Delivered, CeilingRetired, Exhausted
      <4>2. Cardinality(Attempts(v)) \in Nat
        BY FS_CardinalityType DEF IInv, Finite
      <4>3. Owing(v)' \in SUBSET Workers
        BY DEF Owing
      <4>4. Cardinality(Owing(v)') <= Cardinality(Workers) /\ Cardinality(Owing(v)') \in Nat
            /\ Cardinality(Workers) \in Nat
        BY <4>3, OwingBound
      <4> QED
        BY <3>1, <4>1, <4>2, <4>4, ConstantsAssumption
    <3>3. CASE ~Queued(v)
      <4>1. v \notin pending'[w]
        BY <3>3 DEF IInv, TypeOK, ReadQueue
      <4>2. ~Owes(w, v)'
        BY <4>1 DEF Owes
      <4>3. \A u \in Workers \ {w} : pending'[u] = pending[u] /\ at'[u] = at[u] /\ work'[u] = work[u]
        BY DEF IInv, TypeOK, ReadQueue
      <4>4. Owing(v)' \subseteq Owing(v)
        BY <3>1, <4>2, <4>3, OthersOwe
      <4> QED
        BY <3>1, <4>4, RoomKept DEF IInv
    <3> QED
      BY <3>2, <3>3
  <2> QED
    BY <2>1 DEF RoomForOwed
<1> QED
  BY <1>1, <1>2, <1>3, <1>4 DEF IInv

\* The steps of w that record nothing and put nothing more before it.
LEMMA ModestStep ==
  ASSUME IInv, TypeOK', NEW w \in Workers, log' = log,
         \A v \in Verdicts : wire[v] \subseteq wire'[v],
         \A u \in Workers \ {w} : pending'[u] = pending[u] /\ at'[u] = at[u] /\ work'[u] = work[u],
         pending'[w] \subseteq pending[w], at[w] # "record" \/ at'[w] # "record",
         at[w] = "record" => InHand(w) \notin pending'[w],
         at'[w] \in {"deliver", "emit", "record"} =>
            /\ pending'[w] = pending[w]
            /\ Steadfast \subseteq work'[w].asked
            /\ work'[w].told \subseteq wire'[InHand(w)]
            /\ work'[w].heard \subseteq wire'[InHand(w)]
  PROVE  IInv'
<1>1. ASSUME NEW v \in Verdicts PROVE Owing(v)' \subseteq Owing(v)
  <2>1. Attempts(v)' = Attempts(v)
    BY DEF Attempts
  <2>2. Owes(w, v)' => Owes(w, v)
    BY DEF Owes
  <2> QED
    BY <2>1, <2>2, OthersOwe
<1>2. InMaking'
  <2>1. ASSUME NEW u \in Workers, at'[u] \in {"deliver", "emit", "record"}
        PROVE  /\ Steadfast \subseteq work'[u].asked
               /\ work'[u].told \subseteq wire'[InHand(u)']
               /\ work'[u].heard \subseteq wire'[InHand(u)']
    <3>1. pending'[u] = pending[u]
      BY <2>1
    <3>2. InHand(u)' = InHand(u)
      BY <3>1, SameHand
    <3>3. CASE u = w
      BY <2>1, <3>2, <3>3
    <3>4. CASE u # w
      <4>1. at'[u] = at[u] /\ work'[u] = work[u]
        BY <3>4
      <4>2. pending[u] # {} /\ TypeOK
        BY <2>1, <4>1 DEF IInv, TypeOK
      <4>3. InHand(u) \in Verdicts
        BY <4>2, HandIsFull
      <4> QED
        BY <2>1, <3>2, <4>1, <4>3 DEF IInv, InMaking
    <3> QED
      BY <3>3, <3>4
  <2> QED
    BY <2>1 DEF InMaking
<1> QED
  BY <1>1, <1>2, QuietStep DEF IInv

\* The step that opens a phase, and the steps of an attempt before its outcome is recorded.
LEMMA PhaseSteps ==
  ASSUME IInv, NEW w \in Workers, EndPhase(w) \/ StartAttempt(w) \/ DeliverAll(w) \/ Rollback(w)
  PROVE  IInv'
<1> USE DEF IInv
<1>1. CASE EndPhase(w)
  <2>1. TypeOK'
    BY <1>1 DEF TypeOK, EndPhase, world
  <2>2. log' = log /\ wire' = wire /\ pending' = pending /\ work' = work
    BY <1>1 DEF EndPhase
  <2>3. /\ at[w] = "next" /\ at'[w] = "idle"
        /\ \A u \in Workers \ {w} : at'[u] = at[u]
    BY <1>1 DEF TypeOK, EndPhase
  <2> QED
    BY <2>1, <2>2, <2>3, ModestStep
<1>2. CASE StartAttempt(w)
  <2>1. InHand(w) \in pending[w] /\ InHand(w) \in Verdicts
    BY <1>2, HandIsFull DEF StartAttempt
  <2>2. AlreadyTold(InHand(w)) \subseteq wire[InHand(w)] /\ wire[InHand(w)] \subseteq Recipients
    BY <2>1, ToldAreHeard DEF TypeOK
  <2>3. Mint(w, InHand(w)) \in Ids
    BY <2>1 DEF Mint, Ids, TypeOK
  <2>4. Attempt(Mint(w, InHand(w)), holders, AlreadyTold(InHand(w)), {}) \in Works
    BY <2>2, <2>3 DEF Attempt, Works, TypeOK
  <2>5. /\ work' \in [Workers -> Works]
        /\ work'[w] = Attempt(Mint(w, InHand(w)), holders, AlreadyTold(InHand(w)), {})
        /\ \A u \in Workers \ {w} : work'[u] = work[u] /\ at'[u] = at[u]
    BY <1>2, <2>4 DEF StartAttempt, TypeOK
  <2>6. TypeOK'
    BY <1>2, <2>5 DEF StartAttempt, TypeOK, world
  <2>7. log' = log /\ wire' = wire /\ pending' = pending /\ at[w] = "next"
    BY <1>2 DEF StartAttempt
  <2>8. /\ Steadfast \subseteq work'[w].asked
        /\ work'[w].told \subseteq wire'[InHand(w)]
        /\ work'[w].heard \subseteq wire'[InHand(w)]
    BY <2>2, <2>5, <2>7 DEF Attempt, TypeOK
  <2> QED
    BY <2>5, <2>6, <2>7, <2>8, ModestStep
<1>3. CASE DeliverAll(w)
  <2>1. InHand(w) \in Verdicts /\ at[w] = "deliver" /\ work[w] \in Works
    BY <1>3, HandIsFull DEF DeliverAll, TypeOK
  <2>2. PICK accepted \in SUBSET (work[w].asked \ work[w].told) :
           /\ work' = [work EXCEPT ![w].heard = accepted]
           /\ wire' = [wire EXCEPT ![InHand(w)] = @ \cup accepted]
    BY <1>3 DEF DeliverAll
  <2>3. /\ work' \in [Workers -> Works]
        /\ work'[w].asked = work[w].asked /\ work'[w].told = work[w].told
        /\ work'[w].heard = accepted
        /\ \A u \in Workers \ {w} : work'[u] = work[u]
    BY <2>1, <2>2 DEF TypeOK, Works
  <2>4. /\ wire' \in [Verdicts -> SUBSET Recipients]
        /\ wire'[InHand(w)] = wire[InHand(w)] \cup accepted
        /\ \A v \in Verdicts : wire[v] \subseteq wire'[v]
    BY <2>1, <2>2 DEF TypeOK, Works
  <2>5. TypeOK'
    BY <1>3, <2>3, <2>4 DEF DeliverAll, TypeOK, world
  <2>6. /\ log' = log /\ pending' = pending
        /\ \A u \in Workers \ {w} : at'[u] = at[u]
    BY <1>3 DEF DeliverAll, TypeOK
  <2>7. /\ Steadfast \subseteq work'[w].asked
        /\ work'[w].told \subseteq wire'[InHand(w)]
        /\ work'[w].heard \subseteq wire'[InHand(w)]
    BY <2>1, <2>3, <2>4 DEF InMaking
  <2> QED
    BY <2>1, <2>3, <2>4, <2>5, <2>6, <2>7, ModestStep
<1>4. CASE Rollback(w)
  <2>1. TypeOK'
    BY <1>4 DEF Rollback, TypeOK, world
  <2>2. /\ log' = log /\ wire' = wire /\ pending' = pending /\ work' = work
        /\ at[w] \in {"deliver", "emit"}
        /\ \A u \in Workers \ {w} : at'[u] = at[u]
    BY <1>4 DEF Rollback, TypeOK
  <2>3. /\ Steadfast \subseteq work[w].asked
        /\ work[w].told \subseteq wire[InHand(w)]
        /\ work[w].heard \subseteq wire[InHand(w)]
    BY <2>2 DEF InMaking
  <2> QED
    BY <2>1, <2>2, <2>3, ModestStep
<1> QED
  BY <1>1, <1>2, <1>3, <1>4

\* Whatever is recorded, the attempts under way are as they were.
LEMMA InMakingKept ==
  ASSUME IInv, NEW w \in Workers, wire' = wire,
         \A u \in Workers \ {w} : pending'[u] = pending[u] /\ at'[u] = at[u] /\ work'[u] = work[u],
         at'[w] \in {"deliver", "emit", "record"} =>
            at[w] \in {"deliver", "emit", "record"} /\ pending'[w] = pending[w] /\ work'[w] = work[w]
  PROVE  InMaking'
<1>1. ASSUME NEW u \in Workers, at'[u] \in {"deliver", "emit", "record"}
      PROVE  /\ Steadfast \subseteq work'[u].asked
             /\ work'[u].told \subseteq wire'[InHand(u)']
             /\ work'[u].heard \subseteq wire'[InHand(u)']
  <2>1. pending'[u] = pending[u] /\ work'[u] = work[u] /\ at[u] \in {"deliver", "emit", "record"}
    BY <1>1
  <2>2. InHand(u)' = InHand(u)
    BY <2>1, SameHand
  <2> QED
    BY <2>1, <2>2 DEF IInv, InMaking
<1> QED
  BY <1>1 DEF InMaking

\* The loop moves on: w owes what it had in hand no longer, and its queue is one shorter.
LEMMA MovedOn ==
  ASSUME TypeOK, NEW w \in Workers, at[w] = "record" \/ at[w] = "emit", NextVerdict(w)
  PROVE  /\ at' \in [Workers -> {"idle", "next", "deliver", "emit", "record"}]
         /\ pending' \in [Workers -> SUBSET Verdicts]
         /\ work' \in [Workers -> Works]
         /\ at'[w] = "next" /\ pending'[w] = pending[w] \ {InHand(w)}
         /\ \A u \in Workers \ {w} : pending'[u] = pending[u] /\ at'[u] = at[u] /\ work'[u] = work[u]
<1>1. NoWork(w) \in Works
  BY DEF NoWork, Attempt, Works, Ids
<1> QED
  BY <1>1 DEF NextVerdict, TypeOK

\* A rolled back attempt is recorded as a failure that reached nobody.
LEMMA RollbackEntry ==
  ASSUME TypeOK, NEW w \in Workers
  PROVE  /\ Entry(work[w].id, {}, {ROLLBACK}) \in Entries
         /\ Entry(work[w].id, {}, {ROLLBACK}).id = work[w].id
         /\ Entry(work[w].id, {}, {ROLLBACK}).reached = {}
         /\ Entry(work[w].id, {}, {ROLLBACK}).failed # {}
<1>1. work[w] \in Works
  BY DEF TypeOK
<1> QED
  BY <1>1 DEF Entry, Entries, Works

\* The steps that record the outcome of an attempt.
LEMMA OutcomeSteps ==
  ASSUME IInv, NEW w \in Workers, CommitAttempt(w) \/ CommitUnacknowledged(w) \/ RecordFailure(w)
  PROVE  IInv'
<1>1. /\ at[w] \in {"emit", "record"}
      /\ InHand(w) \in pending[w] /\ InHand(w) \in Verdicts /\ TypeOK
  BY HandIsFull DEF IInv, TypeOK, CommitAttempt, CommitUnacknowledged, RecordFailure
<1>2. PICK hand \in Verdicts : hand = InHand(w)
  BY <1>1
<1>3. CASE CommitAttempt(w) \/ RecordFailure(w)
  <2>1. PICK e \in Entries :
           /\ Append_(hand, e) /\ e.id = work[w].id
           /\ e.reached \subseteq wire[hand]
           /\ e.failed = {} => Steadfast \subseteq e.reached
    <3>1. CASE CommitAttempt(w)
      BY <1>1, <1>2, <3>1, OutcomeTells DEF CommitAttempt
    <3>2. CASE RecordFailure(w)
      BY <1>1, <1>2, <3>2, RollbackEntry DEF RecordFailure
    <3> QED
      BY <1>3, <3>1, <3>2
  <2>2. /\ raised' = raised /\ holders' = holders /\ poisoned' = poisoned
        /\ wire' = wire /\ faults' = faults /\ NextVerdict(w)
    BY <1>3 DEF CommitAttempt, RecordFailure, world
  <2>3. /\ at' \in [Workers -> {"idle", "next", "deliver", "emit", "record"}]
        /\ pending' \in [Workers -> SUBSET Verdicts]
        /\ work' \in [Workers -> Works]
        /\ at'[w] = "next" /\ pending'[w] = pending[w] \ {hand}
        /\ \A u \in Workers \ {w} : pending'[u] = pending[u] /\ at'[u] = at[u] /\ work'[u] = work[u]
    BY <1>1, <1>2, <2>2, MovedOn
  <2>4. ~Owes(w, hand)'
    BY <2>3 DEF Owes
  <2>5. log' \in [Verdicts -> Seq(Entries)] /\ Heard' /\ Finite' /\ RoomForOwed'
    BY <1>1, <1>2, <2>1, <2>2, <2>3, <2>4, RecordingStep
  <2>6. \A u \in Workers : at'[u] \in {"deliver", "emit", "record"} => pending'[u] # {}
    BY <1>1, <2>3 DEF TypeOK
  <2>7. TypeOK'
    BY <1>1, <2>2, <2>3, <2>5, <2>6 DEF TypeOK
  <2>8. InMaking'
    BY <2>2, <2>3, InMakingKept
  <2> QED
    BY <2>5, <2>7, <2>8 DEF IInv
<1>4. CASE CommitUnacknowledged(w)
  <2>1. /\ Outcome(w) \in Entries /\ Outcome(w).id = work[w].id
        /\ Outcome(w).reached \subseteq wire[hand]
        /\ Outcome(w).failed = {} => Steadfast \subseteq Outcome(w).reached
    BY <1>1, <1>2, OutcomeTells
  <2>2. PICK e \in Entries : e = Outcome(w)
    BY <2>1
  <2>3. /\ raised' = raised /\ holders' = holders /\ poisoned' = poisoned
        /\ wire' = wire /\ pending' = pending /\ work' = work
        /\ Append_(hand, e) /\ faults' \in 0 .. MaxFaults
        /\ at' = [at EXCEPT ![w] = "record"]
    BY <1>1, <1>2, <1>4, <2>2, ConstantsAssumption DEF CommitUnacknowledged, Fault, world, TypeOK
  <2>4. /\ at'[w] = "record"
        /\ \A u \in Workers \ {w} : pending'[u] = pending[u] /\ at'[u] = at[u] /\ work'[u] = work[u]
    BY <1>1, <2>3 DEF TypeOK
  <2>5. Attempts(hand)' = Attempts(hand) \cup {e.id}
    BY <1>1, <2>3, AppendedEntry
  <2>6. pending'[w] = pending[w]
    BY <2>3
  <2>7. InHand(w)' = hand
    BY <1>2, <2>6, SameHand
  <2>8. ~Owes(w, hand)'
    BY <2>1, <2>2, <2>3, <2>4, <2>5, <2>7 DEF Owes
  <2>9. log' \in [Verdicts -> Seq(Entries)] /\ Heard' /\ Finite' /\ RoomForOwed'
    BY <1>1, <1>2, <2>1, <2>2, <2>3, <2>4, <2>8, RecordingStep
  <2>10. TypeOK'
    BY <1>1, <2>3, <2>9 DEF TypeOK
  <2>11. InMaking'
    BY <1>1, <2>3, <2>4, InMakingKept
  <2> QED
    BY <2>9, <2>10, <2>11 DEF IInv
<1> QED
  BY <1>3, <1>4

\* The steps that forget an attempt without a trace.
LEMMA ForgettingSteps ==
  ASSUME IInv, NEW w \in Workers, LoseRecord(w) \/ Crash(w)
  PROVE  IInv'
<1>1. TypeOK /\ (at[w] \in {"deliver", "emit", "record"} => InHand(w) \in pending[w])
  BY HandIsFull DEF IInv, TypeOK
<1>2. /\ raised' = raised /\ holders' = holders /\ poisoned' = poisoned
      /\ log' = log /\ wire' = wire /\ faults' \in 0 .. MaxFaults
  BY <1>1, ConstantsAssumption DEF LoseRecord, Crash, Fault, world, TypeOK
<1>3. CASE LoseRecord(w)
  <2>1. at[w] = "record" /\ NextVerdict(w)
    BY <1>3 DEF LoseRecord
  <2>2. /\ at' \in [Workers -> {"idle", "next", "deliver", "emit", "record"}]
        /\ pending' \in [Workers -> SUBSET Verdicts]
        /\ work' \in [Workers -> Works]
        /\ at'[w] = "next" /\ pending'[w] = pending[w] \ {InHand(w)}
        /\ \A u \in Workers \ {w} : pending'[u] = pending[u] /\ at'[u] = at[u] /\ work'[u] = work[u]
    BY <1>1, <2>1, MovedOn
  <2>3. \A u \in Workers : at'[u] \in {"deliver", "emit", "record"} => pending'[u] # {}
    BY <1>1, <2>2 DEF TypeOK
  <2>4. TypeOK'
    BY <1>1, <1>2, <2>2, <2>3 DEF TypeOK
  <2> QED
    BY <1>2, <2>2, <2>4, ModestStep
<1>4. CASE Crash(w)
  <2>1. NoWork(w) \in Works
    BY DEF NoWork, Attempt, Works, Ids
  <2>2. /\ at' \in [Workers -> {"idle", "next", "deliver", "emit", "record"}]
        /\ pending' \in [Workers -> SUBSET Verdicts]
        /\ work' \in [Workers -> Works]
        /\ at'[w] = "idle" /\ pending'[w] = {}
        /\ \A u \in Workers \ {w} : pending'[u] = pending[u] /\ at'[u] = at[u] /\ work'[u] = work[u]
    BY <1>1, <1>4, <2>1 DEF Crash, TypeOK
  <2>3. \A u \in Workers : at'[u] \in {"deliver", "emit", "record"} => pending'[u] # {}
    BY <1>1, <2>2 DEF TypeOK
  <2>4. TypeOK'
    BY <1>1, <1>2, <2>2, <2>3 DEF TypeOK
  <2> QED
    BY <1>2, <2>2, <2>4, ModestStep
<1> QED
  BY <1>3, <1>4

\* What happens around the phase, and nothing at all.
LEMMA OutsideSteps ==
  ASSUME IInv,
         \/ \E v \in Verdicts : RaiseVerdict(v) \/ Poison(v)
         \/ \E r \in Recipients : ChangeHolder(r)
         \/ UNCHANGED vars
  PROVE  IInv'
<1>1. log' = log /\ wire' = wire /\ at' = at /\ pending' = pending /\ work' = work
  BY DEF RaiseVerdict, Poison, ChangeHolder, vars
<1>2. /\ raised' \subseteq Verdicts /\ poisoned' \subseteq raised'
      /\ Steadfast \subseteq holders' /\ holders' \subseteq Recipients
      /\ faults' \in 0 .. MaxFaults
  <2> USE DEF IInv, TypeOK
  <2>1. CASE \E v \in Verdicts : RaiseVerdict(v)
    BY <2>1 DEF RaiseVerdict
  <2>2. CASE \E v \in Verdicts : Poison(v)
    BY <2>2, ConstantsAssumption DEF Poison, Fault
  <2>3. CASE \E r \in Recipients : ChangeHolder(r)
    BY <2>3, ConstantsAssumption DEF ChangeHolder
  <2>4. CASE UNCHANGED vars
    BY <2>4 DEF vars
  <2> QED
    BY <2>1, <2>2, <2>3, <2>4
<1>3. TypeOK'
  BY <1>1, <1>2 DEF IInv, TypeOK
<1>4. \A v \in Verdicts : Owing(v)' \subseteq Owing(v)
  BY <1>1 DEF Owing, Owes, InHand, Attempts
<1>5. Heard' /\ Finite' /\ RoomForOwed'
  BY <1>1, <1>4, QuietStep
<1>6. InMaking'
  BY <1>1 DEF IInv, InMaking, InHand
<1> QED
  BY <1>5, <1>6, <1>3 DEF IInv

\* The invariant is inductive.
THEOREM Invariance == Spec => []IInv
<1>1. IInv /\ [Next]_vars => IInv'
  <2> SUFFICES ASSUME IInv, [Next]_vars PROVE IInv'
    OBVIOUS
  <2>1. ASSUME NEW w \in Workers,
               Step(w) \/ Rollback(w) \/ CommitUnacknowledged(w) \/ LoseRecord(w) \/ Crash(w)
        PROVE  IInv'
    BY <2>1, ReadQueueStep, PhaseSteps, OutcomeSteps, ForgettingSteps DEF Step
  <2> QED
    BY <2>1, OutsideSteps DEF Next
<1> QED
  BY <1>1, InitEstablishes, PTL DEF Spec

\* Every variable stays well typed, and whoever is in the middle of an attempt has a verdict in
\* hand (poll_tenant_reproduction_alarms).
THEOREM TypeCorrect == Spec => []TypeOK
BY Invariance, PTL DEF IInv

\* A verdict retired as delivered was heard by everybody who held the permission throughout,
\* however many workers, rollbacks and lost commits it took (alarm_for_verdict).
THEOREM SilenceIsEarned == Spec => []DeliveredWasHeard
<1>1. IInv => DeliveredWasHeard
  <2> SUFFICES ASSUME IInv, NEW v \in Verdicts, Delivered(v) PROVE Steadfast \subseteq wire[v]
    BY DEF DeliveredWasHeard
  <2>1. log[v] \in Seq(Entries) /\ log[v] # <<>>
    BY DEF IInv, TypeOK, Delivered, Concluded
  <2>2. Len(log[v]) \in DOMAIN log[v]
    BY <2>1, LenProperties, EmptySeq
  <2>3. log[v][Len(log[v])].failed = {}
    BY <2>2 DEF Delivered, Concluded
  <2> QED
    BY <2>2, <2>3 DEF IInv, Heard
<1> QED
  BY <1>1, Invariance, PTL

\* A verdict is never attempted more than MaxAttempts - 1 times plus once per worker
\* (MAX_ALARM_ATTEMPTS read by workers that overlap).
THEOREM RetriesAreBounded == Spec => []AttemptsBounded
<1>1. IInv => AttemptsBounded
  <2> SUFFICES ASSUME IInv, NEW v \in Verdicts
               PROVE  Cardinality(Attempts(v)) <= MaxAttempts - 1 + Cardinality(Workers)
    BY DEF AttemptsBounded
  <2>1. Owing(v) \in SUBSET Workers
    BY DEF Owing
  <2>2. Cardinality(Owing(v)) \in Nat /\ Cardinality(Workers) \in Nat
    BY <2>1, OwingBound
  <2>3. Cardinality(Attempts(v)) \in Nat
    BY FS_CardinalityType DEF IInv, Finite
  <2> QED
    BY <2>2, <2>3, ConstantsAssumption DEF IInv, RoomForOwed
<1> QED
  BY <1>1, Invariance, PTL
=============================================================================
