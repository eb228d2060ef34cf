----------------------- MODULE BreachLifecycle_proofs -----------------------
(***************************************************************************)
(* For any number of people, requests, workers and rows: the timeline of a *)
(* breach is one legal history, a conditioned call takes effect on the     *)
(* timeline its caller read only, and the timeline implements the machine  *)
(* the two lines of defence rely on.                                       *)
(*                                                                         *)
(* A transaction reads the timeline some steps before its row commits.     *)
(* Whoever has read it holds the row lock, so nothing was committed in     *)
(* between and the row is still the next one (Planned).  The rest is about *)
(* a timeline and the row that extends it (ExtendTimeline, NextFacts).     *)
(***************************************************************************)
EXTENDS BreachLifecycle, SequenceTheorems, TLAPS

-----------------------------------------------------------------------------
(* The inductive invariant. *)

\* Row g opened the epoch in force; 0 if no row did.
Governs(rows, g) ==
  /\ g \in Nat /\ g <= Len(rows)
  /\ g # 0 => rows[g].to = "ASSIGNED"
  /\ \A j \in DOMAIN rows : rows[j].to = "ASSIGNED" => j <= g

Chained(rows) ==
  \A i \in DOMAIN rows :
    /\ rows[i].seq = i
    /\ rows[i].from = IF i = 1 THEN "DETECTED" ELSE rows[i - 1].to
    /\ rows[i].to = ToState(rows[i].from, rows[i].verb)

\* A timeline that has rows has an epoch, whose owner is somebody; its escalations name it.
Sound(rows, g) ==
  /\ rows \in Seq(Rows) /\ Chained(rows) /\ Governs(rows, g)
  /\ \A i \in DOMAIN rows : rows[i].epoch < i /\ (rows[i].verb # "ESCALATE" => rows[i].actor \in Users)
  /\ rows # <<>> => g # 0
  /\ g # 0 => rows[g].assigned \in Users
  /\ \A j \in DOMAIN rows : rows[j].verb = "ESCALATE" /\ g < j => rows[j].epoch = g

\* Callers act in their own name.
Asked(q) == q \in Requests /\ (q.verb # "ESCALATE" => q.actor \in Users)

\* A row that may extend the timeline.
Extends(q, r, rows) ==
  /\ Permitted(q, rows) /\ r = NewRow(q, rows)
  /\ \A i \in DOMAIN rows : ~SameEscalation(r, rows[i])

Holding == {"reading", "inserted", "failed"}

\* Whoever has read the timeline has the lock, and has read what is committed now.
Exclusive == \A p \in Processes : pc[p] \in Holding => lock = {p} /\ seen[p] = Len(actions)

Planned ==
  \A p \in Processes :
    /\ pc[p] # "idle" => Asked(req[p])
    /\ pc[p] = "inserted" => Len(actions) < MaxActions /\ Extends(req[p], row[p], actions)

IInv == TypeOK /\ Exclusive /\ Planned /\ \E g \in Nat : Sound(actions, g)

-----------------------------------------------------------------------------
(* Lemmas about a timeline. *)

LEMMA GoverningIs ==
  ASSUME NEW rows \in Seq(Rows), NEW g, Governs(rows, g)
  PROVE  GoverningAssign(rows) = g
<1> DEFINE opens == {0} \cup {i \in DOMAIN rows : rows[i].to = "ASSIGNED"}
<1>1. DOMAIN rows = 1 .. Len(rows) /\ Len(rows) \in Nat
  BY LenProperties
<1>2. g \in opens /\ \A j \in opens : j \in Nat /\ g >= j
  BY <1>1 DEF Governs
<1>3. ASSUME NEW x \in opens, \A j \in opens : x >= j PROVE x = g
  BY <1>2, <1>3
<1> HIDE DEF opens
<1>4. Max(opens) = g
  BY <1>2, <1>3 DEF Max
<1> QED
  BY <1>4 DEF GoverningAssign, opens

LEMMA AppendedRow ==
  ASSUME NEW rows \in Seq(Rows), NEW r \in Rows
  PROVE  /\ Append(rows, r) \in Seq(Rows) /\ Append(rows, r) # <<>>
         /\ Len(rows) \in Nat /\ Len(Append(rows, r)) = Len(rows) + 1
         /\ DOMAIN rows = 1 .. Len(rows) /\ DOMAIN Append(rows, r) = 1 .. Len(rows) + 1
         /\ \A i \in 1 .. Len(rows) : Append(rows, r)[i] = rows[i] /\ rows[i] \in Rows
         /\ Append(rows, r)[Len(rows) + 1] = r
         /\ rows = <<>> <=> Len(rows) = 0
BY AppendProperties, LenProperties, EmptySeq

LEMMA Transitions ==
  ASSUME NEW from \in States, NEW verb \in Verbs, ToState(from, verb) # "ILLEGAL"
  PROVE  \/ verb = "ASSIGN" /\ from = "DETECTED" /\ ToState(from, verb) = "ASSIGNED"
         \/ verb = "1L_RESPONSE" /\ from \in {"ASSIGNED", "ESCALATED"} /\ ToState(from, verb) = "RESPONDED"
         \/ verb = "ESCALATE" /\ from \in {"ASSIGNED", "RESPONDED"} /\ ToState(from, verb) = "ESCALATED"
         \/ verb = "ACCEPT" /\ from \in {"RESPONDED", "ESCALATED"} /\ ToState(from, verb) = "REVIEWED"
         \/ verb = "REJECT" /\ from \in {"RESPONDED", "ESCALATED"} /\ ToState(from, verb) = "ASSIGNED"
         \/ verb = "CLOSE" /\ from = "REVIEWED" /\ ToState(from, verb) = "CLOSED"
BY DEF States, Verbs, ToState

LEMMA StateIsLast ==
  ASSUME NEW rows \in Seq(Rows)
  PROVE  /\ StateOf(rows) \in States
         /\ rows # <<>> => Len(rows) \in DOMAIN rows /\ StateOf(rows) = rows[Len(rows)].to
         /\ rows = <<>> => StateOf(rows) = "DETECTED"
<1>1. DOMAIN rows = 1 .. Len(rows) /\ Len(rows) \in Nat /\ (rows = <<>> <=> Len(rows) = 0)
  BY LenProperties, EmptySeq
<1>2. rows # <<>> => Len(rows) \in DOMAIN rows
  BY <1>1
<1>3. \A i \in DOMAIN rows : rows[i] \in Rows
  BY <1>1
<1> QED
  BY <1>2, <1>3 DEF StateOf, States, Rows

\* What the row of a permitted request looks like.
LEMMA TheRow ==
  ASSUME NEW rows, NEW g \in Nat, Sound(rows, g), NEW q, Asked(q), NEW r, Extends(q, r, rows)
  PROVE  /\ r \in Rows
         /\ r.seq = Len(rows) + 1 /\ r.verb = q.verb /\ r.from = StateOf(rows) /\ r.actor = q.actor
         /\ r.to = ToState(r.from, r.verb) /\ r.to # "ILLEGAL"
         /\ r.to = "ASSIGNED" => r.assigned \in Users
         /\ r.verb = "ESCALATE" => g # 0 /\ r.epoch = g
         /\ r.epoch <= Len(rows)
         /\ rows = <<>> => r.to = "ASSIGNED"
<1> DEFINE s == StateOf(rows)
           to == ToState(s, q.verb)
<1>1. /\ rows \in Seq(Rows) /\ s \in States /\ q.verb \in Verbs /\ to # "ILLEGAL"
  BY StateIsLast DEF Sound, Asked, Requests, Extends, Permitted
<1>2. /\ Len(rows) \in Nat /\ DOMAIN rows = 1 .. Len(rows) /\ (rows = <<>> <=> Len(rows) = 0)
  BY <1>1, LenProperties, EmptySeq
<1>3. GoverningAssign(rows) = g
  BY <1>1, GoverningIs DEF Sound
<1>4. /\ to \in States /\ to # "DETECTED"
      /\ to = "ASSIGNED" => q.verb \in {"ASSIGN", "REJECT"}
      /\ q.verb # "ASSIGN" => s # "DETECTED"
      /\ s = "DETECTED" => to = "ASSIGNED"
      /\ q.verb = "ESCALATE" => to = "ESCALATED"
  BY <1>1, Transitions DEF States
<1>5. q.verb # "ASSIGN" => rows # <<>> /\ g # 0
  BY <1>1, <1>4, StateIsLast DEF Sound
<1>6. g # 0 => g \in DOMAIN rows
  BY <1>2 DEF Sound, Governs
<1>7. g # 0 => rows[g].assigned \in Users /\ rows[g].seq = g /\ rows[g].due \in Nat
  <2>1. g # 0 => rows[g] \in Rows
    BY <1>1, <1>6
  <2>2. g # 0 => rows[g].due \in Nat
    BY <2>1 DEF Rows
  <2>3. g # 0 => rows[g].seq = g
    BY <1>6 DEF Sound, Chained
  <2> QED
    BY <2>2, <2>3 DEF Sound
<1>8. Owner(q, rows) \in Users \cup {NoUser} /\ (to = "ASSIGNED" => Owner(q, rows) \in Users)
  <2>1. q.assigned \in Users \cup {NoUser}
    BY DEF Asked, Requests
  <2>2. q.verb = "ASSIGN" \/ q.assigned # NoUser => q.assigned \in Users
    BY LifecycleAssumption DEF Extends, Permitted
  <2>3. q.verb = "REJECT" /\ q.assigned = NoUser => Owner(q, rows) = rows[g].assigned /\ rows[g].assigned \in Users
    BY <1>3, <1>5, <1>7 DEF Owner
  <2>4. ~(q.verb = "REJECT" /\ q.assigned = NoUser) => Owner(q, rows) = q.assigned
    BY DEF Owner
  <2> QED
    BY <1>4, <2>1, <2>2, <2>3, <2>4
<1>9. r = NewRow(q, rows)
  BY DEF Extends
<1>10. /\ r.seq = Len(rows) + 1 /\ r.verb = q.verb /\ r.from = s /\ r.actor = q.actor
       /\ r.to = to /\ r.assigned = Owner(q, rows)
       /\ r.epoch = IF q.verb = "ESCALATE" THEN EpochSeq(rows) ELSE NoEpoch
  BY <1>9 DEF NewRow, NextSeq
<1>11. /\ r.epoch \in Nat /\ r.epoch <= Len(rows)
       /\ r.verb = "ESCALATE" => g # 0 /\ r.epoch = g
  BY <1>2, <1>3, <1>5, <1>6, <1>7, <1>10 DEF EpochSeq, NoEpoch
<1>12. r.due \in Nat
  <2>1. q.time + SLA \in Nat /\ NoDue \in Nat
    BY LifecycleAssumption DEF Asked, Requests, NoDue
  <2>2. q.verb = "ESCALATE" => rows[GoverningAssign(rows)].due \in Nat
    BY <1>3, <1>5, <1>7
  <2>3. r.due = CASE to = "ASSIGNED" -> q.time + SLA
                  [] q.verb = "ESCALATE" -> rows[GoverningAssign(rows)].due
                  [] OTHER -> NoDue
    BY <1>9 DEF NewRow
  <2> QED
    BY <1>4, <2>1, <2>2, <2>3
<1>13. r = [seq |-> r.seq, verb |-> r.verb, from |-> r.from, to |-> r.to, actor |-> r.actor,
            assigned |-> r.assigned, due |-> r.due, epoch |-> r.epoch]
  BY <1>9 DEF NewRow
<1>14. r \in Rows
  BY <1>1, <1>2, <1>4, <1>8, <1>10, <1>11, <1>12, <1>13 DEF Rows, Asked, Requests
<1> QED
  BY <1>1, <1>4, <1>8, <1>10, <1>11, <1>14, StateIsLast

\* The epoch in force after a row was appended.
NewEpochOf(rows, g, r) == IF r.to = "ASSIGNED" THEN Len(rows) + 1 ELSE g

\* A permitted row extends a sound timeline to a sound one.
LEMMA ExtendTimeline ==
  ASSUME NEW rows, NEW g \in Nat, Sound(rows, g), NEW q, Asked(q), NEW r, Extends(q, r, rows)
  PROVE  /\ NewEpochOf(rows, g, r) \in Nat
         /\ Sound(Append(rows, r), NewEpochOf(rows, g, r))
<1> DEFINE n == Len(rows)
           next == Append(rows, r)
           h == NewEpochOf(rows, g, r)
<1>1. /\ r \in Rows /\ r.seq = n + 1 /\ r.verb = q.verb /\ r.from = StateOf(rows) /\ r.actor = q.actor
      /\ r.to = ToState(r.from, r.verb)
      /\ r.to = "ASSIGNED" => r.assigned \in Users
      /\ r.verb = "ESCALATE" => g # 0 /\ r.epoch = g
      /\ r.epoch <= n
      /\ rows = <<>> => r.to = "ASSIGNED"
  BY TheRow
<1>2. /\ rows \in Seq(Rows) /\ next \in Seq(Rows) /\ next # <<>> /\ n \in Nat /\ Len(next) = n + 1
      /\ DOMAIN rows = 1..n /\ DOMAIN next = 1 .. n + 1
      /\ \A i \in 1..n : next[i] = rows[i] /\ rows[i] \in Rows
      /\ next[n + 1] = r
      /\ rows = <<>> <=> n = 0
  BY <1>1, AppendedRow DEF Sound
<1>3. /\ g <= n /\ (g # 0 => g \in 1..n /\ rows[g].to = "ASSIGNED" /\ rows[g].assigned \in Users)
      /\ \A j \in 1..n : rows[j].to = "ASSIGNED" => j <= g
  BY <1>2 DEF Sound, Governs
<1> HIDE DEF next
<1>4. h \in Nat /\ h <= n + 1 /\ h # 0 /\ h \in 1 .. n + 1
      /\ next[h].to = "ASSIGNED" /\ next[h].assigned \in Users
  <2>1. CASE r.to = "ASSIGNED"
    BY <1>1, <1>2, <2>1 DEF NewEpochOf
  <2>2. CASE r.to # "ASSIGNED"
    <3>1. h = g /\ g # 0 /\ g \in 1..n
      BY <1>1, <1>3, <2>2 DEF NewEpochOf, Sound
    <3> QED
      BY <1>2, <1>3, <3>1
  <2> QED
    BY <2>1, <2>2
<1>5. ASSUME NEW j \in 1 .. n + 1, next[j].to = "ASSIGNED" PROVE j <= h
  <2>1. CASE r.to = "ASSIGNED"
    BY <1>2, <2>1 DEF NewEpochOf
  <2>2. CASE r.to # "ASSIGNED"
    <3>1. j \in 1..n
      BY <1>2, <1>5, <2>2
    <3> QED
      BY <1>2, <1>3, <1>5, <2>2, <3>1 DEF NewEpochOf
  <2> QED
    BY <2>1, <2>2
<1>6. Governs(next, h)
  BY <1>2, <1>4, <1>5 DEF Governs
<1>7. Chained(next)
  <2> SUFFICES ASSUME NEW i \in 1 .. n + 1
               PROVE  /\ next[i].seq = i
                      /\ next[i].from = IF i = 1 THEN "DETECTED" ELSE next[i - 1].to
                      /\ next[i].to = ToState(next[i].from, next[i].verb)
    BY <1>2 DEF Chained
  <2>1. CASE i \in 1..n
    <3>1. next[i] = rows[i] /\ (i # 1 => i - 1 \in 1..n)
      BY <1>2, <2>1
    <3>2. i # 1 => next[i - 1] = rows[i - 1]
      BY <1>2, <3>1
    <3> QED
      BY <1>2, <2>1, <3>1, <3>2 DEF Sound, Chained
  <2>2. CASE i = n + 1
    <3>1. next[i] = r /\ i - 1 = n /\ (i = 1 <=> n = 0)
      BY <1>2, <2>2
    <3>2. i # 1 => rows # <<>> /\ n \in 1..n /\ next[n] = rows[n]
      BY <1>2, <3>1
    <3>3. StateOf(rows) = IF i = 1 THEN "DETECTED" ELSE next[i - 1].to
      BY <1>2, <3>1, <3>2, StateIsLast
    <3> QED
      BY <1>1, <2>2, <3>1, <3>3
  <2> QED
    BY <1>2, <2>1, <2>2
<1>8. ASSUME NEW i \in 1 .. n + 1
      PROVE  next[i].epoch < i /\ (next[i].verb # "ESCALATE" => next[i].actor \in Users)
  <2>1. CASE i \in 1..n
    BY <1>2, <2>1 DEF Sound
  <2>2. CASE i = n + 1
    <3>1. r.epoch \in Nat
      BY <1>1 DEF Rows
    <3>2. r.epoch < n + 1
      BY <1>1, <1>2, <3>1
    <3> QED
      BY <1>1, <1>2, <2>2, <3>2 DEF Asked
  <2> QED
    BY <1>2, <2>1, <2>2
<1>9. ASSUME NEW j \in 1 .. n + 1, next[j].verb = "ESCALATE", h < j PROVE next[j].epoch = h
  <2>1. r.to # "ASSIGNED" /\ h = g
    BY <1>2, <1>9 DEF NewEpochOf
  <2>2. CASE j \in 1..n
    BY <1>2, <1>9, <2>1, <2>2 DEF Sound
  <2>3. CASE j = n + 1
    BY <1>1, <1>2, <1>9, <2>1, <2>3
  <2> QED
    BY <1>2, <2>2, <2>3
<1> HIDE DEF h
<1>10. Sound(next, h)
  BY <1>2, <1>4, <1>6, <1>7, <1>8, <1>9 DEF Sound
<1> QED
  BY <1>4, <1>10 DEF h, next

Signers(rows) == {rows[i].actor : i \in {j \in DOMAIN rows : rows[j].verb \in {"ACCEPT", "CLOSE"}}}
OwnerIn(rows) == LET g == GoverningAssign(rows) IN IF g = 0 THEN NoUser ELSE rows[g].assigned
EscalatedIn(rows) == \E j \in DOMAIN rows : rows[j].verb = "ESCALATE" /\ j > GoverningAssign(rows)

\* What is derived from a timeline, before and after row r.
Follows(rows, r, next) ==
  /\ StateOf(next) = r.to
  /\ Responders(next) = Responders(rows) \cup (IF r.verb = "1L_RESPONSE" THEN {r.actor} ELSE {})
  /\ Signers(next) = Signers(rows) \cup (IF r.verb \in {"ACCEPT", "CLOSE"} THEN {r.actor} ELSE {})
  /\ OwnerIn(next) = IF r.to = "ASSIGNED" THEN r.assigned ELSE OwnerIn(rows)
  /\ r.to = "ASSIGNED" => ~CurrentEpochResponse(next) /\ ~EscalatedIn(next)
  /\ r.to # "ASSIGNED" => (CurrentEpochResponse(next) <=> (r.verb = "1L_RESPONSE" \/ CurrentEpochResponse(rows)))
  /\ r.to # "ASSIGNED" => (EscalatedIn(next) <=> (r.verb = "ESCALATE" \/ EscalatedIn(rows)))

\* How a permitted row changes what is derived from the timeline.
LEMMA NextFacts ==
  ASSUME NEW rows, NEW g \in Nat, Sound(rows, g), NEW q, Asked(q), NEW r, Extends(q, r, rows),
         NEW next, next = Append(rows, r)
  PROVE  Follows(rows, r, next)
<1> DEFINE n == Len(rows)
           h == NewEpochOf(rows, g, r)
<1>1. r \in Rows
  BY TheRow
<1>2. /\ rows \in Seq(Rows) /\ next \in Seq(Rows) /\ next # <<>> /\ n \in Nat /\ Len(next) = n + 1
      /\ DOMAIN rows = 1..n /\ DOMAIN next = 1 .. n + 1
      /\ \A i \in 1..n : next[i] = rows[i]
      /\ next[n + 1] = r
  BY <1>1, AppendedRow DEF Sound
<1>3. GoverningAssign(rows) = g /\ GoverningAssign(next) = h /\ g <= n
  <2>1. Governs(rows, g) /\ Governs(next, h)
    BY ExtendTimeline DEF Sound
  <2> QED
    BY <1>2, <2>1, GoverningIs DEF Governs
<1>4. StateOf(next) = r.to
  BY <1>2, StateIsLast
<1>5. \A i : i \in 1 .. n + 1 <=> i \in 1..n \/ i = n + 1
  BY <1>2
<1>6. Responders(next) = Responders(rows) \cup (IF r.verb = "1L_RESPONSE" THEN {r.actor} ELSE {})
  BY <1>2, <1>5 DEF Responders
<1>7. Signers(next) = Signers(rows) \cup (IF r.verb \in {"ACCEPT", "CLOSE"} THEN {r.actor} ELSE {})
  BY <1>2, <1>5 DEF Signers
<1>8. OwnerIn(next) = IF r.to = "ASSIGNED" THEN r.assigned ELSE OwnerIn(rows)
  <2>1. CASE r.to = "ASSIGNED"
    <3>1. h = n + 1 /\ h # 0
      BY <1>2, <2>1 DEF NewEpochOf
    <3> QED
      BY <1>2, <1>3, <2>1, <3>1 DEF OwnerIn
  <2>2. CASE r.to # "ASSIGNED"
    <3>1. h = g /\ (g # 0 => g \in 1..n)
      BY <1>2, <1>3, <2>2 DEF NewEpochOf
    <3> QED
      BY <1>2, <1>3, <2>2, <3>1 DEF OwnerIn
  <2> QED
    BY <2>1, <2>2
<1>9. ASSUME r.to = "ASSIGNED" PROVE ~CurrentEpochResponse(next) /\ ~EscalatedIn(next)
  <2>1. h = n + 1 /\ \A i \in 1 .. n + 1 : ~(i > h)
    BY <1>2, <1>9 DEF NewEpochOf
  <2> QED
    BY <1>2, <1>3, <2>1 DEF CurrentEpochResponse, EscalatedIn
<1>10. ASSUME r.to # "ASSIGNED"
       PROVE  /\ CurrentEpochResponse(next) <=> (r.verb = "1L_RESPONSE" \/ CurrentEpochResponse(rows))
              /\ EscalatedIn(next) <=> (r.verb = "ESCALATE" \/ EscalatedIn(rows))
  <2>1. h = g /\ n + 1 > g
    BY <1>2, <1>3, <1>10 DEF NewEpochOf
  <2>2. CurrentEpochResponse(next) <=> (r.verb = "1L_RESPONSE" \/ CurrentEpochResponse(rows))
    BY <1>2, <1>3, <1>5, <2>1 DEF CurrentEpochResponse
  <2>3. EscalatedIn(next) <=> (r.verb = "ESCALATE" \/ EscalatedIn(rows))
    BY <1>2, <1>3, <1>5, <2>1 DEF EscalatedIn
  <2> QED
    BY <2>2, <2>3
<1> QED
  BY <1>4, <1>6, <1>7, <1>8, <1>9, <1>10 DEF Follows

-----------------------------------------------------------------------------
(* The steps keep the invariant. *)

LEMMA SeenIsAll ==
  ASSUME IInv, NEW p \in Processes, pc[p] \in Holding
  PROVE  Seen(p) = actions /\ lock = {p}
BY SubSeqFull DEF IInv, TypeOK, Exclusive, Seen

\* A step that commits nothing.
LEMMA NothingCommitted ==
  ASSUME IInv, actions' = actions, TypeOK', Exclusive', Planned'
  PROVE  IInv'
<1>1. PICK g \in Nat : Sound(actions, g)
  BY DEF IInv
<1>2. Sound(actions, g)'
  BY <1>1
<1> QED
  BY <1>2 DEF IInv

LEMMA SubmitKeeps ==
  ASSUME IInv, NEW p \in Processes, NEW q, Asked(q), Submit(p, q)
  PROVE  IInv'
<1>1. /\ pc[p] = "idle" /\ pc' = [pc EXCEPT ![p] = "waiting"] /\ req' = [req EXCEPT ![p] = q]
      /\ UNCHANGED <<actions, seen, row, lock, now, crashes>>
  BY DEF Submit
<1>2. TypeOK'
  BY <1>1 DEF IInv, TypeOK, Asked
<1>3. ASSUME NEW o \in Processes
      PROVE  /\ o = p => pc'[o] = "waiting" /\ req'[o] = q
             /\ o # p => pc'[o] = pc[o] /\ req'[o] = req[o]
  BY <1>1 DEF IInv, TypeOK
<1>4. Exclusive'
  BY <1>1, <1>3 DEF IInv, Exclusive, Holding
<1>5. Planned'
  BY <1>1, <1>3 DEF IInv, Planned
<1> QED
  BY <1>1, <1>2, <1>4, <1>5, NothingCommitted

LEMMA LockKeeps ==
  ASSUME IInv, NEW p \in Processes, LockBreach(p)
  PROVE  IInv'
<1>1. /\ pc[p] = "waiting" /\ lock = {} /\ lock' = {p} /\ pc' = [pc EXCEPT ![p] = "reading"]
      /\ seen' = [seen EXCEPT ![p] = Len(actions)]
      /\ UNCHANGED <<actions, req, row, now, crashes>>
  BY DEF LockBreach
<1>2. Len(actions) \in 0..MaxActions
  BY LenProperties, LifecycleAssumption DEF IInv, TypeOK
<1>3. TypeOK'
  BY <1>1, <1>2 DEF IInv, TypeOK
<1>4. ASSUME NEW o \in Processes
      PROVE  /\ o = p => pc'[o] = "reading" /\ seen'[o] = Len(actions)
             /\ o # p => pc'[o] = pc[o] /\ pc[o] \notin Holding
  BY <1>1 DEF IInv, TypeOK, Exclusive
<1>5. Exclusive'
  BY <1>1, <1>4 DEF Exclusive, Holding
<1>6. Planned'
  BY <1>1, <1>4 DEF IInv, Planned
<1> QED
  BY <1>1, <1>3, <1>5, <1>6, NothingCommitted

LEMMA InsertKeeps ==
  ASSUME IInv, NEW p \in Processes, Insert(p)
  PROVE  IInv'
<1>1. pc[p] = "reading" /\ Permitted(req[p], Seen(p)) /\ Len(actions) < MaxActions
      /\ UNCHANGED <<actions, req, seen, lock, now, crashes>>
  BY DEF Insert
<1>2. Seen(p) = actions /\ lock = {p}
  BY <1>1, SeenIsAll DEF Holding
<1>3. PICK q : q = req[p] /\ Asked(q)
  BY <1>1 DEF IInv, Planned
<1>4. PICK r : r = NewRow(q, actions)
  OBVIOUS
<1>5. PICK g \in Nat : Sound(actions, g)
  BY DEF IInv
<1>6. \/ /\ pc' = [pc EXCEPT ![p] = "inserted"] /\ row' = [row EXCEPT ![p] = r]
         /\ \A i \in DOMAIN actions : ~SameEscalation(r, actions[i])
      \/ pc' = [pc EXCEPT ![p] = "failed"] /\ row' = row
  BY <1>2, <1>3, <1>4 DEF Insert
<1>7. ASSUME NEW o \in Processes, o # p PROVE pc[o] \notin Holding
  BY <1>2, <1>7 DEF IInv, Exclusive
<1>8. CASE /\ pc' = [pc EXCEPT ![p] = "inserted"] /\ row' = [row EXCEPT ![p] = r]
           /\ \A i \in DOMAIN actions : ~SameEscalation(r, actions[i])
  <2>1. Extends(q, r, actions)
    BY <1>1, <1>2, <1>3, <1>4, <1>8 DEF Extends
  <2>2. r \in Rows
    BY <1>3, <1>5, <2>1, TheRow
  <2>3. TypeOK'
    BY <1>1, <1>8, <2>2 DEF IInv, TypeOK
  <2>4. ASSUME NEW o \in Processes
        PROVE  /\ o = p => pc'[o] = "inserted" /\ row'[o] = r
               /\ o # p => pc'[o] = pc[o] /\ row'[o] = row[o]
    BY <1>8 DEF IInv, TypeOK
  <2>5. Exclusive'
    BY <1>1, <1>7, <2>4 DEF IInv, Exclusive, Holding
  <2>6. Planned'
    <3> SUFFICES ASSUME NEW o \in Processes
                 PROVE  /\ pc'[o] # "idle" => Asked(req'[o])
                        /\ pc'[o] = "inserted" => Len(actions') < MaxActions /\ Extends(req'[o], row'[o], actions')
      BY DEF Planned
    <3>1. CASE o = p
      BY <1>1, <1>3, <2>1, <2>4, <3>1
    <3>2. CASE o # p
      BY <1>1, <1>7, <2>4, <3>2 DEF IInv, Planned, Holding
    <3> QED
      BY <3>1, <3>2
  <2> QED
    BY <1>1, <2>3, <2>5, <2>6, NothingCommitted
<1>9. CASE pc' = [pc EXCEPT ![p] = "failed"] /\ row' = row
  <2>1. TypeOK'
    BY <1>1, <1>9 DEF IInv, TypeOK
  <2>2. ASSUME NEW o \in Processes
        PROVE  /\ o = p => pc'[o] = "failed"
               /\ o # p => pc'[o] = pc[o]
    BY <1>9 DEF IInv, TypeOK
  <2>3. Exclusive'
    BY <1>1, <2>2 DEF IInv, Exclusive, Holding
  <2>4. Planned'
    BY <1>1, <1>9, <2>2 DEF IInv, Planned
  <2> QED
    BY <1>1, <2>1, <2>3, <2>4, NothingCommitted
<1> QED
  BY <1>6, <1>8, <1>9

\* What the end of a transaction leaves of the others.
LEMMA EndLeaves ==
  ASSUME IInv, NEW p \in Processes, End(p)
  PROVE  /\ pc' \in [Processes -> {"idle", "waiting", "reading", "inserted", "failed"}]
         /\ req' \in [Processes -> Requests \cup {NoRequest}]
         /\ seen' \in [Processes -> 0..MaxActions]
         /\ row' \in [Processes -> Rows \cup {NoRow}]
         /\ lock' \subseteq Processes /\ now' = now
         /\ pc'[p] = "idle"
         /\ \A o \in Processes \ {p} :
              /\ pc'[o] = pc[o] /\ req'[o] = req[o] /\ seen'[o] = seen[o] /\ row'[o] = row[o]
              /\ lock = {o} => lock' = {o}
<1>1. 0 \in 0..MaxActions
  BY LifecycleAssumption
<1> QED
  BY <1>1 DEF IInv, TypeOK, End

LEMMA EndKeeps ==
  ASSUME IInv, NEW p \in Processes, End(p), actions' = actions, crashes' \in 0..MaxCrashes
  PROVE  IInv'
<1>1. TypeOK'
  BY EndLeaves DEF IInv, TypeOK
<1>2. Exclusive'
  BY EndLeaves DEF IInv, Exclusive, Holding
<1>3. Planned'
  BY EndLeaves DEF IInv, Planned
<1> QED
  BY <1>1, <1>2, <1>3, NothingCommitted

LEMMA CommitKeeps ==
  ASSUME IInv, NEW p \in Processes, Commit(p)
  PROVE  IInv'
<1>1. pc[p] = "inserted" /\ actions' = Append(actions, row[p]) /\ End(p) /\ crashes' = crashes
  BY DEF Commit
<1>2. lock = {p}
  BY <1>1, SeenIsAll DEF Holding
<1>3. PICK q, r : q = req[p] /\ r = row[p] /\ Asked(q) /\ Extends(q, r, actions) /\ Len(actions) < MaxActions
  BY <1>1 DEF IInv, Planned
<1>4. PICK g \in Nat : Sound(actions, g)
  BY DEF IInv
<1>5. PICK h \in Nat : Sound(Append(actions, r), h)
  BY <1>3, <1>4, ExtendTimeline
<1>6. Sound(actions, h)'
  BY <1>1, <1>3, <1>5
<1>7. r \in Rows /\ Len(actions') = Len(actions) + 1 /\ Len(actions) \in Nat
  BY <1>1, <1>3, <1>4, TheRow, AppendedRow DEF IInv, TypeOK
<1>8. ASSUME NEW o \in Processes, o # p PROVE pc'[o] = pc[o] /\ pc[o] \notin Holding /\ req'[o] = req[o]
  BY <1>1, <1>2, <1>8, EndLeaves DEF IInv, Exclusive
<1>9. TypeOK'
  <2>1. Len(actions') <= MaxActions
    BY <1>3, <1>7, LifecycleAssumption
  <2>2. /\ actions' \in Seq(Rows)
        /\ \A i \in DOMAIN actions' : /\ actions'[i].epoch < i
                                      /\ actions'[i].verb # "ESCALATE" => actions'[i].actor \in Users
    BY <1>6 DEF Sound
  <2> QED
    BY <1>1, <2>1, <2>2, EndLeaves DEF IInv, TypeOK
<1>10. Exclusive'
  BY <1>1, <1>8, EndLeaves DEF Exclusive, Holding
<1>11. Planned'
  BY <1>1, <1>8, EndLeaves DEF IInv, Planned, Holding
<1> QED
  BY <1>6, <1>9, <1>10, <1>11 DEF IInv

LEMMA InitKeeps == Init => IInv
<1> SUFFICES ASSUME Init PROVE IInv
  OBVIOUS
<1>1. actions = <<>> /\ actions \in Seq(Rows) /\ Len(actions) = 0 /\ DOMAIN actions = {}
  BY DEF Init
<1>2. TypeOK
  <2>1. 0 \in 0..MaxActions /\ 0 <= MaxActions /\ 1 \in 1..MaxTime /\ 0 \in 0..MaxCrashes
    BY LifecycleAssumption
  <2> QED
    BY <1>1, <2>1 DEF Init, TypeOK
<1>3. Exclusive /\ Planned
  BY DEF Init, Exclusive, Planned, Holding
<1>4. Sound(actions, 0)
  BY <1>1 DEF Sound, Chained, Governs
<1> QED
  BY <1>2, <1>3, <1>4 DEF IInv

\* Which requests there are.
LEMMA CallAsks ==
  ASSUME IInv, NEW p \in Callers, Call(p)
  PROVE  \E q : Asked(q) /\ Submit(p, q)
<1>1. now \in Nat /\ Len(actions) \in Nat /\ UserOf[p] \in Users
  BY LenProperties, LifecycleAssumption DEF IInv, TypeOK
<1>2. ASSUME NEW verb \in Verbs \ {"ESCALATE"}, NEW o \in Users \cup {NoUser}, NEW expected \in {{}, {Len(actions)}},
             NEW time \in {0, now}, Request(p, verb, o, expected, time)
      PROVE  \E q : Asked(q) /\ Submit(p, q)
  <2>1. PICK q : q = [verb |-> verb, actor |-> UserOf[p], assigned |-> o, expected |-> expected, time |-> time]
    OBVIOUS
  <2>2. Asked(q)
    BY <1>1, <2>1 DEF Asked, Requests
  <2> QED
    BY <1>2, <2>1, <2>2 DEF Request
<1>3. \E expected \in {{}, {Len(actions)}} :
         \/ Request(p, "1L_RESPONSE", NoUser, expected, 0)
         \/ \E o \in Users : Request(p, "ASSIGN", o, expected, now)
         \/ \E o \in Users \cup {NoUser} : Request(p, "REJECT", o, expected, now)
         \/ \E verb \in {"ACCEPT", "CLOSE"} : Request(p, verb, NoUser, expected, 0)
  BY DEF Call
<1>4. {"1L_RESPONSE", "ASSIGN", "REJECT", "ACCEPT", "CLOSE"} \subseteq Verbs \ {"ESCALATE"}
  BY DEF Verbs
<1> QED
  BY <1>2, <1>3, <1>4

LEMMA SelectAsks ==
  ASSUME IInv, NEW p \in Workers, Select(p)
  PROVE  \E q : Asked(q) /\ Submit(p, q)
<1>1. PICK q : q = [verb |-> "ESCALATE", actor |-> SYSTEM, assigned |-> NoUser, expected |-> {}, time |-> now]
  OBVIOUS
<1>2. now \in Nat
  BY LifecycleAssumption DEF IInv, TypeOK
<1>3. Asked(q)
  BY <1>1, <1>2 DEF Asked, Requests, Verbs
<1> QED
  BY <1>1, <1>3 DEF Select

LEMMA NextKeeps == IInv /\ [Next]_vars => IInv'
<1> SUFFICES ASSUME IInv, [Next]_vars PROVE IInv'
  OBVIOUS
<1>1. ASSUME NEW p \in Callers, Call(p) PROVE IInv'
  BY <1>1, CallAsks, SubmitKeeps DEF Processes
<1>2. ASSUME NEW p \in Workers, Select(p) PROVE IInv'
  BY <1>2, SelectAsks, SubmitKeeps DEF Processes
<1>3. ASSUME NEW p \in Processes, LockBreach(p) PROVE IInv'
  BY <1>3, LockKeeps
<1>4. ASSUME NEW p \in Processes, Insert(p) PROVE IInv'
  BY <1>4, InsertKeeps
<1>5. ASSUME NEW p \in Processes, Refuse(p) \/ Fail(p) \/ Crash(p) PROVE IInv'
  <2>1. End(p) /\ actions' = actions
    BY <1>5 DEF Refuse, Fail, Crash
  <2>2. crashes' \in 0..MaxCrashes
    BY <1>5, LifecycleAssumption DEF Refuse, Fail, Crash, IInv, TypeOK
  <2> QED
    BY <2>1, <2>2, EndKeeps
<1>6. ASSUME NEW p \in Processes, Commit(p) PROVE IInv'
  BY <1>6, CommitKeeps
<1>7. ASSUME Tick \/ UNCHANGED vars PROVE IInv'
  <2>1. UNCHANGED <<actions, pc, req, seen, row, lock, crashes>>
    BY <1>7 DEF Tick, vars
  <2>2. now' \in 1..MaxTime
    BY <1>7, LifecycleAssumption DEF Tick, vars, IInv, TypeOK
  <2>3. TypeOK'
    BY <2>1, <2>2 DEF IInv, TypeOK
  <2>4. Exclusive' /\ Planned'
    BY <2>1 DEF IInv, Exclusive, Planned
  <2> QED
    BY <2>1, <2>3, <2>4, NothingCommitted
<1> QED
  BY <1>1, <1>2, <1>3, <1>4, <1>5, <1>6, <1>7 DEF Next, Handle

-----------------------------------------------------------------------------
(* The theorems. *)

\* The invariant holds in every state the workflow reaches.
THEOREM Invariance == Spec => []IInv
<1>1. Init => IInv
  BY InitKeeps
<1>2. IInv /\ [Next]_vars => IInv'
  BY NextKeeps
<1> QED
  BY <1>1, <1>2, PTL DEF Spec

\* The columns have their types, and an escalation names an earlier row as its epoch.
THEOREM TypeCorrect == Spec => []TypeOK
<1>1. IInv => TypeOK
  BY DEF IInv
<1> QED
  BY <1>1, Invariance, PTL

\* The rows of breach_action are one legal history, whichever transactions wrote them.
THEOREM TimelineIsLegal == Spec => []TimelineChained
<1>1. IInv => TimelineChained
  BY DEF IInv, Sound, Chained, TimelineChained
<1> QED
  BY <1>1, Invariance, PTL

\* A call that states expected_seq takes effect on that timeline or not at all.
THEOREM ConditionsHoldAtCommit == Spec => ConditionedCallsAreFresh
<1>1. IInv => [\A p \in Callers :
                 pc[p] = "inserted" /\ actions' # actions /\ pc'[p] = "idle" =>
                   \A n \in req[p].expected : Len(actions) = n]_vars
  BY DEF IInv, Planned, Extends, Permitted, ExpectedSeq, Processes
<1> QED
  BY <1>1, Invariance, PTL DEF ConditionedCallsAreFresh

\* What the machine sees, now and after a step, is what the two timelines say.
LEMMA Mapped ==
  /\ state = StateOf(actions) /\ owner = OwnerIn(actions) /\ responders = Responders(actions)
  /\ signers = Signers(actions)
  /\ answered = CurrentEpochResponse(actions) /\ escalated = EscalatedIn(actions)
BY DEF state, owner, responders, signers, answered, escalated, OwnerIn, Signers, EscalatedIn

LEMMA MappedNext ==
  ASSUME NEW next, actions' = next
  PROVE  /\ state' = StateOf(next) /\ owner' = OwnerIn(next) /\ responders' = Responders(next)
         /\ signers' = Signers(next)
         /\ answered' = CurrentEpochResponse(next) /\ escalated' = EscalatedIn(next)
BY DEF state, owner, responders, signers, answered, escalated, OwnerIn, Signers, EscalatedIn

LEMMA CommitIsAMachineStep ==
  ASSUME IInv, NEW p \in Processes, Commit(p)
  PROVE  Machine!Next
<1>1. pc[p] = "inserted" /\ actions' = Append(actions, row[p])
  BY DEF Commit
<1>2. PICK q, r : q = req[p] /\ r = row[p] /\ Asked(q) /\ Extends(q, r, actions)
  BY <1>1 DEF IInv, Planned
<1>3. PICK g \in Nat : Sound(actions, g)
  BY DEF IInv
<1>4. PICK next : next = Append(actions, r)
  OBVIOUS
<1>5. /\ state' = StateOf(next) /\ owner' = OwnerIn(next) /\ responders' = Responders(next)
      /\ signers' = Signers(next)
      /\ answered' = CurrentEpochResponse(next) /\ escalated' = EscalatedIn(next)
  BY <1>1, <1>2, <1>4, MappedNext
<1>6. /\ r \in Rows /\ r.verb = q.verb /\ r.from = state /\ r.actor = q.actor
      /\ r.to = ToState(r.from, r.verb) /\ r.to # "ILLEGAL"
      /\ r.to = "ASSIGNED" => r.assigned \in Users
      /\ r.verb = "ESCALATE" => r.epoch = g
  BY <1>2, <1>3, TheRow, Mapped
<1>7. /\ state' = r.to
      /\ responders' = responders \cup (IF r.verb = "1L_RESPONSE" THEN {r.actor} ELSE {})
      /\ signers' = signers \cup (IF r.verb \in {"ACCEPT", "CLOSE"} THEN {r.actor} ELSE {})
      /\ owner' = IF r.to = "ASSIGNED" THEN r.assigned ELSE owner
      /\ r.to = "ASSIGNED" => ~answered' /\ ~escalated'
      /\ r.to # "ASSIGNED" => (answered' <=> (r.verb = "1L_RESPONSE" \/ answered))
      /\ r.to # "ASSIGNED" => (escalated' <=> (r.verb = "ESCALATE" \/ escalated))
  <2>1. Follows(actions, r, next)
    BY <1>2, <1>3, <1>4, NextFacts
  <2> QED
    BY <1>5, <2>1, Mapped DEF Follows
<1>8. answered \in BOOLEAN /\ escalated \in BOOLEAN /\ answered' \in BOOLEAN /\ escalated' \in BOOLEAN
  BY DEF answered, escalated, CurrentEpochResponse
<1>9. /\ r.to = "ASSIGNED" => answered' = FALSE /\ escalated' = FALSE
      /\ r.to # "ASSIGNED" /\ r.verb = "1L_RESPONSE" => answered' = TRUE
      /\ r.to # "ASSIGNED" /\ r.verb # "1L_RESPONSE" => answered' = answered
      /\ r.to # "ASSIGNED" /\ r.verb = "ESCALATE" => escalated' = TRUE
      /\ r.to # "ASSIGNED" /\ r.verb # "ESCALATE" => escalated' = escalated
  BY <1>7, <1>8
<1>10. r.verb # "ESCALATE" => r.actor \in Users
  BY <1>2, <1>6 DEF Asked
<1>11. /\ r.verb \in {"ACCEPT", "REJECT", "CLOSE"} => r.actor \notin responders
       /\ r.verb \in {"ACCEPT", "REJECT"} => answered
  BY <1>2, <1>6, Mapped DEF Extends, Permitted
<1>12. r.verb = "ESCALATE" => ~escalated
  <2> SUFFICES ASSUME r.verb = "ESCALATE", NEW j \in DOMAIN actions, actions[j].verb = "ESCALATE",
                      j > GoverningAssign(actions)
               PROVE  FALSE
    BY DEF escalated
  <2>1. GoverningAssign(actions) = g
    BY <1>3, GoverningIs DEF Sound
  <2>2. actions[j].epoch = g
    BY <1>3, <2>1 DEF Sound
  <2> QED
    BY <1>2, <1>6, <2>2 DEF Extends, SameEscalation
<1>13. /\ state \in States /\ r.verb \in Verbs
  BY <1>6 DEF Rows
<1>14. \/ r.verb = "ASSIGN" /\ state = "DETECTED" /\ r.to = "ASSIGNED"
       \/ r.verb = "1L_RESPONSE" /\ state \in {"ASSIGNED", "ESCALATED"} /\ r.to = "RESPONDED"
       \/ r.verb = "ESCALATE" /\ state \in {"ASSIGNED", "RESPONDED"} /\ r.to = "ESCALATED"
       \/ r.verb = "ACCEPT" /\ state \in {"RESPONDED", "ESCALATED"} /\ r.to = "REVIEWED"
       \/ r.verb = "REJECT" /\ state \in {"RESPONDED", "ESCALATED"} /\ r.to = "ASSIGNED"
       \/ r.verb = "CLOSE" /\ state = "REVIEWED" /\ r.to = "CLOSED"
  BY <1>6, <1>13, Transitions
<1>15. CASE r.verb = "ASSIGN" /\ state = "DETECTED" /\ r.to = "ASSIGNED"
  <2>1. Machine!Assign(r.assigned)
    BY <1>7, <1>9, <1>15 DEF Machine!Assign, Machine!NewEpoch
  <2> QED
    BY <1>6, <1>10, <1>15, <2>1 DEF Machine!Next
<1>16. CASE r.verb = "1L_RESPONSE" /\ state \in {"ASSIGNED", "ESCALATED"} /\ r.to = "RESPONDED"
  <2>1. Machine!Respond(r.actor)
    BY <1>7, <1>9, <1>16 DEF Machine!Respond
  <2> QED
    BY <1>10, <1>16, <2>1 DEF Machine!Next
<1>17. CASE r.verb = "ESCALATE" /\ state \in {"ASSIGNED", "RESPONDED"} /\ r.to = "ESCALATED"
  <2>1. Machine!Escalate
    BY <1>7, <1>9, <1>12, <1>17 DEF Machine!Escalate
  <2> QED
    BY <2>1 DEF Machine!Next
<1>18. CASE r.verb = "ACCEPT" /\ state \in {"RESPONDED", "ESCALATED"} /\ r.to = "REVIEWED"
  <2>1. Machine!Accept(r.actor)
    BY <1>7, <1>9, <1>11, <1>18 DEF Machine!Accept, Machine!MayReview
  <2> QED
    BY <1>10, <1>18, <2>1 DEF Machine!Next
<1>19. CASE r.verb = "REJECT" /\ state \in {"RESPONDED", "ESCALATED"} /\ r.to = "ASSIGNED"
  <2>1. Machine!Reject(r.actor, r.assigned)
    BY <1>7, <1>9, <1>11, <1>19 DEF Machine!Reject, Machine!NewEpoch, Machine!MayReview
  <2> QED
    BY <1>6, <1>10, <1>19, <2>1 DEF Machine!Next
<1>20. CASE r.verb = "CLOSE" /\ state = "REVIEWED" /\ r.to = "CLOSED"
  <2>1. Machine!Close(r.actor)
    BY <1>7, <1>9, <1>11, <1>20 DEF Machine!Close
  <2> QED
    BY <1>10, <1>20, <2>1 DEF Machine!Next
<1> QED
  BY <1>14, <1>15, <1>16, <1>17, <1>18, <1>19, <1>20

\* The append-only timeline, written by requests and ticks that overlap, collide and die, is the
\* machine of states, owners, responders, signers and deadlines: nobody signs what they answered,
\* a rejected answer is never accepted, an epoch is escalated at most once.
THEOREM TimelineImplementsMachine == Spec => ImplementsMachine
<1>1. Init => Machine!Init
  <2> SUFFICES ASSUME Init PROVE Machine!Init
    OBVIOUS
  <2>1. actions = <<>> /\ actions \in Seq(Rows) /\ DOMAIN actions = {} /\ Len(actions) = 0
    BY DEF Init
  <2>2. GoverningAssign(actions) = 0
    <3>1. Governs(actions, 0)
      BY <2>1 DEF Governs
    <3> QED
      BY <2>1, <3>1, GoverningIs
  <2>3. state = "DETECTED" /\ owner = NoUser
    BY <2>1, <2>2 DEF state, owner, StateOf
  <2>4. responders = {} /\ signers = {}
    BY <2>1 DEF responders, signers, Responders
  <2>5. answered = FALSE /\ escalated = FALSE
    BY <2>1 DEF answered, escalated, CurrentEpochResponse
  <2> QED
    BY <2>3, <2>4, <2>5 DEF Machine!Init
<1>2. IInv /\ [Next]_vars => [Machine!Next]_Machine!mvars
  <2> SUFFICES ASSUME IInv, [Next]_vars PROVE [Machine!Next]_Machine!mvars
    OBVIOUS
  <2>1. ASSUME NEW p \in Processes, Commit(p) PROVE Machine!Next
    BY <2>1, CommitIsAMachineStep
  <2>2. ASSUME actions' = actions PROVE UNCHANGED Machine!mvars
    BY <2>2 DEF Machine!mvars, state, owner, responders, signers, answered, escalated
  <2>3. (\E p \in Processes : Commit(p)) \/ actions' = actions
    BY DEF Next, Handle, Call, Select, Request, Submit, LockBreach, Insert, Refuse, Fail, Crash, Tick, vars
  <2> QED
    BY <2>1, <2>2, <2>3
<1> QED
  BY <1>1, <1>2, Invariance, PTL DEF Spec, ImplementsMachine, Machine!Spec
=============================================================================
