-------------------------- MODULE AuditChain_proofs --------------------------
(***************************************************************************)
(* For any number of transactions, any event types and any hash functions: *)
(* the audit chain of AuditChain is intact at every commit, no transaction *)
(* ever collides on a sequence number, no number arrives late, and the     *)
(* chain read by number implements the abstract log.                       *)
(*                                                                         *)
(* The argument: only the holder of the advisory lock has uncommitted rows *)
(* (HolderOnly), so what the holder sees is the chain as it will be when   *)
(* it commits (VisibleIntact), and its last row cannot change while it is  *)
(* about to insert (TailCurrent).  A savepoint that gives the lock back    *)
(* gives back every row (SavepointsSound).                                 *)
(***************************************************************************)
EXTENDS AuditChain, SequenceTheorems, TLAPS

\* s is a sequence, of whatever elements.
IsSeq(s) == s \in Seq({s[i] : i \in DOMAIN s})

Sequences_ == IsSeq(table) /\ \A t \in Txns : IsSeq(pending[t])

Shapes ==
  /\ DOMAIN pending = Txns /\ pending = [t \in Txns |-> pending[t]]
  /\ DOMAIN tail = Txns /\ tail = [t \in Txns |-> tail[t]]
  /\ saved \in [Txns -> [open : BOOLEAN, rows : Nat, holder : Txns \cup {NoTxn}]]

\* Only the holder of the lock has rows in flight.
HolderOnly == \A t \in Txns : pending[t] # <<>> \/ pc[t] = "reading" => lock = t

\* Every transaction sees a chain that verifies.
VisibleIntact == ChainVerifies(table) /\ \A t \in Txns : ChainVerifies(Visible(t))

\* The row read under the lock is still the last one.
TailCurrent == \A t \in Txns : pc[t] = "reading" => tail[t] = TailOf(Visible(t))

\* A savepoint opened before the lock was taken has no row before it.
SavepointsSound ==
  \A t \in Txns :
    /\ saved[t].rows <= Len(pending[t])
    /\ saved[t].holder # t => saved[t].rows = 0

\* A chain that has been verified is not empty.
VerifiedSome == verified > 0 => table # <<>>

IInv ==
  /\ TypeOK /\ Shapes /\ Sequences_
  /\ HolderOnly /\ VisibleIntact /\ TailCurrent /\ SavepointsSound
  /\ NoCollision
  /\ CheckpointsHold /\ VerifiedSome

-----------------------------------------------------------------------------
\* Sequences of whatever elements: what appending, concatenating and cutting do.
LEMMA SeqIsSeq ==
  ASSUME NEW S, NEW s \in Seq(S)
  PROVE  IsSeq(s)
<1> DEFINE R == {s[i] : i \in DOMAIN s}
<1>1. Len(s) \in Nat /\ DOMAIN s = 1..Len(s) /\ s = [i \in 1..Len(s) |-> s[i]]
  OBVIOUS
<1>2. \A i \in 1..Len(s) : s[i] \in R
  BY <1>1
<1> HIDE DEF R
<1>3. s \in Seq(R)
  BY <1>1, <1>2
<1> QED
  BY <1>3 DEF IsSeq, R

\* Appending one sequence of rows to another keeps the first as a prefix.
LEMMA SeqConcat ==
  ASSUME NEW s, NEW u, IsSeq(s), IsSeq(u)
  PROVE  /\ IsSeq(s \o u)
         /\ Len(s \o u) = Len(s) + Len(u)
         /\ \A i \in 1..Len(s) : (s \o u)[i] = s[i]
         /\ \A i \in (Len(s) + 1)..(Len(s) + Len(u)) : (s \o u)[i] = u[i - Len(s)]
<1> DEFINE S == {s[i] : i \in DOMAIN s} \cup {u[i] : i \in DOMAIN u}
<1> HIDE DEF S
<1>1. s \in Seq(S) /\ u \in Seq(S)
  BY DEF IsSeq, S
<1>2. s \o u \in Seq(S)
  BY <1>1
<1>3. IsSeq(s \o u)
  BY <1>2, SeqIsSeq
<1> QED
  BY <1>1, <1>3

\* Appending one row (what an INSERT does) keeps the rows before it and adds one.
LEMMA SeqAppend ==
  ASSUME NEW s, NEW e, IsSeq(s)
  PROVE  /\ IsSeq(Append(s, e))
         /\ Len(Append(s, e)) = Len(s) + 1
         /\ \A i \in 1..Len(s) : Append(s, e)[i] = s[i]
         /\ Append(s, e)[Len(s) + 1] = e
<1> DEFINE S == {s[i] : i \in DOMAIN s} \cup {e}
<1> HIDE DEF S
<1>1. s \in Seq(S) /\ e \in S
  BY DEF IsSeq, S
<1>2. Append(s, e) \in Seq(S)
  BY <1>1
<1>3. IsSeq(Append(s, e))
  BY <1>2, SeqIsSeq
<1> QED
  BY <1>1, <1>3

\* A prefix of a sequence (what ROLLBACK TO SAVEPOINT leaves) is a sequence of its length.
LEMMA SeqCut ==
  ASSUME NEW s, NEW n \in Nat, IsSeq(s), n <= Len(s)
  PROVE  /\ IsSeq(SubSeq(s, 1, n))
         /\ Len(SubSeq(s, 1, n)) = n
         /\ \A i \in 1..n : SubSeq(s, 1, n)[i] = s[i]
<1> DEFINE S == {s[i] : i \in DOMAIN s}
<1> HIDE DEF S
<1>1. s \in Seq(S)
  BY DEF IsSeq, S
<1>2. SubSeq(s, 1, n) \in Seq(S)
  BY <1>1
<1>3. IsSeq(SubSeq(s, 1, n))
  BY <1>2, SeqIsSeq
<1> QED
  BY <1>1, <1>3

\* The positions of a sequence are 1 to its length.
LEMMA SeqDomain ==
  ASSUME NEW s, IsSeq(s)
  PROVE  /\ Len(s) \in Nat
         /\ DOMAIN s = 1..Len(s)
         /\ Len(s) = 0 <=> s = <<>>
         /\ s \o <<>> = s
BY DEF IsSeq

\* A chain with no row, which is what a tenant starts from.
LEMMA SeqEmpty == IsSeq(<<>>) /\ Len(<<>>) = 0
<1>1. <<>> \in Seq({})
  OBVIOUS
<1> QED
  BY <1>1, SeqIsSeq

-----------------------------------------------------------------------------
\* A prefix of a chain that verifies verifies.
LEMMA CutChain ==
  ASSUME NEW s, NEW u, IsSeq(s), IsSeq(u), ChainVerifies(s), Len(u) <= Len(s),
         \A i \in 1..Len(u) : u[i] = s[i]
  PROVE  ChainVerifies(u)
<1> SUFFICES ASSUME NEW i \in DOMAIN u
             PROVE  RowVerifies(u, i)
  BY DEF ChainVerifies
<1>1. i \in 1..Len(u) /\ i \in DOMAIN s /\ RowVerifies(s, i)
  BY SeqDomain DEF ChainVerifies
<1>2. u[i] = s[i] /\ (i # 1 => i - 1 \in 1..Len(u) /\ u[i - 1] = s[i - 1])
  BY <1>1, SeqDomain
<1> QED
  BY <1>1, <1>2 DEF RowVerifies

\* The row record_event builds on the last row of a chain that verifies takes a
\* free number, and the chain it extends verifies.
LEMMA ExtendChain ==
  ASSUME NEW s, NEW u, NEW type, IsSeq(s), IsSeq(u), ChainVerifies(s),
         Len(u) = Len(s) + 1, \A i \in 1..Len(s) : u[i] = s[i],
         u[Len(s) + 1] = Row(TailOf(s), type)
  PROVE  ChainVerifies(u)
<1>0. Len(s) \in Nat /\ DOMAIN s = 1..Len(s) /\ DOMAIN u = 1..Len(u) /\ (Len(s) = 0 <=> s = <<>>)
  BY SeqDomain
<1>1. TailOf(s).seq = Len(s)
  BY <1>0 DEF TailOf, ChainVerifies, RowVerifies
<1>2. ASSUME NEW i \in 1..Len(s)
      PROVE  RowVerifies(u, i)
  <2>1. RowVerifies(s, i)
    BY <1>0 DEF ChainVerifies
  <2>2. u[i] = s[i] /\ (i # 1 => u[i - 1] = s[i - 1])
    BY <1>0
  <2> QED
    BY <2>1, <2>2 DEF RowVerifies
<1>3. RowVerifies(u, Len(s) + 1)
  <2>1. TailOf(s).hash = IF Len(s) + 1 = 1 THEN Genesis ELSE u[Len(s) + 1 - 1].hash
    BY <1>0 DEF TailOf
  <2> QED
    BY <1>0, <1>1, <2>1 DEF RowVerifies, Row, SequenceNo, PreviousHash
<1> QED
  BY <1>0, <1>2, <1>3 DEF ChainVerifies

\* The number one past the length of a gapless chain is on none of its rows: the
\* INSERT of a transaction that counted under the lock meets no unique constraint.
LEMMA FreeNumber ==
  ASSUME NEW s, IsSeq(s), ChainVerifies(s)
  PROVE  /\ TailOf(s).seq = Len(s)
         /\ ~KeyTaken(SequenceNo(TailOf(s)), s)
<1>0. Len(s) \in Nat /\ DOMAIN s = 1..Len(s) /\ (Len(s) = 0 <=> s = <<>>)
  BY SeqDomain
<1>1. TailOf(s).seq = Len(s)
  BY <1>0 DEF TailOf, ChainVerifies, RowVerifies
<1> QED
  BY <1>0, <1>1 DEF KeyTaken, SequenceNo, ChainVerifies, RowVerifies

-----------------------------------------------------------------------------
\* The initial state satisfies the invariant.
LEMMA InitIInv == Init => IInv
<1> SUFFICES ASSUME Init PROVE IInv
  OBVIOUS
<1> USE DEF Init
<1>1. Sequences_
  BY SeqEmpty DEF Sequences_
<1>2. DOMAIN table = {} /\ \A t \in Txns : DOMAIN pending[t] = {}
  BY SeqEmpty, SeqDomain
<1>3. TypeOK
  BY <1>2 DEF TypeOK, NoSavepoint
<1>4. Shapes
  BY DEF Shapes, NoSavepoint
<1>5. \A t \in Txns : Visible(t) = <<>>
  BY SeqEmpty, SeqDomain DEF Visible
<1>6. VisibleIntact
  BY <1>2, <1>5 DEF VisibleIntact, ChainVerifies
<1>7. SavepointsSound
  <2>1. \A t \in Txns : pending[t] = <<>> /\ saved[t] = NoSavepoint
    OBVIOUS
  <2>2. \A t \in Txns : Len(pending[t]) = 0
    BY <2>1, SeqEmpty
  <2>3. ASSUME NEW t \in Txns
        PROVE  saved[t].rows = 0 /\ saved[t].rows <= Len(pending[t])
    <3>1. saved[t].rows = 0
      BY <2>1 DEF NoSavepoint
    <3> HIDE DEF Init
    <3> QED
      BY <3>1, <2>2
  <2> HIDE DEF Init
  <2> QED
    BY <2>3 DEF SavepointsSound
<1>8. HolderOnly /\ TailCurrent /\ NoCollision /\ CheckpointsHold /\ VerifiedSome
  BY DEF HolderOnly, TailCurrent, NoCollision, CheckpointsHold, VerifiedSome
<1> QED
  BY <1>1, <1>3, <1>4, <1>6, <1>7, <1>8 DEF IInv

\* Steps that leave every row where it is: the chain everyone sees is the same.
LEMMA SameRows ==
  ASSUME IInv, UNCHANGED <<table, pending>>
  PROVE  Sequences_' /\ VisibleIntact' /\ \A t \in Txns : Visible(t)' = Visible(t)
BY DEF IInv, Sequences_, VisibleIntact, Visible

\* BEGIN keeps the invariant: it opens a transaction with no rows of its own.
LEMMA BeginInv ==
  ASSUME IInv, NEW t \in Txns, Begin(t)
  PROVE  IInv'
<1> USE DEF Begin
<1>1. Sequences_' /\ VisibleIntact' /\ \A u \in Txns : Visible(u)' = Visible(u)
  BY SameRows
<1>2. TypeOK' /\ Shapes'
  BY DEF IInv, TypeOK, Shapes
<1>3. HolderOnly' /\ NoCollision'
  BY DEF IInv, TypeOK, HolderOnly, NoCollision
<1>4. TailCurrent'
  BY <1>1 DEF IInv, TypeOK, TailCurrent
<1>5. SavepointsSound' /\ CheckpointsHold' /\ VerifiedSome'
  BY DEF IInv, SavepointsSound, CheckpointsHold, VerifiedSome
<1> QED
  BY <1>1, <1>2, <1>3, <1>4, <1>5 DEF IInv

\* Taking the chain's advisory lock and reading its tail keeps the invariant: what
\* was read stays the tail for as long as the lock is held.
LEMMA LockAndReadInv ==
  ASSUME IInv, NEW t \in Txns, LockAndRead(t)
  PROVE  IInv'
<1> USE DEF LockAndRead
<1>1. Sequences_' /\ VisibleIntact' /\ \A u \in Txns : Visible(u)' = Visible(u)
  BY SameRows
<1>2. TypeOK' /\ Shapes'
  BY DEF IInv, TypeOK, Shapes
<1>3. HolderOnly'
  BY ChainAssumption DEF IInv, TypeOK, HolderOnly
<1>4. NoCollision'
  BY DEF IInv, TypeOK, NoCollision
<1>5. TailCurrent'
  BY <1>1 DEF IInv, TypeOK, Shapes, TailCurrent
<1>6. SavepointsSound' /\ CheckpointsHold' /\ VerifiedSome'
  BY DEF IInv, SavepointsSound, CheckpointsHold, VerifiedSome
<1> QED
  BY <1>1, <1>2, <1>3, <1>4, <1>5, <1>6 DEF IInv

\* The INSERT of an event keeps the invariant: its row extends the chain that its
\* transaction sees, whose tail it read under the lock.
LEMMA InsertEventInv ==
  ASSUME IInv, NEW t \in Txns, NEW type \in EventTypes, InsertEvent(t, type)
  PROVE  IInv'
<1> DEFINE row == Row(tail[t], type)
<1>0. /\ pc[t] = "reading" /\ lock = t /\ tail[t] = TailOf(Visible(t))
      /\ IsSeq(table) /\ IsSeq(pending[t]) /\ IsSeq(Visible(t)) /\ ChainVerifies(Visible(t))
  BY SeqConcat DEF IInv, InsertEvent, HolderOnly, TailCurrent, Sequences_, VisibleIntact, Visible
<1>1. row.seq = SequenceNo(TailOf(Visible(t))) /\ row.type = type
  BY <1>0 DEF Row
<1>2. ~KeyTaken(row.seq, Visible(t)) /\ row.seq = Len(Visible(t)) + 1
  BY <1>0, <1>1, FreeNumber DEF SequenceNo
<1>3. /\ pc' = [pc EXCEPT ![t] = "open"]
      /\ pending' = [pending EXCEPT ![t] = Append(@, row)]
      /\ UNCHANGED <<table, tail, saved, lock, verified, checkpoints>>
  BY <1>2 DEF InsertEvent
<1> HIDE DEF row
<1>4. /\ pending'[t] = Append(pending[t], row)
      /\ \A u \in Txns \ {t} : pending'[u] = pending[u]
  BY <1>3 DEF IInv, Shapes
<1>5. Sequences_'
  BY <1>3, <1>4, <1>0, SeqAppend DEF IInv, Sequences_
<1>6. Shapes'
  BY <1>3 DEF IInv, Shapes
<1>7. /\ Len(pending[t]) \in Nat
      /\ DOMAIN pending[t] = 1..Len(pending[t])
      /\ DOMAIN pending'[t] = 1..(Len(pending[t]) + 1)
      /\ \A i \in 1..Len(pending[t]) : pending'[t][i] = pending[t][i]
      /\ pending'[t][Len(pending[t]) + 1] = row
      /\ Len(pending'[t]) = Len(pending[t]) + 1
  BY <1>0, <1>4, SeqAppend, SeqDomain
<1>8. TypeOK'
  <2>1. row.seq \in Nat \ {0} /\ row.type \in EventTypes
    BY <1>0, <1>1, <1>2, SeqDomain
  <2>2. ASSUME NEW u \in Txns, NEW i \in DOMAIN pending'[u]
        PROVE  pending'[u][i].seq \in Nat \ {0} /\ pending'[u][i].type \in EventTypes
    BY SMTT(30), <2>1, <1>4, <1>7 DEF IInv, TypeOK
  <2> QED
    BY <2>2, <1>3 DEF IInv, TypeOK
<1>9. VisibleIntact'
  <2>1. Visible(t)' = table \o pending'[t]
    BY <1>3 DEF Visible
  <2>2. /\ IsSeq(Visible(t)') /\ Len(Visible(t)') = Len(Visible(t)) + 1
        /\ \A i \in 1..Len(Visible(t)) : Visible(t)'[i] = Visible(t)[i]
        /\ Visible(t)'[Len(Visible(t)) + 1] = row
    <3>1. IsSeq(pending'[t])
      BY <1>5 DEF Sequences_
    <3>2. /\ IsSeq(table \o pending'[t])
          /\ Len(table \o pending'[t]) = Len(table) + Len(pending'[t])
          /\ \A i \in 1..Len(table) : (table \o pending'[t])[i] = table[i]
          /\ \A i \in (Len(table) + 1)..(Len(table) + Len(pending'[t])) :
               (table \o pending'[t])[i] = pending'[t][i - Len(table)]
      BY <3>1, <1>0, SeqConcat
    <3>3. /\ Len(Visible(t)) = Len(table) + Len(pending[t])
          /\ \A i \in 1..Len(table) : Visible(t)[i] = table[i]
          /\ \A i \in (Len(table) + 1)..(Len(table) + Len(pending[t])) :
               Visible(t)[i] = pending[t][i - Len(table)]
      BY <1>0, SeqConcat DEF Visible
    <3>4. Len(table) \in Nat
      BY <1>0, SeqDomain
    <3>5. ASSUME NEW i \in 1..Len(Visible(t))
          PROVE  Visible(t)'[i] = Visible(t)[i]
      <4>1. CASE i <= Len(table)
        BY <4>1, <3>2, <3>3, <3>4, <2>1, <1>7
      <4>2. CASE i > Len(table)
        <5>1. i \in (Len(table) + 1)..(Len(table) + Len(pending[t])) /\ i - Len(table) \in 1..Len(pending[t])
          BY <4>2, <3>3, <3>4, <1>7
        <5> QED
          BY <5>1, <3>2, <3>3, <3>4, <2>1, <1>7
      <4> QED
        BY <4>1, <4>2, <3>3, <3>4, <1>7
    <3> QED
      BY SMTT(30), <3>2, <3>3, <3>4, <3>5, <2>1, <1>7
  <2>3. ChainVerifies(Visible(t)')
    BY <2>2, <1>0, ExtendChain DEF row
  <2>4. \A u \in Txns \ {t} : Visible(u)' = Visible(u)
    BY <1>3, <1>4 DEF Visible
  <2> QED
    BY <2>3, <2>4, <1>3 DEF IInv, VisibleIntact, ChainVerifies, RowVerifies
<1>10. HolderOnly' /\ NoCollision'
  BY <1>0, <1>3, <1>4 DEF IInv, TypeOK, HolderOnly, NoCollision
<1>11. TailCurrent'
  BY <1>3, <1>4 DEF IInv, TypeOK, TailCurrent, Visible
<1>12. SavepointsSound' /\ CheckpointsHold' /\ VerifiedSome'
  BY <1>3, <1>4, <1>7 DEF IInv, Shapes, SavepointsSound, CheckpointsHold, VerifiedSome
<1> QED
  BY <1>5, <1>6, <1>8, <1>9, <1>10, <1>11, <1>12 DEF IInv

\* Opening a savepoint keeps the invariant: it remembers a prefix of the rows.
LEMMA SavepointInv ==
  ASSUME IInv, NEW t \in Txns, Savepoint(t) \/ ReleaseSavepoint(t)
  PROVE  IInv'
<1>1. /\ pc[t] = "open" /\ UNCHANGED <<table, pending, pc, tail, lock, verified, checkpoints>>
      /\ \/ saved' = [saved EXCEPT ![t] =
              [open |-> TRUE, rows |-> Len(pending[t]), holder |-> IF lock = t THEN t ELSE NoTxn]]
         \/ saved' = [saved EXCEPT ![t] = NoSavepoint]
  BY DEF Savepoint, ReleaseSavepoint
<1>2. Sequences_' /\ VisibleIntact' /\ \A u \in Txns : Visible(u)' = Visible(u)
  BY <1>1, SameRows
<1>3. Len(pending[t]) \in Nat /\ (lock # t => Len(pending[t]) = 0)
  BY SeqDomain DEF IInv, Sequences_, HolderOnly
<1>4. saved' \in [Txns -> [open : BOOLEAN, rows : Nat, holder : Txns \cup {NoTxn}]]
  <2>1. NoSavepoint \in [open : BOOLEAN, rows : Nat, holder : Txns \cup {NoTxn}]
    BY DEF NoSavepoint
  <2>2. [open |-> TRUE, rows |-> Len(pending[t]), holder |-> IF lock = t THEN t ELSE NoTxn]
          \in [open : BOOLEAN, rows : Nat, holder : Txns \cup {NoTxn}]
    BY <1>3 DEF IInv, TypeOK
  <2> QED
    BY <1>1, <2>1, <2>2 DEF IInv, Shapes
<1>9. Shapes'
  BY <1>1, <1>4 DEF IInv, Shapes
<1>5. TypeOK'
  BY <1>1, <1>9 DEF IInv, TypeOK, Shapes
<1>6. HolderOnly' /\ NoCollision' /\ CheckpointsHold' /\ VerifiedSome'
  BY <1>1 DEF IInv, HolderOnly, NoCollision, CheckpointsHold, VerifiedSome
<1>7. TailCurrent'
  BY <1>1, <1>2 DEF IInv, TailCurrent
<1>8. SavepointsSound'
  <2>1. saved'[t].rows <= Len(pending[t]) /\ (saved'[t].holder # t => saved'[t].rows = 0)
    <3>1. CASE saved'[t] = [open |-> TRUE, rows |-> Len(pending[t]), holder |-> IF lock = t THEN t ELSE NoTxn]
      <4>1. saved'[t].rows = Len(pending[t]) /\ (lock = t => saved'[t].holder = t)
        BY <3>1
      <4> QED
        BY <4>1, <1>3
    <3>2. CASE saved'[t] = NoSavepoint
      <4>1. saved'[t].rows = 0
        BY <3>2 DEF NoSavepoint
      <4> QED
        BY <4>1, <1>3
    <3> QED
      BY <3>1, <3>2, <1>1 DEF IInv, Shapes
  <2> QED
    BY <2>1, <1>1 DEF IInv, Shapes, SavepointsSound
<1> QED
  BY <1>2, <1>9, <1>5, <1>6, <1>7, <1>8 DEF IInv

\* ROLLBACK TO SAVEPOINT keeps the invariant: rows written after the savepoint go,
\* and with them a lock taken after it.
LEMMA RollbackToSavepointInv ==
  ASSUME IInv, NEW t \in Txns, RollbackToSavepoint(t)
  PROVE  IInv'
<1> DEFINE n == saved[t].rows
<1>0. /\ n \in Nat /\ n <= Len(pending[t]) /\ (saved[t].holder # t => n = 0)
      /\ IsSeq(table) /\ IsSeq(pending[t])
      /\ IsSeq(Visible(t)) /\ ChainVerifies(Visible(t))
  BY SeqConcat DEF IInv, Shapes, SavepointsSound, Sequences_, VisibleIntact, Visible
<1>1. /\ pending' = [pending EXCEPT ![t] = SubSeq(@, 1, n)]
      /\ lock' = IF lock = t /\ saved[t].holder # t THEN NoTxn ELSE lock
      /\ saved' = [saved EXCEPT ![t] = NoSavepoint]
      /\ pc' = [pc EXCEPT ![t] = "open"]
      /\ UNCHANGED <<table, tail, verified, checkpoints>>
  BY DEF RollbackToSavepoint
<1> HIDE DEF n
<1>2. /\ pending'[t] = SubSeq(pending[t], 1, n)
      /\ \A u \in Txns \ {t} : pending'[u] = pending[u]
  BY <1>1 DEF IInv, Shapes
<1>3. /\ IsSeq(pending'[t]) /\ Len(pending'[t]) = n /\ Len(pending[t]) \in Nat
      /\ DOMAIN pending[t] = 1..Len(pending[t]) /\ DOMAIN pending'[t] = 1..n
      /\ \A i \in 1..n : pending'[t][i] = pending[t][i]
  BY <1>0, <1>2, SeqCut, SeqDomain
<1>4. Sequences_'
  BY <1>1, <1>2, <1>3 DEF IInv, Sequences_
<1>5. Shapes'
  BY <1>1 DEF IInv, Shapes, NoSavepoint
<1>6. TypeOK'
  <2>1. ASSUME NEW u \in Txns, NEW i \in DOMAIN pending'[u]
        PROVE  pending'[u][i].seq \in Nat \ {0} /\ pending'[u][i].type \in EventTypes
    <3>1. CASE u = t
      BY <3>1, <1>0, <1>3 DEF IInv, TypeOK
    <3>2. CASE u # t
      BY <3>2, <1>2 DEF IInv, TypeOK
    <3> QED
      BY <3>1, <3>2
  <2>2. lock' \in Txns \cup {NoTxn}
    BY <1>1 DEF IInv, TypeOK
  <2>3. \A u \in Txns : saved'[u].rows \in Nat
    BY <1>5 DEF Shapes
  <2> QED
    BY <2>1, <2>2, <2>3, <1>1 DEF IInv, TypeOK
<1>7. VisibleIntact'
  <2>1. Visible(t)' = table \o pending'[t]
    BY <1>1 DEF Visible
  <2>2. /\ IsSeq(table \o pending'[t])
        /\ Len(table \o pending'[t]) = Len(table) + n
        /\ \A i \in 1..Len(table) : (table \o pending'[t])[i] = table[i]
        /\ \A i \in (Len(table) + 1)..(Len(table) + n) :
             (table \o pending'[t])[i] = pending'[t][i - Len(table)]
    BY <1>3, <1>0, SeqConcat
  <2>3. /\ Len(Visible(t)) = Len(table) + Len(pending[t])
        /\ \A i \in 1..Len(table) : Visible(t)[i] = table[i]
        /\ \A i \in (Len(table) + 1)..(Len(table) + Len(pending[t])) :
             Visible(t)[i] = pending[t][i - Len(table)]
    BY <1>0, SeqConcat DEF Visible
  <2>4. Len(table) \in Nat
    BY <1>0, SeqDomain
  <2>5. ASSUME NEW i \in 1..(Len(table) + n)
        PROVE  (table \o pending'[t])[i] = Visible(t)[i]
    <3>1. CASE i <= Len(table)
      BY <3>1, <2>2, <2>3, <2>4, <1>0
    <3>2. CASE i > Len(table)
      <4>1. /\ i \in (Len(table) + 1)..(Len(table) + n)
            /\ i \in (Len(table) + 1)..(Len(table) + Len(pending[t]))
            /\ i - Len(table) \in 1..n
        BY <3>2, <2>4, <1>0, <1>3
      <4> QED
        BY <4>1, <2>2, <2>3, <1>3
    <3>3. i <= Len(table) \/ i > Len(table)
      BY <2>4, <1>0
    <3> QED
      BY <3>1, <3>2, <3>3
  <2>6. Len(table) + n <= Len(Visible(t))
    BY <2>3, <2>4, <1>0, <1>3
  <2>7. ChainVerifies(Visible(t)')
    BY <2>1, <2>2, <2>5, <2>6, <1>0, CutChain
  <2>8. \A u \in Txns \ {t} : Visible(u)' = Visible(u)
    BY <1>1, <1>2 DEF Visible
  <2> QED
    BY <2>7, <2>8, <1>1 DEF IInv, VisibleIntact, ChainVerifies, RowVerifies
<1>8. HolderOnly'
  <2>1. ASSUME NEW u \in Txns, pending'[u] # <<>> \/ pc'[u] = "reading"
        PROVE  lock' = u
    <3>1. CASE u = t
      <4>1. n # 0
        BY <2>1, <3>1, <1>1, <1>3, SeqDomain DEF IInv, TypeOK
      <4>2. saved[t].holder = t /\ pending[t] # <<>>
        BY <4>1, <1>0, <1>3, SeqEmpty
      <4> QED
        BY <4>2, <3>1, <1>1 DEF IInv, HolderOnly
    <3>2. CASE u # t
      <4>1. lock = u
        BY <2>1, <3>2, <1>1, <1>2 DEF IInv, TypeOK, HolderOnly
      <4> QED
        BY <4>1, <3>2, <1>1
    <3> QED
      BY <3>1, <3>2
  <2> QED
    BY <2>1 DEF HolderOnly
<1>9. NoCollision'
  BY <1>1 DEF IInv, TypeOK, NoCollision
<1>10. TailCurrent'
  BY <1>1, <1>2 DEF IInv, TypeOK, TailCurrent, Visible
<1>11. SavepointsSound'
  <2>1. saved'[t] = NoSavepoint
    BY <1>1 DEF IInv, Shapes
  <2>2. saved'[t].rows = 0
    BY <2>1 DEF NoSavepoint
  <2>3. saved'[t].rows <= Len(pending'[t])
    BY <2>2, <1>0, <1>3
  <2> QED
    BY <2>2, <2>3, <1>1, <1>2 DEF IInv, Shapes, SavepointsSound
<1>12. CheckpointsHold' /\ VerifiedSome'
  BY <1>1 DEF IInv, CheckpointsHold, VerifiedSome
<1> QED
  BY <1>4, <1>5, <1>6, <1>7, <1>8, <1>9, <1>10, <1>11, <1>12 DEF IInv

\* The parts of the invariant that do not read the rows, at the end of a
\* transaction.
LEMMA EndInv ==
  ASSUME IInv, NEW t \in Txns, End(t)
  PROVE  /\ pending'[t] = <<>> /\ pc'[t] = "idle"
         /\ \A u \in Txns \ {t} : pending'[u] = pending[u] /\ pc'[u] = pc[u]
         /\ pc' \in [Txns -> {"idle", "open", "reading", "failed"}]
         /\ lock' \in Txns \cup {NoTxn}
         /\ \A u \in Txns : IsSeq(pending'[u])
         /\ Shapes' /\ HolderOnly' /\ SavepointsSound' /\ NoCollision'
<1>1. /\ pending' = [pending EXCEPT ![t] = <<>>]
      /\ lock' = IF lock = t THEN NoTxn ELSE lock
      /\ saved' = [saved EXCEPT ![t] = NoSavepoint]
      /\ pc' = [pc EXCEPT ![t] = "idle"]
      /\ UNCHANGED tail
  BY DEF End
<1>2. /\ pending'[t] = <<>> /\ pc'[t] = "idle"
      /\ \A u \in Txns \ {t} : pending'[u] = pending[u] /\ pc'[u] = pc[u]
      /\ pc' \in [Txns -> {"idle", "open", "reading", "failed"}]
  BY <1>1 DEF IInv, Shapes, TypeOK
<1>3. lock' \in Txns \cup {NoTxn}
  BY <1>1 DEF IInv, TypeOK
<1>4. \A u \in Txns : IsSeq(pending'[u])
  BY <1>2, SeqEmpty DEF IInv, Sequences_
<1>5. Shapes'
  <2>1. NoSavepoint \in [open : BOOLEAN, rows : Nat, holder : Txns \cup {NoTxn}]
    BY DEF NoSavepoint
  <2> QED
    BY <2>1, <1>1 DEF IInv, Shapes
<1>6. HolderOnly'
  BY <1>1, <1>2 DEF IInv, HolderOnly
<1>7. SavepointsSound'
  <2>1. saved'[t] = NoSavepoint /\ \A u \in Txns \ {t} : saved'[u] = saved[u]
    BY <1>1 DEF IInv, Shapes
  <2>2. saved'[t].rows = 0
    BY <2>1 DEF NoSavepoint
  <2>3. saved'[t].rows <= Len(pending'[t])
    BY <2>2, <1>2, SeqEmpty
  <2> QED
    BY <2>1, <2>2, <2>3, <1>2 DEF IInv, SavepointsSound
<1>8. NoCollision'
  BY <1>2 DEF IInv, NoCollision
<1> QED
  BY <1>2, <1>3, <1>4, <1>5, <1>6, <1>7, <1>8

\* A commit makes the chain its transaction saw the chain everyone sees.
LEMMA CommitInv ==
  ASSUME IInv, NEW t \in Txns, Commit(t)
  PROVE  IInv' /\ table' = Visible(t)
<1> USE EndInv
<1>1. /\ End(t) /\ table' = Visible(t) /\ UNCHANGED <<tail, verified, checkpoints>>
      /\ IsSeq(table) /\ IsSeq(pending[t]) /\ IsSeq(table')
  BY SeqConcat DEF IInv, Commit, End, Visible, Sequences_
<1>2. Sequences_'
  BY <1>1 DEF Sequences_
<1>3. /\ Len(table) \in Nat /\ Len(pending[t]) \in Nat
      /\ DOMAIN table = 1..Len(table) /\ DOMAIN pending[t] = 1..Len(pending[t])
      /\ DOMAIN table' = 1..(Len(table) + Len(pending[t]))
      /\ \A i \in 1..Len(table) : table'[i] = table[i]
      /\ \A i \in (Len(table) + 1)..(Len(table) + Len(pending[t])) :
           table'[i] = pending[t][i - Len(table)]
  BY <1>1, SeqConcat, SeqDomain DEF Visible
<1>4. \A u \in Txns : DOMAIN pending'[u] \subseteq DOMAIN pending[u]
                        /\ \A i \in DOMAIN pending'[u] : pending'[u][i] = pending[u][i]
  <2>1. DOMAIN pending'[t] = {}
    BY <1>1, SeqDomain, SeqEmpty
  <2> QED
    BY <2>1, <1>1
<1>5. TypeOK'
  <2>1. ASSUME NEW i \in DOMAIN table'
        PROVE  table'[i].seq \in Nat \ {0} /\ table'[i].type \in EventTypes
    <3>1. CASE i <= Len(table)
      BY <3>1, <1>3 DEF IInv, TypeOK
    <3>2. CASE i > Len(table)
      <4>1. i - Len(table) \in DOMAIN pending[t] /\ table'[i] = pending[t][i - Len(table)]
        BY <3>2, <1>3
      <4> QED
        BY <4>1 DEF IInv, TypeOK
    <3>3. i <= Len(table) \/ i > Len(table)
      BY <1>3
    <3> QED
      BY <3>1, <3>2, <3>3
  <2>2. \A u \in Txns : \A i \in DOMAIN pending'[u] :
          pending'[u][i].seq \in Nat \ {0} /\ pending'[u][i].type \in EventTypes
    BY <1>4 DEF IInv, TypeOK
  <2>3. \A u \in Txns : saved'[u].rows \in Nat
    BY <1>1 DEF Shapes
  <2> QED
    BY <2>1, <2>2, <2>3, <1>1 DEF IInv, TypeOK
<1>6. \A u \in Txns \ {t} : Visible(u)' = Visible(u) \/ Visible(u)' = table'
  <2> SUFFICES ASSUME NEW u \in Txns \ {t}
               PROVE  Visible(u)' = Visible(u) \/ Visible(u)' = table'
    OBVIOUS
  <2>1. CASE pending[t] = <<>>
    BY <2>1, <1>1, SeqDomain DEF Visible
  <2>2. CASE pending[t] # <<>>
    <3>1. pending[u] = <<>>
      BY <2>2 DEF IInv, HolderOnly
    <3> QED
      BY <3>1, <1>1, SeqDomain DEF Visible
  <2> QED
    BY <2>1, <2>2
<1>7. Visible(t)' = table'
  BY <1>1, SeqDomain DEF Visible
<1>8. VisibleIntact'
  <2>1. ChainVerifies(table')
    BY <1>1 DEF IInv, VisibleIntact
  <2>2. \A u \in Txns : ChainVerifies(Visible(u)')
    BY <2>1, <1>6, <1>7 DEF IInv, VisibleIntact
  <2> QED
    BY <2>1, <2>2 DEF VisibleIntact, ChainVerifies, RowVerifies
<1>9. TailCurrent'
  <2> SUFFICES ASSUME NEW u \in Txns, pc'[u] = "reading"
               PROVE  tail'[u] = TailOf(Visible(u)')
    BY DEF TailCurrent, TailOf
  <2>1. u # t /\ pc[u] = "reading"
    BY <1>1
  <2>2. pending[t] = <<>>
    BY <2>1 DEF IInv, HolderOnly
  <2>3. Visible(u)' = Visible(u)
    BY <2>1, <2>2, <1>1, SeqDomain DEF Visible
  <2> QED
    BY <2>1, <2>3, <1>1 DEF IInv, TailCurrent
<1>10. CheckpointsHold' /\ VerifiedSome'
  BY SMTT(30), <1>1, <1>3 DEF IInv, CheckpointsHold, VerifiedSome
<1> QED
  BY <1>1, <1>2, <1>5, <1>8, <1>9, <1>10 DEF IInv

\* A rollback keeps the invariant: the chain everyone else sees is untouched.
LEMMA RollbackInv ==
  ASSUME IInv, NEW t \in Txns, Rollback(t)
  PROVE  IInv'
<1> USE EndInv
<1>1. End(t) /\ UNCHANGED <<table, tail, verified, checkpoints>> /\ IsSeq(table)
  BY DEF IInv, Rollback, End, Sequences_
<1>2. Sequences_'
  BY <1>1 DEF Sequences_
<1>3. \A u \in Txns : DOMAIN pending'[u] \subseteq DOMAIN pending[u]
                        /\ \A i \in DOMAIN pending'[u] : pending'[u][i] = pending[u][i]
  <2>1. DOMAIN pending'[t] = {}
    BY <1>1, SeqDomain, SeqEmpty
  <2> QED
    BY <2>1, <1>1
<1>4. TypeOK'
  <2>1. \A u \in Txns : \A i \in DOMAIN pending'[u] :
          pending'[u][i].seq \in Nat \ {0} /\ pending'[u][i].type \in EventTypes
    BY <1>3 DEF IInv, TypeOK
  <2>2. \A u \in Txns : saved'[u].rows \in Nat
    BY <1>1 DEF Shapes
  <2> QED
    BY <2>1, <2>2, <1>1 DEF IInv, TypeOK
<1>5. Visible(t)' = table /\ \A u \in Txns \ {t} : Visible(u)' = Visible(u)
  BY <1>1, SeqDomain DEF Visible
<1>6. VisibleIntact'
  BY <1>1, <1>5 DEF IInv, VisibleIntact, ChainVerifies, RowVerifies
<1>7. TailCurrent'
  BY <1>1, <1>5 DEF IInv, TailCurrent
<1>8. CheckpointsHold' /\ VerifiedSome'
  BY <1>1 DEF IInv, CheckpointsHold, VerifiedSome
<1> QED
  BY <1>1, <1>2, <1>4, <1>6, <1>7, <1>8 DEF IInv

\* A verification keeps the invariant: it only reports on the committed chain.
LEMMA VerifyChainInv ==
  ASSUME IInv, VerifyChain
  PROVE  IInv'
<1> USE DEF VerifyChain
<1>1. Sequences_' /\ VisibleIntact' /\ \A u \in Txns : Visible(u)' = Visible(u)
  BY SameRows
<1>2. Len(table) \in Nat
  BY SeqDomain DEF IInv, Sequences_
<1>3. TypeOK' /\ Shapes'
  BY <1>2 DEF IInv, TypeOK, Shapes
<1>6. VerifiedSome'
  BY <1>2, SeqDomain DEF IInv, Sequences_, VerifiedSome
<1>4. HolderOnly' /\ NoCollision' /\ SavepointsSound' /\ CheckpointsHold'
  BY DEF IInv, HolderOnly, NoCollision, SavepointsSound, CheckpointsHold, VerifiedSome
<1>5. TailCurrent'
  BY <1>1 DEF IInv, TailCurrent
<1> QED
  BY <1>1, <1>3, <1>4, <1>5, <1>6 DEF IInv

\* A chain that verified is not empty, so the row read for the checkpoint exists.
LEMMA CreateCheckpointInv ==
  ASSUME IInv, CreateCheckpoint
  PROVE  IInv'
<1> USE DEF CreateCheckpoint
<1>1. Sequences_' /\ VisibleIntact' /\ \A u \in Txns : Visible(u)' = Visible(u)
  BY SameRows
<1>2. Len(table) \in DOMAIN table
  BY SeqDomain DEF IInv, Sequences_, VerifiedSome
<1>3. TypeOK' /\ Shapes'
  BY DEF IInv, TypeOK, Shapes
<1>4. HolderOnly' /\ NoCollision' /\ SavepointsSound'
  BY DEF IInv, HolderOnly, NoCollision, SavepointsSound
<1>5. TailCurrent'
  BY <1>1 DEF IInv, TailCurrent
<1>6. CheckpointsHold' /\ VerifiedSome'
  BY <1>2 DEF IInv, CheckpointsHold, VerifiedSome, TailOf
<1> QED
  BY <1>1, <1>3, <1>4, <1>5, <1>6 DEF IInv

\* A step that changes no variable keeps the invariant.
LEMMA StutterInv ==
  ASSUME IInv, UNCHANGED vars
  PROVE  IInv'
<1> USE DEF vars
<1>1. Sequences_' /\ VisibleIntact' /\ \A u \in Txns : Visible(u)' = Visible(u)
  BY SameRows
<1>2. TypeOK' /\ Shapes'
  BY DEF IInv, TypeOK, Shapes
<1>3. HolderOnly' /\ NoCollision' /\ SavepointsSound' /\ CheckpointsHold' /\ VerifiedSome'
  BY DEF IInv, HolderOnly, NoCollision, SavepointsSound, CheckpointsHold, VerifiedSome
<1>4. TailCurrent'
  BY <1>1 DEF IInv, TailCurrent
<1> QED
  BY <1>1, <1>2, <1>3, <1>4 DEF IInv

\* Every step of every transaction keeps the inductive invariant.
LEMMA StepIInv == IInv /\ [Next]_vars => IInv'
<1> SUFFICES ASSUME IInv, [Next]_vars PROVE IInv'
  OBVIOUS
<1>1. ASSUME NEW t \in Txns,
             \/ Begin(t) \/ LockAndRead(t)
             \/ \E type \in EventTypes : InsertEvent(t, type)
             \/ Savepoint(t) \/ ReleaseSavepoint(t) \/ RollbackToSavepoint(t)
             \/ Commit(t) \/ Rollback(t)
      PROVE  IInv'
  BY <1>1, BeginInv, LockAndReadInv, InsertEventInv, SavepointInv,
     RollbackToSavepointInv, CommitInv, RollbackInv
<1> QED
  BY <1>1, VerifyChainInv, CreateCheckpointInv, StutterInv DEF Next

\* Every reachable state satisfies the inductive invariant.
THEOREM Inductive == Spec => []IInv
BY InitIInv, StepIInv, PTL DEF Spec

\* Type correctness of the chain's state.
THEOREM TypeCorrect == Spec => []TypeOK
<1>1. IInv => TypeOK
  BY DEF IInv
<1> QED
  BY <1>1, Inductive, PTL

\* BR-18: the committed chain always verifies, gapless and in commit order.
THEOREM ChainIsIntact == Spec => []ChainIntact
<1>1. IInv => ChainIntact
  BY DEF IInv, VisibleIntact, ChainIntact
<1> QED
  BY <1>1, Inductive, PTL

\* No INSERT of record_event ever meets its unique constraint.
THEOREM NobodyCollides == Spec => []NoCollision
<1>1. IInv => NoCollision
  BY DEF IInv
<1> QED
  BY <1>1, Inductive, PTL

\* Every checkpoint names a committed row by its number and hash, for ever.
THEOREM CheckpointsAreSound == Spec => []CheckpointsHold
<1>1. IInv => CheckpointsHold
  BY DEF IInv
<1> QED
  BY <1>1, Inductive, PTL

\* What any step does to the committed chain: nothing, or it adds rows at its
\* end, numbered on from it.
LEMMA TableGrows ==
  ASSUME IInv, [Next]_vars
  PROVE  /\ IsSeq(table) /\ IsSeq(table')
         /\ ChainVerifies(table) /\ ChainVerifies(table')
         /\ Len(table) <= Len(table')
         /\ \A i \in 1..Len(table) : table'[i] = table[i]
<1>1. IInv'
  BY StepIInv
<1>2. /\ IsSeq(table) /\ IsSeq(table') /\ ChainVerifies(table) /\ Len(table) \in Nat
      /\ ChainVerifies(table')
  BY <1>1, SeqDomain DEF IInv, Sequences_, VisibleIntact, ChainVerifies, RowVerifies
<1>3. CASE UNCHANGED table
  BY <1>2, <1>3
<1>4. CASE \E t \in Txns : Commit(t)
  <2>1. PICK t \in Txns : Commit(t)
    BY <1>4
  <2>2. table' = table \o pending[t] /\ IsSeq(pending[t])
    BY <2>1 DEF Commit, IInv, Sequences_
  <2>3. Len(pending[t]) \in Nat
    BY <2>2, SeqDomain
  <2> QED
    BY <1>2, <2>2, <2>3, SeqConcat
<1>5. UNCHANGED table \/ \E t \in Txns : Commit(t)
  BY DEF Next, vars, Begin, LockAndRead, InsertEvent, Savepoint, ReleaseSavepoint,
         RollbackToSavepoint, Rollback, VerifyChain, CreateCheckpoint
<1> QED
  BY <1>3, <1>4, <1>5

\* A reader that has seen a sequence number has seen the chain up to it.
THEOREM NothingArrivesLate == Spec => NoLateArrival
<1>1. ASSUME IInv, [Next]_vars
      PROVE  \A i \in DOMAIN table' : i > Len(table) =>
               \A j \in DOMAIN table : table[j].seq < table'[i].seq
  <2>1. /\ DOMAIN table = 1..Len(table) /\ DOMAIN table' = 1..Len(table')
        /\ Len(table) \in Nat /\ Len(table') \in Nat
    BY <1>1, TableGrows, SeqDomain
  <2>2. /\ \A j \in DOMAIN table : table[j].seq = j
        /\ \A i \in DOMAIN table' : table'[i].seq = i
    BY <1>1, TableGrows DEF ChainVerifies, RowVerifies
  <2> QED
    BY <2>1, <2>2
<1> QED
  BY <1>1, Inductive, PTL DEF Spec, NoLateArrival

LEMMA SameStart ==
  ASSUME NEW S, NEW s \in Seq(S), NEW u \in Seq(S), Len(s) <= Len(u),
         \A i \in 1..Len(s) : u[i] = s[i]
  PROVE  SubSeq(s, 1, Len(s)) = SubSeq(u, 1, Len(s))
<1> DEFINE a == SubSeq(s, 1, Len(s))
           b == SubSeq(u, 1, Len(s))
<1>1. a \in Seq(S) /\ Len(a) = Len(s) /\ \A i \in 1..Len(s) : a[i] = s[i]
  OBVIOUS
<1>2. b \in Seq(S) /\ Len(b) = Len(s) /\ \A i \in 1..Len(s) : b[i] = u[i]
  OBVIOUS
<1> HIDE DEF a, b
<1>3. a = b
  BY <1>1, <1>2, SeqEqual
<1> QED
  BY <1>3 DEF a, b

\* The chain read by number implements the log its readers rely on.
THEOREM ChainImplementsLog == Spec => ImplementsLog
<1> DEFINE log == [n \in 1..Len(table) |-> TypeOfNumber(n)]
<1>1. Init => Promise!Init
  <2> SUFFICES ASSUME Init PROVE log = <<>>
    BY DEF Promise!Init
  <2>1. Len(table) = 0
    BY SeqEmpty DEF Init
  <2> QED
    BY <2>1
<1>2. ASSUME IInv, [Next]_vars
      PROVE  [Promise!Next]_log
  <2>1. /\ IsSeq(table) /\ IsSeq(table') /\ ChainVerifies(table) /\ ChainVerifies(table')
        /\ Len(table) <= Len(table')
        /\ \A i \in 1..Len(table) : table'[i] = table[i]
        /\ Len(table) \in Nat /\ DOMAIN table = 1..Len(table)
        /\ Len(table') \in Nat /\ DOMAIN table' = 1..Len(table')
    BY <1>2, TableGrows, SeqDomain
  <2>2. \A n \in 1..Len(table) : TypeOfNumber(n) = table[n].type
    BY <2>1 DEF TypeOfNumber, ChainVerifies, RowVerifies
  <2>3. \A n \in 1..Len(table') : TypeOfNumber(n)' = table'[n].type
    BY <2>1 DEF TypeOfNumber, ChainVerifies, RowVerifies
  <2>4. /\ log \in Seq(EventTypes) /\ log' \in Seq(EventTypes)
        /\ Len(log) = Len(table) /\ Len(log') = Len(table')
        /\ DOMAIN log' = 1..Len(table')
        /\ \A n \in 1..Len(log) : log'[n] = log[n]
    <3>1. \A n \in 1..Len(table) : TypeOfNumber(n) \in EventTypes
      BY <1>2, <2>1, <2>2 DEF IInv, TypeOK
    <3>2. TypeOK'
      BY <1>2, StepIInv DEF IInv
    <3>3. \A n \in 1..Len(table') : TypeOfNumber(n)' \in EventTypes
      BY <3>2, <2>1, <2>3 DEF TypeOK
    <3> QED
      BY <3>1, <3>3, <2>1, <2>2, <2>3
  <2> HIDE DEF log
  <2>5. Promise!IsPrefix(log, log')
    BY <2>1, <2>4, SameStart DEF Promise!IsPrefix
  <2>6. \A i \in DOMAIN log' : log'[i] \in EventTypes
    BY <2>4
  <2> QED
    BY <2>5, <2>6 DEF Promise!Next, log
<1> QED
  BY <1>1, <1>2, Inductive, PTL DEF Spec, ImplementsLog, Promise!Spec
=============================================================================
