------------------------ MODULE LimitsAndNotices_proofs ------------------------
(***************************************************************************)
(* The two parts of the platform that people answer for by name: who may   *)
(* put a limit in force, and who is told when one is breached.  Neither    *)
(* module shares a variable with the other.                                *)
(*                                                                         *)
(* Limits.  For any number of users, requests, configurations and acts: a  *)
(* draft is left by an approval only, and a live limit has the             *)
(* configuration its last approver signed, unless an edit that had loaded  *)
(* the draft was overtaken by that approval.  The properties speak of the  *)
(* history.  What links them to the code is that the last act says what    *)
(* the row is (Told): every edit, whatever it had loaded, then has the     *)
(* row's status before it, and WriteBack shows which stale columns can     *)
(* survive into the next row (EditedRow).                                  *)
(*                                                                         *)
(* Notifications.  For any number of workers, reviewers, alarms, grants    *)
(* and failures: the high-water cursor passes no alarm without a row, nor  *)
(* a recipient who held the permission all along; the table has one row    *)
(* for each alarm and recipient, and the trail one event for each row.     *)
(* What is recorded is closed downwards (Covered), because a worker works  *)
(* through the alarms above a cursor it read in order, and what it does    *)
(* not have in its queue was recorded before (ReadingSound): whatever      *)
(* other workers record meanwhile only helps it.  An alarm is recorded     *)
(* whole, because nobody is lost between the recipients resolved, the      *)
(* outcomes and the rows of the transaction (Counted).  Rows in flight     *)
(* never collide at the commit, because an INSERT waits for the end of     *)
(* whoever holds its key (Apart).  The same invariant says which circles   *)
(* of waits there are: those that DeadlockVictim breaks.                   *)
(***************************************************************************)
EXTENDS LimitGovernance, NotificationCursor, SequenceTheorems, FiniteSetTheorems,
        NaturalsInduction, WellFoundedInduction, TLAPS

-----------------------------------------------------------------------------
(* Limits: the inductive invariant. *)

ActTypes == [act : {"DEFINE", "CHANGE", "APPROVE"}, actor : Users, base : Statuses,
             overtaken : BOOLEAN, config : Configs, status : Statuses]

\* The last act left the row as it is, and nothing was loaded from a later one.
Told ==
  /\ acts \in Seq(ActTypes) /\ Len(acts) <= MaxActs
  /\ limit = {} => acts = <<>>
  /\ \A row \in limit : /\ acts # <<>>
                        /\ acts[Len(acts)].config = row.config /\ acts[Len(acts)].status = row.status
  /\ \A p \in Requests : \A old \in loaded[p] : old.record_version <= Len(acts)

IInv == TypeOK /\ Told /\ DraftLeftByApproval /\ LiveAsSignedUnlessOvertaken

-----------------------------------------------------------------------------
(* Limits: lemmas. *)

\* What an appended act changes.
LEMMA AppendedAct ==
  ASSUME NEW s \in Seq(ActTypes), NEW a \in ActTypes
  PROVE  /\ Append(s, a) \in Seq(ActTypes) /\ Append(s, a) # <<>>
         /\ Len(s) \in Nat /\ Len(Append(s, a)) = Len(s) + 1
         /\ DOMAIN s = 1 .. Len(s) /\ DOMAIN Append(s, a) = 1 .. Len(s) + 1
         /\ \A i \in 1 .. Len(s) : Append(s, a)[i] = s[i]
         /\ Append(s, a)[Len(s) + 1] = a
         /\ s = <<>> <=> Len(s) = 0
BY AppendProperties, LenProperties, EmptySeq

\* A commit keeps the history true, provided a draft is left by an approval, and what stays live
\* keeps its configuration or was edited by a request that had loaded another row, a draft.
LEMMA CommitKeeps ==
  ASSUME IInv, NEW act \in {"DEFINE", "CHANGE", "APPROVE"}, NEW u \in Users, NEW old \in Rows, NEW new \in Rows,
         Committed(act, u, old, new), new.record_version <= Len(acts) + 1,
         loaded' \in [Requests -> SUBSET Rows], caller' \in [Requests -> Users \cup {NoUser}],
         \A p \in Requests : \/ loaded'[p] = loaded[p] /\ caller'[p] = caller[p]
                             \/ loaded'[p] = {} /\ caller'[p] = NoUser,
         \A r \in limit : r.status = "DRAFT" /\ new.status # "DRAFT" => act = "APPROVE",
         new.status # "DRAFT" /\ act # "APPROVE" =>
            \E r \in limit : /\ r.status # "DRAFT"
                             /\ new.config = r.config \/ (old.status = "DRAFT" /\ r # old)
  PROVE  IInv'
<1> USE DEF IInv
<1> DEFINE n == Len(acts)
           a == [act |-> act, actor |-> u, base |-> old.status, overtaken |-> limit \notin {{}, {old}},
                 config |-> new.config, status |-> new.status]
<1>1. a \in ActTypes
  BY DEF ActTypes, Rows
<1>2. limit' = {new} /\ acts' = Append(acts, a) /\ n < MaxActs
  BY DEF Committed
<1>3. PICK b \in ActTypes : b = a
  BY <1>1
<1>4. /\ acts' \in Seq(ActTypes) /\ acts' # <<>> /\ n \in Nat /\ Len(acts') = n + 1
      /\ DOMAIN acts = 1 .. n /\ DOMAIN acts' = 1 .. n + 1
      /\ \A i \in 1 .. n : acts'[i] = acts[i]
      /\ acts'[n + 1] = b
      /\ acts = <<>> <=> n = 0
  BY <1>2, <1>3, AppendedAct DEF Told
<1>5. /\ b.act = act /\ b.base = old.status /\ b.config = new.config /\ b.status = new.status
      /\ b.overtaken = (limit \notin {{}, {old}})
  BY <1>3
<1> HIDE DEF a
<1>6. TypeOK'
  <2>1. \A row \in limit' : row.record_version <= Len(acts')
    BY <1>2, <1>4
  <2>2. AtMostOne(limit)' /\ \A p \in Requests : AtMostOne(loaded[p])' /\ (loaded'[p] = {} <=> caller'[p] = NoUser)
    BY <1>2 DEF TypeOK, AtMostOne
  <2> QED
    BY <1>2, <2>1, <2>2 DEF TypeOK
<1>7. Told'
  <2>1. \A p \in Requests : \A o \in loaded'[p] : o.record_version <= n
    BY DEF Told
  <2>2. \A p \in Requests : \A o \in loaded'[p] : o.record_version \in Nat
    BY DEF Rows
  <2>3. MaxActs \in Nat
    BY GovernanceAssumption
  <2> QED
    BY <1>2, <1>4, <1>5, <2>1, <2>2, <2>3 DEF Told
<1>8. DraftLeftByApproval'
  <2> SUFFICES ASSUME NEW i \in 2 .. n + 1, acts'[i-1].status = "DRAFT", acts'[i].status # "DRAFT"
               PROVE  acts'[i].act = "APPROVE"
    BY <1>4 DEF DraftLeftByApproval
  <2>1. CASE i \in 2 .. n
    <3>1. acts'[i-1] = acts[i-1] /\ acts'[i] = acts[i]
      BY <1>4, <2>1
    <3> QED
      BY <2>1, <3>1 DEF DraftLeftByApproval
  <2>2. CASE i = n + 1
    <3>1. n \in 1 .. n /\ i - 1 = n
      BY <1>4, <2>2
    <3>2. acts'[n] = acts[n] /\ acts # <<>>
      BY <1>4, <3>1
    <3>3. PICK r \in limit : acts[n].status = r.status
      BY <3>2 DEF Told
    <3> QED
      BY <1>4, <1>5, <2>2, <3>1, <3>2, <3>3
  <2> QED
    BY <1>4, <2>1, <2>2
<1>9. LiveAsSignedUnlessOvertaken'
  <2> SUFFICES ASSUME new.status # "DRAFT"
               PROVE  \E i \in 1 .. n + 1 :
                         /\ IsLastApproval(i)'
                         /\ \/ new.config = acts'[i].config
                            \/ \E j \in (i+1) .. n + 1 : ChangedByOvertaken(j)'
    BY <1>2, <1>4 DEF LiveAsSignedUnlessOvertaken
  <2>1. CASE act = "APPROVE"
    <3>1. PICK last \in 1 .. n + 1 : last = n + 1
      BY <1>4
    <3>2. acts'[last] = b
      BY <1>4, <3>1
    <3>3. \A j \in (last+1) .. Len(acts') : FALSE
      BY <1>4, <3>1
    <3>4. IsLastApproval(last)'
      BY <1>5, <2>1, <3>2, <3>3 DEF IsLastApproval
    <3> QED
      BY <1>5, <3>2, <3>4
  <2>2. CASE act # "APPROVE"
    <3>1. PICK r \in limit : /\ r.status # "DRAFT"
                             /\ new.config = r.config \/ (old.status = "DRAFT" /\ r # old)
      BY <2>2
    <3>2. PICK i \in 1 .. n :
             /\ IsLastApproval(i)
             /\ r.config = acts[i].config \/ \E j \in (i+1) .. n : ChangedByOvertaken(j)
      BY <1>4, <3>1 DEF LiveAsSignedUnlessOvertaken
    <3>3. i \in 1 .. n + 1 /\ \A j \in (i+1) .. n + 1 : j \in (i+1) .. n \/ j = n + 1
      BY <1>4
    <3>4. IsLastApproval(i)'
      <4>1. \A j \in (i+1) .. n + 1 : acts'[j].act # "APPROVE"
        BY <1>4, <1>5, <2>2, <3>2, <3>3 DEF IsLastApproval
      <4> QED
        BY <1>4, <3>2, <4>1 DEF IsLastApproval
    <3>5. ASSUME NEW j \in (i+1) .. n, ChangedByOvertaken(j) PROVE ChangedByOvertaken(j)'
      <4>1. acts'[j] = acts[j] /\ acts'[j-1] = acts[j-1]
        BY <1>4, <3>2, <3>5
      <4> QED
        BY <3>5, <4>1 DEF ChangedByOvertaken
    <3>6. CASE \E j \in (i+1) .. n : ChangedByOvertaken(j)
      <4>1. (i+1) .. n \subseteq (i+1) .. n + 1
        BY <1>4
      <4> QED
        BY <3>3, <3>4, <3>5, <3>6, <4>1
    <3>7. CASE r.config = acts[i].config /\ new.config = r.config
      BY <1>4, <3>2, <3>3, <3>4, <3>7
    <3>8. CASE new.config # r.config
      <4>1. old.status = "DRAFT" /\ r # old
        BY <3>1, <3>8
      <4>2. b.overtaken /\ b.base = "DRAFT"
        BY <1>5, <4>1
      <4>3. acts[n].config = r.config /\ n \in 1 .. n
        BY <1>4 DEF Told
      <4>4. PICK last \in (i+1) .. n + 1 : last = n + 1
        BY <1>4
      <4>5. acts'[last] = b /\ acts'[last - 1] = acts[n] /\ last - 1 = n
        BY <1>4, <4>3, <4>4
      <4>6. ChangedByOvertaken(last)'
        BY <1>5, <3>8, <4>2, <4>3, <4>5 DEF ChangedByOvertaken
      <4> QED
        BY <3>3, <3>4, <4>4, <4>6
    <3> QED
      BY <3>2, <3>6, <3>7, <3>8
  <2> QED
    BY <2>1, <2>2
<1> QED
  BY <1>6, <1>7, <1>8, <1>9

\* Nothing has been created or loaded.
LEMMA InitEstablishes == Init => IInv
<1> SUFFICES ASSUME Init PROVE IInv
  OBVIOUS
<1>1. acts = <<>> /\ Len(acts) = 0 /\ acts \in Seq(ActTypes) /\ DOMAIN acts = {}
  BY EmptySeq DEF Init
<1>2. Told
  BY <1>1, GovernanceAssumption DEF Init, Told
<1>3. DraftLeftByApproval /\ LiveAsSignedUnlessOvertaken
  BY <1>1 DEF Init, DraftLeftByApproval, LiveAsSignedUnlessOvertaken
<1>4. TypeOK
  BY DEF Init, TypeOK, AtMostOne
<1> QED
  BY <1>2, <1>3, <1>4 DEF IInv

\* The row an edit leaves: typed, and with the status and configuration it wrote where they differ
\* from what the request had loaded.
LEMMA EditedRow ==
  ASSUME NEW row \in Rows, NEW old \in Rows, NEW config \in Configs, NEW status \in Statuses, NEW u \in Users,
         old.record_version + 1 \in 1 .. MaxActs
  PROVE  LET new == WriteBack(row, old, Row(config, status, old.created_by, u, old.record_version + 1))
         IN  /\ new \in Rows
             /\ new.record_version = old.record_version + 1
             /\ new.config = IF config # old.config THEN config ELSE row.config
             /\ new.status = IF status # old.status THEN status ELSE row.status
<1> DEFINE written == Row(config, status, old.created_by, u, old.record_version + 1)
           new == WriteBack(row, old, written)
<1>1. /\ written.config = config /\ written.status = status /\ written.created_by = old.created_by
      /\ written.updated_by = u /\ written.record_version = old.record_version + 1
  BY DEF Row
<1>2. /\ DOMAIN row = {"config", "status", "created_by", "updated_by", "record_version"}
      /\ row.config \in Configs /\ row.status \in Statuses /\ row.created_by \in Users
      /\ row.updated_by \in Users \cup {NoUser} /\ old.record_version \in Nat
  BY GovernanceAssumption DEF Rows
<1>3. new = [f \in {"config", "status", "created_by", "updated_by", "record_version"} |->
               IF written[f] # old[f] THEN written[f] ELSE row[f]]
  BY <1>2 DEF WriteBack
<1>4. /\ new.config = IF config # old.config THEN config ELSE row.config
      /\ new.status = IF status # old.status THEN status ELSE row.status
      /\ new.created_by = row.created_by
      /\ new.updated_by = IF u # old.updated_by THEN u ELSE row.updated_by
      /\ new.record_version = IF old.record_version + 1 # old.record_version
                              THEN old.record_version + 1 ELSE row.record_version
  BY <1>1, <1>3
<1>5. old.record_version + 1 # old.record_version
  BY <1>2
<1>6. new = [config |-> new.config, status |-> new.status, created_by |-> new.created_by,
             updated_by |-> new.updated_by, record_version |-> new.record_version]
  BY <1>3
<1> HIDE DEF new, written
<1>7. new \in Rows
  BY <1>2, <1>4, <1>5, <1>6 DEF Rows
<1> QED
  BY <1>4, <1>5, <1>7 DEF new, written

\* An edit that does not leave a draft by its status, and changes the configuration only by demoting.
LEMMA EditKeeps ==
  ASSUME IInv, NEW p \in Requests, NEW old \in loaded[p], NEW row \in limit,
         NEW config \in Configs, NEW status \in Statuses,
         Edit(p, old, row, config, status),
         row.status = "DRAFT" => status = "DRAFT",
         config # old.config => status = "DRAFT"
  PROVE  IInv'
<1> DEFINE new == WriteBack(row, old, Row(config, status, old.created_by, caller[p], old.record_version + 1))
<1>1. /\ row \in Rows /\ old \in Rows /\ caller[p] \in Users /\ limit = {row}
      /\ old.record_version <= Len(acts) /\ Len(acts) \in Nat /\ old.record_version \in Nat \ {0}
  <2>1. row \in Rows /\ old \in Rows /\ caller[p] \in Users /\ limit = {row}
    BY DEF IInv, TypeOK, AtMostOne
  <2> QED
    BY <2>1, LenProperties DEF IInv, Told, Rows
<1>2. Committed("CHANGE", caller[p], old, new) /\ Answer(p)
  BY DEF Edit
<1>3. old.record_version + 1 \in 1 .. MaxActs
  BY <1>1, <1>2, GovernanceAssumption DEF Committed
<1>4. /\ new \in Rows
      /\ new.record_version = old.record_version + 1
      /\ new.config = IF config # old.config THEN config ELSE row.config
      /\ new.status = IF status # old.status THEN status ELSE row.status
  BY <1>1, <1>3, EditedRow
<1> HIDE DEF new
<1>5. new.record_version <= Len(acts) + 1
  BY <1>1, <1>4
<1>6. /\ loaded' \in [Requests -> SUBSET Rows] /\ caller' \in [Requests -> Users \cup {NoUser}]
      /\ \A q \in Requests : \/ loaded'[q] = loaded[q] /\ caller'[q] = caller[q]
                             \/ loaded'[q] = {} /\ caller'[q] = NoUser
  BY <1>2 DEF Answer, IInv, TypeOK
<1>7. new.status # "DRAFT" =>
         /\ row.status # "DRAFT"
         /\ new.config = row.config \/ (old.status = "DRAFT" /\ row # old)
  BY <1>4
<1>8. PICK u \in Users, o \in Rows, r \in Rows : u = caller[p] /\ o = old /\ r = new
  BY <1>1, <1>4
<1> QED
  BY <1>1, <1>2, <1>5, <1>6, <1>7, <1>8, CommitKeeps

\* Reading, answering and waiting change nothing that was committed.
LEMMA IdleSteps ==
  ASSUME IInv, \/ \E p \in Requests : GiveUp(p) \/ \E u \in Users : Load(p, u)
               \/ UNCHANGED vars
  PROVE  IInv'
<1> USE DEF IInv
<1>1. limit' = limit /\ acts' = acts
  BY DEF GiveUp, Load, vars
<1>2. /\ loaded' \in [Requests -> SUBSET Rows] /\ caller' \in [Requests -> Users \cup {NoUser}]
      /\ \A p \in Requests : \/ loaded'[p] = loaded[p] /\ caller'[p] = caller[p]
                             \/ loaded'[p] = {} /\ caller'[p] = NoUser
                             \/ loaded'[p] = limit /\ limit # {} /\ caller'[p] \in Users
  <2>1. CASE \E p \in Requests : GiveUp(p)
    BY <2>1 DEF GiveUp, Answer, TypeOK
  <2>2. CASE \E p \in Requests, u \in Users : Load(p, u)
    BY <2>2 DEF Load, TypeOK
  <2>3. CASE UNCHANGED vars
    BY <2>3 DEF vars, TypeOK
  <2> QED
    BY <2>1, <2>2, <2>3
<1>3. TypeOK'
  BY <1>1, <1>2, GovernanceAssumption DEF TypeOK, AtMostOne
<1>4. Told'
  BY <1>1, <1>2 DEF Told, TypeOK
<1>5. DraftLeftByApproval' /\ LiveAsSignedUnlessOvertaken'
  BY <1>1 DEF DraftLeftByApproval, LiveAsSignedUnlessOvertaken, IsLastApproval, ChangedByOvertaken
<1> QED
  BY <1>3, <1>4, <1>5

\* A limit is born a draft.
LEMMA CreateStep ==
  ASSUME IInv, NEW u \in Users, NEW config \in Configs, CreateLimit(u, config)
  PROVE  IInv'
<1> DEFINE new == Row(config, "DRAFT", u, NoUser, 1)
<1>1. limit = {} /\ Committed("DEFINE", u, new, new) /\ loaded' = loaded /\ caller' = caller
  BY DEF CreateLimit
<1>2. Len(acts) \in Nat /\ 1 \in 1 .. MaxActs
  BY <1>1, GovernanceAssumption, LenProperties DEF Committed, IInv, Told
<1>3. new \in Rows /\ new.status = "DRAFT" /\ new.record_version = 1
  BY <1>2 DEF Row, Rows, Statuses
<1> HIDE DEF new
<1>4. PICK r \in Rows : r = new
  BY <1>3
<1> QED
  BY <1>1, <1>2, <1>3, <1>4, CommitKeeps DEF IInv, TypeOK

\* approve_limit signs the row as it is under the lock.
LEMMA ApproveStep ==
  ASSUME IInv, NEW p \in Requests, ApproveLimit(p)
  PROVE  IInv'
<1>1. PICK old \in loaded[p], row \in limit :
         /\ Committed("APPROVE", caller[p], row, [row EXCEPT !.status = "ACTIVE", !.record_version = @ + 1])
         /\ Answer(p)
  BY DEF ApproveLimit
<1> DEFINE new == [row EXCEPT !.status = "ACTIVE", !.record_version = @ + 1]
<1>2. row \in Rows /\ caller[p] \in Users
  BY DEF IInv, TypeOK
<1>3. row.record_version \in Nat /\ row.record_version <= Len(acts) /\ Len(acts) \in Nat
  BY <1>2, LenProperties DEF IInv, TypeOK, Told, Rows
<1>4. row.record_version + 1 \in 1 .. MaxActs
  BY <1>1, <1>3, GovernanceAssumption DEF Committed
<1>5. new \in Rows /\ new.record_version = row.record_version + 1
  BY <1>2, <1>4 DEF Rows, Statuses
<1> HIDE DEF new
<1>6. new.record_version <= Len(acts) + 1
  BY <1>3, <1>5
<1>7. /\ loaded' \in [Requests -> SUBSET Rows] /\ caller' \in [Requests -> Users \cup {NoUser}]
      /\ \A q \in Requests : \/ loaded'[q] = loaded[q] /\ caller'[q] = caller[q]
                             \/ loaded'[q] = {} /\ caller'[q] = NoUser
  BY <1>1 DEF Answer, IInv, TypeOK
<1>8. PICK u \in Users, r \in Rows, o \in Rows : u = caller[p] /\ r = new /\ o = row
  BY <1>2, <1>5
<1>9. Committed("APPROVE", u, o, r)
  BY <1>1, <1>8 DEF new
<1> QED
  BY <1>6, <1>7, <1>8, <1>9, CommitKeeps

\* The invariant is inductive.
THEOREM Invariance == Spec => []IInv
<1>1. IInv /\ [Next]_vars => IInv'
  <2> SUFFICES ASSUME IInv, [Next]_vars PROVE IInv'
    OBVIOUS
  <2>1. ASSUME NEW p \in Requests, Rename(p) PROVE IInv'
    <3>1. PICK old \in loaded[p], row \in limit : Edit(p, old, row, old.config, row.status)
      BY <2>1 DEF Rename
    <3>2. old.config \in Configs /\ row.status \in Statuses
      BY DEF IInv, TypeOK, Rows
    <3>3. PICK config \in Configs, status \in Statuses : config = old.config /\ status = row.status
      BY <3>2
    <3> QED
      BY <3>1, <3>3, EditKeeps
  <2>2. ASSUME NEW p \in Requests, NEW config \in Configs, Reconfigure(p, config) PROVE IInv'
    <3>1. PICK old \in loaded[p], row \in limit :
             Edit(p, old, row, config, IF Demotes(old, row.status, config) THEN "DRAFT" ELSE row.status)
      BY <2>2 DEF Reconfigure
    <3>2. row.status \in Statuses
      BY DEF IInv, TypeOK, Rows
    <3>3. PICK status \in Statuses : status = IF Demotes(old, row.status, config) THEN "DRAFT" ELSE row.status
      BY <3>2 DEF Statuses
    <3>4. (row.status = "DRAFT" => status = "DRAFT") /\ (config # old.config => status = "DRAFT")
      BY <3>3 DEF Demotes
    <3> QED
      BY <3>1, <3>3, <3>4, EditKeeps
  <2>3. ASSUME NEW p \in Requests, NEW status \in {"ACTIVE", "SUSPENDED"}, Toggle(p, status) PROVE IInv'
    <3>1. PICK old \in loaded[p], row \in limit :
             row.status # "DRAFT" /\ Edit(p, old, row, old.config, status)
      BY <2>3 DEF Toggle, Toggleable
    <3>2. old.config \in Configs /\ status \in Statuses
      BY DEF IInv, TypeOK, Rows, Statuses
    <3>3. PICK config \in Configs : config = old.config
      BY <3>2
    <3> QED
      BY <3>1, <3>2, <3>3, EditKeeps
  <2> QED
    BY <2>1, <2>2, <2>3, CreateStep, ApproveStep, IdleSteps DEF Next
<1> QED
  BY <1>1, InitEstablishes, PTL DEF Spec

\* Every variable stays well typed, and an answered request holds no object.
THEOREM TypeCorrect == Spec => []TypeOK
BY Invariance, PTL DEF IInv

\* A draft is left by an approval only, whatever the requests had loaded (update_limit).
THEOREM DraftsAreApproved == Spec => []DraftLeftByApproval
BY Invariance, PTL DEF IInv

\* A live configuration was signed, unless an edit of the draft was overtaken by the approval
\* (update_limit and approve_limit).
THEOREM LiveIsSigned == Spec => []LiveAsSignedUnlessOvertaken
BY Invariance, PTL DEF IInv

-----------------------------------------------------------------------------
(* Notifications: the inductive invariant. *)

Handled(n) == \E r \in rows : r.seq = n

\* No alarm before a recorded one is left unrecorded.
Covered == \A n \in Alarms : \A r \in rows : n <= r.seq => Handled(n)

\* An alarm that is recorded is recorded for all who held the permission all along.
Whole == \A r \in rows : \A u \in permanent : \E q \in rows : q.seq = r.seq /\ q.who = u

\* uq_breach_notification_event_recipient, of the rows committed and in flight.
Apart ==
  /\ \A r, q \in rows : Key(r) = Key(q) => r = q
  /\ \A w \in Workers : \A r \in mine[w], q \in rows : Key(r) # Key(q)
  /\ \A w, v \in Workers : \A r \in mine[w], q \in mine[v] : Key(r) = Key(q) => w = v /\ r = q

Dispatches == {n \in DOMAIN log : log[n] = "DISPATCH"}
OneEventPerRow == IsFiniteSet(rows) /\ Cardinality(Dispatches) = Cardinality(rows)

\* What w has left out of its reading of the trail is recorded.
ReadingSound(w) ==
  /\ pc[w] = "polling" => \A n \in Alarms : n <= cursor[w] => Handled(n)
  /\ \A n \in Alarms : \A m \in queue[w] : n < m => n \in queue[w] \/ Handled(n)

\* u is to be told about the alarm under way, or has been and is owed a row, or has it.
Counted(w, u) ==
  \/ u \in todo[w]
  \/ \E o \in outcomes[w] : o.who = u
  \/ \E r \in mine[w] : r.who = u

\* The alarm under way concerns somebody, and all who held the permission all along; between
\* transactions nothing is left of one.
InHand(w) == pc[w] \in {"notifying", "emitting"}
WorkSound(w) ==
  /\ pc[w] \in {"idle", "polling"} => queue[w] = {}
  /\ InHand(w) => /\ queue[w] # {}
                  /\ \E u \in Reviewers \cup {Sentinel} : Counted(w, u)
                  /\ \A u \in permanent : Counted(w, u)
  /\ ~InHand(w) => todo[w] = {} /\ outcomes[w] = {} /\ mine[w] = {}

\* The rows of one transaction are about different people.
OwnKeys(w) ==
  /\ IsFiniteSet(mine[w])
  /\ \A o, p \in outcomes[w] : o.who = p.who => o = p
  /\ \A o \in outcomes[w] : o.who \notin todo[w]
  /\ \A r \in mine[w] : r.who \notin todo[w] /\ \A o \in outcomes[w] : o.who # r.who

\* Whoever has recorded a row and its event has the chain's lock, and nobody else; by then
\* everybody has been delivered to.
Locked(w) ==
  /\ pc[w] = "emitting" => mine[w] # {}
  /\ mine[w] # {} /\ pc[w] = "notifying" => lock = w
  /\ lock = w => mine[w] # {}
  /\ mine[w] # {} => todo[w] = {}

WorkerSound(w) == ReadingSound(w) /\ WorkSound(w) /\ OwnKeys(w) /\ Locked(w)

CursorIInv ==
  /\ CursorTypeOK /\ Covered /\ Whole /\ Apart /\ OneEventPerRow
  /\ \A w \in Workers : WorkerSound(w)

-----------------------------------------------------------------------------
(* Lemmas about numbers, the trail and the rows. *)

\* A set of numbers has a least one, and Min is it.
LEMMA LeastNumber ==
  ASSUME NEW S \in SUBSET Nat, S # {}
  PROVE  Min(S) \in S /\ \A n \in S : Min(S) <= n
<1> DEFINE R == {pair \in Nat \X Nat : pair[1] < pair[2]}
<1>1. IsWellFoundedOn(R, Nat)
  BY NatLessThanWellFounded DEF OpToRel
<1>2. PICK m \in S : \A n \in S : ~ (<<n, m>> \in R)
  BY <1>1, WFMin
<1>3. \A n \in S : ~ (n < m)
  BY <1>2
<1>4. \A n \in S : m <= n
  <2>1. \A n \in S : n \in Nat
    OBVIOUS
  <2> QED
    BY <1>3, <2>1
<1> QED
  BY <1>4 DEF Min

\* A bounded one has a largest, and Max is it.
LEMMA LargestNumber ==
  ASSUME NEW b \in Nat, NEW S \in SUBSET (0 .. b), S # {}
  PROVE  Max(S) \in S /\ \A n \in S : n <= Max(S)
<1> DEFINE below == {b - n : n \in S}
<1>1. below \in SUBSET Nat /\ below # {}
  <2>1. \A n \in S : n \in Nat /\ n <= b
    OBVIOUS
  <2>2. \A n \in S : b - n \in Nat
    BY <2>1
  <2> QED
    BY <2>2
<1> HIDE DEF below
<1>2. Min(below) \in below /\ \A d \in below : Min(below) <= d
  BY <1>1, LeastNumber
<1>3. PICK m \in S : Min(below) = b - m
  BY <1>2 DEF below
<1>4. ASSUME NEW n \in S PROVE n <= m
  <2>1. b - n \in below /\ n \in Nat /\ m \in Nat
    BY DEF below
  <2> QED
    BY <1>2, <1>3, <2>1
<1>5. \E x \in S : \A n \in S : x >= n
  <2>1. \A n \in S : n \in Nat
    OBVIOUS
  <2> QED
    BY <1>4, <2>1
<1>6. Max(S) \in S /\ \A n \in S : Max(S) >= n
  BY <1>5 DEF Max
<1> QED
  BY <1>6

\* The trail is a log of numbered events.
LEMMA TrailFacts ==
  ASSUME CursorTypeOK
  PROVE  /\ Len(log) \in Nat /\ DOMAIN log = 1 .. Len(log)
         /\ Alarms \subseteq 1 .. Len(log) /\ Dispatches \subseteq 1 .. Len(log)
         /\ \A n \in Alarms : n \in Nat
BY LenProperties DEF CursorTypeOK, Alarms, Dispatches

\* The cursor is a place in the trail, and no row is above it.
LEMMA HighWaterFacts ==
  ASSUME CursorTypeOK
  PROVE  /\ HighWater(rows) \in 0 .. Len(log)
         /\ \A r \in rows : r.seq <= HighWater(rows)
         /\ rows = {} => HighWater(rows) = 0
         /\ rows # {} => \E r \in rows : r.seq = HighWater(rows)
<1> DEFINE S == {r.seq : r \in rows}
<1>1. Len(log) \in Nat /\ S \subseteq 1 .. Len(log)
  BY TrailFacts DEF CursorTypeOK, NoticeRows
<1>2. CASE rows = {}
  BY <1>1, <1>2 DEF HighWater
<1>3. CASE rows # {}
  <2>1. S \in SUBSET (0 .. Len(log)) /\ S # {}
    BY <1>1, <1>3
  <2>2. HighWater(rows) = Max(S)
    BY <1>3 DEF HighWater
  <2> HIDE DEF S
  <2>3. Max(S) \in S /\ \A n \in S : n <= Max(S)
    BY <1>1, <2>1, LargestNumber
  <2>4. Max(S) \in 0 .. Len(log)
    BY <2>1, <2>3
  <2> QED
    BY <1>3, <2>2, <2>3, <2>4 DEF S
<1> QED
  BY <1>2, <1>3

\* The alarm under way is the first of the queue.
LEMMA EventFacts ==
  ASSUME CursorTypeOK, NEW w \in Workers, queue[w] # {}
  PROVE  Event(w) \in queue[w] /\ Event(w) \in Alarms /\ \A n \in queue[w] : Event(w) <= n
<1>1. queue[w] \in SUBSET Alarms
  BY DEF CursorTypeOK
<1>2. queue[w] \in SUBSET Nat
  BY <1>1, TrailFacts
<1> QED
  BY <1>1, <1>2, LeastNumber DEF Event

\* The next recipient is the first of those to deliver to.
LEMMA RecipientFacts ==
  ASSUME CursorTypeOK, NEW w \in Workers, todo[w] # {}
  PROVE  Min(todo[w]) \in todo[w] /\ Min(todo[w]) \in Reviewers /\ Min(todo[w]) # Sentinel
<1>1. todo[w] \in SUBSET Reviewers /\ Reviewers \subseteq Nat \ {0}
  BY CursorAssumption DEF CursorTypeOK
<1>2. todo[w] \in SUBSET Nat
  BY <1>1
<1> QED
  BY <1>1, <1>2, LeastNumber DEF Sentinel

\* The next row is about the alarm under way and somebody who has been told about it.
LEMMA NextRowFacts ==
  ASSUME CursorTypeOK, NEW w \in Workers, outcomes[w] # {}, queue[w] # {}
  PROVE  /\ NextOutcome(w) \in outcomes[w]
         /\ NextRow(w) \in NoticeRows /\ NextRow(w).seq = Event(w) /\ NextRow(w).who = NextOutcome(w).who
<1> DEFINE ids == {o.who : o \in outcomes[w]}
<1>1. outcomes[w] \subseteq Outcomes
  BY DEF CursorTypeOK
<1>2. Reviewers \cup {Sentinel} \subseteq Nat
  BY CursorAssumption DEF Sentinel
<1>3. ids \in SUBSET Nat /\ ids # {}
  BY <1>1, <1>2 DEF Outcomes
<1>4. PICK id \in ids : \A other \in ids : id <= other
  BY <1>3, LeastNumber
<1>5. PICK o \in outcomes[w] : o.who = id
  BY <1>4
<1>6. \A other \in outcomes[w] : o.who <= other.who
  BY <1>4, <1>5
<1>7. NextOutcome(w) \in outcomes[w]
  BY <1>6 DEF NextOutcome
<1>8. PICK next \in Outcomes : next = NextOutcome(w)
  BY <1>1, <1>7
<1>9. Event(w) \in Alarms
  BY EventFacts
<1> QED
  BY <1>7, <1>8, <1>9 DEF NextRow, RowFor, NoticeRows, Outcomes

\* What publishing does to the trail: the events committed keep their numbers.
LEMMA PublishFacts ==
  ASSUME CursorTypeOK, NEW batch \in Seq(EventTypes), Trail!Publish(batch)
  PROVE  /\ log' \in Seq(EventTypes) /\ Len(log') = Len(log) + Len(batch) /\ Len(batch) \in Nat
         /\ \A n \in 1 .. Len(log) : log'[n] = log[n]
         /\ \A n \in 1 .. Len(batch) : log'[Len(log) + n] = batch[n]
         /\ Alarms \subseteq Alarms'
         /\ \A n \in Alarms' : n \in Alarms \/ n > Len(log)
<1>1. log' = log \o batch /\ log \in Seq(EventTypes)
  BY DEF Trail!Publish, CursorTypeOK
<1>2. /\ log' \in Seq(EventTypes) /\ Len(log') = Len(log) + Len(batch)
      /\ \A i \in 1 .. Len(log) + Len(batch) :
            log'[i] = IF i <= Len(log) THEN log[i] ELSE batch[i - Len(log)]
  BY <1>1, ConcatProperties
<1>3. Len(log) \in Nat /\ Len(batch) \in Nat /\ DOMAIN log = 1 .. Len(log)
  BY <1>1, LenProperties
<1>4. DOMAIN log' = 1 .. Len(log) + Len(batch)
  BY <1>2, LenProperties
<1>5. \A n \in 1 .. Len(log) : log'[n] = log[n]
  BY <1>2, <1>3
<1>6. \A n \in 1 .. Len(batch) : log'[Len(log) + n] = batch[n]
  <2> SUFFICES ASSUME NEW n \in 1 .. Len(batch) PROVE log'[Len(log) + n] = batch[n]
    OBVIOUS
  <2>1. Len(log) + n \in 1 .. Len(log) + Len(batch) /\ ~(Len(log) + n <= Len(log)) /\ (Len(log) + n) - Len(log) = n
    BY <1>3
  <2> QED
    BY <1>2, <2>1
<1>7. \A n \in DOMAIN log' : n \in DOMAIN log \/ n > Len(log)
  BY <1>3, <1>4
<1>8. DOMAIN log \subseteq DOMAIN log'
  BY <1>3, <1>4
<1> QED
  BY <1>2, <1>3, <1>5, <1>6, <1>7, <1>8 DEF Alarms

-----------------------------------------------------------------------------
(* What a step of one worker leaves alone. *)

Places == {"idle", "polling", "next", "notifying", "emitting"}

\* At most what is worker w's own has changed of what is the workers' own.
OnlyMoves(w) ==
  /\ pc' \in [Workers -> Places] /\ cursor' \in [Workers -> 0 .. Len(log)]
  /\ queue' \in [Workers -> SUBSET Alarms] /\ todo' \in [Workers -> SUBSET Reviewers]
  /\ outcomes' \in [Workers -> SUBSET Outcomes] /\ mine' \in [Workers -> SUBSET NoticeRows]
  /\ \A v \in Workers \ {w} :
        /\ pc'[v] = pc[v] /\ cursor'[v] = cursor[v] /\ queue'[v] = queue[v]
        /\ todo'[v] = todo[v] /\ outcomes'[v] = outcomes[v] /\ mine'[v] = mine[v]

\* The trail is extended, the rows are added to, and nobody holds the permission differently.
WorldGrows ==
  /\ log' \in Seq(EventTypes) /\ Len(log') \in Nat /\ Len(log) <= Len(log')
  /\ Alarms \subseteq Alarms' /\ \A n \in Alarms' : n \in Alarms \/ n > Len(log)
  /\ rows \subseteq rows' /\ permanent' = permanent

\* A worker whose own variables do not change keeps its part of the invariant.
LEMMA BystanderKeeps ==
  ASSUME CursorTypeOK, NEW v \in Workers, WorkerSound(v), WorldGrows, lock' = v <=> lock = v,
         pc'[v] = pc[v], cursor'[v] = cursor[v], queue'[v] = queue[v],
         todo'[v] = todo[v], outcomes'[v] = outcomes[v], mine'[v] = mine[v]
  PROVE  WorkerSound(v)'
<1>1. cursor[v] <= Len(log) /\ cursor[v] \in Nat /\ Len(log) \in Nat /\ queue[v] \subseteq Alarms
  BY TrailFacts DEF CursorTypeOK
<1>2. Alarms \subseteq 1 .. Len(log)
  BY TrailFacts
<1>3. \A n : Handled(n) => Handled(n)'
  BY DEF Handled, WorldGrows
<1>4. ReadingSound(v)'
  <2>0. \A n \in Alarms' : n \in Nat
    BY LenProperties DEF WorldGrows, Alarms
  <2>1. ASSUME NEW n \in Alarms', pc[v] = "polling", n <= cursor[v] PROVE Handled(n)'
    <3>1. n \in Alarms
      BY <1>1, <2>0, <2>1 DEF WorldGrows
    <3> QED
      BY <1>3, <2>1, <3>1 DEF WorkerSound, ReadingSound
  <2>2. ASSUME NEW n \in Alarms', NEW m \in queue[v], n < m PROVE n \in queue[v] \/ Handled(n)'
    <3>1. m \in 1 .. Len(log)
      BY <1>1, <1>2
    <3>2. n \in Alarms
      BY <1>1, <2>0, <2>2, <3>1 DEF WorldGrows
    <3> QED
      BY <1>3, <2>2, <3>2 DEF WorkerSound, ReadingSound
  <2> QED
    BY <2>1, <2>2 DEF ReadingSound
<1>5. \A u : Counted(v, u)' <=> Counted(v, u)
  BY DEF Counted
<1>6. WorkSound(v)'
  BY <1>5 DEF WorkerSound, WorkSound, InHand, WorldGrows
<1>7. OwnKeys(v)' /\ Locked(v)'
  BY DEF WorkerSound, OwnKeys, Locked
<1> QED
  BY <1>4, <1>6, <1>7 DEF WorkerSound

\* A step of one worker, provided its own part and the parts about rows are kept.
LEMMA MoveKeeps ==
  ASSUME CursorIInv, NEW w \in Workers, OnlyMoves(w), WorldGrows, WorkerSound(w)',
         Covered', Whole', Apart', OneEventPerRow',
         rows' \subseteq NoticeRows, holders' = holders, changes' = changes, faults' \in 0 .. MaxFaults,
         lock' \in Workers \cup {Nobody}, \A v \in Workers \ {w} : lock' = v <=> lock = v,
         \A r \in mine'[w] : queue'[w] # {} /\ r.seq = Event(w)'
  PROVE  CursorIInv'
<1>1. CursorTypeOK
  BY DEF CursorIInv
<1>2. \A v \in Workers \ {w} : WorkerSound(v)'
  BY <1>1, BystanderKeeps DEF CursorIInv, OnlyMoves
<1>3. NoticeRows \subseteq NoticeRows' /\ 0 .. Len(log) \subseteq 0 .. Len(log')
  <2>1. Len(log) \in Nat /\ Len(log') \in Nat /\ Len(log) <= Len(log')
    BY <1>1, TrailFacts DEF WorldGrows
  <2> QED
    BY <2>1 DEF NoticeRows, WorldGrows
<1>4. ASSUME NEW v \in Workers, NEW r \in mine'[v]
      PROVE  queue'[v] # {} /\ r.seq = Event(v)'
  <2>1. CASE v = w
    BY <1>4, <2>1
  <2>2. CASE v # w
    BY <1>1, <1>4, <2>2 DEF OnlyMoves, CursorTypeOK, Event
  <2> QED
    BY <2>1, <2>2
<1>5. /\ pc' \in [Workers -> Places] /\ todo' \in [Workers -> SUBSET Reviewers]
      /\ outcomes' \in [Workers -> SUBSET Outcomes]
  BY DEF OnlyMoves
<1>6. cursor' \in [Workers -> 0 .. Len(log')]
  BY <1>3 DEF OnlyMoves
<1>7. queue' \in [Workers -> SUBSET Alarms'] /\ mine' \in [Workers -> SUBSET NoticeRows']
  BY <1>3 DEF OnlyMoves, WorldGrows
<1>8. CursorTypeOK'
  BY <1>1, <1>3, <1>4, <1>5, <1>6, <1>7 DEF CursorTypeOK, WorldGrows, Places
<1> QED
  BY <1>2, <1>8 DEF CursorIInv

\* A step that leaves the trail and the rows alone, committed or in flight, or gives rows up.
LEMMA QuietKeeps ==
  ASSUME CursorIInv, NEW w \in Workers, OnlyMoves(w), WorkerSound(w)',
         log' = log, rows' = rows, people' = people, changes' = changes, faults' \in 0 .. MaxFaults,
         lock' \in Workers \cup {Nobody}, \A v \in Workers \ {w} : lock' = v <=> lock = v,
         mine'[w] = {} \/ (mine'[w] = mine[w] /\ queue'[w] = queue[w])
  PROVE  CursorIInv'
<1>1. CursorTypeOK
  BY DEF CursorIInv
<1>2. Alarms' = Alarms /\ holders' = holders /\ permanent' = permanent
  BY DEF Alarms, people
<1>3. WorldGrows
  BY <1>1, <1>2, TrailFacts DEF WorldGrows, CursorTypeOK
<1>4. Covered' /\ Whole' /\ OneEventPerRow'
  BY <1>2 DEF CursorIInv, Covered, Whole, OneEventPerRow, Handled, Dispatches
<1>5. \A v \in Workers : mine'[v] \subseteq mine[v]
  BY DEF OnlyMoves
<1>6. Apart'
  BY <1>5 DEF CursorIInv, Apart, Key
<1>7. \A r \in mine'[w] : queue'[w] # {} /\ r.seq = Event(w)'
  BY <1>1 DEF CursorTypeOK, Event
<1>8. rows' \subseteq NoticeRows
  BY <1>1 DEF CursorTypeOK
<1> QED
  BY <1>2, <1>3, <1>4, <1>6, <1>7, <1>8, MoveKeeps

-----------------------------------------------------------------------------
(* The steps. *)

\* Nothing is raised, recorded or under way at the start.
LEMMA StartIsSound == CursorInit => CursorIInv
<1> SUFFICES ASSUME CursorInit PROVE CursorIInv
  OBVIOUS
<1>1. log = <<>> /\ log \in Seq(EventTypes) /\ Len(log) = 0 /\ DOMAIN log = {}
  BY EmptySeq, LenProperties DEF CursorInit, Trail!Init
<1>2. Alarms = {} /\ Dispatches = {}
  BY <1>1 DEF Alarms, Dispatches
<1>3. MaxChanges \in Nat /\ MaxFaults \in Nat /\ Nobody \notin Workers
  BY CursorAssumption
<1>4. CursorTypeOK
  BY <1>1, <1>2, <1>3 DEF CursorInit, CursorTypeOK
<1>5. \A w \in Workers : WorkerSound(w)
  BY <1>2, <1>3, FS_EmptySet DEF CursorInit, WorkerSound, ReadingSound, WorkSound, InHand, OwnKeys, Locked
<1>6. Covered /\ Whole /\ Apart /\ OneEventPerRow
  BY <1>2, FS_EmptySet DEF CursorInit, Covered, Whole, Apart, OneEventPerRow
<1> QED
  BY <1>4, <1>5, <1>6 DEF CursorIInv

\* The two statements of pending_alarm_events: between them the cursor only covers what is recorded.
LEMMA ReadCursorKeeps ==
  ASSUME CursorIInv, NEW w \in Workers, ReadCursor(w)
  PROVE  CursorIInv'
<1>1. CursorTypeOK
  BY DEF CursorIInv
<1>2. HighWater(rows) \in 0 .. Len(log)
  BY <1>1, HighWaterFacts
<1>3. OnlyMoves(w)
  BY <1>1, <1>2 DEF ReadCursor, OnlyMoves, CursorTypeOK, Places
<1>4. ASSUME NEW n \in Alarms, n <= HighWater(rows) PROVE Handled(n)
  <2>1. n \in Nat /\ n # 0
    BY <1>1, TrailFacts
  <2>2. PICK r \in rows : r.seq = HighWater(rows)
    BY <1>1, <1>4, <2>1, HighWaterFacts
  <2> QED
    BY <1>4, <2>2 DEF CursorIInv, Covered
<1>5. /\ pc[w] = "idle" /\ pc'[w] = "polling" /\ cursor'[w] = HighWater(rows)
      /\ log' = log /\ rows' = rows /\ lock' = lock /\ people' = people
      /\ queue' = queue /\ todo' = todo /\ outcomes' = outcomes /\ mine' = mine
      /\ changes' = changes /\ faults' = faults
  BY <1>1 DEF ReadCursor, CursorTypeOK
<1>6. queue[w] = {} /\ todo[w] = {} /\ outcomes[w] = {} /\ mine[w] = {} /\ lock # w
  BY <1>5 DEF CursorIInv, WorkerSound, WorkSound, InHand, Locked
<1>7. Alarms' = Alarms
  BY <1>5 DEF Alarms
<1>8. \A n : Handled(n)' <=> Handled(n)
  BY <1>5 DEF Handled
<1>9. ReadingSound(w)'
  BY <1>4, <1>5, <1>6, <1>7, <1>8 DEF ReadingSound
<1>10. WorkSound(w)' /\ OwnKeys(w)' /\ Locked(w)'
  BY <1>5, <1>6, FS_EmptySet DEF WorkSound, InHand, OwnKeys, Locked
<1>11. faults' \in 0 .. MaxFaults /\ lock' \in Workers \cup {Nobody}
  BY <1>1, <1>5 DEF CursorTypeOK
<1> QED
  BY <1>3, <1>5, <1>6, <1>9, <1>10, <1>11, QuietKeeps DEF WorkerSound

LEMMA ReadQueueKeeps ==
  ASSUME CursorIInv, NEW w \in Workers, ReadQueue(w)
  PROVE  CursorIInv'
<1>1. CursorTypeOK
  BY DEF CursorIInv
<1> DEFINE Q == {n \in Alarms : n > cursor[w]}
<1>2. Q \subseteq Alarms /\ 0 \in 0 .. Len(log)
  BY <1>1, TrailFacts
<1>3. /\ pc[w] = "polling" /\ pc' = [pc EXCEPT ![w] = "next"]
      /\ queue' = [queue EXCEPT ![w] = Q] /\ cursor' = [cursor EXCEPT ![w] = 0]
      /\ log' = log /\ rows' = rows /\ lock' = lock /\ people' = people
      /\ todo' = todo /\ outcomes' = outcomes /\ mine' = mine
      /\ changes' = changes /\ faults' = faults
  BY DEF ReadQueue
<1>4. ASSUME NEW n \in Alarms PROVE n \in Q \/ Handled(n)
  <2>1. n > cursor[w] \/ n <= cursor[w]
    BY <1>1, TrailFacts DEF CursorTypeOK
  <2> QED
    BY <1>3, <2>1 DEF CursorIInv, WorkerSound, ReadingSound
<1> HIDE DEF Q
<1>5. OnlyMoves(w)
  BY <1>1, <1>2, <1>3 DEF OnlyMoves, CursorTypeOK, Places
<1>6. pc'[w] = "next" /\ queue'[w] = Q
  BY <1>1, <1>3 DEF CursorTypeOK
<1>7. todo[w] = {} /\ outcomes[w] = {} /\ mine[w] = {} /\ lock # w
  BY <1>3 DEF CursorIInv, WorkerSound, WorkSound, InHand, Locked
<1>8. Alarms' = Alarms
  BY <1>3 DEF Alarms
<1>9. \A n : Handled(n)' <=> Handled(n)
  BY <1>3 DEF Handled
<1>10. ReadingSound(w)'
  BY <1>4, <1>6, <1>8, <1>9 DEF ReadingSound
<1>11. WorkSound(w)' /\ OwnKeys(w)' /\ Locked(w)'
  BY <1>3, <1>6, <1>7, FS_EmptySet DEF WorkSound, InHand, OwnKeys, Locked
<1>12. faults' \in 0 .. MaxFaults /\ lock' \in Workers \cup {Nobody}
  BY <1>1, <1>3 DEF CursorTypeOK
<1> QED
  BY <1>3, <1>5, <1>7, <1>10, <1>11, <1>12, QuietKeeps DEF WorkerSound

LEMMA FinishKeeps ==
  ASSUME CursorIInv, NEW w \in Workers, Finish(w)
  PROVE  CursorIInv'
<1>1. CursorTypeOK
  BY DEF CursorIInv
<1>2. /\ pc[w] = "next" /\ pc' = [pc EXCEPT ![w] = "idle"] /\ queue[w] = {}
      /\ log' = log /\ rows' = rows /\ lock' = lock /\ people' = people /\ cursor' = cursor
      /\ queue' = queue /\ todo' = todo /\ outcomes' = outcomes /\ mine' = mine
      /\ changes' = changes /\ faults' = faults
  BY DEF Finish
<1>3. OnlyMoves(w)
  BY <1>1, <1>2 DEF OnlyMoves, CursorTypeOK, Places
<1>4. pc'[w] = "idle"
  BY <1>1, <1>2 DEF CursorTypeOK
<1>5. todo[w] = {} /\ outcomes[w] = {} /\ mine[w] = {} /\ lock # w
  BY <1>2 DEF CursorIInv, WorkerSound, WorkSound, InHand, Locked
<1>6. ReadingSound(w)' /\ WorkSound(w)' /\ OwnKeys(w)' /\ Locked(w)'
  BY <1>2, <1>4, <1>5, FS_EmptySet DEF ReadingSound, WorkSound, InHand, OwnKeys, Locked
<1>7. faults' \in 0 .. MaxFaults /\ lock' \in Workers \cup {Nobody}
  BY <1>1, <1>2 DEF CursorTypeOK
<1> QED
  BY <1>2, <1>3, <1>5, <1>6, <1>7, QuietKeeps DEF WorkerSound

\* notify_for_event resolves the holders: all who held the permission all along are among them.
LEMMA ResolveKeeps ==
  ASSUME CursorIInv, NEW w \in Workers, Resolve(w)
  PROVE  CursorIInv'
<1>1. CursorTypeOK
  BY DEF CursorIInv
<1> DEFINE nobody == [who |-> Sentinel, outcome |-> "SUPPRESSED"]
<1>2. nobody \in Outcomes
  BY DEF Outcomes
<1>3. /\ pc[w] = "next" /\ pc' = [pc EXCEPT ![w] = "notifying"] /\ queue[w] # {}
      /\ log' = log /\ rows' = rows /\ lock' = lock /\ people' = people /\ cursor' = cursor
      /\ queue' = queue /\ mine' = mine /\ changes' = changes /\ faults' = faults
  BY DEF Resolve
<1>4. todo[w] = {} /\ outcomes[w] = {} /\ mine[w] = {} /\ lock # w
  BY <1>3 DEF CursorIInv, WorkerSound, WorkSound, InHand, Locked
<1>5. PICK t \in SUBSET Reviewers, o \in SUBSET Outcomes :
        /\ todo' = [todo EXCEPT ![w] = t] /\ outcomes' = [outcomes EXCEPT ![w] = o]
        /\ \/ t = {} /\ o = {nobody} /\ holders = {}
           \/ t = holders /\ o = {} /\ holders # {}
  <2>1. CASE holders = {}
    <3>1. outcomes' = [outcomes EXCEPT ![w] = {nobody}] /\ todo' = todo
      BY <2>1 DEF Resolve
    <3>2. todo' = [todo EXCEPT ![w] = {}]
      BY <1>1, <1>4, <3>1 DEF CursorTypeOK
    <3> QED
      BY <1>2, <2>1, <3>1, <3>2
  <2>2. CASE holders # {}
    <3>1. todo' = [todo EXCEPT ![w] = holders] /\ outcomes' = outcomes
      BY <2>2 DEF Resolve
    <3>2. outcomes' = [outcomes EXCEPT ![w] = {}]
      BY <1>1, <1>4, <3>1 DEF CursorTypeOK
    <3>3. holders \in SUBSET Reviewers
      BY <1>1 DEF CursorTypeOK
    <3> QED
      BY <2>2, <3>1, <3>2, <3>3
  <2> QED
    BY <2>1, <2>2
<1>6. OnlyMoves(w)
  BY <1>1, <1>3, <1>5 DEF OnlyMoves, CursorTypeOK, Places
<1>7. pc'[w] = "notifying" /\ todo'[w] = t /\ outcomes'[w] = o
  BY <1>1, <1>3, <1>5 DEF CursorTypeOK
<1>8. Alarms' = Alarms /\ permanent' = permanent
  BY <1>3 DEF Alarms, people
<1>9. ReadingSound(w)'
  BY <1>3, <1>7, <1>8 DEF CursorIInv, WorkerSound, ReadingSound, Handled
<1>10. WorkSound(w)'
  <2>1. permanent \subseteq holders /\ holders \subseteq Reviewers
    BY <1>1 DEF CursorTypeOK
  <2>2. \E u \in Reviewers \cup {Sentinel} : Counted(w, u)'
    BY <1>5, <1>7 DEF Counted
  <2>3. \A u \in permanent : Counted(w, u)'
    BY <1>5, <1>7, <2>1 DEF Counted
  <2> QED
    BY <1>3, <1>7, <1>8, <2>2, <2>3 DEF WorkSound, InHand
<1> HIDE DEF nobody
<1>11. OwnKeys(w)' /\ Locked(w)'
  BY <1>3, <1>4, <1>5, <1>7, FS_EmptySet DEF OwnKeys, Locked
<1>12. faults' \in 0 .. MaxFaults /\ lock' \in Workers \cup {Nobody}
  BY <1>1, <1>3 DEF CursorTypeOK
<1> QED
  BY <1>3, <1>4, <1>6, <1>9, <1>10, <1>11, <1>12, QuietKeeps DEF WorkerSound

\* Phase A: whoever has been delivered to is owed a row.
LEMMA DeliverKeeps ==
  ASSUME CursorIInv, NEW w \in Workers, Deliver(w)
  PROVE  CursorIInv'
<1>1. CursorTypeOK
  BY DEF CursorIInv
<1>2. PICK x : x = Min(todo[w])
  OBVIOUS
<1>3. x \in todo[w] /\ x \in Reviewers
  BY <1>1, <1>2, RecipientFacts DEF Deliver, MayDeliver
<1>4. PICK oc \in {"SENT", "FAILED"} :
        outcomes' = [outcomes EXCEPT ![w] = @ \cup {[who |-> x, outcome |-> oc]}]
  BY <1>2 DEF Deliver
<1>5. PICK d \in Outcomes : d = [who |-> x, outcome |-> oc] /\ d.who = x
  <2>1. x \in Reviewers \cup {Sentinel} /\ oc \in {"SENT", "FAILED", "SUPPRESSED"}
    BY <1>3
  <2>2. [who |-> x, outcome |-> oc] \in Outcomes
    BY <2>1 DEF Outcomes
  <2> QED
    BY <2>2
<1>6. /\ pc[w] = "notifying"
      /\ todo' = [todo EXCEPT ![w] = todo[w] \ {x}]
      /\ outcomes' = [outcomes EXCEPT ![w] = outcomes[w] \cup {d}]
      /\ log' = log /\ rows' = rows /\ lock' = lock /\ people' = people /\ cursor' = cursor
      /\ pc' = pc /\ queue' = queue /\ mine' = mine /\ changes' = changes /\ faults' = faults
  BY <1>1, <1>2, <1>4, <1>5 DEF Deliver, CursorTypeOK
<1>7. OnlyMoves(w)
  BY <1>1, <1>6 DEF OnlyMoves, CursorTypeOK, Places
<1>8. todo'[w] = todo[w] \ {x} /\ outcomes'[w] = outcomes[w] \cup {d}
  BY <1>1, <1>6 DEF CursorTypeOK
<1>9. Alarms' = Alarms /\ permanent' = permanent
  BY <1>6 DEF Alarms, people
<1>10. ReadingSound(w)'
  BY <1>6, <1>9 DEF CursorIInv, WorkerSound, ReadingSound, Handled
<1>11. \A u : Counted(w, u) => Counted(w, u)'
  BY <1>5, <1>6, <1>8 DEF Counted
<1>12. WorkSound(w)'
  BY <1>6, <1>9, <1>11 DEF CursorIInv, WorkerSound, WorkSound, InHand
<1>13. OwnKeys(w)' /\ Locked(w)'
  <2>1. OwnKeys(w) /\ Locked(w)
    BY DEF CursorIInv, WorkerSound
  <2> QED
    BY <1>3, <1>5, <1>6, <1>8, <2>1 DEF OwnKeys, Locked
<1>14. faults' \in 0 .. MaxFaults /\ lock' \in Workers \cup {Nobody}
  BY <1>1, <1>6 DEF CursorTypeOK
<1>15. mine'[w] = mine[w] /\ queue'[w] = queue[w]
  BY <1>6
<1>16. WorkerSound(w)'
  BY <1>10, <1>12, <1>13 DEF WorkerSound
<1> QED
  BY <1>6, <1>7, <1>14, <1>15, <1>16, QuietKeeps

\* The NOTIFY.DISPATCH event of a row takes the chain's lock.
LEMMA EmitKeeps ==
  ASSUME CursorIInv, NEW w \in Workers, Emit(w)
  PROVE  CursorIInv'
<1>1. CursorTypeOK
  BY DEF CursorIInv
<1>2. /\ pc[w] = "emitting" /\ pc' = [pc EXCEPT ![w] = "notifying"] /\ lock \in {Nobody, w} /\ lock' = w
      /\ log' = log /\ rows' = rows /\ people' = people /\ cursor' = cursor
      /\ queue' = queue /\ todo' = todo /\ outcomes' = outcomes /\ mine' = mine
      /\ changes' = changes /\ faults' = faults
  BY DEF Emit
<1>3. OnlyMoves(w)
  BY <1>1, <1>2 DEF OnlyMoves, CursorTypeOK, Places
<1>4. pc'[w] = "notifying" /\ Alarms' = Alarms /\ permanent' = permanent
  BY <1>1, <1>2 DEF CursorTypeOK, Alarms, people
<1>5. ReadingSound(w)'
  BY <1>2, <1>4 DEF CursorIInv, WorkerSound, ReadingSound, Handled
<1>6. \A u : Counted(w, u)' <=> Counted(w, u)
  BY <1>2 DEF Counted
<1>7. WorkSound(w)'
  BY <1>2, <1>4, <1>6 DEF CursorIInv, WorkerSound, WorkSound, InHand
<1>8. mine[w] # {} /\ OwnKeys(w)' /\ Locked(w)'
  <2>1. OwnKeys(w) /\ Locked(w)
    BY DEF CursorIInv, WorkerSound
  <2> QED
    BY <1>2, <1>4, <2>1 DEF OwnKeys, Locked
<1>9. faults' \in 0 .. MaxFaults /\ lock' \in Workers \cup {Nobody}
  BY <1>1, <1>2 DEF CursorTypeOK
<1>10. \A v \in Workers \ {w} : lock' = v <=> lock = v
  BY <1>2, CursorAssumption
<1> QED
  BY <1>2, <1>3, <1>5, <1>7, <1>8, <1>9, <1>10, QuietKeeps DEF WorkerSound

\* _record_notification: a row whose key nobody has committed or has in flight.
LEMMA InsertKeeps ==
  ASSUME CursorIInv, NEW w \in Workers, InsertRow(w)
  PROVE  CursorIInv'
<1>1. CursorTypeOK /\ WorkerSound(w)
  BY DEF CursorIInv
<1>2. pc[w] = "notifying" /\ todo[w] = {} /\ outcomes[w] # {} /\ queue[w] # {}
  BY <1>1 DEF InsertRow, RecordingTurn, MayDeliver, WorkerSound, WorkSound, InHand
<1>3. PICK o \in outcomes[w] : o = NextOutcome(w)
  BY <1>1, <1>2, NextRowFacts
<1>4. PICK r \in NoticeRows : r = NextRow(w) /\ r.seq = Event(w) /\ r.who = o.who
  BY <1>1, <1>2, <1>3, NextRowFacts
<1>5. /\ mine' = [mine EXCEPT ![w] = mine[w] \cup {r}]
      /\ outcomes' = [outcomes EXCEPT ![w] = outcomes[w] \ {o}]
      /\ pc' = [pc EXCEPT ![w] = "emitting"]
      /\ log' = log /\ rows' = rows /\ lock' = lock /\ people' = people /\ cursor' = cursor
      /\ queue' = queue /\ todo' = todo /\ changes' = changes /\ faults' = faults
  BY <1>1, <1>3, <1>4 DEF InsertRow, CursorTypeOK
<1>6. /\ \A q \in rows : Key(q) # Key(r)
      /\ \A v \in Workers \ {w} : \A q \in mine[v] : Key(q) # Key(r)
  BY <1>4 DEF InsertRow, WaitsForRow
<1>7. OnlyMoves(w)
  BY <1>1, <1>5 DEF OnlyMoves, CursorTypeOK, Places
<1>8. mine'[w] = mine[w] \cup {r} /\ outcomes'[w] = outcomes[w] \ {o} /\ pc'[w] = "emitting"
  BY <1>1, <1>5 DEF CursorTypeOK
<1>9. Alarms' = Alarms /\ holders' = holders /\ permanent' = permanent
  BY <1>5 DEF Alarms, people
<1>10. WorldGrows
  BY <1>1, <1>5, <1>9, TrailFacts DEF WorldGrows, CursorTypeOK
<1>11. Covered' /\ Whole' /\ OneEventPerRow'
  BY <1>5, <1>9 DEF CursorIInv, Covered, Whole, OneEventPerRow, Handled, Dispatches
<1>12. OwnKeys(w)
  BY <1>1 DEF WorkerSound
<1>13. \A q \in mine[w] : Key(q) # Key(r)
  BY <1>4, <1>12 DEF OwnKeys, Key
<1>14. Apart'
  <2>1. \A v \in Workers : \A q \in mine'[v] : q \in mine[v] \/ (v = w /\ q = r)
    BY <1>5, <1>8
  <2>2. \A v \in Workers : \A q \in mine[v] : Key(q) # Key(r)
    BY <1>6, <1>13
  <2> QED
    BY <1>5, <1>6, <2>1, <2>2 DEF CursorIInv, Apart, Key
<1>15. ReadingSound(w)'
  BY <1>1, <1>5, <1>8, <1>9 DEF WorkerSound, ReadingSound, Handled
<1>16. WorkSound(w)'
  <2>1. \A u : Counted(w, u) => Counted(w, u)'
    BY <1>4, <1>5, <1>8 DEF Counted
  <2> QED
    BY <1>1, <1>2, <1>5, <1>8, <1>9, <2>1 DEF WorkerSound, WorkSound, InHand
<1>17. OwnKeys(w)'
  <2>1. IsFiniteSet(mine'[w])
    <3>1. IsFiniteSet(mine[w])
      BY <1>12 DEF OwnKeys
    <3>2. IsFiniteSet(mine[w] \cup {r})
      BY <3>1, FS_AddElement
    <3> QED
      BY <1>8, <3>2
  <2>2. \A p \in outcomes'[w] : p \in outcomes[w] /\ p.who # r.who
    BY <1>4, <1>8, <1>12 DEF OwnKeys
  <2> QED
    BY <1>2, <1>5, <1>8, <1>12, <2>1, <2>2 DEF OwnKeys
<1>18. Locked(w)'
  BY <1>1, <1>2, <1>5, <1>8 DEF WorkerSound, Locked
<1>19. \A q \in mine'[w] : queue'[w] # {} /\ q.seq = Event(w)'
  BY <1>1, <1>2, <1>4, <1>5, <1>8 DEF CursorTypeOK, Event
<1>20. /\ rows' \subseteq NoticeRows /\ faults' \in 0 .. MaxFaults /\ lock' \in Workers \cup {Nobody}
       /\ \A v \in Workers \ {w} : lock' = v <=> lock = v
  BY <1>1, <1>5 DEF CursorTypeOK
<1>21. WorkerSound(w)'
  BY <1>15, <1>16, <1>17, <1>18 DEF WorkerSound
<1> QED
  BY <1>5, <1>7, <1>9, <1>10, <1>11, <1>14, <1>19, <1>20, <1>21, MoveKeeps

\* However a transaction ends, its worker goes on with alarms before which all are recorded.
LEMMA EndIsSound ==
  ASSUME CursorIInv, NEW w \in Workers, NEW where \in {"next", "idle"}, NEW left, End(w, where, left),
         left \subseteq queue[w], where = "idle" => left = {},
         Alarms' = Alarms,
         \A n \in Alarms : \A m \in left : n < m => n \in left \/ Handled(n)'
  PROVE  /\ OnlyMoves(w) /\ WorkerSound(w)' /\ mine'[w] = {} /\ people' = people /\ changes' = changes
         /\ lock' \in Workers \cup {Nobody} /\ \A v \in Workers \ {w} : lock' = v <=> lock = v
<1>1. CursorTypeOK /\ Nobody \notin Workers
  BY CursorAssumption DEF CursorIInv
<1>2. queue[w] \subseteq Alarms
  BY <1>1 DEF CursorTypeOK
<1>3. /\ pc' = [pc EXCEPT ![w] = where] /\ queue' = [queue EXCEPT ![w] = left]
      /\ todo' = [todo EXCEPT ![w] = {}] /\ outcomes' = [outcomes EXCEPT ![w] = {}]
      /\ mine' = [mine EXCEPT ![w] = {}] /\ cursor' = cursor /\ people' = people /\ changes' = changes
      /\ lock' = IF lock = w THEN Nobody ELSE lock
  BY DEF End
<1>4. left \in SUBSET Alarms
  BY <1>2
<1>5. OnlyMoves(w)
  BY <1>1, <1>3, <1>4 DEF OnlyMoves, CursorTypeOK, Places
<1>6. pc'[w] = where /\ queue'[w] = left /\ todo'[w] = {} /\ outcomes'[w] = {} /\ mine'[w] = {}
  BY <1>1, <1>3 DEF CursorTypeOK
<1>7. ReadingSound(w)'
  BY <1>6 DEF ReadingSound
<1>8. WorkSound(w)' /\ OwnKeys(w)'
  BY <1>6, FS_EmptySet DEF WorkSound, InHand, OwnKeys
<1>9. Locked(w)'
  BY <1>1, <1>3, <1>6 DEF Locked
<1>10. lock' \in Workers \cup {Nobody} /\ \A v \in Workers \ {w} : lock' = v <=> lock = v
  BY <1>1, <1>3 DEF CursorTypeOK
<1> QED
  BY <1>3, <1>5, <1>6, <1>7, <1>8, <1>9, <1>10 DEF WorkerSound

\* A failure, a deadlock, or a dedup: nothing is recorded, and only an alarm that somebody else
\* has recorded is left behind.
LEMMA GivesUpKeeps ==
  ASSUME CursorIInv, NEW w \in Workers, Fail(w) \/ DeadlockVictim(w) \/ Dedup(w)
  PROVE  CursorIInv'
<1>1. CursorTypeOK /\ WorkerSound(w)
  BY DEF CursorIInv
<1>2. log' = log /\ rows' = rows /\ faults' \in 0 .. MaxFaults
  <2>1. CASE Fail(w)
    BY <1>1, <2>1, CursorAssumption DEF Fail, CursorTypeOK
  <2>2. CASE DeadlockVictim(w) \/ Dedup(w)
    BY <1>1, <2>2 DEF DeadlockVictim, Dedup, CursorTypeOK
  <2> QED
    BY <2>1, <2>2
<1>3. Alarms' = Alarms /\ \A n : Handled(n)' <=> Handled(n)
  BY <1>2 DEF Alarms, Handled
<1>4. /\ OnlyMoves(w) /\ WorkerSound(w)' /\ mine'[w] = {} /\ people' = people /\ changes' = changes
      /\ lock' \in Workers \cup {Nobody} /\ \A v \in Workers \ {w} : lock' = v <=> lock = v
  <2>1. CASE Fail(w) \/ DeadlockVictim(w)
    <3>1. End(w, "idle", {})
      BY <2>1 DEF Fail, DeadlockVictim, StopBatch
    <3> QED
      BY <1>3, <3>1, EndIsSound
  <2>2. CASE Dedup(w)
    <3>1. End(w, "next", Later(w)) /\ RecordingTurn(w) /\ Key(NextRow(w)) \in {Key(r) : r \in rows}
      BY <2>2 DEF Dedup
    <3>2. queue[w] # {} /\ outcomes[w] # {}
      BY <1>1, <3>1 DEF RecordingTurn, WorkerSound, WorkSound, InHand
    <3>3. Handled(Event(w))
      BY <1>1, <3>1, <3>2, NextRowFacts DEF Key, Handled
    <3>4. PICK e : e = Event(w)
      OBVIOUS
    <3>5. Later(w) = queue[w] \ {e} /\ Handled(e)
      BY <3>3, <3>4 DEF Later
    <3>6. \A n \in Alarms : \A m \in Later(w) : n < m => n \in Later(w) \/ Handled(n)'
      BY <1>1, <1>3, <3>5 DEF WorkerSound, ReadingSound
    <3>7. PICK left : left = Later(w)
      OBVIOUS
    <3> QED
      BY <1>3, <3>1, <3>5, <3>6, <3>7, EndIsSound
  <2> QED
    BY <2>1, <2>2
<1> QED
  BY <1>2, <1>4, QuietKeeps

\* The events of a commit are one NOTIFY.DISPATCH for each of its rows.
LEMMA DispatchesPublished ==
  ASSUME CursorTypeOK, NEW k \in Nat, Trail!Publish([i \in 1 .. k |-> "DISPATCH"])
  PROVE  /\ log' \in Seq(EventTypes) /\ Len(log') \in Nat /\ Len(log) <= Len(log')
         /\ Alarms' = Alarms
         /\ IsFiniteSet(Dispatches) /\ Cardinality(Dispatches') = Cardinality(Dispatches) + k
<1> DEFINE batch == [i \in 1 .. k |-> "DISPATCH"]
<1>1. batch \in Seq(EventTypes) /\ Len(batch) = k /\ \A i \in 1 .. k : batch[i] = "DISPATCH"
  BY DEF EventTypes
<1>2. Trail!Publish(batch)
  OBVIOUS
<1> HIDE DEF batch
<1>3. /\ log' \in Seq(EventTypes) /\ Len(log') = Len(log) + k
      /\ \A n \in 1 .. Len(log) : log'[n] = log[n]
      /\ \A n \in 1 .. k : log'[Len(log) + n] = "DISPATCH"
  BY <1>1, <1>2, PublishFacts
<1>4. Len(log) \in Nat /\ DOMAIN log = 1 .. Len(log)
  BY TrailFacts
<1>5. DOMAIN log' = 1 .. Len(log) + k
  BY <1>3, LenProperties
<1>6. \A n \in (Len(log) + 1) .. (Len(log) + k) : log'[n] = "DISPATCH"
  <2> SUFFICES ASSUME NEW n \in (Len(log) + 1) .. (Len(log) + k) PROVE log'[n] = "DISPATCH"
    OBVIOUS
  <2>1. n - Len(log) \in 1 .. k /\ Len(log) + (n - Len(log)) = n
    BY <1>4
  <2> QED
    BY <1>3, <2>1
<1>7. 1 .. Len(log) + k = (1 .. Len(log)) \cup ((Len(log) + 1) .. (Len(log) + k))
  BY <1>4
<1>8. Alarms' = Alarms
  BY <1>3, <1>4, <1>5, <1>6, <1>7 DEF Alarms
<1> DEFINE new == (Len(log) + 1) .. (Len(log) + k)
<1>9. Dispatches' = Dispatches \cup new
  BY <1>3, <1>4, <1>5, <1>6, <1>7 DEF Dispatches
<1>10. IsFiniteSet(Dispatches)
  <2>1. Dispatches \subseteq 1 .. Len(log) /\ IsFiniteSet(1 .. Len(log))
    BY <1>4, FS_Interval DEF Dispatches
  <2> QED
    BY <2>1, FS_Subset
<1>11. IsFiniteSet(new) /\ Cardinality(new) = k
  <2>1. PICK a \in Int, b \in Int : a = Len(log) + 1 /\ b = Len(log) + k
    BY <1>4
  <2>2. IsFiniteSet(a .. b) /\ Cardinality(a .. b) = IF a > b THEN 0 ELSE b - a + 1
    BY FS_Interval
  <2>3. (IF a > b THEN 0 ELSE b - a + 1) = k
    BY <1>4, <2>1
  <2> QED
    BY <2>1, <2>2, <2>3
<1>12. Dispatches \cap new = {}
  BY <1>4 DEF Dispatches
<1> HIDE DEF new
<1>13. Cardinality(Dispatches') = Cardinality(Dispatches) + k
  <2>1. Cardinality(Dispatches) \in Nat
    BY <1>10, FS_CardinalityType
  <2>2. /\ Cardinality(Dispatches \cup new)
             = Cardinality(Dispatches) + Cardinality(new) - Cardinality(Dispatches \cap new)
    BY <1>10, <1>11, FS_Union
  <2>3. Cardinality(Dispatches \cap new) = 0
    BY <1>12, FS_EmptySet
  <2> QED
    BY <1>9, <1>11, <2>1, <2>2, <2>3
<1> QED
  BY <1>3, <1>4, <1>8, <1>10, <1>13

\* The commit: the alarm under way is recorded, for all it concerns, behind all before it.
LEMMA CommitKeepsAll ==
  ASSUME CursorIInv, NEW w \in Workers, Commit(w)
  PROVE  CursorIInv'
<1>1. CursorTypeOK /\ WorkerSound(w)
  BY DEF CursorIInv
<1>2. /\ pc[w] = "notifying" /\ todo[w] = {} /\ outcomes[w] = {} /\ rows' = rows \cup mine[w]
      /\ faults' = faults /\ End(w, "next", Later(w))
  BY DEF Commit
<1>3. queue[w] # {} /\ (\E u \in Reviewers \cup {Sentinel} : Counted(w, u)) /\ \A u \in permanent : Counted(w, u)
  BY <1>1, <1>2 DEF WorkerSound, WorkSound, InHand
<1>4. mine[w] # {} /\ \A u \in permanent : \E r \in mine[w] : r.who = u
  BY <1>2, <1>3 DEF Counted
<1>5. PICK e \in Alarms : e = Event(w) /\ e \in queue[w] /\ \A m \in queue[w] : e <= m
  BY <1>1, <1>3, EventFacts
<1>6. \A r \in mine[w] : r.seq = e
  BY <1>1, <1>5 DEF CursorTypeOK
<1>7. IsFiniteSet(mine[w]) /\ Cardinality(mine[w]) \in Nat
  BY <1>1, FS_CardinalityType DEF WorkerSound, OwnKeys
<1>8. PICK k \in Nat : k = Cardinality(mine[w])
  BY <1>7
<1>9. Trail!Publish([i \in 1 .. k |-> "DISPATCH"])
  BY <1>8 DEF Commit
<1>10. /\ log' \in Seq(EventTypes) /\ Len(log') \in Nat /\ Len(log) <= Len(log')
       /\ Alarms' = Alarms
       /\ IsFiniteSet(Dispatches) /\ Cardinality(Dispatches') = Cardinality(Dispatches) + k
  BY <1>1, <1>9, DispatchesPublished
<1>11. \A n : Handled(n) => Handled(n)'
  BY <1>2 DEF Handled
<1>12. Handled(e)'
  BY <1>2, <1>4, <1>6 DEF Handled
<1>13. \A n \in Alarms : \A m \in queue[w] : n < m => n \in queue[w] \/ Handled(n)
  BY <1>1 DEF WorkerSound, ReadingSound
<1>14. PICK left : left = Later(w) /\ left = queue[w] \ {e}
  BY <1>5 DEF Later
<1>15. \A n \in Alarms : \A m \in left : n < m => n \in left \/ Handled(n)'
  BY <1>11, <1>12, <1>13, <1>14
<1>16. /\ OnlyMoves(w) /\ WorkerSound(w)' /\ mine'[w] = {} /\ people' = people /\ changes' = changes
       /\ lock' \in Workers \cup {Nobody} /\ \A v \in Workers \ {w} : lock' = v <=> lock = v
  BY <1>2, <1>10, <1>14, <1>15, EndIsSound
<1>17. WorldGrows
  BY <1>2, <1>10, <1>16 DEF WorldGrows, people
<1>18. Covered'
  <2>1. ASSUME NEW n \in Alarms, n <= e PROVE Handled(n)'
    <3>1. CASE n = e
      BY <1>12, <3>1
    <3>2. CASE n < e
      <4>1. n \notin queue[w]
        BY <1>1, <1>5, <3>2, TrailFacts
      <4> QED
        BY <1>5, <1>11, <1>13, <3>2, <4>1
    <3>3. n \in Nat /\ e \in Nat
      BY <1>1, <1>5, TrailFacts
    <3> QED
      BY <2>1, <3>1, <3>2, <3>3
  <2>2. ASSUME NEW n \in Alarms, NEW r \in rows', n <= r.seq PROVE Handled(n)'
    <3>1. CASE r \in rows
      BY <1>11, <2>2, <3>1 DEF CursorIInv, Covered
    <3>2. CASE r \in mine[w]
      BY <1>6, <2>1, <2>2, <3>2
    <3> QED
      BY <1>2, <3>1, <3>2
  <2> QED
    BY <1>10, <2>2 DEF Covered
<1>19. Whole'
  <2>1. ASSUME NEW r \in rows', NEW u \in permanent PROVE \E q \in rows' : q.seq = r.seq /\ q.who = u
    <3>1. CASE r \in rows
      BY <1>2, <3>1 DEF CursorIInv, Whole
    <3>2. CASE r \in mine[w]
      BY <1>2, <1>4, <1>6, <3>2
    <3> QED
      BY <1>2, <3>1, <3>2
  <2> QED
    BY <1>17, <2>1 DEF Whole, WorldGrows
<1>20. Apart'
  <2>1. /\ mine'[w] = {} /\ \A v \in Workers \ {w} : mine'[v] = mine[v]
    BY <1>16 DEF OnlyMoves
  <2>2. Apart
    BY DEF CursorIInv
  <2> QED
    BY <1>2, <2>1, <2>2 DEF Apart, Key
<1>21. OneEventPerRow'
  <2>1. rows \cap mine[w] = {}
    BY DEF CursorIInv, Apart
  <2>2. IsFiniteSet(rows) /\ Cardinality(Dispatches) = Cardinality(rows)
    BY DEF CursorIInv, OneEventPerRow
  <2>3. /\ IsFiniteSet(rows \cup mine[w])
        /\ Cardinality(rows \cup mine[w]) = Cardinality(rows) + Cardinality(mine[w]) - Cardinality(rows \cap mine[w])
    BY <1>7, <2>2, FS_Union
  <2>4. Cardinality(rows) \in Nat /\ Cardinality(rows \cap mine[w]) = 0
    BY <2>1, <2>2, FS_CardinalityType, FS_EmptySet
  <2>5. Cardinality(rows') = Cardinality(rows) + k /\ IsFiniteSet(rows')
    BY <1>2, <1>8, <2>3, <2>4
  <2> QED
    BY <1>10, <2>2, <2>5 DEF OneEventPerRow
<1>22. rows' \subseteq NoticeRows /\ faults' \in 0 .. MaxFaults /\ holders' = holders
  BY <1>1, <1>2, <1>16 DEF CursorTypeOK, people
<1> QED
  BY <1>16, <1>17, <1>18, <1>19, <1>20, <1>21, <1>22, MoveKeeps

\* A new alarm is above everything anybody has read.
LEMMA RaiseKeeps ==
  ASSUME CursorIInv, RaiseAlarm
  PROVE  CursorIInv'
<1>1. CursorTypeOK
  BY DEF CursorIInv
<1>2. /\ Trail!Publish(<<"ALARM">>)
      /\ rows' = rows /\ people' = people /\ lock' = lock /\ local' = local
      /\ changes' = changes /\ faults' = faults
  BY DEF RaiseAlarm
<1>3. <<"ALARM">> \in Seq(EventTypes) /\ Len(<<"ALARM">>) = 1 /\ <<"ALARM">>[1] = "ALARM"
  BY DEF EventTypes
<1>4. PICK batch \in Seq(EventTypes) : batch = <<"ALARM">> /\ Len(batch) = 1 /\ batch[1] = "ALARM"
  BY <1>3
<1>5. /\ log' \in Seq(EventTypes) /\ Len(log') = Len(log) + 1
      /\ \A n \in 1 .. Len(log) : log'[n] = log[n]
      /\ log'[Len(log) + 1] = "ALARM"
      /\ Alarms \subseteq Alarms' /\ \A n \in Alarms' : n \in Alarms \/ n > Len(log)
  <2>1. Trail!Publish(batch)
    BY <1>2, <1>4
  <2>2. 1 \in 1 .. Len(batch)
    BY <1>4
  <2> QED
    BY <1>1, <1>4, <2>1, <2>2, PublishFacts
<1>6. Len(log) \in Nat /\ DOMAIN log = 1 .. Len(log) /\ DOMAIN log' = 1 .. Len(log) + 1
  BY <1>1, <1>5, TrailFacts, LenProperties
<1>7. /\ pc' = pc /\ cursor' = cursor /\ queue' = queue /\ todo' = todo
      /\ outcomes' = outcomes /\ mine' = mine /\ holders' = holders /\ permanent' = permanent
  BY <1>2 DEF local, people
<1>8. WorldGrows
  BY <1>2, <1>5, <1>6, <1>7 DEF WorldGrows
<1>9. \A w \in Workers : WorkerSound(w)'
  BY <1>1, <1>2, <1>7, <1>8, BystanderKeeps DEF CursorIInv
<1>10. CursorTypeOK'
  <2>1. NoticeRows \subseteq NoticeRows' /\ 0 .. Len(log) \subseteq 0 .. Len(log')
    BY <1>5, <1>6 DEF NoticeRows
  <2>2. \A w \in Workers : Event(w)' = Event(w)
    BY <1>7 DEF Event
  <2>3. rows \subseteq NoticeRows' /\ mine \in [Workers -> SUBSET NoticeRows'] /\ queue \in [Workers -> SUBSET Alarms']
        /\ cursor \in [Workers -> 0 .. Len(log')]
    BY <1>1, <1>5, <2>1 DEF CursorTypeOK
  <2> QED
    BY <1>1, <1>2, <1>5, <1>7, <2>2, <2>3 DEF CursorTypeOK
<1>11. Covered'
  <2> SUFFICES ASSUME NEW n \in Alarms', NEW r \in rows, n <= r.seq PROVE Handled(n)
    BY <1>2 DEF Covered, Handled
  <2>1. r.seq \in 1 .. Len(log) /\ n \in Nat
    BY <1>1, <1>6, TrailFacts DEF CursorTypeOK, NoticeRows, Alarms
  <2>2. n \in Alarms
    BY <1>5, <1>6, <2>1
  <2> QED
    BY <2>2 DEF CursorIInv, Covered
<1>12. Dispatches' = Dispatches
  <2>1. ASSUME NEW n \in 1 .. Len(log) + 1 PROVE n \in Dispatches' <=> n \in Dispatches
    <3>1. CASE n \in 1 .. Len(log)
      BY <1>5, <1>6, <3>1 DEF Dispatches
    <3>2. CASE n = Len(log) + 1
      BY <1>5, <1>6, <3>2 DEF Dispatches
    <3> QED
      BY <1>6, <3>1, <3>2
  <2>2. Dispatches \subseteq 1 .. Len(log) + 1 /\ Dispatches' \subseteq 1 .. Len(log) + 1
    BY <1>6 DEF Dispatches
  <2> QED
    BY <2>1, <2>2
<1>13. Whole' /\ Apart' /\ OneEventPerRow'
  BY <1>2, <1>7, <1>12 DEF CursorIInv, Whole, Apart, Key, OneEventPerRow
<1> QED
  BY <1>9, <1>10, <1>11, <1>13 DEF CursorIInv

\* Somebody is granted or loses the permission, or nothing happens.
LEMMA OutsideKeeps ==
  ASSUME CursorIInv, ChangeHolders \/ UNCHANGED cursorVars
  PROVE  CursorIInv'
<1>1. CursorTypeOK
  BY DEF CursorIInv
<1>2. /\ log' = log /\ rows' = rows /\ permanent' = permanent /\ lock' = lock /\ faults' = faults
      /\ pc' = pc /\ cursor' = cursor /\ queue' = queue /\ todo' = todo
      /\ outcomes' = outcomes /\ mine' = mine
  BY DEF ChangeHolders, cursorVars, people, local
<1>3. Alarms' = Alarms /\ Dispatches' = Dispatches
  BY <1>2 DEF Alarms, Dispatches
<1>4. WorldGrows
  BY <1>1, <1>2, <1>3, TrailFacts DEF WorldGrows, CursorTypeOK
<1>5. \A w \in Workers : WorkerSound(w)'
  BY <1>1, <1>2, <1>4, BystanderKeeps DEF CursorIInv
<1>6. holders' \subseteq Reviewers /\ permanent \subseteq holders' /\ changes' \in 0 .. MaxChanges
  <2>1. CASE ChangeHolders
    BY <1>1, <2>1, CursorAssumption DEF ChangeHolders, CursorTypeOK
  <2>2. CASE UNCHANGED cursorVars
    BY <1>1, <2>2 DEF cursorVars, people, CursorTypeOK
  <2> QED
    BY <2>1, <2>2
<1>7. CursorTypeOK'
  BY <1>1, <1>2, <1>3, <1>6 DEF CursorTypeOK, NoticeRows, Event
<1>8. Covered' /\ Whole' /\ Apart' /\ OneEventPerRow'
  BY <1>2, <1>3 DEF CursorIInv, Covered, Handled, Whole, Apart, Key, OneEventPerRow
<1> QED
  BY <1>5, <1>7, <1>8 DEF CursorIInv

\* Nobody leaves the invariant.
LEMMA CursorStep == CursorIInv /\ [CursorNext]_cursorVars => CursorIInv'
<1> SUFFICES ASSUME CursorIInv, [CursorNext]_cursorVars PROVE CursorIInv'
  OBVIOUS
<1>1. CASE RaiseAlarm
  BY <1>1, RaiseKeeps
<1>2. CASE ChangeHolders \/ UNCHANGED cursorVars
  BY <1>2, OutsideKeeps
<1>3. ASSUME NEW w \in Workers, Step(w) \/ Fail(w) PROVE CursorIInv'
  <2>1. CASE ReadCursor(w) \/ ReadQueue(w) \/ Finish(w)
    BY <2>1, ReadCursorKeeps, ReadQueueKeeps, FinishKeeps
  <2>2. CASE Resolve(w) \/ Deliver(w)
    BY <2>2, ResolveKeeps, DeliverKeeps
  <2>3. CASE InsertRow(w) \/ Emit(w) \/ Commit(w)
    BY <2>3, InsertKeeps, EmitKeeps, CommitKeepsAll
  <2>4. CASE Dedup(w) \/ DeadlockVictim(w) \/ Fail(w)
    BY <2>4, GivesUpKeeps
  <2> QED
    BY <1>3, <2>1, <2>2, <2>3, <2>4 DEF Step
<1> QED
  BY <1>1, <1>2, <1>3 DEF CursorNext

\* The invariant of the notification phase, for any number of workers and reviewers.
THEOREM CursorInvariance == CursorSpec => []CursorIInv
BY StartIsSound, CursorStep, PTL DEF CursorSpec

\* Types, and an uncommitted row is about the alarm under way (notify_for_event).
THEOREM CursorTypeCorrect == CursorSpec => []CursorTypeOK
BY CursorInvariance, PTL DEF CursorIInv

\* What the cursor has passed is below a row, and recorded.
LEMMA PassedIsHandled ==
  ASSUME CursorIInv, NEW n \in Alarms, n <= HighWater(rows)
  PROVE  Handled(n)
<1>1. CursorTypeOK /\ Covered
  BY DEF CursorIInv
<1>2. n \in Nat /\ n # 0
  BY <1>1, TrailFacts
<1>3. rows # {}
  BY <1>1, <1>2, HighWaterFacts
<1>4. PICK r \in rows : r.seq = HighWater(rows)
  BY <1>1, <1>3, HighWaterFacts
<1> QED
  BY <1>1, <1>4 DEF Covered

\* The high-water cursor of _current_high_water never passes an alarm without a row.
THEOREM NoSilentSkip == CursorSpec => []NoAlarmSkipped
<1>1. CursorIInv => NoAlarmSkipped
  BY PassedIsHandled DEF NoAlarmSkipped, Handled
<1> QED
  BY <1>1, CursorInvariance, PTL

\* notify_for_event records an alarm for all its recipients: whoever held the permission all along
\* has a row for every alarm the cursor has passed.
THEOREM AllAreTold == CursorSpec => []NobodyOverlooked
<1>1. ASSUME CursorIInv PROVE NobodyOverlooked
  <2> SUFFICES ASSUME NEW n \in Alarms, NEW u \in permanent, n <= HighWater(rows)
               PROVE  \E r \in rows : r.seq = n /\ r.who = u
    BY DEF NobodyOverlooked
  <2>1. PICK r \in rows : r.seq = n
    BY <1>1, PassedIsHandled DEF Handled
  <2> QED
    BY <1>1, <2>1 DEF CursorIInv, Whole
<1> QED
  BY <1>1, CursorInvariance, PTL

\* The trail holds one NOTIFY.DISPATCH for each row of breach_notification, and the table one row
\* for each alarm and recipient (_record_notification, uq_breach_notification_event_recipient).
THEOREM RowsAndEventsAgree ==
  CursorSpec => [](OneEventPerRow /\ \A r, q \in rows : Key(r) = Key(q) => r = q)
<1>1. CursorIInv => OneEventPerRow /\ \A r, q \in rows : Key(r) = Key(q) => r = q
  BY DEF CursorIInv, Apart
<1> QED
  BY <1>1, CursorInvariance, PTL

\* What any step does to the trail: the events committed keep their numbers.
LEMMA TrailGrows ==
  ASSUME CursorIInv, [CursorNext]_cursorVars
  PROVE  /\ log \in Seq(EventTypes) /\ log' \in Seq(EventTypes) /\ Len(log) <= Len(log')
         /\ \A n \in 1 .. Len(log) : log'[n] = log[n]
<1>1. CursorTypeOK /\ log \in Seq(EventTypes) /\ Len(log) \in Nat
  BY TrailFacts DEF CursorIInv, CursorTypeOK
<1>2. CASE log' = log
  BY <1>1, <1>2
<1>3. ASSUME NEW batch \in Seq(EventTypes), Trail!Publish(batch)
      PROVE  /\ log' \in Seq(EventTypes) /\ Len(log) <= Len(log')
             /\ \A n \in 1 .. Len(log) : log'[n] = log[n]
  BY <1>1, <1>3, PublishFacts
<1>4. ASSUME NEW w \in Workers, Commit(w)
      PROVE  \E batch \in Seq(EventTypes) : Trail!Publish(batch)
  <2>1. IsFiniteSet(mine[w])
    BY DEF CursorIInv, WorkerSound, OwnKeys
  <2>2. PICK k \in Nat : k = Cardinality(mine[w])
    BY <2>1, FS_CardinalityType
  <2>3. [i \in 1 .. k |-> "DISPATCH"] \in Seq(EventTypes)
    BY DEF EventTypes
  <2> QED
    BY <1>4, <2>2, <2>3 DEF Commit
<1>5. ASSUME RaiseAlarm PROVE \E batch \in Seq(EventTypes) : Trail!Publish(batch)
  <2>1. <<"ALARM">> \in Seq(EventTypes)
    BY DEF EventTypes
  <2>2. Trail!Publish(<<"ALARM">>)
    BY <1>5 DEF RaiseAlarm
  <2> QED
    BY <2>1, <2>2
<1>6. \/ log' = log \/ RaiseAlarm \/ \E w \in Workers : Commit(w)
  BY DEF CursorNext, cursorVars, ChangeHolders, Step, Fail, ReadCursor, ReadQueue, Finish, Resolve,
         Deliver, InsertRow, Emit, Dedup, DeadlockVictim
<1> QED
  BY <1>1, <1>2, <1>3, <1>4, <1>5, <1>6

\* Two sequences that agree on a length have the same beginning of it.
LEMMA SameBeginning ==
  ASSUME NEW S, NEW s \in Seq(S), NEW u \in Seq(S), Len(s) <= Len(u),
         \A i \in 1 .. Len(s) : u[i] = s[i]
  PROVE  SubSeq(s, 1, Len(s)) = SubSeq(u, 1, Len(s))
<1> DEFINE a == SubSeq(s, 1, Len(s))
           b == SubSeq(u, 1, Len(s))
<1>1. a \in Seq(S) /\ Len(a) = Len(s) /\ \A i \in 1 .. Len(s) : a[i] = s[i]
  OBVIOUS
<1>2. b \in Seq(S) /\ Len(b) = Len(s) /\ \A i \in 1 .. Len(s) : b[i] = u[i]
  OBVIOUS
<1> HIDE DEF a, b
<1>3. a = b
  BY <1>1, <1>2, SeqEqual
<1> QED
  BY <1>3 DEF a, b

\* The phase writes the trail as AuditLog lets any of its writers do: it only adds to its end.
THEOREM PhaseWritesTheTrail == CursorSpec => Trail!Spec
<1>1. CursorInit => Trail!Init
  BY DEF CursorInit
<1>2. ASSUME CursorIInv, [CursorNext]_cursorVars PROVE [Trail!Next]_log
  <2>1. /\ log \in Seq(EventTypes) /\ log' \in Seq(EventTypes) /\ Len(log) <= Len(log')
        /\ \A n \in 1 .. Len(log) : log'[n] = log[n]
    BY <1>2, TrailGrows
  <2>2. Trail!IsPrefix(log, log')
    BY <2>1, SameBeginning DEF Trail!IsPrefix
  <2>3. \A i \in DOMAIN log' : log'[i] \in EventTypes
    BY <2>1
  <2> QED
    BY <2>2, <2>3 DEF Trail!Next
<1> QED
  BY <1>1, <1>2, CursorInvariance, PTL DEF CursorSpec, Trail!Spec

\* w waits for the transaction of the other to end.
Awaits(w, other) == WaitsForRow(w, other) \/ WaitsForLock(w, other)

\* Among workers of whom each waits for one of them is a pair that Deadlocked describes.
CyclesHaveVictims ==
  \A G \in SUBSET Workers :
    G # {} /\ (\A w \in G : \E other \in G : Awaits(w, other)) => \E w \in G : Deadlocked(w)

\* Whoever is awaited has recorded rows, and records another only when it has the chain's lock.
LEMMA AwaitedFacts ==
  ASSUME CursorIInv, NEW w \in Workers, NEW other \in Workers, Awaits(w, other)
  PROVE  /\ mine[other] # {}
         /\ RecordingTurn(other) => lock = other
         /\ WaitsForLock(w, other) => lock = other
<1>1. Locked(other)
  BY DEF CursorIInv, WorkerSound
<1>2. mine[other] # {}
  BY <1>1 DEF Awaits, WaitsForRow, WaitsForLock, Locked
<1> QED
  BY <1>1, <1>2 DEF Locked, RecordingTurn, WaitsForLock

\* Rows and the chain's lock are taken in either order (_record_notification), so workers can wait
\* for each other in a circle.  However many do, one of them has the lock and waits for the row of
\* another that waits for the lock: each circle has one of the pairs that Deadlocked describes.
THEOREM CirclesAreBroken == CursorSpec => []CyclesHaveVictims
<1>1. ASSUME CursorIInv PROVE CyclesHaveVictims
  <2> SUFFICES ASSUME NEW G \in SUBSET Workers, NEW first \in G,
                      \A w \in G : \E other \in G : Awaits(w, other)
               PROVE  \E w \in G : Deadlocked(w)
    BY DEF CyclesHaveVictims
  <2>1. PICK second \in G : Awaits(first, second)
    OBVIOUS
  <2>2. PICK third \in G : Awaits(second, third)
    OBVIOUS
  <2>3. PICK holder \in G : lock = holder
    <3>1. CASE WaitsForLock(second, third)
      BY <1>1, <2>2, <3>1, AwaitedFacts
    <3>2. CASE WaitsForRow(second, third)
      <4>1. RecordingTurn(second)
        BY <3>2 DEF WaitsForRow
      <4> QED
        BY <1>1, <2>1, <4>1, AwaitedFacts
    <3> QED
      BY <2>2, <3>1, <3>2 DEF Awaits
  <2>4. PICK owner \in G : Awaits(holder, owner)
    OBVIOUS
  <2>5. WaitsForRow(holder, owner)
    <3>1. ~WaitsForLock(holder, owner)
      BY <2>3 DEF WaitsForLock
    <3> QED
      BY <2>4, <3>1 DEF Awaits
  <2>6. owner # holder
    BY <2>5 DEF WaitsForRow
  <2>7. ~RecordingTurn(owner)
    BY <1>1, <2>3, <2>4, <2>6, AwaitedFacts
  <2>8. PICK last \in G : Awaits(owner, last)
    OBVIOUS
  <2>9. WaitsForLock(owner, last)
    BY <2>7, <2>8 DEF Awaits, WaitsForRow
  <2>10. last = holder
    BY <2>3, <2>9 DEF WaitsForLock
  <2> QED
    BY <2>5, <2>9, <2>10 DEF Deadlocked
<1> QED
  BY <1>1, CursorInvariance, PTL

\* Whoever has the chain's lock has nobody left to deliver to.
NoSinkUnderLock == \A w \in Workers : lock = w => todo[w] = {}

\* No sink runs while the advisory lock is held: notify_for_event delivers to everybody before it
\* records anybody.
THEOREM SinksRunUnlocked == CursorSpec => []NoSinkUnderLock
<1>1. CursorIInv => NoSinkUnderLock
  BY DEF CursorIInv, WorkerSound, Locked, NoSinkUnderLock
<1> QED
  BY <1>1, CursorInvariance, PTL
=============================================================================
