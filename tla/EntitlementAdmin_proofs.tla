----------------------- MODULE EntitlementAdmin_proofs -----------------------
(***************************************************************************)
(* For any number of users, roles, calls, ticks and requests: a request is *)
(* decided once; and as long as calls commit in the order of the clocks    *)
(* they read, the tenant keeps an administrator and nobody acts alone.     *)
(*                                                                         *)
(* The checks under the lock ask who administers the tenant at the clock   *)
(* the call read, the properties ask who does so now.  They agree because, *)
(* in order, no grant begins or ends after the last clock that took effect *)
(* (Settled): a grant in force at a later clock is one that never ends.    *)
(***************************************************************************)
EXTENDS EntitlementAdmin, SequenceTheorems, TLAPS

-----------------------------------------------------------------------------
(* The inductive invariant. *)

GrantRows == [user : Users, role : Roles, from : 0..MaxTime, to : 0..Forever]

Effective(i) == log[i].status # "PENDING"

\* Nothing took effect after clock last, which is the clock of a row that did, or the beginning.
Latest(last) ==
  /\ \A i \in DOMAIN log : Effective(i) => log[i].at <= last
  /\ last = 0 \/ \E i \in DOMAIN log : Effective(i) /\ log[i].at = last

\* By then every grant had begun, and had ended if it ever ends.
Settled(last) == \A g \in grants : g.from <= last /\ (g.to = Forever \/ g.to <= last)

\* An active user has the administrators' role for good.
Administered ==
  \E g \in grants : g.role = ADMIN /\ g.to = Forever /\ status[g.user] = "active"

InOrderIsSettled ==
  InOrder(log) => \E last \in 0..now : Latest(last) /\ Settled(last) /\ Administered

IInv == TypeOK /\ DecidedOnce /\ InOrderIsSettled

-----------------------------------------------------------------------------
(* Lemmas. *)

LEMMA ForeverIsLast ==
  /\ Forever \in Nat /\ \A t \in 0..MaxTime : t \in Nat /\ t < Forever
  /\ 0 \in 0..MaxTime
BY AdminAssumption DEF Forever

\* What an appended row changes.
LEMMA AppendedRow ==
  ASSUME NEW s \in Seq(LogRows), NEW r \in LogRows
  PROVE  /\ Append(s, r) \in Seq(LogRows)
         /\ Len(s) \in Nat /\ Len(Append(s, r)) = Len(s) + 1
         /\ DOMAIN s = 1 .. Len(s) /\ DOMAIN Append(s, r) = 1 .. Len(s) + 1
         /\ \A i \in 1 .. Len(s) : Append(s, r)[i] = s[i]
         /\ Append(s, r)[Len(s) + 1] = r
BY AppendProperties, LenProperties

\* A clock that is not before the last one: whoever administers the tenant then, does so for good.
LEMMA AdminsAreForGood ==
  ASSUME TypeOK, NEW last \in 0..MaxTime, Settled(last), NEW at \in 0..MaxTime, last <= at,
         NEW g \in grants, at < g.to
  PROVE  g.to = Forever /\ g.from <= at
<1>1. g \in GrantRows
  BY DEF TypeOK, GrantRows
<1>2. g.to \in Nat /\ g.from \in Nat /\ last \in Nat /\ at \in Nat
  BY <1>1, ForeverIsLast DEF GrantRows
<1>3. g.from <= last /\ (g.to = Forever \/ g.to <= last)
  BY DEF Settled
<1> QED
  BY <1>2, <1>3

\* Whoever administers the tenant now did so at the clock of a call in order.
LEMMA AdministratorsAtTheClock ==
  ASSUME TypeOK, NEW last \in 0..MaxTime, Settled(last), NEW at \in 0..MaxTime, last <= at, at <= now
  PROVE  Administrators \subseteq Admins(at)
<1> SUFFICES ASSUME NEW u \in Users, status[u] = "active", NEW g \in grants,
                    g.user = u, g.role = ADMIN, g.from <= now, now < g.to
             PROVE  g.from <= at /\ at < g.to
  BY DEF Administrators, Admins
<1>1. g.to \in Nat /\ at \in Nat /\ now \in Nat
  BY ForeverIsLast DEF TypeOK
<1>2. at < g.to
  BY <1>1
<1> QED
  BY <1>2, AdminsAreForGood

\* A row appended in order: the rest was in order, and a row that takes effect
\* bears a clock that is not before the last one.
LEMMA AppendedInOrder ==
  ASSUME TypeOK, NEW r \in LogRows, log' = Append(log, r), InOrder(log'), InOrderIsSettled
  PROVE  \E last \in 0..MaxTime :
           /\ last <= now
           /\ Latest(last) /\ Settled(last) /\ Administered
           /\ r.status # "PENDING" => last <= r.at
<1> DEFINE n == Len(log)
<1>1. /\ log \in Seq(LogRows) /\ n \in Nat /\ DOMAIN log = 1..n /\ DOMAIN log' = 1 .. n + 1
      /\ \A i \in 1..n : log'[i] = log[i]
      /\ log'[n + 1] = r
  BY AppendedRow DEF TypeOK
<1>2. InOrder(log)
  BY <1>1 DEF InOrder
<1>3. PICK last \in 0..now : Latest(last) /\ Settled(last) /\ Administered
  BY <1>2 DEF InOrderIsSettled
<1>4. last \in 0..MaxTime /\ last <= now
  BY AdminAssumption DEF TypeOK
<1>5. ASSUME r.status # "PENDING" PROVE last <= r.at
  <2>1. r.at \in Nat
    BY AdminAssumption DEF LogRows
  <2>2. ASSUME NEW i \in DOMAIN log, Effective(i), log[i].at = last PROVE last <= r.at
    <3>1. i \in 1..n /\ n + 1 \in 1..n+1 /\ i \in 1..n+1 /\ i < n + 1
      BY <1>1
    <3> QED
      BY <1>1, <1>5, <2>2, <3>1 DEF InOrder, Effective
  <2> QED
    BY <1>3, <2>1, <2>2 DEF Latest
<1> QED
  BY <1>3, <1>4, <1>5

LEMMA ActFields ==
  ASSUME NEW act \in Acts
  PROVE  /\ act.target \in Users
         /\ act.verb \in {"GRANT_ROLE", "REVOKE_ROLE", "DEACTIVATE_USER"}
         /\ act.verb # "DEACTIVATE_USER" => act.role \in Roles
BY DEF Acts, Act

\* The grants after a change are those it did not find, and those it granted or end-dated.
LEMMA AppliedGrants ==
  ASSUME NEW act \in Acts, NEW at \in 0..MaxTime, Apply(act, at), NEW g \in grants'
  PROVE  \/ g \in grants
         \/ /\ act.verb = "GRANT_ROLE"
            /\ g = [user |-> act.target, role |-> act.role, from |-> at, to |-> Forever]
         \/ /\ act.verb = "REVOKE_ROLE"
            /\ \E old \in InForce(act.target, act.role, at) : g = [old EXCEPT !.to = at]
BY ActFields DEF Apply, GrantsAfter

\* Only a revocation loses a grant: one of its target, in force at its clock.
LEMMA KeptGrants ==
  ASSUME NEW act \in Acts, NEW at \in 0..MaxTime, Apply(act, at), NEW g \in grants,
         act.verb = "REVOKE_ROLE" => g.user # act.target \/ g.role # act.role
  PROVE  g \in grants'
BY ActFields DEF Apply, GrantsAfter, InForce

LEMMA ApplyTypes ==
  ASSUME TypeOK, NEW act \in Acts, NEW at \in 0..MaxTime, Apply(act, at)
  PROVE  /\ status' \in [Users -> {"absent", "active", "inactive"}]
         /\ grants' \subseteq GrantRows
<1>1. status' \in [Users -> {"absent", "active", "inactive"}]
  BY ActFields DEF Apply, TypeOK
<1>2. ASSUME NEW g \in grants' PROVE g \in GrantRows
  <2>1. ASSUME act.verb = "GRANT_ROLE", g = [user |-> act.target, role |-> act.role, from |-> at, to |-> Forever]
        PROVE  g \in GrantRows
    BY <2>1, ActFields, ForeverIsLast DEF GrantRows
  <2>2. ASSUME NEW old \in InForce(act.target, act.role, at), g = [old EXCEPT !.to = at]
        PROVE  g \in GrantRows
    <3>1. old \in GrantRows
      BY DEF InForce, TypeOK, GrantRows
    <3>2. at \in 0..Forever
      BY ForeverIsLast
    <3> QED
      BY <2>2, <3>1, <3>2 DEF GrantRows
  <2> QED
    BY <1>2, <2>1, <2>2, AppliedGrants DEF TypeOK, GrantRows
<1> QED
  BY <1>1, <1>2

\* A change applied in order leaves the grants settled at its clock ...
LEMMA ApplySettles ==
  ASSUME TypeOK, NEW act \in Acts, NEW at \in 0..MaxTime, Apply(act, at),
         NEW last \in 0..MaxTime, Settled(last), last <= at
  PROVE  Settled(at)'
<1> SUFFICES ASSUME NEW g \in grants' PROVE g.from <= at /\ (g.to = Forever \/ g.to <= at)
  BY DEF Settled
<1>1. at \in Nat /\ last \in Nat
  BY ForeverIsLast
<1>2. ASSUME NEW h \in grants PROVE /\ h \in GrantRows /\ h.from \in Nat /\ h.to \in Nat
                                   /\ h.from <= at /\ (h.to = Forever \/ h.to <= at)
  <2>1. h \in GrantRows
    BY DEF TypeOK, GrantRows
  <2>2. h.from \in Nat /\ h.to \in Nat
    BY <2>1, ForeverIsLast DEF GrantRows
  <2> QED
    BY <1>1, <2>1, <2>2 DEF Settled
<1>3. ASSUME NEW old \in InForce(act.target, act.role, at), g = [old EXCEPT !.to = at]
      PROVE  g.from <= at /\ g.to <= at
  <2>1. old \in grants
    BY DEF InForce
  <2>2. g.from = old.from /\ g.to = at
    BY <1>2, <1>3, <2>1 DEF GrantRows
  <2> QED
    BY <1>1, <1>2, <2>1, <2>2
<1>4. ASSUME g = [user |-> act.target, role |-> act.role, from |-> at, to |-> Forever]
      PROVE  g.from <= at /\ g.to = Forever
  BY <1>1, <1>4
<1> QED
  BY <1>2, <1>3, <1>4, AppliedGrants

\* ... and leaves an administrator: whoever administers the tenant at that clock does so for good.
LEMMA ApplyLeavesAdministrator ==
  ASSUME TypeOK, NEW act \in Acts, NEW at \in 0..MaxTime, Apply(act, at),
         NEW last \in 0..MaxTime, Settled(last), last <= at, Administered
  PROVE  Administered'
<1> DEFINE gated == \/ act.verb = "REVOKE_ROLE" /\ act.role = ADMIN
                    \/ act.verb = "DEACTIVATE_USER" /\ act.target \in Admins(at)
<1>1. \E g \in grants : /\ g.role = ADMIN /\ g.to = Forever /\ status[g.user] = "active" /\ g.user \in Users
                        /\ act.verb = "REVOKE_ROLE" => g.user # act.target \/ g.role # act.role
                        /\ act.verb = "DEACTIVATE_USER" => g.user # act.target
  <2>1. CASE gated
    <3>1. PICK u \in Admins(at) \ {act.target} : TRUE
      BY <2>1 DEF Apply, MayApply, Remaining
    <3>2. PICK g \in grants : g.user = u /\ g.role = ADMIN /\ g.from <= at /\ at < g.to
      BY DEF Admins
    <3>3. g.to = Forever
      BY <3>2, AdminsAreForGood
    <3> QED
      BY <3>1, <3>2, <3>3 DEF Admins
  <2>2. CASE ~gated
    <3>1. PICK g \in grants : g.role = ADMIN /\ g.to = Forever /\ status[g.user] = "active"
      BY DEF Administered
    <3>2. at < g.to
      BY <3>1, ForeverIsLast
    <3>3. g.from <= at
      BY <3>2, AdminsAreForGood
    <3>4. g.user \in Users
      BY DEF TypeOK
    <3>5. g.user \in Admins(at)
      BY <3>1, <3>2, <3>3, <3>4 DEF Admins
    <3> QED
      BY <2>2, <3>1, <3>4, <3>5
  <2> QED
    BY <2>1, <2>2
<1>2. PICK g \in grants : /\ g.role = ADMIN /\ g.to = Forever /\ status[g.user] = "active" /\ g.user \in Users
                          /\ act.verb = "REVOKE_ROLE" => g.user # act.target \/ g.role # act.role
                          /\ act.verb = "DEACTIVATE_USER" => g.user # act.target
  BY <1>1
<1>3. g \in grants'
  BY <1>2, KeptGrants
<1>4. status'[g.user] = "active"
  BY <1>2, ActFields DEF Apply, TypeOK
<1> QED
  BY <1>2, <1>3, <1>4 DEF Administered

\* A call that commits a row of the log: PENDING and nothing else, or in effect at its clock.
Commits(p, r) ==
  /\ Len(log) < MaxLog
  /\ log' = Append(log, r) /\ Done(p) /\ now' = now
  /\ r.at <= now
  /\ r.status = "PENDING" <=> r.resolver = NoUser
  /\ r.status = "APPROVED" => r.resolves \in DOMAIN log
  /\ r.status # "APPROVED" => r.resolves = NotARequest
  /\ r.resolves # NotARequest => \A j \in DOMAIN log : log[j].resolves # r.resolves
  /\ IF r.status = "PENDING" THEN UNCHANGED <<grants, status>> ELSE Apply(r.act, r.at)

LEMMA CommitKeeps ==
  ASSUME IInv, NEW p \in Calls, NEW r \in LogRows, Commits(p, r)
  PROVE  IInv'
<1> USE DEF IInv
<1> DEFINE n == Len(log)
<1>1. /\ log' = Append(log, r) /\ now' = now /\ n < MaxLog /\ r.at <= now
      /\ call' = [call EXCEPT ![p] = NoCall]
  BY DEF Commits, Done
<1>2. /\ log \in Seq(LogRows) /\ n \in Nat /\ DOMAIN log = 1..n
      /\ log' \in Seq(LogRows) /\ Len(log') = n + 1 /\ DOMAIN log' = 1 .. n + 1
      /\ \A i \in 1..n : log'[i] = log[i]
      /\ log'[n + 1] = r
  BY <1>1, AppendedRow DEF TypeOK
<1>3. r.act \in Acts /\ r.at \in 0..MaxTime /\ r.resolves \in 0..MaxLog
  BY DEF LogRows
<1>4. TypeOK'
  <2>1. /\ status' \in [Users -> {"absent", "active", "inactive"}]
        /\ grants' \subseteq GrantRows
    <3>1. CASE r.status = "PENDING"
      BY <3>1 DEF Commits, TypeOK, GrantRows
    <3>2. CASE r.status # "PENDING"
      BY <3>2, <1>3, ApplyTypes DEF Commits
    <3> QED
      BY <3>1, <3>2
  <2>2. Len(log') <= MaxLog
    BY <1>1, <1>2, AdminAssumption
  <2>3. ASSUME NEW i \in DOMAIN log'
        PROVE  /\ log'[i].at <= now'
               /\ log'[i].status = "PENDING" <=> log'[i].resolver = NoUser
               /\ log'[i].status = "APPROVED" => log'[i].resolves \in 1..(i - 1)
               /\ log'[i].status # "APPROVED" => log'[i].resolves = NotARequest
    <3>1. CASE i \in 1..n
      BY <1>1, <1>2, <3>1 DEF TypeOK
    <3>2. CASE i = n + 1
      <4>1. n = i - 1
        BY <1>2, <3>2
      <4> QED
        BY <1>1, <1>2, <3>2, <4>1 DEF Commits
    <3> QED
      BY <1>2, <3>1, <3>2
  <2>4. NoCall \in CallRecords
    BY AdminAssumption DEF NoCall, CallRecords
  <2>5. call' \in [Calls -> CallRecords]
    BY <1>1, <2>4 DEF TypeOK
  <2>6. ASSUME NEW q \in Calls
        PROVE  /\ call'[q].step = "idle" <=> call'[q].actor = NoUser
               /\ call'[q].seen <= Len(log') /\ call'[q].at <= now'
    <3>1. now \in Nat /\ call[q].seen \in Nat
      BY AdminAssumption DEF TypeOK, CallRecords
    <3>2. CASE q = p
      BY <1>1, <1>2, <3>1, <3>2 DEF TypeOK, NoCall
    <3>3. CASE q # p
      BY <1>1, <1>2, <3>1, <3>3 DEF TypeOK
    <3> QED
      BY <3>2, <3>3
  <2> QED
    BY <1>1, <1>2, <2>1, <2>2, <2>3, <2>5, <2>6 DEF TypeOK, GrantRows
<1>5. DecidedOnce'
  <2> SUFFICES ASSUME NEW i \in DOMAIN log', NEW j \in DOMAIN log',
                      log'[i].resolves = log'[j].resolves, log'[i].resolves # NotARequest
               PROVE  i = j
    BY DEF DecidedOnce
  <2>1. CASE i \in 1..n /\ j \in 1..n
    BY <1>2, <2>1 DEF DecidedOnce
  <2>2. ASSUME NEW k \in 1..n, log'[k].resolves = r.resolves, r.resolves # NotARequest PROVE FALSE
    BY <1>2, <2>2 DEF Commits
  <2> QED
    BY <1>2, <2>1, <2>2
<1>6. InOrderIsSettled'
  <2> SUFFICES ASSUME InOrder(log') PROVE \E last \in 0..now : Latest(last)' /\ Settled(last)' /\ Administered'
    BY <1>1 DEF InOrderIsSettled
  <2>1. PICK last \in 0..MaxTime :
           /\ last <= now
           /\ Latest(last) /\ Settled(last) /\ Administered
           /\ r.status # "PENDING" => last <= r.at
    BY <1>1, AppendedInOrder
  <2>2. CASE r.status = "PENDING"
    <3>1. Latest(last)'
      <4>1. ASSUME NEW i \in DOMAIN log', Effective(i)' PROVE log'[i].at <= last
        BY <1>2, <2>1, <2>2, <4>1 DEF Latest, Effective
      <4>2. ASSUME NEW i \in DOMAIN log, Effective(i), log[i].at = last
            PROVE  i \in DOMAIN log' /\ Effective(i)' /\ log'[i].at = last
        BY <1>2, <4>2 DEF Effective
      <4> QED
        BY <2>1, <4>1, <4>2 DEF Latest
    <3>2. Settled(last)' /\ Administered'
      BY <2>1, <2>2 DEF Commits, Settled, Administered
    <3>3. last \in 0..now
      BY <2>1, ForeverIsLast DEF TypeOK
    <3> QED
      BY <3>1, <3>2, <3>3
  <2>3. CASE r.status # "PENDING"
    <3>1. PICK at \in 0..MaxTime : at = r.at
      BY <1>3
    <3>2. last <= at /\ Apply(r.act, at)
      BY <2>1, <2>3, <3>1 DEF Commits
    <3>3. Settled(at)'
      BY <1>3, <2>1, <3>2, ApplySettles
    <3>4. Administered'
      BY <1>3, <2>1, <3>2, ApplyLeavesAdministrator
    <3>5. Latest(at)'
      <4>1. ASSUME NEW i \in DOMAIN log', Effective(i)' PROVE log'[i].at <= at
        <5>1. CASE i = n + 1
          BY <1>2, <3>1, <5>1, ForeverIsLast
        <5>2. CASE i \in 1..n
          <6>0. log[i] \in LogRows /\ log'[i] = log[i]
            BY <1>2, <5>2
          <6>1. Effective(i) /\ log[i].at \in Nat /\ log'[i].at = log[i].at
            BY <4>1, <6>0, ForeverIsLast DEF Effective, LogRows
          <6>2. log[i].at <= last /\ last \in Nat /\ at \in Nat
            BY <1>2, <2>1, <5>2, <6>1, ForeverIsLast DEF Latest
          <6> QED
            BY <3>2, <6>1, <6>2
        <5> QED
          BY <1>2, <5>1, <5>2
      <4>2. PICK k : k = n + 1
        OBVIOUS
      <4>3. k \in DOMAIN log' /\ Effective(k)' /\ log'[k].at = at
        BY <1>2, <2>3, <3>1, <4>2 DEF Effective
      <4> QED
        BY <4>1, <4>3 DEF Latest
    <3>6. at \in 0..now
      BY <1>1, <3>1, ForeverIsLast DEF TypeOK
    <3> QED
      BY <3>3, <3>4, <3>5, <3>6
  <2> QED
    BY <2>2, <2>3
<1> QED
  BY <1>4, <1>5, <1>6

\* A request and an approval commit such a row.
LEMMA RequestCommits ==
  ASSUME TypeOK, NEW p \in Calls, NEW act \in Acts, RequestChange(p, act)
  PROVE  \E r \in LogRows :
           /\ Commits(p, r) /\ r.act = act /\ r.by = call[p].actor
           /\ r.status = "DIRECT" => r.at = call[p].at /\ ~FourEyes(act, r.by, r.at)
           /\ r.status # "APPROVED"
<1>1. PICK c \in CallRecords : c = call[p]
  BY DEF TypeOK
<1>2. /\ c.step = "waiting" /\ c.actor \in Users /\ c.at \in 0..MaxTime /\ c.at <= now /\ 0 <= now
  BY <1>1, AdminAssumption DEF TypeOK, CallRecords, RequestChange
<1>3. PICK state \in {"PENDING", "DIRECT"} : state = IF FourEyes(act, c.actor, c.at) THEN "PENDING" ELSE "DIRECT"
  OBVIOUS
<1>4. PICK r : r = Row(act, state, c.actor, c.actor, c.at, NotARequest)
  OBVIOUS
<1>5. /\ r.act = act /\ r.status = state /\ r.by = c.actor /\ r.resolves = NotARequest
      /\ r.resolver = Resolver(state, c.actor) /\ r.at = IF state = "PENDING" THEN NotYet ELSE c.at
  BY <1>4 DEF Row
<1>6. r \in LogRows
  BY <1>2, <1>4, AdminAssumption DEF Row, LogRows, Resolver, NotARequest, NotYet
<1>7. /\ Len(log) < MaxLog /\ log' = Append(log, r) /\ Done(p) /\ now' = now
      /\ IF state = "PENDING" THEN UNCHANGED <<grants, status>> ELSE Apply(act, c.at)
  BY <1>1, <1>3, <1>4 DEF RequestChange
<1>8. Commits(p, r)
  BY <1>2, <1>5, <1>7, AdminAssumption DEF Commits, Resolver, NotYet
<1> QED
  BY <1>1, <1>3, <1>5, <1>6, <1>8

LEMMA ApprovalCommits ==
  ASSUME TypeOK, NEW p \in Calls, NEW i \in DOMAIN log, ApproveChange(p, i)
  PROVE  \E r \in LogRows : Commits(p, r) /\ r.status = "APPROVED" /\ r.resolver # r.by
<1>1. PICK c \in CallRecords : c = call[p]
  BY DEF TypeOK
<1>2. /\ c.step = "waiting" /\ c.actor \in Users /\ c.at \in 0..MaxTime /\ c.at <= now
  BY <1>1, AdminAssumption DEF TypeOK, CallRecords, ApproveChange
<1>3. PICK request \in LogRows : request = log[i]
  BY DEF TypeOK
<1>4. request.act \in Acts /\ request.by \in Users /\ request.by # c.actor
  BY <1>1, <1>3 DEF LogRows, ApproveChange
<1>5. PICK r : r = Row(request.act, "APPROVED", request.by, c.actor, c.at, i)
  OBVIOUS
<1>6. /\ r.act = request.act /\ r.status = "APPROVED" /\ r.by = request.by /\ r.resolves = i
      /\ r.resolver = c.actor /\ r.at = c.at
  BY <1>5 DEF Row, Resolver
<1>7. DOMAIN log = 1 .. Len(log) /\ Len(log) \in Nat /\ Len(log) <= MaxLog
  BY LenProperties DEF TypeOK
<1>8. i \in 0..MaxLog
  BY <1>7, AdminAssumption
<1>9. r \in LogRows
  BY <1>2, <1>4, <1>5, <1>8 DEF Row, Resolver, LogRows
<1>10. /\ Len(log) < MaxLog /\ log' = Append(log, r) /\ Done(p) /\ now' = now
       /\ Apply(request.act, c.at) /\ Undecided(i)
  BY <1>1, <1>3, <1>5 DEF ApproveChange
<1>11. Commits(p, r)
  BY <1>2, <1>6, <1>10, AdminAssumption DEF Commits, Undecided
<1> QED
  BY <1>4, <1>6, <1>9, <1>11

-----------------------------------------------------------------------------
(* The invariant holds. *)

LEMMA InitKeeps == Init => IInv
<1> SUFFICES ASSUME Init PROVE IInv
  OBVIOUS
<1>1. PICK first \in (SUBSET Users) \ {{}} :
         /\ status = [u \in Users |-> IF u \in first THEN "active" ELSE "absent"]
         /\ grants = {[user |-> u, role |-> ADMIN, from |-> 0, to |-> Forever] : u \in first}
  BY DEF Init
<1>2. log = <<>> /\ now = 1 /\ call = [p \in Calls |-> NoCall]
  BY DEF Init
<1>3. log \in Seq(LogRows) /\ Len(log) = 0 /\ DOMAIN log = {}
  BY <1>2
<1>4. TypeOK
  <2>1. ASSUME NEW g \in grants PROVE g \in GrantRows
    BY <1>1, ForeverIsLast, AdminAssumption DEF GrantRows
  <2>2. NoCall \in CallRecords /\ NoCall.actor = NoUser /\ NoCall.step = "idle" /\ NoCall.seen = 0 /\ NoCall.at = 0
    BY AdminAssumption DEF NoCall, CallRecords
  <2>3. now \in 1..MaxTime /\ 0 <= MaxLog
    BY <1>2, AdminAssumption
  <2> QED
    BY <1>1, <1>2, <1>3, <2>1, <2>2, <2>3 DEF TypeOK, GrantRows
<1>5. DecidedOnce
  BY <1>3 DEF DecidedOnce
<1>6. Latest(0)
  BY <1>3 DEF Latest
<1>7. Settled(0)
  BY <1>1 DEF Settled
<1>8. Administered
  <2>1. PICK u \in first : u \in Users
    BY <1>1
  <2>2. PICK g : g = [user |-> u, role |-> ADMIN, from |-> 0, to |-> Forever]
    OBVIOUS
  <2> QED
    BY <1>1, <2>1, <2>2 DEF Administered
<1>9. 0 \in 0..now
  BY <1>2
<1> QED
  BY <1>4, <1>5, <1>6, <1>7, <1>8, <1>9 DEF IInv, InOrderIsSettled

\* A step that leaves the log and the grants alone, deactivates nobody and does not turn the clock back.
LEMMA OtherwiseSettled ==
  ASSUME IInv, UNCHANGED <<grants, log>>, now' \in 1..MaxTime, now <= now',
         \A u \in Users : status[u] = "active" => status'[u] = "active"
  PROVE  DecidedOnce' /\ InOrderIsSettled'
<1>1. DecidedOnce'
  BY DEF IInv, DecidedOnce
<1>2. ASSUME NEW last \in 0..now, Latest(last), Settled(last)
      PROVE  last \in 0..now' /\ Latest(last)' /\ Settled(last)'
  <2>1. last \in 0..now'
    BY AdminAssumption DEF IInv, TypeOK
  <2> QED
    BY <1>2, <2>1 DEF Latest, Settled, Effective
<1>3. ASSUME Administered PROVE Administered'
  BY <1>3 DEF Administered, IInv, TypeOK
<1> QED
  BY <1>1, <1>2, <1>3 DEF IInv, InOrderIsSettled, InOrder

LEMMA NextKeeps == IInv /\ [Next]_vars => IInv'
<1> SUFFICES ASSUME IInv, [Next]_vars PROVE IInv'
  OBVIOUS
<1>1. ASSUME Tick PROVE IInv'
  <2>1. now' \in 1..MaxTime /\ now <= now' /\ now \in Nat /\ now' \in Nat /\ now' = now + 1
    BY <1>1, AdminAssumption DEF Tick, IInv, TypeOK
  <2>2. UNCHANGED <<status, grants, log, call>>
    BY <1>1 DEF Tick
  <2>3. ASSUME NEW i \in DOMAIN log PROVE log[i].at <= now'
    <3>1. log[i] \in LogRows /\ log[i].at <= now
      BY DEF IInv, TypeOK
    <3>2. log[i].at \in Nat
      BY <3>1, ForeverIsLast DEF LogRows
    <3> QED
      BY <2>1, <3>1, <3>2
  <2>4. ASSUME NEW p \in Calls PROVE call[p].at <= now'
    <3>1. call[p] \in CallRecords /\ call[p].at <= now
      BY DEF IInv, TypeOK
    <3>2. call[p].at \in Nat
      BY <3>1, ForeverIsLast DEF CallRecords
    <3> QED
      BY <2>1, <3>1, <3>2
  <2>5. TypeOK'
    BY <2>1, <2>2, <2>3, <2>4 DEF IInv, TypeOK
  <2> QED
    BY <2>1, <2>2, <2>5, OtherwiseSettled DEF IInv
<1>2. ASSUME NEW u \in Users, CreateUser(u) PROVE IInv'
  <2>1. UNCHANGED <<grants, log, call, now>> /\ status' = [status EXCEPT ![u] = "active"]
    BY <1>2 DEF CreateUser
  <2>2. TypeOK'
    BY <2>1 DEF IInv, TypeOK
  <2>3. \A v \in Users : status[v] = "active" => status'[v] = "active"
    BY <2>1 DEF IInv, TypeOK
  <2>4. now' \in 1..MaxTime /\ now <= now'
    BY <2>1, AdminAssumption DEF IInv, TypeOK
  <2> QED
    BY <2>1, <2>2, <2>3, <2>4, OtherwiseSettled DEF IInv
<1>3. ASSUME NEW p \in Calls, NEW c \in CallRecords, call' = [call EXCEPT ![p] = c],
             UNCHANGED <<status, grants, log, now>>,
             c.step = "idle" <=> c.actor = NoUser, c.seen <= Len(log), c.at <= now
      PROVE  IInv'
  <2>1. TypeOK'
    BY <1>3 DEF IInv, TypeOK
  <2>2. now' \in 1..MaxTime /\ now <= now'
    BY <1>3, AdminAssumption DEF IInv, TypeOK
  <2> QED
    BY <1>3, <2>1, <2>2, OtherwiseSettled DEF IInv
<1>4. ASSUME NEW p \in Calls, Authorise(p) PROVE IInv'
  <2>1. PICK u \in Admins(now) :
           /\ call' = [call EXCEPT ![p] = [step |-> "authorised", actor |-> u, seen |-> Len(log), at |-> 0]]
           /\ UNCHANGED <<status, grants, log, now>>
    BY <1>4 DEF Authorise
  <2>2. u \in Users /\ u # NoUser
    BY AdminAssumption DEF Admins
  <2>3. PICK c : c = [step |-> "authorised", actor |-> u, seen |-> Len(log), at |-> 0]
    OBVIOUS
  <2>4. Len(log) \in 0..MaxLog /\ 0 <= now /\ 0 \in 0..MaxTime
    BY LenProperties, AdminAssumption DEF IInv, TypeOK
  <2>5. c \in CallRecords
    BY <2>2, <2>3, <2>4 DEF CallRecords
  <2>6. c.step # "idle" /\ c.actor # NoUser /\ c.seen <= Len(log) /\ c.at <= now
    BY <2>2, <2>3, <2>4
  <2> QED
    BY <1>3, <2>1, <2>3, <2>5, <2>6
<1>5. ASSUME NEW p \in Calls, ReadClock(p) PROVE IInv'
  <2>1. /\ call[p].step = "authorised" /\ call' = [call EXCEPT ![p].step = "waiting", ![p].at = now]
        /\ UNCHANGED <<status, grants, log, now>>
    BY <1>5 DEF ReadClock
  <2>2. PICK c : c = [call[p] EXCEPT !.step = "waiting", !.at = now]
    OBVIOUS
  <2>3. call[p] \in CallRecords /\ now \in 0..MaxTime /\ call[p].actor # NoUser /\ call[p].seen <= Len(log)
    BY <2>1, AdminAssumption DEF IInv, TypeOK
  <2>4. /\ c \in CallRecords /\ c.step # "idle" /\ c.actor # NoUser /\ c.seen <= Len(log) /\ c.at = now
    BY <2>2, <2>3 DEF CallRecords
  <2>5. call' = [call EXCEPT ![p] = c]
    BY <2>1, <2>2 DEF IInv, TypeOK
  <2>6. c.at <= now
    BY <2>3, <2>4, ForeverIsLast
  <2> QED
    BY <1>3, <2>1, <2>4, <2>5, <2>6
<1>6. ASSUME NEW p \in Calls, GiveUp(p) PROVE IInv'
  <2>1. call' = [call EXCEPT ![p] = NoCall] /\ UNCHANGED <<status, grants, log, now>>
    BY <1>6 DEF GiveUp, Done
  <2>2. /\ NoCall \in CallRecords /\ NoCall.step = "idle" /\ NoCall.actor = NoUser
        /\ NoCall.seen <= Len(log) /\ NoCall.at <= now
    BY AdminAssumption, LenProperties DEF NoCall, CallRecords, IInv, TypeOK
  <2> QED
    BY <1>3, <2>1, <2>2
<1>7. ASSUME NEW p \in Calls, NEW act \in Acts, RequestChange(p, act) PROVE IInv'
  <2>1. PICK r \in LogRows : Commits(p, r)
    BY <1>7, RequestCommits DEF IInv
  <2> QED
    BY <2>1, CommitKeeps
<1>8. ASSUME NEW p \in Calls, NEW i \in DOMAIN log, ApproveChange(p, i) PROVE IInv'
  <2>1. PICK r \in LogRows : Commits(p, r)
    BY <1>8, ApprovalCommits DEF IInv
  <2> QED
    BY <2>1, CommitKeeps
<1>9. CASE UNCHANGED vars
  <2>1. TypeOK'
    BY <1>9 DEF vars, IInv, TypeOK
  <2>2. now' \in 1..MaxTime /\ now <= now'
    BY <1>9, AdminAssumption DEF vars, IInv, TypeOK
  <2> QED
    BY <1>9, <2>1, <2>2, OtherwiseSettled DEF vars, IInv
<1> QED
  BY <1>1, <1>2, <1>4, <1>5, <1>6, <1>7, <1>8, <1>9 DEF Next

-----------------------------------------------------------------------------
(* The theorems. *)

\* The invariant holds in every state the administration reaches.
THEOREM Invariance == Spec => []IInv
<1>1. Init => IInv
  BY InitKeeps
<1>2. IInv /\ [Next]_vars => IInv'
  BY NextKeeps
<1> QED
  BY <1>1, <1>2, PTL DEF Spec

\* The columns have their types and the CHECKs of entitlement_request hold.
THEOREM TypeCorrect == Spec => []TypeOK
<1>1. IInv => TypeOK
  BY DEF IInv
<1> QED
  BY <1>1, Invariance, PTL

\* A pending change takes effect once, however many administrators approve it at a time:
\* Undecided is asked again under the tenant's lock.
THEOREM RequestsAreDecidedOnce == Spec => []DecidedOnce
<1>1. IInv => DecidedOnce
  BY DEF IInv
<1> QED
  BY <1>1, Invariance, PTL

\* Unless a call was overtaken between its clock and the lock, the orphan check keeps the
\* tenant an administrator, through requests approved long after they were made.
THEOREM AdministratorsRemain == Spec => []OrphanedOnlyOutOfOrder
<1>1. ASSUME IInv, InOrder(log) PROVE NeverOrphaned
  <2>1. PICK last \in 0..now : Settled(last) /\ Administered
    BY <1>1 DEF IInv, InOrderIsSettled
  <2>2. PICK g \in grants : g.role = ADMIN /\ g.to = Forever /\ status[g.user] = "active"
    BY <2>1 DEF Administered
  <2>3. g \in GrantRows
    BY <1>1 DEF IInv, TypeOK, GrantRows
  <2>4. last \in 0..MaxTime /\ now \in 0..MaxTime /\ last <= now
    BY <1>1, AdminAssumption DEF IInv, TypeOK
  <2>5. now < g.to
    BY <2>2, <2>4, ForeverIsLast
  <2>6. g.from <= now
    BY <1>1, <2>1, <2>4, <2>5, AdminsAreForGood DEF IInv
  <2> QED
    BY <2>2, <2>3, <2>5, <2>6 DEF NeverOrphaned, Administrators, GrantRows
<1>2. IInv => OrphanedOnlyOutOfOrder
  BY <1>1 DEF OrphanedOnlyOutOfOrder
<1> QED
  BY <1>2, Invariance, PTL

\* SOD-04: unless a call was overtaken, authority changes hands only with a second person's
\* consent, or at the request of the only administrator there is.
THEOREM FourEyesHold == Spec => NobodyActsAlone
<1> DEFINE row == log'[Len(log')]
           moved == \/ grants' # grants
                    \/ \E u \in Users : status[u] = "active" /\ status'[u] = "inactive"
           alone == \/ row.status = "APPROVED" /\ row.resolver # row.by
                    \/ row.status = "DIRECT" /\ Administrators \subseteq {row.by}
                    \/ row.act.verb = "DEACTIVATE_USER" /\ row.act.target \notin Administrators
<1>1. ASSUME IInv, [Next]_vars, moved, InOrder(log') PROVE alone
  <2>1. ASSUME NEW p \in Calls, NEW r \in LogRows, Commits(p, r) PROVE row = r
    BY <1>1, <2>1, AppendedRow DEF Commits, IInv, TypeOK
  <2>2. ASSUME NEW p \in Calls, NEW i \in DOMAIN log, ApproveChange(p, i) PROVE alone
    BY <1>1, <2>1, <2>2, ApprovalCommits DEF IInv
  <2>3. ASSUME NEW p \in Calls, NEW act \in Acts, RequestChange(p, act) PROVE alone
    <3>1. PICK r \in LogRows :
             /\ Commits(p, r) /\ r.act = act /\ r.by = call[p].actor
             /\ r.status = "DIRECT" => r.at = call[p].at /\ ~FourEyes(act, r.by, r.at)
             /\ r.status # "APPROVED"
      BY <1>1, <2>3, RequestCommits DEF IInv
    <3>2. row = r /\ log' = Append(log, r) /\ r.at <= now
      BY <2>1, <3>1 DEF Commits
    <3>3. r.status # "PENDING"
      <4>1. ASSUME r.status = "PENDING" PROVE FALSE
        BY <1>1, <3>1, <4>1 DEF Commits
      <4> QED
        BY <4>1
    <3>4. r.status = "DIRECT" /\ ~FourEyes(act, r.by, r.at) /\ r.at \in 0..MaxTime
      BY <3>1, <3>3 DEF LogRows
    <3>5. PICK last \in 0..MaxTime : Settled(last) /\ last <= r.at
      BY <1>1, <3>2, <3>3, AppendedInOrder DEF IInv
    <3>6. Administrators \subseteq Admins(r.at)
      BY <1>1, <3>2, <3>4, <3>5, AdministratorsAtTheClock DEF IInv
    <3> QED
      BY <3>1, <3>2, <3>4, <3>6 DEF FourEyes, SecondAdmin
  <2>4. ASSUME NEW u \in Users, CreateUser(u) PROVE ~moved
    BY <1>1, <2>4 DEF CreateUser, IInv, TypeOK
  <2>5. ASSUME UNCHANGED <<status, grants>> PROVE ~moved
    BY <1>1, <2>5 DEF IInv, TypeOK
  <2>6. ASSUME NEW p \in Calls, Authorise(p) \/ ReadClock(p) \/ GiveUp(p) PROVE UNCHANGED <<status, grants>>
    BY <2>6 DEF Authorise, ReadClock, GiveUp
  <2>7. ASSUME Tick \/ UNCHANGED vars PROVE UNCHANGED <<status, grants>>
    BY <2>7 DEF Tick, vars
  <2> HIDE DEF moved, alone
  <2> QED
    BY <1>1, <2>2, <2>3, <2>4, <2>5, <2>6, <2>7 DEF Next
<1>2. IInv /\ [Next]_vars => (moved /\ InOrder(log') => alone)
  BY <1>1
<1> QED
  BY <1>2, Invariance, PTL DEF Spec, NobodyActsAlone
=============================================================================
