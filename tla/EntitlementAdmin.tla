--------------------------- MODULE EntitlementAdmin ---------------------------
(***************************************************************************)
(* entitlement/admin_service.py: a tenant's administrators change who may  *)
(* do what.  A change takes effect at once when its requester is the only  *)
(* administrator, and otherwise waits for a second one to approve it.      *)
(*                                                                         *)
(* A call is authorised (require_permission), then reads its clock, and    *)
(* only then waits for the tenant's advisory lock.  Every writer takes     *)
(* that lock and keeps it to its COMMIT, so what a call does under it is   *)
(* one step here: RequestChange or ApproveChange, with the clock it read.  *)
(* A call that is refused or dies rolls back: GiveUp.  What a call asks    *)
(* for matters only under the lock, and is chosen there; a row it approves *)
(* was on the log when the call was made.                                  *)
(***************************************************************************)
EXTENDS Naturals, FiniteSets, Sequences

CONSTANTS
  Users,          \* the user ids that may ever exist in the tenant
  Roles, ADMIN,   \* ADMIN: the tenant_admin role
  NoRole, NoUser,
  Calls,          \* API calls that may be in flight at once
  MaxTime,        \* bound: the clock
  MaxLog          \* bound: rows of the request log

ASSUME AdminAssumption ==
  /\ ADMIN \in Roles /\ NoRole \notin Roles /\ NoUser \notin Users
  /\ MaxTime \in Nat \ {0} /\ MaxLog \in Nat

VARIABLES
  status,   \* status[u]: "absent", "active" or "inactive" (app_user)
  grants,   \* the rows of user_role: role of user in [from, to)
  log,      \* the rows of entitlement_request, append-only
  call,     \* call[p]: the call in flight
  now       \* the clock

vars == <<status, grants, log, call, now>>

Forever == MaxTime + 1      \* valid_to IS NULL
NotARequest == 0            \* resolves_request_id IS NULL
NotYet == 0                 \* resolved_at IS NULL

Act(verb, target, role) == [verb |-> verb, target |-> target, role |-> role]

\* request_entitlement_change refuses a grant or a revocation that names no role.
Acts ==
  {Act(verb, u, r) : verb \in {"GRANT_ROLE", "REVOKE_ROLE"}, u \in Users, r \in Roles}
    \cup {Act("DEACTIVATE_USER", u, NoRole) : u \in Users}

\* seen is the length of the log when the call was made, at the clock it read.
NoCall == [step |-> "idle", actor |-> NoUser, seen |-> 0, at |-> 0]

-----------------------------------------------------------------------------
\* valid_admin_user_ids
Admins(at) ==
  {u \in Users : /\ status[u] = "active"
                 /\ \E g \in grants : /\ g.user = u /\ g.role = ADMIN
                                      /\ g.from <= at /\ at < g.to}

\* Mutant: a third administrator is needed before there are four eyes.
ThirdAdmin(requester, at) == Cardinality(Admins(at) \ {requester}) >= 2

\* _four_eyes_required
SecondAdmin(requester, at) == Admins(at) \ {requester} # {}

\* Mutant: grants count, whether or not their holder may log in.
RemainingGrants(losing, at) ==
  {g.user : g \in {h \in grants : h.role = ADMIN /\ h.from <= at /\ at < h.to}} \ {losing}

\* _assert_not_orphaning
Remaining(losing, at) == Admins(at) \ {losing}

\* The grants a grant or a revocation finds: those that have not ended.
InForce(u, r, at) == {g \in grants : g.user = u /\ g.role = r /\ at < g.to}

\* When _apply raises: the tenant would be orphaned, or two grants answer a query for one.
MayApply(act, at) ==
  /\ \/ act.verb = "REVOKE_ROLE" /\ act.role = ADMIN
     \/ act.verb = "DEACTIVATE_USER" /\ act.target \in Admins(at)
     => Remaining(act.target, at) # {}
  /\ act.verb = "GRANT_ROLE" => Cardinality(InForce(act.target, act.role, at)) <= 1

\* The grants after _apply.
GrantsAfter(act, at) ==
  LET found == InForce(act.target, act.role, at)
  IN  CASE act.verb = "GRANT_ROLE" /\ found = {} ->
             grants \cup {[user |-> act.target, role |-> act.role,
                           from |-> at, to |-> Forever]}
        [] act.verb = "REVOKE_ROLE" ->
             (grants \ found) \cup {[g EXCEPT !.to = at] : g \in found}
        [] OTHER -> grants

Apply(act, at) ==
  /\ MayApply(act, at)
  /\ grants' = GrantsAfter(act, at)
  /\ status' = IF act.verb = "DEACTIVATE_USER"
               THEN [status EXCEPT ![act.target] = "inactive"] ELSE status

\* Mutant: an undecided request already names who will have decided it.
ResolverAlways(state, actor) == actor

\* resolved_by: nobody while PENDING (ck_entitlement_request_resolution).
Resolver(state, actor) == IF state = "PENDING" THEN NoUser ELSE actor

Row(act, state, requester, resolver, at, resolves) ==
  [act |-> act, status |-> state, by |-> requester,
   resolver |-> Resolver(state, resolver),
   at |-> IF state = "PENDING" THEN NotYet ELSE at, resolves |-> resolves]

\* Mutant: a request that was approved may be approved again.
PendingRow(i) == log[i].status = "PENDING"

\* Still awaiting a second administrator: no row resolves it.
Undecided(i) ==
  /\ log[i].status = "PENDING"
  /\ \A j \in DOMAIN log : log[j].resolves # i

-----------------------------------------------------------------------------
\* The tenant was onboarded with one administrator before the first tick of the clock, and
\* may have got more since; the rows of the log about that are decided and left out.
Init ==
  /\ \E first \in (SUBSET Users) \ {{}} :
       /\ status = [u \in Users |-> IF u \in first THEN "active" ELSE "absent"]
       /\ grants = {[user |-> u, role |-> ADMIN, from |-> 0, to |-> Forever] : u \in first}
  /\ log = <<>>
  /\ call = [p \in Calls |-> NoCall]
  /\ now = 1

\* require_permission: whoever holds the administrators' role now.
Authorise(p) ==
  \E u \in Admins(now) :
    /\ call[p].step = "idle"
    /\ call' = [call EXCEPT ![p] = [step |-> "authorised", actor |-> u,
                                    seen |-> Len(log), at |-> 0]]
    /\ UNCHANGED <<status, grants, log, now>>

\* at = datetime.now(UTC), before _lock_tenant
ReadClock(p) ==
  /\ call[p].step = "authorised"
  /\ call' = [call EXCEPT ![p].step = "waiting", ![p].at = now]
  /\ UNCHANGED <<status, grants, log, now>>

\* The call has the lock, does its work and commits.
Done(p) == call' = [call EXCEPT ![p] = NoCall]

\* Four eyes gate grants, revocations, and the deactivation of an administrator.
FourEyes(act, requester, at) ==
  /\ SecondAdmin(requester, at)
  /\ act.verb = "DEACTIVATE_USER" => act.target \in Admins(at)

\* request_entitlement_change
RequestChange(p, act) ==
  LET c == call[p]
      pending == FourEyes(act, c.actor, c.at)
  IN  /\ c.step = "waiting"
      /\ Len(log) < MaxLog
      /\ status[act.target] # "absent"
      /\ log' = Append(log, Row(act, IF pending THEN "PENDING" ELSE "DIRECT",
                                c.actor, c.actor, c.at, NotARequest))
      /\ IF pending THEN UNCHANGED <<grants, status>> ELSE Apply(act, c.at)
      /\ Done(p)
      /\ UNCHANGED now

\* approve_entitlement_change
ApproveChange(p, i) ==
  LET c == call[p]
      request == log[i]
  IN  /\ c.step = "waiting" /\ i <= c.seen
      /\ Len(log) < MaxLog
      /\ Undecided(i)
      /\ request.by # c.actor
      /\ Apply(request.act, c.at)
      /\ log' = Append(log, Row(request.act, "APPROVED", request.by, c.actor, c.at, i))
      /\ Done(p)
      /\ UNCHANGED now

\* create_user: neither gated nor locked; its subject is unique, its id is fresh.
CreateUser(u) ==
  /\ Admins(now) # {}
  /\ status[u] = "absent"
  /\ status' = [status EXCEPT ![u] = "active"]
  /\ UNCHANGED <<grants, log, call, now>>

\* Refused, or lost with its connection: nothing was written.
GiveUp(p) ==
  /\ call[p].step # "idle"
  /\ Done(p)
  /\ UNCHANGED <<status, grants, log, now>>

Tick == now < MaxTime /\ now' = now + 1 /\ UNCHANGED <<status, grants, log, call>>

Next ==
  \/ Tick
  \/ \E u \in Users : CreateUser(u)
  \/ \E p \in Calls :
       \/ Authorise(p) \/ ReadClock(p) \/ GiveUp(p)
       \/ \E act \in Acts : RequestChange(p, act)
       \/ \E i \in DOMAIN log : ApproveChange(p, i)

Spec == Init /\ [][Next]_vars

-----------------------------------------------------------------------------
LogRows ==
  [act : Acts, status : {"PENDING", "DIRECT", "APPROVED"}, by : Users, resolver : Users \cup {NoUser},
   at : 0..MaxTime, resolves : 0..MaxLog]

CallRecords ==
  [step : {"idle", "authorised", "waiting"}, actor : Users \cup {NoUser}, seen : 0..MaxLog, at : 0..MaxTime]

\* Types, and the CHECKs of the table: a row that took effect names who decided it and
\* a PENDING one names nobody; a row resolves an earlier request iff it is APPROVED.
TypeOK ==
  /\ status \in [Users -> {"absent", "active", "inactive"}]
  /\ grants \subseteq [user : Users, role : Roles, from : 0..MaxTime, to : 0..Forever]
  /\ log \in Seq(LogRows) /\ Len(log) <= MaxLog
  /\ \A i \in DOMAIN log :
       /\ log[i].at <= now
       /\ log[i].status = "PENDING" <=> log[i].resolver = NoUser
       /\ log[i].status = "APPROVED" => log[i].resolves \in 1..(i - 1)
       /\ log[i].status # "APPROVED" => log[i].resolves = NotARequest
  /\ call \in [Calls -> CallRecords]
  /\ \A p \in Calls : /\ call[p].step = "idle" <=> call[p].actor = NoUser
                      /\ call[p].seen <= Len(log) /\ call[p].at <= now
  /\ now \in 1..MaxTime

\* Who administers the tenant at this moment, as authentication and
\* require_permission see it.
Administrators ==
  {u \in Users : /\ status[u] = "active"
                 /\ \E g \in grants : g.user = u /\ g.role = ADMIN
                                        /\ g.from <= now /\ now < g.to}

\* A tenant always has an administrator (admin_service.py, "The orphan-proof invariant").
NeverOrphaned == Administrators # {}

\* The rows that took effect bear the clocks of their calls in the order of their commits.
InOrder(rows) ==
  \A i, j \in DOMAIN rows :
    i < j /\ rows[i].status # "PENDING" /\ rows[j].status # "PENDING" => rows[i].at <= rows[j].at

\* When no call was overtaken between reading its clock and taking the lock,
\* the orphan check does what it is for: an administrator remains, through
\* revocations, deactivations, and approvals long after the request.
OrphanedOnlyOutOfOrder == InOrder(log) => NeverOrphaned

\* A request is decided at most once, however many administrators approve it at a time.
DecidedOnce ==
  \A i, j \in DOMAIN log :
    log[i].resolves = log[j].resolves /\ log[i].resolves # NotARequest => i = j

\* SOD-04.  Authority changes hands only in a step in which a second person agreed to it,
\* or whose requester is, in fact and not only by a stale clock, the only
\* administrator; deactivating somebody who is no administrator is neither.
NobodyActsAlone ==
  [][LET row == log'[Len(log')]
     IN  /\ \/ grants' # grants
            \/ \E u \in Users : status[u] = "active" /\ status'[u] = "inactive"
         /\ InOrder(log')
         => \/ row.status = "APPROVED" /\ row.resolver # row.by
            \/ row.status = "DIRECT" /\ Administrators \subseteq {row.by}
            \/ row.act.verb = "DEACTIVATE_USER" /\ row.act.target \notin Administrators]_vars
=============================================================================
