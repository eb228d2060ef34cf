--------------------------- MODULE LimitGovernance ---------------------------
(***************************************************************************)
(* limit/service.py: the maker-checker gate of one limit.  A limit is born *)
(* DRAFT, approve_limit alone makes it live, and a change of its governing *)
(* fields sends it back to DRAFT.                                          *)
(*                                                                         *)
(* A request loads the row (_load_or_404), and only then waits for the row *)
(* lock; it keeps the lock to its COMMIT, so what it does from there on is *)
(* one step.  approve_limit loads the row again under the lock; an edit    *)
(* reads again its status alone.  The session flushes the columns whose    *)
(* values differ from those it loaded, and no others (WriteBack).          *)
(*                                                                         *)
(* The governing fields (threshold, kind, direction) are one value, the    *)
(* configuration of the limit.  Its name is left out: an edit of the name  *)
(* is Rename, which touches nothing else but the maker and the version.    *)
(***************************************************************************)
EXTENDS Naturals, Sequences

CONSTANTS
  Users, NoUser,
  Configs,     \* the values of the governing fields
  Requests,    \* API requests that may be in flight at once
  MaxActs      \* bound: committed acts on the limit

ASSUME GovernanceAssumption == NoUser \notin Users /\ MaxActs \in Nat

VARIABLES
  limit,     \* the row of limit_definition, a set of one row or none
  loaded,    \* loaded[p]: the row as request p loaded it, a set of one or none
  caller,    \* caller[p]: whose request p is
  acts       \* history: what was committed, and the row it left (LIMIT.* events)

vars == <<limit, loaded, caller, acts>>

Statuses == {"DRAFT", "ACTIVE", "SUSPENDED"}

Row(config, status, creator, editor, version) ==
  [config |-> config, status |-> status, created_by |-> creator,
   updated_by |-> editor, record_version |-> version]

-----------------------------------------------------------------------------
\* The flush: a column is written iff its value differs from the loaded one.
WriteBack(row, old, new) ==
  [f \in DOMAIN row |-> IF new[f] # old[f] THEN new[f] ELSE row[f]]

\* Mutant: only a live limit is demoted, not a suspended one.
DemotesActive(old, status, config) == config # old.config /\ status = "ACTIVE"

\* update_limit: demote, by the configuration as loaded and the status as locked.
Demotes(old, status, config) == config # old.config /\ status # "DRAFT"

\* Mutant: the draft guard trusts the status the request loaded.
ToggleableAsLoaded(row, old) == old.status # "DRAFT"

\* update_limit can neither set nor clear DRAFT: it looks at the status under the lock.
Toggleable(row, old) == row.status # "DRAFT"

\* approve_limit: makers
Makers(row) == {row.created_by, row.updated_by} \ {NoUser}

-----------------------------------------------------------------------------
Init ==
  /\ limit = {}
  /\ loaded = [p \in Requests |-> {}]
  /\ caller = [p \in Requests |-> NoUser]
  /\ acts = <<>>

\* base: the status the request had loaded, overtaken: the row was another one by then.
Committed(act, user, old, row) ==
  /\ Len(acts) < MaxActs
  /\ limit' = {row}
  /\ acts' = Append(acts, [act |-> act, actor |-> user,
                           base |-> old.status, overtaken |-> limit \notin {{}, {old}},
                           config |-> row.config, status |-> row.status])

\* create_limit: always a DRAFT; its code is unique in the tenant.
CreateLimit(u, config) ==
  LET row == Row(config, "DRAFT", u, NoUser, 1)
  IN  /\ limit = {}
      /\ Committed("DEFINE", u, row, row)
      /\ UNCHANGED <<loaded, caller>>

\* _load_or_404
Load(p, u) ==
  /\ loaded[p] = {} /\ limit # {}
  /\ loaded' = [loaded EXCEPT ![p] = limit]
  /\ caller' = [caller EXCEPT ![p] = u]
  /\ UNCHANGED <<limit, acts>>

\* Mutant: the answered request's session keeps the object.
AnswerKeepingObject(p) ==
  /\ UNCHANGED loaded
  /\ caller' = [caller EXCEPT ![p] = NoUser]

\* The request is answered; its session is closed.
Answer(p) ==
  /\ loaded' = [loaded EXCEPT ![p] = {}]
  /\ caller' = [caller EXCEPT ![p] = NoUser]

\* update_limit, from its FOR UPDATE to the COMMIT: old is the row as loaded, row the
\* row as it is, and the object is flushed with this configuration and status.
Edit(p, old, row, config, status) ==
  /\ Committed("CHANGE", caller[p], old,
       WriteBack(row, old, Row(config, status, old.created_by, caller[p],
                               old.record_version + 1)))
  /\ Answer(p)

Rename(p) ==
  \E old \in loaded[p], row \in limit : Edit(p, old, row, old.config, row.status)

Reconfigure(p, config) ==
  \E old \in loaded[p], row \in limit :
    Edit(p, old, row, config,
         IF Demotes(old, row.status, config) THEN "DRAFT" ELSE row.status)

\* suspend_limit and resume_limit
Toggle(p, status) ==
  \E old \in loaded[p], row \in limit :
    /\ Toggleable(row, old)
    /\ Edit(p, old, row, old.config, status)

\* approve_limit, by a human with a reference for the approval.
ApproveLimit(p) ==
  \E old \in loaded[p], row \in limit :
    /\ row.status = "DRAFT"
    /\ Makers(row) # {} /\ caller[p] \notin Makers(row)
    /\ Committed("APPROVE", caller[p], row,
         [row EXCEPT !.status = "ACTIVE", !.record_version = @ + 1])
    /\ Answer(p)

\* Refused, or lost with its connection: rolled back.
GiveUp(p) == loaded[p] # {} /\ Answer(p) /\ UNCHANGED <<limit, acts>>

Next ==
  \/ \E u \in Users, config \in Configs : CreateLimit(u, config)
  \/ \E p \in Requests :
       \/ \E u \in Users : Load(p, u)
       \/ Rename(p) \/ ApproveLimit(p) \/ GiveUp(p)
       \/ \E config \in Configs : Reconfigure(p, config)
       \/ \E status \in {"ACTIVE", "SUSPENDED"} : Toggle(p, status)

Spec == Init /\ [][Next]_vars

-----------------------------------------------------------------------------
Rows == [config : Configs, status : Statuses, created_by : Users,
         updated_by : Users \cup {NoUser}, record_version : 1..MaxActs]

\* Types; a request that is answered holds no object, and the version of the row counts
\* acts, if not all of them.
AtMostOne(S) == \A x, y \in S : x = y
TypeOK ==
  /\ limit \subseteq Rows /\ AtMostOne(limit)
  /\ loaded \in [Requests -> SUBSET Rows] /\ caller \in [Requests -> Users \cup {NoUser}]
  /\ \A p \in Requests : AtMostOne(loaded[p]) /\ (loaded[p] = {} <=> caller[p] = NoUser)
  /\ \A row \in limit : row.record_version <= Len(acts)

IsLastApproval(i) == /\ acts[i].act = "APPROVE"
                     /\ \A j \in (i+1)..Len(acts) : acts[j].act # "APPROVE"

\* REQ-LIM-001: a limit that is evaluated, or will be when it is resumed, has
\* the configuration its last approver signed: no edit, toggle or
\* sequence of them puts another in force.
LiveAsSigned ==
  \A row \in limit :
    row.status # "DRAFT" =>
      \E i \in DOMAIN acts : IsLastApproval(i) /\ row.config = acts[i].config

\* The acts that put a new configuration on the row since the approval before act i.
Shaping(i) ==
  {j \in 1..(i-1) : /\ j = 1 \/ acts[j].config # acts[j-1].config
                    /\ \A k \in j..(i-1) : acts[k].act # "APPROVE"}

\* SOD-02: no approver signs a configuration they had a hand in.
NoShaperSigns ==
  \A i \in DOMAIN acts : acts[i].act = "APPROVE" =>
    \A j \in Shaping(i) : acts[j].actor # acts[i].actor

\* A draft is left by an approval only, whatever the requests had loaded.
DraftLeftByApproval ==
  \A i \in 2..Len(acts) :
    acts[i-1].status = "DRAFT" /\ acts[i].status # "DRAFT" => acts[i].act = "APPROVE"

\* With requests overtaking each other: a configuration nobody signed is live only if a
\* request had loaded the limit as a DRAFT and changed it after the approval.
ChangedByOvertaken(i) ==
  acts[i].base = "DRAFT" /\ acts[i].overtaken /\ acts[i].config # acts[i-1].config
LiveAsSignedUnlessOvertaken ==
  \A row \in limit :
    row.status # "DRAFT" =>
      \E i \in DOMAIN acts :
        /\ IsLastApproval(i)
        /\ row.config = acts[i].config \/ \E j \in (i+1)..Len(acts) : ChangedByOvertaken(j)
=============================================================================
