---------------------------- MODULE BreachMachine ----------------------------
(***************************************************************************)
(* The remediation of one limit breach as the two lines of defence are     *)
(* meant to see it: the current state, who has answered for it, who has    *)
(* signed it off, and whether the deadline in force has been answered or   *)
(* escalated.  BreachLifecycle, where all of this is derived from an       *)
(* append-only timeline written by concurrent transactions, implements it. *)
(***************************************************************************)
CONSTANTS Users, NoUser

VARIABLES
  state,       \* the lifecycle state
  owner,       \* the first-line user the breach is assigned to
  responders,  \* everyone who has ever filed a response
  signers,     \* whoever accepted or closed
  answered,    \* a response was filed since the breach was last (re)assigned
  escalated    \* the tick escalated since the breach was last (re)assigned

mvars == <<state, owner, responders, signers, answered, escalated>>

Init ==
  /\ state = "DETECTED" /\ owner = NoUser
  /\ responders = {} /\ signers = {}
  /\ answered = FALSE /\ escalated = FALSE

\* A new deadline starts to run.
NewEpoch(o) ==
  /\ state' = "ASSIGNED" /\ owner' = o
  /\ answered' = FALSE /\ escalated' = FALSE
  /\ UNCHANGED <<responders, signers>>

Assign(o) == state = "DETECTED" /\ NewEpoch(o)

Respond(u) ==
  /\ state \in {"ASSIGNED", "ESCALATED"}
  /\ state' = "RESPONDED"
  /\ responders' = responders \cup {u}
  /\ answered' = TRUE
  /\ UNCHANGED <<owner, signers, escalated>>

Escalate ==
  /\ state \in {"ASSIGNED", "RESPONDED"} /\ ~escalated
  /\ state' = "ESCALATED" /\ escalated' = TRUE
  /\ UNCHANGED <<owner, responders, signers, answered>>

\* Only an answer to the deadline in force can be reviewed, never by one who answered.
MayReview(u) == state \in {"RESPONDED", "ESCALATED"} /\ answered /\ u \notin responders

Accept(u) ==
  /\ MayReview(u)
  /\ state' = "REVIEWED"
  /\ signers' = signers \cup {u}
  /\ UNCHANGED <<owner, responders, answered, escalated>>

Reject(u, o) == MayReview(u) /\ NewEpoch(o)

Close(u) ==
  /\ state = "REVIEWED" /\ u \notin responders
  /\ state' = "CLOSED"
  /\ signers' = signers \cup {u}
  /\ UNCHANGED <<owner, responders, answered, escalated>>

Next ==
  \/ Escalate
  \/ \E u \in Users :
       \/ Respond(u) \/ Accept(u) \/ Close(u)
       \/ \E o \in Users : Assign(o) \/ Reject(u, o)

Spec == Init /\ [][Next]_mvars
=============================================================================
