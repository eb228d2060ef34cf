------------------------- MODULE BitemporalReturns -------------------------
(***************************************************************************)
(* Factor returns: full-reproducible (FR) rows with a valid axis and a     *)
(* system axis, written by capture, supersede and correct, read as of a    *)
(* pair of instants, and pinned by the snapshots a covariance run computes *)
(* from.  The other FR tables are kept in the same way.                    *)
(*                                                                         *)
(* A writer loads the open head of its key and reads its clock; then, in   *)
(* the same transaction, it closes that head on one axis and inserts its   *)
(* successor.  It takes no lock before it reads; the partial unique index  *)
(* on the open head of a key refuses the second of two writers, whose      *)
(* UPDATE waited for the first, so the writes and the COMMIT are one step. *)
(*                                                                         *)
(* A builder freezes its cutoffs and then reads, at READ COMMITTED, one    *)
(* list of dates per factor and one version per date, each a statement of  *)
(* its own: amendments may be committed between any two.  Builders only    *)
(* read what others write, so one at a time is enough.                     *)
(***************************************************************************)
EXTENDS Integers, FiniteSets, Sequences

CONSTANTS
    Writers,        \* API calls that write returns
    Factors,        \* the factors of the window
    Dates,          \* return dates; a date is the instant it begins at
    Window,         \* window_observations
    Backlog,        \* keys captured, at 0 and as of 0, before the behaviour begins
    Live,           \* bound: keys that are written in the behaviour
    MaxTime,        \* bound: last instant
    MaxVersions,    \* bound: versions of a key
    MaxEdits,       \* bound: edits of a factor's definition
    MaxSnapshots    \* bound: snapshots built

Keys == Factors \X Dates
Instants == 0 .. MaxTime

ASSUME ConstantsAssumption ==
    /\ Dates \subseteq Nat
    /\ Window \in Nat \ {0}
    /\ Backlog \subseteq Keys /\ Live \subseteq Keys
    /\ {MaxTime, MaxVersions, MaxEdits, MaxSnapshots} \subseteq Nat

VARIABLES
    clock,
    rows,           \* key |-> its committed rows; a row's place is its record_version
    definition,     \* factor |-> record_version of its definition, which is edited in place
    call,           \* writer |-> the call it is making
    builder,        \* the build in progress
    snapshots       \* committed snapshots

vars == <<clock, rows, definition, call, builder, snapshots>>

Null == -1          \* of valid_to and system_to: open

\* A fresh version: from when it holds, and when it became known.
Row(from, now) == [valid_from |-> from, valid_to |-> Null, system_from |-> now, system_to |-> Null]
Rows == [valid_from : Nat, valid_to : Nat \cup {Null}, system_from : Nat, system_to : Nat \cup {Null}]

-----------------------------------------------------------------------------
(* Reads. *)

Within(t, from, to) == from <= t /\ (to = Null \/ t < to)

\* reconstruct_factor_return_as_of: the rows its query selects; it returns scalar_one_or_none.
Visible(k, valid_at, known_at) ==
    {i \in DOMAIN rows[k] : /\ Within(valid_at, rows[k][i].valid_from, rows[k][i].valid_to)
                            /\ Within(known_at, rows[k][i].system_from, rows[k][i].system_to)}

\* _current_open_return: open on both axes.
OpenIn(versions) == {i \in DOMAIN versions : versions[i].valid_to = Null /\ versions[i].system_to = Null}

AnyHeads(versions) == TRUE                                      \* mutant: no unique index
UniqueHead(versions) == \A i, j \in OpenIn(versions) : i = j    \* uq_factor_return_current

\* factor_return_series_content, of one row: its identity and content, not its close-out markers.
MarkedContent(k, i) == <<i, rows[k][i]>>                        \* mutant: markers are captured
Content(k, i) == <<i, rows[k][i].valid_from, rows[k][i].system_from>>

-----------------------------------------------------------------------------
(* Writers. *)

Idle == [at |-> "idle"]
Call(op, k, prior, from) == [at |-> "called", op |-> op, key |-> k, prior |-> prior, from |-> from, now |-> clock]
Calls == [at : {"called"}, op : {"capture", "supersede", "correct"}, key : Keys, prior : Nat, from : Nat, now : Nat]

Init ==
    /\ clock = 0
    /\ rows = [k \in Keys |-> IF k \in Backlog THEN <<Row(0, 0)>> ELSE <<>>]
    /\ definition = [f \in Factors |-> 1]
    /\ call = [w \in Writers |-> Idle]
    /\ builder = Idle
    /\ snapshots = {}

Calling(w, c) ==
    /\ call[w].at = "idle"
    /\ Len(rows[c.key]) < MaxVersions
    /\ call' = [call EXCEPT ![w] = c]
    /\ UNCHANGED <<clock, rows, definition, builder, snapshots>>

\* capture_factor_return: it does not look for a head, the index does.
Capture(w, k, from) == Calling(w, Call("capture", k, 0, from))

\* assert_supersede_effective_at.
AnyInstant(row, effective_at) == TRUE                           \* mutant: the window may be inverted
Follows(row, effective_at) == row.valid_from < effective_at

\* supersede_factor_return: from effective_at on.
Supersede(w, k, effective_at) ==
    \E prior \in OpenIn(rows[k]) :
        /\ Follows(rows[k][prior], effective_at)
        /\ Calling(w, Call("supersede", k, prior, effective_at))

\* correct_factor_return: over the valid period of the version it corrects.
CorrectFromNow(w, k) ==                                         \* mutant: a period of its own
    \E prior \in OpenIn(rows[k]) : Calling(w, Call("correct", k, prior, clock))
Correct(w, k) ==
    \E prior \in OpenIn(rows[k]) : Calling(w, Call("correct", k, prior, rows[k][prior].valid_from))

\* The prior version as the call leaves it: closed on one axis, otherwise untouched.
Closed(c) ==
    CASE c.op = "capture" -> rows[c.key]
      [] c.op = "supersede" -> [rows[c.key] EXCEPT ![c.prior].valid_to = c.from]
      [] c.op = "correct" -> [rows[c.key] EXCEPT ![c.prior].system_to = c.now]

Versions(c) == Append(Closed(c), Row(c.from, c.now))

\* The close, the insert and the commit; the endpoint answers with the new version.
Commit(w) ==
    /\ call[w].at = "called"
    /\ UniqueHead(Versions(call[w]))
    /\ rows' = [rows EXCEPT ![call[w].key] = Versions(call[w])]
    /\ call' = [call EXCEPT ![w] = Idle]
    /\ UNCHANGED <<clock, definition, builder, snapshots>>

\* IntegrityError, a failed quality gate, a lost connection: nothing of the call remains.
Rollback(w) ==
    /\ call[w].at = "called"
    /\ call' = [call EXCEPT ![w] = Idle]
    /\ UNCHANGED <<clock, rows, definition, builder, snapshots>>

\* update_factor: in place, the one thing here that is.
UpdateFactor(f) ==
    /\ definition[f] <= MaxEdits
    /\ definition' = [definition EXCEPT ![f] = @ + 1]
    /\ UNCHANGED <<clock, rows, call, builder, snapshots>>

-----------------------------------------------------------------------------
(* The builder of a covariance snapshot. *)

Builds == [at : {"building"}, valid : Instants, known : Instants, definition : [Factors -> Nat],
           unlisted : SUBSET Factors, unread : SUBSET Keys, found : [Keys -> Nat]]

\* build_covariance_snapshot: the cutoffs, each the caller's or now, and the factors; a window of
\* one observation, or a single factor, is refused.
BeginBuild(valid_at, known_at) ==
    /\ builder.at = "idle"
    /\ Window >= 2 /\ Cardinality(Factors) >= 2
    /\ Cardinality(snapshots) < MaxSnapshots
    /\ builder' = [at |-> "building", valid |-> valid_at, known |-> known_at, definition |-> definition,
                   unlisted |-> Factors, unread |-> {}, found |-> [k \in Keys |-> 0]]
    /\ UNCHANGED <<clock, rows, definition, call, snapshots>>

\* _factor_window_rows, first half: the dates for which the factor has a head (list_factor_returns).
ListDates(f) ==
    /\ builder.at = "building"
    /\ f \in builder.unlisted /\ builder.unread = {}
    /\ builder' = [builder EXCEPT !.unlisted = @ \ {f},
                                  !.unread = {k \in {f} \X Dates : k[2] <= builder.valid /\ OpenIn(rows[k]) # {}}]
    /\ UNCHANGED <<clock, rows, definition, call, snapshots>>

\* The version of one key the builder takes, 0 for None.
HeadVersion(k) == IF OpenIn(rows[k]) = {} THEN 0                \* mutant: the current head
                  ELSE CHOOSE i \in OpenIn(rows[k]) : TRUE
AsOfVersion(k) ==
    LET visible == Visible(k, builder.valid, builder.known)
    IN  IF visible = {} THEN 0 ELSE CHOOSE i \in visible : TRUE

\* ... second half: the listed dates in order, each by an as-of read at the frozen cutoffs.
ReadVersion(k) ==
    /\ builder.at = "building"
    /\ k \in builder.unread /\ \A other \in builder.unread : k[2] <= other[2]
    /\ builder' = [builder EXCEPT !.unread = @ \ {k}, !.found[k] = AsOfVersion(k)]
    /\ UNCHANGED <<clock, rows, definition, call, snapshots>>

\* The most recent Window dates for which every factor has a version.
CommonDates == {d \in Dates : \A f \in Factors : builder.found[<<f, d>>] # 0}
WindowDates == {d \in CommonDates : Cardinality({later \in CommonDates : later > d}) < Window}

\* A header with its cutoffs, the definitions, and the content of every version pinned.
Snapshot ==
    [valid |-> builder.valid, known |-> builder.known, definition |-> builder.definition,
     pins |-> {<<k, Content(k, builder.found[k])>> : k \in Factors \X WindowDates}]

\* _persist_snapshot and the commit.
Persist ==
    /\ builder.at = "building"
    /\ builder.unlisted = {} /\ builder.unread = {}
    /\ Cardinality(CommonDates) >= Window
    /\ snapshots' = snapshots \cup {Snapshot}
    /\ builder' = Idle
    /\ UNCHANGED <<clock, rows, definition, call>>

\* Too short a window ("no imputation"), or any error: nothing is written.
FailBuild ==
    /\ builder.at = "building"
    /\ builder' = Idle
    /\ UNCHANGED <<clock, rows, definition, call, snapshots>>

-----------------------------------------------------------------------------
Tick ==
    /\ clock < MaxTime
    /\ clock' = clock + 1
    /\ UNCHANGED <<rows, definition, call, builder, snapshots>>

Next ==
    \/ \E w \in Writers, k \in Live :
          \/ \E t \in Instants : Capture(w, k, t) \/ Supersede(w, k, t)
          \/ Correct(w, k)
    \/ \E w \in Writers : Commit(w) \/ Rollback(w)
    \/ \E f \in Factors : UpdateFactor(f) \/ ListDates(f)
    \/ \E valid_at, known_at \in Instants : BeginBuild(valid_at, known_at)
    \/ \E k \in Keys : ReadVersion(k)
    \/ Persist \/ FailBuild \/ Tick

Spec == Init /\ [][Next]_vars

-----------------------------------------------------------------------------
(* Properties. *)

\* A key, and the version of it that was captured with its content.
Pins == Keys \X (Nat \X Nat \X Nat)

\* Types; what a snapshot pins of a version is its identity and content, three numbers that an
\* amendment leaves alone.
TypeOK ==
    /\ clock \in Instants
    /\ rows \in [Keys -> Seq(Rows)]
    /\ definition \in [Factors -> Nat]
    /\ call \in [Writers -> Calls \cup {Idle}]
    /\ builder \in Builds \cup {Idle}
    /\ \A s \in snapshots :
          /\ s.valid \in Instants /\ s.known \in Instants
          /\ s.definition \in [Factors -> Nat]
          /\ s.pins \subseteq Pins

\* At no pair of instants, past ones included, do two committed versions of a key hold at once: the
\* as-of read's scalar_one_or_none never raises, whatever writers raced and however supersessions
\* and corrections were mixed (uq_factor_return_current guards the open head alone).
OneTruth ==
    \A k \in Keys : \A valid_at, known_at \in Instants :
        \A i, j \in Visible(k, valid_at, known_at) : i = j

\* verify_snapshot finds drift in a committed snapshot only when the definition of a factor was
\* edited: an amendment of a return is invisible to it, whenever it was committed (TR-09).
Drifted(s) ==
    \/ \E pin \in s.pins : LET k == pin[1] i == pin[2][1] IN i \notin DOMAIN rows[k] \/ Content(k, i) # pin[2]
    \/ \E f \in Factors : s.definition[f] # definition[f]
PinsHold == \A s \in snapshots : Drifted(s) => \E f \in Factors : definition[f] > s.definition[f]

\* The header's cutoffs reproduce what is pinned, except where the pinned version was closed
\* afterwards: by a supersession that reaches back to the valid cutoff, which edits valid_to without
\* a trace on the system axis, or by a correction stamped by the known cutoff and committed late.
ClosedUnder(row, s) ==
    \/ row.valid_to # Null /\ row.valid_to <= s.valid
    \/ row.system_to # Null /\ row.system_to <= s.known
CutoffsReproduceUnlessClosed ==
    \A s \in snapshots : \A pin \in s.pins :
        LET k == pin[1] i == pin[2][1]
        IN  Visible(k, s.valid, s.known) = {i} \/ ClosedUnder(rows[k][i], s)

\* Of today's view, racing writers make what one careful writer would: each commit amends the newest
\* version, from an instant on, and nothing is lost, inverted or resurrected.
Believed(k, t) == LET visible == Visible(k, t, clock)
                  IN  IF visible = {} THEN 0 ELSE CHOOSE i \in visible : TRUE
Newest(k) == IF rows[k] = <<>> THEN [no |-> 0, from |-> 0]
             ELSE [no |-> Len(rows[k]), from |-> rows[k][Len(rows[k])].valid_from]
belief == [k \in Keys |-> [t \in Instants |-> Believed(k, t)]]
newest == [k \in Keys |-> Newest(k)]
Belief == INSTANCE CurrentBelief WITH belief <- belief, newest <- newest
ImplementsBelief == Belief!Spec
=============================================================================
