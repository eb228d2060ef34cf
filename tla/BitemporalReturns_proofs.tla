---------------------- MODULE BitemporalReturns_proofs ----------------------
(***************************************************************************)
(* For any number of writers, keys, dates and instants: two versions of a  *)
(* key never hold at once, a pinned version stays what it was and is what  *)
(* its snapshot's cutoffs select unless it was closed under them, and      *)
(* today's view is amended by one version at a time.                       *)
(*                                                                         *)
(* The index speaks of one row of a key, the open head; the claim is about *)
(* every pair of its rows.  They meet in Chained: the last row is the head *)
(* and each earlier row ended, on one axis, before every later row starts  *)
(* there.  A writer that commits under the index must have amended the     *)
(* last row (AmendsTheLast), however old its reading of the head is.       *)
(***************************************************************************)
EXTENDS BitemporalReturns, SequenceTheorems, TLAPS

-----------------------------------------------------------------------------
(* The inductive invariant. *)

\* The versions r of a key.
Chained(r) ==
  /\ \A i \in 1 .. Len(r) :
        /\ r[i].valid_from \in Instants /\ r[i].system_from <= clock /\ r[i].system_to <= clock
        /\ i = Len(r) => r[i].valid_to = Null /\ r[i].system_to = Null
  /\ \A i, j \in 1 .. Len(r) : i < j =>
        /\ r[i].valid_from <= r[j].valid_from /\ r[i].system_from <= r[j].system_from
        /\ \/ r[i].valid_to # Null /\ r[i].valid_to <= r[j].valid_from
           \/ r[i].system_to # Null /\ r[i].system_to <= r[j].system_from

\* A call's reading of the head, which may have been closed since.
Sound(c) ==
  /\ c.from \in Instants /\ c.now <= clock
  /\ c.op # "capture" =>
        /\ c.prior \in 1 .. Len(rows[c.key])
        /\ rows[c.key][c.prior].valid_from <= c.from /\ rows[c.key][c.prior].system_from <= c.now
  /\ c.op = "correct" => c.from = rows[c.key][c.prior].valid_from

Ordered == \A k \in Keys : Chained(rows[k])
CallsSound == \A w \in Writers : call[w].at = "called" => Sound(call[w])

\* What a build has found, and what a snapshot pins, exists and stays.
FoundExist ==
  builder.at = "building" =>
    /\ \A k \in Keys : builder.found[k] = 0 \/ builder.found[k] \in 1 .. Len(rows[k])
    /\ \A f \in Factors : builder.definition[f] <= definition[f]
PinsExist ==
  \A s \in snapshots :
    /\ \A pin \in s.pins :
          /\ pin[1] \in Keys /\ pin[2][1] \in 1 .. Len(rows[pin[1]])
          /\ pin[2] = Content(pin[1], pin[2][1])
    /\ \A f \in Factors : s.definition[f] <= definition[f]

IInv == TypeOK /\ Ordered /\ CallsSound /\ FoundExist /\ PinsExist

-----------------------------------------------------------------------------
(* Lemmas about the versions of one key. *)

\* A fresh version is open on both axes.
LEMMA FreshRow ==
  ASSUME NEW from \in Nat, NEW now \in Nat
  PROVE  /\ Row(from, now) \in Rows
         /\ Row(from, now).valid_from = from /\ Row(from, now).system_from = now
         /\ Row(from, now).valid_to = Null /\ Row(from, now).system_to = Null
BY DEF Row, Rows, Null

\* What a call does to the versions before its own.
LEMMA ClosedRows ==
  ASSUME TypeOK, NEW c \in Calls, Sound(c)
  PROVE  LET old == rows[c.key]
             new == Closed(c)
         IN  /\ old \in Seq(Rows) /\ new \in Seq(Rows) /\ Len(new) = Len(old)
             /\ \A i \in 1 .. Len(old) :
                   /\ new[i].valid_from = old[i].valid_from /\ new[i].system_from = old[i].system_from
                   /\ c.op = "capture" \/ i # c.prior => new[i] = old[i]
             /\ c.op = "supersede" => new[c.prior].valid_to = c.from
                                      /\ new[c.prior].system_to = old[c.prior].system_to
             /\ c.op = "correct" => new[c.prior].system_to = c.now
                                    /\ new[c.prior].valid_to = old[c.prior].valid_to
<1> DEFINE old == rows[c.key]
<1>1. c.key \in Keys /\ c.from \in Nat /\ c.now \in Nat /\ c.op \in {"capture", "supersede", "correct"}
  BY DEF Calls
<1>2. old \in Seq(Rows)
  BY <1>1 DEF TypeOK
<1>3. CASE c.op = "capture"
  BY <1>2, <1>3 DEF Closed
<1>4. CASE c.op # "capture"
  <2>1. c.prior \in 1 .. Len(old) /\ old[c.prior] \in Rows
    BY <1>2, <1>4, ElementOfSeq DEF Sound
  <2>2. CASE c.op = "supersede"
    <3> DEFINE row == [old[c.prior] EXCEPT !.valid_to = c.from]
    <3>1. /\ row \in Rows /\ row.valid_from = old[c.prior].valid_from
          /\ row.system_from = old[c.prior].system_from
          /\ row.valid_to = c.from /\ row.system_to = old[c.prior].system_to
      BY <1>1, <2>1 DEF Rows
    <3>2. Closed(c) = [old EXCEPT ![c.prior] = row]
      BY <2>2 DEF Closed
    <3> HIDE DEF row
    <3> QED
      BY <1>2, <2>1, <2>2, <3>1, <3>2, ExceptSeq
  <2>3. CASE c.op = "correct"
    <3> DEFINE row == [old[c.prior] EXCEPT !.system_to = c.now]
    <3>1. /\ row \in Rows /\ row.valid_from = old[c.prior].valid_from
          /\ row.system_from = old[c.prior].system_from
          /\ row.system_to = c.now /\ row.valid_to = old[c.prior].valid_to
      BY <1>1, <2>1 DEF Rows
    <3>2. Closed(c) = [old EXCEPT ![c.prior] = row]
      BY <2>3 DEF Closed
    <3> HIDE DEF row
    <3> QED
      BY <1>2, <2>1, <2>3, <3>1, <3>2, ExceptSeq
  <2> QED
    BY <1>1, <1>4, <2>2, <2>3
<1> QED
  BY <1>3, <1>4

\* The versions a call leaves are those it closed, and its own.
LEMMA VersionRows ==
  ASSUME TypeOK, NEW c \in Calls, Sound(c)
  PROVE  LET n == Len(rows[c.key])
         IN  /\ n \in Nat
             /\ Versions(c) \in Seq(Rows) /\ Len(Versions(c)) = n + 1
             /\ \A i \in 1 .. n : Versions(c)[i] = Closed(c)[i]
             /\ Versions(c)[n + 1] = Row(c.from, c.now)
<1>1. Row(c.from, c.now) \in Rows
  BY FreshRow DEF Calls
<1>2. Closed(c) \in Seq(Rows) /\ Len(Closed(c)) = Len(rows[c.key])
  BY ClosedRows
<1> QED
  BY <1>1, <1>2, AppendProperties, LenProperties DEF Versions

\* The index lets a call through only if the version it amends is the last, or there is none.
LEMMA AmendsTheLast ==
  ASSUME TypeOK, NEW c \in Calls, Sound(c), Chained(rows[c.key]), UniqueHead(Versions(c))
  PROVE  IF c.op = "capture" THEN Len(rows[c.key]) = 0 ELSE c.prior = Len(rows[c.key])
<1> DEFINE n == Len(rows[c.key])
<1>1. /\ n \in Nat
      /\ Versions(c) \in Seq(Rows) /\ Len(Versions(c)) = n + 1
      /\ \A i \in 1 .. n : Versions(c)[i] = Closed(c)[i]
      /\ Versions(c)[n + 1] = Row(c.from, c.now)
  BY VersionRows
<1>2. DOMAIN Versions(c) = 1 .. n + 1
  BY <1>1, LenProperties
<1>3. n + 1 \in OpenIn(Versions(c))
  <2>1. c.from \in Nat /\ c.now \in Nat
    BY DEF Calls
  <2> QED
    BY <1>1, <1>2, <2>1, FreshRow DEF OpenIn
<1>4. ASSUME n # 0, c.op = "capture" \/ c.prior # n PROVE FALSE
  <2>1. n \in 1 .. n /\ n \in 1 .. n + 1 /\ n # n + 1
    BY <1>1, <1>4
  <2>2. Versions(c)[n] = rows[c.key][n]
    BY <1>1, <1>4, <2>1, ClosedRows
  <2>3. n \in OpenIn(Versions(c))
    BY <1>2, <2>1, <2>2 DEF OpenIn, Chained
  <2> QED
    BY <1>3, <2>1, <2>3 DEF UniqueHead
<1>5. c.op # "capture" => n # 0
  BY <1>1 DEF Sound
<1> QED
  BY <1>4, <1>5

\* So the versions it leaves are chained.
LEMMA ChainGrows ==
  ASSUME TypeOK, NEW c \in Calls, Sound(c), Chained(rows[c.key]), UniqueHead(Versions(c))
  PROVE  Chained(Versions(c))
<1> DEFINE n == Len(rows[c.key])
           old == rows[c.key]
           new == Versions(c)
<1>1. /\ n \in Nat /\ new \in Seq(Rows) /\ Len(new) = n + 1
      /\ new[n + 1] = Row(c.from, c.now)
  BY VersionRows
<1>2. c.from \in Nat /\ c.now \in Nat /\ clock \in Nat
      /\ c.op \in {"capture", "supersede", "correct"} /\ c.from \in Instants /\ c.now <= clock
  BY DEF Calls, TypeOK, Instants, Sound
<1>3. /\ new[n + 1].valid_from = c.from /\ new[n + 1].system_from = c.now
      /\ new[n + 1].valid_to = Null /\ new[n + 1].system_to = Null
  BY <1>1, <1>2, FreshRow
<1>4. \A i \in 1 .. n : /\ new[i].valid_from = old[i].valid_from /\ new[i].system_from = old[i].system_from
                        /\ i # n => new[i] = old[i]
  BY SMTT(30), <1>1, VersionRows, ClosedRows, AmendsTheLast
<1>5. \A i \in 1 .. n : /\ old[i].valid_from \in Nat /\ old[i].system_from \in Nat
                        /\ old[i].valid_to \in Int /\ old[i].system_to \in Int
  <2>1. \A i \in 1 .. n : old[i] \in Rows
    BY <1>1, ClosedRows, ElementOfSeq
  <2> QED
    BY <2>1 DEF Rows, Null
<1>6. n # 0 =>
        /\ n \in 1 .. n /\ old[n].valid_from <= c.from /\ old[n].system_from <= c.now
        /\ old[n].valid_to = Null /\ old[n].system_to = Null
        /\ \/ new[n].valid_to = c.from /\ new[n].system_to = Null
           \/ new[n].system_to = c.now /\ new[n].valid_to = Null
  <2> SUFFICES ASSUME n # 0
               PROVE  /\ n \in 1 .. n /\ old[n].valid_from <= c.from /\ old[n].system_from <= c.now
                      /\ old[n].valid_to = Null /\ old[n].system_to = Null
                      /\ \/ new[n].valid_to = c.from /\ new[n].system_to = Null
                         \/ new[n].system_to = c.now /\ new[n].valid_to = Null
    OBVIOUS
  <2>1. n \in 1 .. n
    BY <1>1
  <2>2. c.prior = n /\ c.op # "capture"
    BY AmendsTheLast
  <2>3. new[n] = Closed(c)[n]
    BY <2>1, VersionRows
  <2>4. old[n].valid_to = Null /\ old[n].system_to = Null
    BY <2>1 DEF Chained
  <2> QED
    BY <1>2, <2>1, <2>2, <2>3, <2>4, ClosedRows DEF Sound
<1>7. ASSUME NEW i \in 1 .. n + 1
      PROVE  /\ new[i].valid_from \in Instants /\ new[i].system_from <= clock /\ new[i].system_to <= clock
             /\ i = n + 1 => new[i].valid_to = Null /\ new[i].system_to = Null
  <2>1. CASE i = n + 1
    BY <1>2, <1>3, <2>1 DEF Null
  <2>2. CASE i = n
    BY <1>1, <1>2, <1>4, <1>6, <2>2 DEF Chained, Null
  <2>3. CASE i \in 1 .. n /\ i # n
    BY <1>1, <1>4, <2>3 DEF Chained
  <2> QED
    BY <1>1, <2>1, <2>2, <2>3
<1>8. ASSUME NEW i \in 1 .. n + 1, NEW j \in 1 .. n + 1, i < j
      PROVE  /\ new[i].valid_from <= new[j].valid_from /\ new[i].system_from <= new[j].system_from
             /\ \/ new[i].valid_to # Null /\ new[i].valid_to <= new[j].valid_from
                \/ new[i].system_to # Null /\ new[i].system_to <= new[j].system_from
  <2>1. i \in 1 .. n
    BY <1>1, <1>8
  <2>2. CASE j \in 1 .. n
    <3>1. i # n
      BY <1>1, <1>8, <2>2
    <3> QED
      BY <1>4, <1>8, <2>1, <2>2, <3>1 DEF Chained
  <2>3. CASE j = n + 1 /\ i # n
    <3>1. n \in 1 .. n /\ i < n /\ n # 0
      BY <1>1, <2>1, <2>3
    <3>2. /\ old[i].valid_from <= old[n].valid_from /\ old[i].system_from <= old[n].system_from
          /\ \/ old[i].valid_to # Null /\ old[i].valid_to <= old[n].valid_from
             \/ old[i].system_to # Null /\ old[i].system_to <= old[n].system_from
      BY <2>1, <3>1 DEF Chained
    <3>3. old[n].valid_from <= c.from /\ old[n].system_from <= c.now
      BY <1>6, <3>1
    <3>4. new[i] = old[i] /\ new[j].valid_from = c.from /\ new[j].system_from = c.now
      BY <1>3, <1>4, <2>1, <2>3
    <3>5. /\ old[i].valid_from \in Int /\ old[n].valid_from \in Int /\ c.from \in Int
          /\ old[i].system_from \in Int /\ old[n].system_from \in Int /\ c.now \in Int
          /\ old[i].valid_to \in Int /\ old[i].system_to \in Int
      BY SMTT(30), <1>2, <1>5, <2>1, <3>1
    <3> HIDE DEF old, new, n
    <3>6. old[i].valid_from <= c.from /\ old[i].system_from <= c.now
      BY <3>2, <3>3, <3>5
    <3>7. \/ old[i].valid_to # Null /\ old[i].valid_to <= c.from
          \/ old[i].system_to # Null /\ old[i].system_to <= c.now
      BY <3>2, <3>3, <3>5
    <3> QED
      BY <3>4, <3>6, <3>7
  <2>4. CASE j = n + 1 /\ i = n
    <3>1. /\ new[j].valid_from = c.from /\ new[j].system_from = c.now
          /\ new[i].valid_from = old[n].valid_from /\ new[i].system_from = old[n].system_from
      BY <1>3, <1>4, <2>1, <2>4
    <3>2. n # 0
      BY <2>1, <2>4
    <3>3. /\ old[n].valid_from <= c.from /\ old[n].system_from <= c.now
          /\ new[i].valid_to = c.from \/ new[i].system_to = c.now
      BY <1>6, <2>4, <3>2
    <3> QED
      BY <1>2, <3>1, <3>3 DEF Null
  <2> QED
    BY <1>1, <2>2, <2>3, <2>4
<1> QED
  BY <1>1, <1>7, <1>8 DEF Chained

-----------------------------------------------------------------------------
(* Every action preserves the invariant. *)

\* Versions are added, and keep when they start and when they became known.
Grown ==
  \A k \in Keys :
    /\ Len(rows[k]) \in Nat /\ Len(rows[k])' \in Nat /\ Len(rows[k]) <= Len(rows[k])'
    /\ \A i \in 1 .. Len(rows[k]) :
          rows'[k][i].valid_from = rows[k][i].valid_from /\ rows'[k][i].system_from = rows[k][i].system_from

\* Then what a call, a build or a snapshot holds on to is still there.
LEMMA SoundKept ==
  ASSUME TypeOK, NEW c \in Calls, Sound(c), Grown, clock <= clock', clock' \in Nat
  PROVE  Sound(c)'
<1>1. c.key \in Keys /\ c.now \in Nat /\ c.from \in Nat /\ clock \in Nat
  BY DEF Calls, TypeOK, Instants
<1>2. c.from \in Instants /\ c.now <= clock'
  BY <1>1 DEF Sound
<1>3. ASSUME c.op # "capture"
      PROVE  /\ c.prior \in 1 .. Len(rows[c.key]) /\ c.prior \in 1 .. Len(rows[c.key])'
             /\ rows'[c.key][c.prior].valid_from = rows[c.key][c.prior].valid_from
             /\ rows'[c.key][c.prior].system_from = rows[c.key][c.prior].system_from
  BY SMTT(30), <1>1, <1>3 DEF Grown, Sound
<1> QED
  BY <1>2, <1>3 DEF Sound

\* And so are what every call, the build and the snapshots hold.
LEMMA HeldKept ==
  ASSUME IInv, Grown, clock <= clock', clock' \in Nat,
         \A f \in Factors : definition[f] <= definition'[f] /\ definition'[f] \in Nat
  PROVE  /\ \A w \in Writers : call'[w] = call[w] /\ call[w].at = "called" => Sound(call[w])'
         /\ builder' = builder => FoundExist'
         /\ snapshots' = snapshots => PinsExist'
<1> USE DEF IInv
<1>1. ASSUME NEW w \in Writers, call'[w] = call[w], call[w].at = "called" PROVE Sound(call[w])'
  <2>1. call[w] \in Calls /\ Sound(call[w])
    BY <1>1 DEF TypeOK, Idle, CallsSound
  <2>2. PICK c \in Calls : c = call[w]
    BY <2>1
  <2>3. Sound(c)'
    BY <2>1, <2>2, SoundKept
  <2> QED
    BY <1>1, <2>2, <2>3
<1>2. ASSUME builder' = builder PROVE FoundExist'
  <2> SUFFICES ASSUME builder.at = "building"
               PROVE  /\ \A k \in Keys : builder.found[k] = 0 \/ builder.found[k] \in 1 .. Len(rows[k])'
                      /\ \A f \in Factors : builder.definition[f] <= definition'[f]
    BY <1>2 DEF FoundExist
  <2>1. builder \in Builds
    BY DEF TypeOK, Idle
  <2>2. \A f \in Factors : builder.definition[f] \in Nat /\ definition[f] \in Nat
    BY <2>1 DEF Builds, TypeOK
  <2>3. \A k \in Keys : builder.found[k] = 0 \/ builder.found[k] \in 1 .. Len(rows[k])'
    BY DEF FoundExist, Grown
  <2> QED
    BY <2>2, <2>3 DEF FoundExist
<1>3. ASSUME snapshots' = snapshots PROVE PinsExist'
  <2>1. ASSUME NEW s \in snapshots, NEW pin \in s.pins
        PROVE  /\ pin[1] \in Keys /\ pin[2][1] \in 1 .. Len(rows[pin[1]])'
               /\ pin[2] = Content(pin[1], pin[2][1])'
    BY SMTT(30), <2>1 DEF PinsExist, Grown, Content
  <2>2. ASSUME NEW s \in snapshots, NEW f \in Factors PROVE s.definition[f] <= definition'[f]
    BY <2>2 DEF TypeOK, PinsExist
  <2> QED
    BY <1>3, <2>1, <2>2 DEF PinsExist
<1> QED
  BY <1>1, <1>2, <1>3

\* A step that leaves the versions alone lets them grow, trivially.
LEMMA Ungrown ==
  ASSUME TypeOK, rows' = rows
  PROVE  Grown
<1>1. \A k \in Keys : rows[k] \in Seq(Rows)
  BY DEF TypeOK
<1> QED
  BY <1>1, LenProperties DEF Grown

\* The backlog is one open version of each of its keys.
LEMMA InitEstablishes == Init => IInv
<1> SUFFICES ASSUME Init PROVE IInv
  OBVIOUS
<1>1. 0 \in Instants /\ MaxTime \in Nat
  BY ConstantsAssumption DEF Instants
<1>2. /\ Row(0, 0) \in Rows /\ Row(0, 0).valid_from = 0 /\ Row(0, 0).system_from = 0
      /\ Row(0, 0).valid_to = Null /\ Row(0, 0).system_to = Null
  BY FreshRow
<1>3. ASSUME NEW k \in Keys PROVE rows[k] \in Seq(Rows) /\ Chained(rows[k])
  <2>1. rows[k] = <<>> \/ rows[k] = <<Row(0, 0)>>
    BY DEF Init
  <2>2. CASE rows[k] = <<>>
    BY <2>2, EmptySeq DEF Chained
  <2>3. CASE rows[k] = <<Row(0, 0)>>
    <3>1. Len(rows[k]) = 1 /\ rows[k][1] = Row(0, 0) /\ rows[k] \in Seq(Rows)
      BY <1>2, <2>3
    <3>2. clock = 0
      BY DEF Init
    <3> QED
      BY <1>1, <1>2, <3>1, <3>2 DEF Chained, Null
  <2> QED
    BY <2>1, <2>2, <2>3
<1>4. TypeOK
  <2>1. rows \in [Keys -> Seq(Rows)]
    BY <1>3 DEF Init
  <2> QED
    BY <1>1, <2>1 DEF Init, TypeOK
<1> QED
  BY <1>3, <1>4 DEF Init, IInv, Ordered, CallsSound, FoundExist, PinsExist, Idle

\* The first half of a writer: what it has read of the head is sound.
LEMMA CallSteps ==
  ASSUME IInv, NEW w \in Writers, NEW k \in Keys, NEW t \in Instants,
         Capture(w, k, t) \/ Supersede(w, k, t) \/ Correct(w, k)
  PROVE  IInv'
<1> USE DEF IInv
<1>1. clock \in Nat /\ t \in Nat /\ rows[k] \in Seq(Rows) /\ DOMAIN rows[k] = 1 .. Len(rows[k])
  BY LenProperties DEF TypeOK, Instants
<1>2. ASSUME NEW prior \in 1 .. Len(rows[k])
      PROVE  /\ rows[k][prior].valid_from \in Instants /\ rows[k][prior].valid_from \in Nat
             /\ rows[k][prior].system_from <= clock
             /\ prior \in Nat
  <2>1. rows[k][prior] \in Rows
    BY <1>1, ElementOfSeq
  <2>2. Chained(rows[k])
    BY DEF Ordered
  <2> QED
    BY SMTT(30), <1>1, <2>1, <2>2 DEF Chained, Rows
<1>3. PICK c \in Calls : Calling(w, c) /\ Sound(c)
  <2>1. CASE Capture(w, k, t)
    BY <1>1, <2>1 DEF Capture, Call, Calls, Sound
  <2>2. CASE Supersede(w, k, t)
    <3>1. PICK prior \in 1 .. Len(rows[k]) :
             rows[k][prior].valid_from < t /\ Calling(w, Call("supersede", k, prior, t))
      BY <1>1, <2>2 DEF Supersede, OpenIn, Follows
    <3>2. /\ rows[k][prior].valid_from \in Nat /\ rows[k][prior].system_from <= clock
          /\ prior \in Nat
      BY <1>2
    <3> QED
      BY <1>1, <3>1, <3>2 DEF Call, Calls, Sound
  <2>3. CASE Correct(w, k)
    <3>1. PICK prior \in 1 .. Len(rows[k]) : Calling(w, Call("correct", k, prior, rows[k][prior].valid_from))
      BY <1>1, <2>3 DEF Correct, OpenIn
    <3>2. /\ rows[k][prior].valid_from \in Instants /\ rows[k][prior].valid_from \in Nat
          /\ rows[k][prior].system_from <= clock
          /\ prior \in Nat
      BY <1>2
    <3> QED
      BY <1>1, <3>1, <3>2 DEF Call, Calls, Sound
  <2> QED
    BY <2>1, <2>2, <2>3
<1>4. /\ clock' = clock /\ rows' = rows /\ definition' = definition /\ builder' = builder
      /\ snapshots' = snapshots /\ call' = [call EXCEPT ![w] = c]
  BY <1>3 DEF Calling
<1>5. TypeOK'
  BY <1>3, <1>4 DEF TypeOK
<1>6. Ordered' /\ FoundExist' /\ PinsExist'
  BY <1>4 DEF Ordered, Chained, FoundExist, PinsExist, Content
<1>7. ASSUME NEW u \in Writers, call'[u].at = "called" PROVE Sound(call[u])'
  BY <1>3, <1>4, <1>7 DEF TypeOK, CallsSound, Sound
<1> QED
  BY <1>5, <1>6, <1>7 DEF CallsSound

\* The second half: under the index, the versions stay chained.
LEMMA CommitStep ==
  ASSUME IInv, NEW w \in Writers, Commit(w)
  PROVE  IInv' /\ Grown
<1> USE DEF IInv
<1>1. call[w] \in Calls /\ Sound(call[w])
  BY DEF TypeOK, Idle, CallsSound, Commit
<1>2. PICK c \in Calls : c = call[w]
  BY <1>1
<1>3. /\ clock' = clock /\ definition' = definition /\ builder' = builder /\ snapshots' = snapshots
      /\ rows' = [rows EXCEPT ![c.key] = Versions(c)]
      /\ call' = [call EXCEPT ![w] = Idle]
      /\ UniqueHead(Versions(c)) /\ c.key \in Keys
  BY <1>2 DEF Commit, Calls
<1>4. /\ rows[c.key] \in Seq(Rows) /\ Versions(c) \in Seq(Rows)
      /\ Len(Versions(c)) = Len(rows[c.key]) + 1
      /\ \A i \in 1 .. Len(rows[c.key]) :
            /\ Versions(c)[i].valid_from = rows[c.key][i].valid_from
            /\ Versions(c)[i].system_from = rows[c.key][i].system_from
  <2>1. Sound(c) /\ TypeOK
    BY <1>1, <1>2
  <2>2. /\ rows[c.key] \in Seq(Rows)
        /\ \A i \in 1 .. Len(rows[c.key]) :
              /\ Closed(c)[i].valid_from = rows[c.key][i].valid_from
              /\ Closed(c)[i].system_from = rows[c.key][i].system_from
    BY <2>1, ClosedRows
  <2>3. /\ Versions(c) \in Seq(Rows) /\ Len(Versions(c)) = Len(rows[c.key]) + 1
        /\ \A i \in 1 .. Len(rows[c.key]) : Versions(c)[i] = Closed(c)[i]
    BY <2>1, VersionRows
  <2> QED
    BY <2>2, <2>3
<1>5. rows'[c.key] = Versions(c) /\ \A k \in Keys : k # c.key => rows'[k] = rows[k]
  BY <1>3 DEF TypeOK
<1>6. \A k \in Keys : Len(rows[k]) \in Nat
  BY LenProperties DEF TypeOK
<1>7. Grown
  BY <1>3, <1>4, <1>5, <1>6, LenProperties DEF Grown
<1>8. Chained(Versions(c))
  BY <1>1, <1>2, <1>3, ChainGrows DEF Ordered
<1>9. Ordered'
  <2>1. ASSUME NEW k \in Keys PROVE Chained(rows[k])'
    <3>1. CASE k = c.key
      BY <1>3, <1>5, <1>8, <3>1 DEF Chained
    <3>2. CASE k # c.key
      BY <1>3, <1>5, <3>2 DEF Ordered, Chained
    <3> QED
      BY <3>1, <3>2
  <2> QED
    BY <2>1 DEF Ordered
<1>10. TypeOK'
  BY <1>3, <1>4 DEF TypeOK
<1>11. clock <= clock' /\ clock' \in Nat
       /\ \A f \in Factors : definition[f] <= definition'[f] /\ definition'[f] \in Nat
  BY <1>3 DEF TypeOK, Instants
<1>12. FoundExist' /\ PinsExist'
  BY <1>3, <1>7, <1>11, HeldKept
<1>13. CallsSound'
  <2>1. ASSUME NEW u \in Writers, call'[u].at = "called" PROVE Sound(call[u])'
    <3>1. call'[u] = call[u]
      BY <1>3, <2>1 DEF TypeOK, Idle
    <3> QED
      BY <1>7, <1>11, <2>1, <3>1, HeldKept
  <2> QED
    BY <2>1 DEF CallsSound
<1> QED
  BY <1>7, <1>9, <1>10, <1>12, <1>13

\* The steps around the writers: nothing they change is held on to, but the definitions, which grow.
LEMMA SideSteps ==
  ASSUME IInv,
         \/ \E w \in Writers : Rollback(w)
         \/ \E f \in Factors : UpdateFactor(f)
         \/ Tick \/ UNCHANGED vars
  PROVE  IInv'
<1> USE DEF IInv
<1>1. rows' = rows /\ builder' = builder /\ snapshots' = snapshots
  BY DEF Rollback, UpdateFactor, Tick, vars
<1>2. Grown
  BY <1>1, Ungrown
<1>3. /\ clock <= clock' /\ clock' \in Instants /\ clock' \in Nat
      /\ \A w \in Writers : call'[w] = call[w] \/ call'[w] = Idle
      /\ call' \in [Writers -> Calls \cup {Idle}]
      /\ definition' \in [Factors -> Nat]
      /\ \A f \in Factors : definition[f] <= definition'[f] /\ definition'[f] \in Nat
  <2>1. clock \in Nat /\ MaxTime \in Nat
    BY ConstantsAssumption DEF TypeOK, Instants
  <2>2. CASE \E w \in Writers : Rollback(w)
    BY <2>1, <2>2 DEF Rollback, TypeOK
  <2>3. CASE \E f \in Factors : UpdateFactor(f)
    BY <2>1, <2>3 DEF UpdateFactor, TypeOK
  <2>4. CASE Tick
    BY <2>1, <2>4 DEF Tick, TypeOK, Instants
  <2>5. CASE UNCHANGED vars
    BY <2>1, <2>5 DEF vars, TypeOK
  <2> QED
    BY <2>2, <2>3, <2>4, <2>5
<1>4. TypeOK'
  BY <1>1, <1>3 DEF TypeOK
<1>5. Ordered'
  <2>1. ASSUME NEW k \in Keys PROVE Chained(rows[k])'
    <3>1. Chained(rows[k]) /\ rows[k] \in Seq(Rows)
      BY DEF Ordered, TypeOK
    <3>2. \A i \in 1 .. Len(rows[k]) : rows[k][i] \in Rows
      BY <3>1, ElementOfSeq
    <3>3. \A i \in 1 .. Len(rows[k]) : rows[k][i].system_from <= clock' /\ rows[k][i].system_to <= clock'
      BY SMTT(30), <1>3, <3>1, <3>2 DEF Chained, Rows, Null, TypeOK, Instants
    <3> QED
      BY <1>1, <3>1, <3>3 DEF Chained
  <2> QED
    BY <2>1 DEF Ordered
<1>6. FoundExist' /\ PinsExist' /\ CallsSound'
  BY <1>1, <1>2, <1>3, HeldKept DEF CallsSound, Idle
<1> QED
  BY <1>4, <1>5, <1>6

\* An as-of read answers with a version of the key, or with none.
LEMMA AsOfReads ==
  ASSUME TypeOK, NEW k \in Keys
  PROVE  AsOfVersion(k) = 0 \/ AsOfVersion(k) \in 1 .. Len(rows[k])
<1>1. Visible(k, builder.valid, builder.known) \subseteq 1 .. Len(rows[k])
  BY LenProperties DEF TypeOK, Visible
<1> QED
  BY <1>1 DEF AsOfVersion

\* What is pinned is a version that was found.
LEMMA PinsFound ==
  ASSUME IInv, builder.at = "building", NEW pin \in Snapshot.pins
  PROVE  /\ pin \in Pins
         /\ pin[1] \in Keys /\ pin[2][1] \in 1 .. Len(rows[pin[1]])
         /\ pin[2] = Content(pin[1], pin[2][1])
<1>1. PICK k \in Factors \X WindowDates : pin = <<k, Content(k, builder.found[k])>>
  BY DEF Snapshot
<1>2. k \in Keys /\ builder.found[k] # 0
  BY DEF WindowDates, CommonDates, Keys
<1>3. builder.found[k] \in 1 .. Len(rows[k]) /\ rows[k] \in Seq(Rows)
  BY <1>2 DEF IInv, FoundExist, TypeOK
<1>4. rows[k][builder.found[k]] \in Rows
  BY <1>3, ElementOfSeq
<1>5. Content(k, builder.found[k]) \in Nat \X Nat \X Nat
  BY <1>3, <1>4 DEF Content, Rows
<1> QED
  BY <1>1, <1>2, <1>3, <1>5 DEF Pins, Content

\* The builder finds versions that exist, and pins what it found.
LEMMA BuildSteps ==
  ASSUME IInv,
         \/ \E valid_at, known_at \in Instants : BeginBuild(valid_at, known_at)
         \/ \E f \in Factors : ListDates(f)
         \/ \E k \in Keys : ReadVersion(k)
         \/ Persist \/ FailBuild
  PROVE  IInv'
<1> USE DEF IInv
<1>1. clock' = clock /\ rows' = rows /\ definition' = definition /\ call' = call
  BY DEF BeginBuild, ListDates, ReadVersion, Persist, FailBuild
<1>2. Ordered' /\ CallsSound'
  BY <1>1 DEF Ordered, Chained, CallsSound, Sound
<1>3. builder' \in Builds \cup {Idle} /\ FoundExist'
  <2>1. CASE \E valid_at, known_at \in Instants : BeginBuild(valid_at, known_at)
    BY <1>1, <2>1 DEF BeginBuild, Builds, FoundExist, TypeOK
  <2>2. CASE \E f \in Factors : ListDates(f)
    <3>1. PICK f \in Factors : ListDates(f)
      BY <2>2
    <3>2. builder.at = "building"
      BY <3>1 DEF ListDates
    <3>3. builder \in Builds
      BY <3>2 DEF TypeOK, Idle
    <3> DEFINE L == builder.unlisted \ {f}
               U == {k \in {f} \X Dates : k[2] <= builder.valid /\ OpenIn(rows[k]) # {}}
    <3>4. L \in SUBSET Factors /\ U \in SUBSET Keys
      BY <3>3 DEF Builds, Keys
    <3>5. builder' = [builder EXCEPT !.unlisted = L, !.unread = U]
      BY <3>1 DEF ListDates
    <3> HIDE DEF L, U
    <3>6. builder' \in Builds /\ builder'.found = builder.found /\ builder'.definition = builder.definition
      BY <3>3, <3>4, <3>5 DEF Builds
    <3> QED
      BY <1>1, <3>2, <3>6 DEF FoundExist
  <2>3. CASE \E k \in Keys : ReadVersion(k)
    <3>1. PICK k \in Keys : ReadVersion(k)
      BY <2>3
    <3>2. /\ builder.at = "building"
          /\ builder' = [builder EXCEPT !.unread = @ \ {k}, !.found[k] = AsOfVersion(k)]
      BY <3>1 DEF ReadVersion
    <3>3. builder \in Builds
      BY <3>2 DEF TypeOK, Idle
    <3>4. PICK version : version = AsOfVersion(k)
      OBVIOUS
    <3>5. version = 0 \/ version \in 1 .. Len(rows[k])
      BY <3>4, AsOfReads
    <3>6. version \in Nat
      BY <3>5, LenProperties DEF TypeOK
    <3>7. /\ builder' \in Builds /\ builder'.definition = builder.definition
          /\ builder'.found = [builder.found EXCEPT ![k] = version]
      BY <3>2, <3>3, <3>4, <3>6 DEF Builds
    <3>8. \A key \in Keys : builder'.found[key] = IF key = k THEN version ELSE builder.found[key]
      BY <3>3, <3>7 DEF Builds
    <3> QED
      BY <1>1, <3>2, <3>5, <3>7, <3>8 DEF FoundExist
  <2>4. CASE Persist \/ FailBuild
    BY <2>4 DEF Persist, FailBuild, FoundExist, Idle
  <2> QED
    BY <2>1, <2>2, <2>3, <2>4
<1>4. CASE Persist
  <2>1. builder \in Builds /\ snapshots' = snapshots \cup {Snapshot} /\ builder.at = "building"
    BY <1>4 DEF Persist, TypeOK, Idle
  <2>2. /\ Snapshot.valid \in Instants /\ Snapshot.known \in Instants
        /\ Snapshot.definition \in [Factors -> Nat]
        /\ Snapshot.definition = builder.definition
    BY <2>1 DEF Snapshot, Builds
  <2>3. Snapshot.pins \subseteq Pins
    BY <2>1, PinsFound
  <2>4. TypeOK'
    BY <1>1, <1>3, <2>1, <2>2, <2>3 DEF TypeOK
  <2>5. ASSUME NEW s \in snapshots'
        PROVE  /\ \A pin \in s.pins :
                     /\ pin[1] \in Keys /\ pin[2][1] \in 1 .. Len(rows[pin[1]])
                     /\ pin[2] = Content(pin[1], pin[2][1])
               /\ \A f \in Factors : s.definition[f] <= definition[f]
    <3>1. CASE s \in snapshots
      BY <3>1 DEF PinsExist
    <3>2. CASE s = Snapshot
      BY <2>1, <2>2, <3>2, PinsFound DEF FoundExist
    <3> QED
      BY <2>1, <3>1, <3>2
  <2>6. PinsExist'
    BY <1>1, <2>5 DEF PinsExist, Content
  <2> QED
    BY <1>2, <1>3, <2>4, <2>6
<1>5. CASE ~Persist
  <2>1. snapshots' = snapshots
    BY <1>5 DEF BeginBuild, ListDates, ReadVersion, FailBuild
  <2> QED
    BY <1>1, <1>2, <1>3, <2>1 DEF TypeOK, PinsExist, Content
<1> QED
  BY <1>4, <1>5

\* The invariant is inductive.
LEMMA StepPreserves ==
  ASSUME IInv, [Next]_vars
  PROVE  IInv'
<1>1. ASSUME NEW w \in Writers, NEW k \in Live,
             \/ \E t \in Instants : Capture(w, k, t) \/ Supersede(w, k, t)
             \/ Correct(w, k)
      PROVE  IInv'
  <2>1. k \in Keys /\ 0 \in Instants
    BY ConstantsAssumption DEF Instants
  <2> QED
    BY <1>1, <2>1, CallSteps
<1>2. ASSUME NEW w \in Writers, Commit(w) PROVE IInv'
  BY <1>2, CommitStep
<1> QED
  BY <1>1, <1>2, SideSteps, BuildSteps DEF Next

\* So it is an invariant.
THEOREM Invariance == Spec => []IInv
BY InitEstablishes, StepPreserves, PTL DEF Spec

-----------------------------------------------------------------------------
(* What follows from it. *)

\* Every variable stays well typed.
THEOREM TypeCorrect == Spec => []TypeOK
BY Invariance, PTL DEF IInv

\* Of two chained versions one has ended before the other begins.
LEMMA ApartOnOneAxis ==
  ASSUME TypeOK, Ordered, NEW k \in Keys, NEW valid_at \in Nat, NEW known_at \in Nat,
         NEW i \in Visible(k, valid_at, known_at), NEW j \in Visible(k, valid_at, known_at)
  PROVE  i = j
<1>1. rows[k] \in Seq(Rows) /\ DOMAIN rows[k] = 1 .. Len(rows[k]) /\ Chained(rows[k])
  BY LenProperties DEF TypeOK, Ordered
<1>2. \A n \in 1 .. Len(rows[k]) : rows[k][n] \in Rows
  BY <1>1, ElementOfSeq
<1>3. ASSUME NEW earlier \in Visible(k, valid_at, known_at), NEW later \in Visible(k, valid_at, known_at),
             earlier < later
      PROVE  FALSE
  <2>1. /\ earlier \in 1 .. Len(rows[k]) /\ later \in 1 .. Len(rows[k])
        /\ Within(valid_at, rows[k][earlier].valid_from, rows[k][earlier].valid_to)
        /\ Within(known_at, rows[k][earlier].system_from, rows[k][earlier].system_to)
        /\ Within(valid_at, rows[k][later].valid_from, rows[k][later].valid_to)
        /\ Within(known_at, rows[k][later].system_from, rows[k][later].system_to)
    BY <1>1 DEF Visible
  <2>2. \/ rows[k][earlier].valid_to # Null /\ rows[k][earlier].valid_to <= rows[k][later].valid_from
        \/ rows[k][earlier].system_to # Null /\ rows[k][earlier].system_to <= rows[k][later].system_from
    BY <1>1, <1>3, <2>1 DEF Chained
  <2>3. rows[k][earlier] \in Rows /\ rows[k][later] \in Rows
    BY <1>2, <2>1
  <2> QED
    BY <2>1, <2>2, <2>3 DEF Within, Rows, Null
<1>4. i \in Nat /\ j \in Nat
  BY <1>1 DEF Visible
<1> QED
  BY <1>3, <1>4

\* No pair of instants sees two versions of a key (uq_factor_return_current and the writers).
THEOREM OneVersionHolds == Spec => []OneTruth
<1>1. IInv => OneTruth
  BY ApartOnOneAxis DEF IInv, OneTruth, Instants
<1> QED
  BY <1>1, Invariance, PTL

\* A committed snapshot drifts only with the definition of a factor (verify_snapshot, TR-09).
THEOREM SnapshotsHold == Spec => []PinsHold
<1>1. IInv => PinsHold
  <2> SUFFICES ASSUME IInv, NEW s \in snapshots, Drifted(s)
               PROVE  \E f \in Factors : definition[f] > s.definition[f]
    BY DEF PinsHold
  <2>1. ASSUME NEW pin \in s.pins
        PROVE  pin[2][1] \in DOMAIN rows[pin[1]] /\ Content(pin[1], pin[2][1]) = pin[2]
    BY LenProperties DEF IInv, PinsExist, TypeOK
  <2>2. PICK f \in Factors : s.definition[f] # definition[f]
    BY <2>1 DEF Drifted
  <2>3. s.definition[f] <= definition[f] /\ s.definition[f] \in Nat /\ definition[f] \in Nat
    BY DEF IInv, PinsExist, TypeOK
  <2> QED
    BY <2>2, <2>3
<1> QED
  BY <1>1, Invariance, PTL

-----------------------------------------------------------------------------
(* What a build has found, and what a snapshot pins, began by the cutoffs. *)

FoundInForce ==
  builder.at = "building" =>
    \A k \in Keys : builder.found[k] # 0 =>
      /\ rows[k][builder.found[k]].valid_from <= builder.valid
      /\ rows[k][builder.found[k]].system_from <= builder.known
PinnedInForce ==
  \A s \in snapshots : \A pin \in s.pins : pin[2][2] <= s.valid /\ pin[2][3] <= s.known

\* A version an as-of read answers with began by its two instants.
LEMMA AsOfInForce ==
  ASSUME TypeOK, NEW k \in Keys, AsOfVersion(k) # 0
  PROVE  /\ rows[k][AsOfVersion(k)].valid_from <= builder.valid
         /\ rows[k][AsOfVersion(k)].system_from <= builder.known
<1>1. AsOfVersion(k) \in Visible(k, builder.valid, builder.known)
  BY DEF AsOfVersion
<1> QED
  BY <1>1 DEF Visible, Within

\* Every step lets the versions grow.
LEMMA StepsGrow == IInv /\ [Next]_vars => Grown
<1> SUFFICES ASSUME IInv, [Next]_vars PROVE Grown
  OBVIOUS
<1>1. CASE \E w \in Writers : Commit(w)
  BY <1>1, CommitStep
<1>2. CASE ~ \E w \in Writers : Commit(w)
  <2>1. rows' = rows
    BY <1>2 DEF Next, vars, Capture, Supersede, Correct, Calling, Rollback, UpdateFactor, ListDates,
                BeginBuild, ReadVersion, Persist, FailBuild, Tick
  <2> QED
    BY <2>1, Ungrown DEF IInv
<1> QED
  BY <1>1, <1>2

\* What the builder reads is in force at its cutoffs, and stays so; so is what it pins.
LEMMA InForceKept ==
  ASSUME IInv, FoundInForce, PinnedInForce, [Next]_vars
  PROVE  FoundInForce' /\ PinnedInForce'
<1>1. Grown
  BY StepsGrow
<1>2. \A k \in Keys : builder.at = "building" /\ builder.found[k] # 0 => builder.found[k] \in 1 .. Len(rows[k])
  BY DEF IInv, FoundExist
<1>3. ASSUME NEW k \in Keys, builder.at = "building", builder.found[k] # 0
      PROVE  /\ rows'[k][builder.found[k]].valid_from <= builder.valid
             /\ rows'[k][builder.found[k]].system_from <= builder.known
  BY <1>1, <1>2, <1>3 DEF Grown, FoundInForce
<1>4. CASE builder' = builder /\ snapshots' = snapshots
  BY <1>3, <1>4 DEF FoundInForce, PinnedInForce
<1>5. CASE Persist
  <2>1. builder' = Idle /\ snapshots' = snapshots \cup {Snapshot} /\ builder.at = "building"
    BY <1>5 DEF Persist
  <2>2. ASSUME NEW pin \in Snapshot.pins
        PROVE  pin[2][2] <= Snapshot.valid /\ pin[2][3] <= Snapshot.known
    <3>1. PICK k \in Factors \X WindowDates : pin = <<k, Content(k, builder.found[k])>>
      BY DEF Snapshot
    <3>2. k \in Keys /\ builder.found[k] # 0
      BY <3>1 DEF WindowDates, CommonDates, Keys
    <3> QED
      BY <2>1, <3>1, <3>2 DEF FoundInForce, Content, Snapshot
  <2> QED
    BY <2>1, <2>2 DEF FoundInForce, PinnedInForce, Idle
<1>6. CASE \E valid_at, known_at \in Instants : BeginBuild(valid_at, known_at)
  BY <1>6 DEF BeginBuild, FoundInForce, PinnedInForce
<1>7. CASE \E f \in Factors : ListDates(f)
  <2>1. PICK f \in Factors : ListDates(f)
    BY <1>7
  <2>2. builder.at = "building" /\ snapshots' = snapshots
    BY <2>1 DEF ListDates
  <2>3. builder \in Builds
    BY <2>2 DEF IInv, TypeOK, Idle
  <2>4. /\ builder'.found = builder.found
        /\ builder'.valid = builder.valid /\ builder'.known = builder.known
    BY <2>1, <2>3 DEF ListDates, Builds
  <2> QED
    BY <1>3, <2>2, <2>4 DEF FoundInForce, PinnedInForce
<1>8. CASE \E k \in Keys : ReadVersion(k)
  <2>1. PICK k \in Keys : ReadVersion(k)
    BY <1>8
  <2>2. builder.at = "building" /\ snapshots' = snapshots /\ rows' = rows
    BY <2>1 DEF ReadVersion
  <2>3. builder \in Builds
    BY <2>2 DEF IInv, TypeOK, Idle
  <2>4. PICK version : version = AsOfVersion(k)
    OBVIOUS
  <2>5. /\ builder'.valid = builder.valid /\ builder'.known = builder.known
        /\ builder'.found = [builder.found EXCEPT ![k] = version]
    BY <2>1, <2>3, <2>4 DEF ReadVersion, Builds
  <2>6. version # 0 => rows[k][version].valid_from <= builder.valid /\ rows[k][version].system_from <= builder.known
    BY <2>4, AsOfInForce DEF IInv
  <2>7. \A key \in Keys : builder'.found[key] = IF key = k THEN version ELSE builder.found[key]
    BY <2>3, <2>5 DEF Builds
  <2> QED
    BY <1>3, <2>2, <2>5, <2>6, <2>7 DEF FoundInForce, PinnedInForce
<1>9. CASE FailBuild
  BY <1>9 DEF FailBuild, FoundInForce, PinnedInForce, Idle
<1>10. CASE ~(Persist \/ FailBuild) /\ ~(\E valid_at, known_at \in Instants : BeginBuild(valid_at, known_at))
            /\ ~(\E f \in Factors : ListDates(f)) /\ ~(\E k \in Keys : ReadVersion(k))
  <2>1. builder' = builder /\ snapshots' = snapshots
    BY <1>10 DEF Next, vars, Capture, Supersede, Correct, Calling, Commit, Rollback, UpdateFactor, Tick
  <2> QED
    BY <1>4, <2>1
<1> QED
  BY <1>5, <1>6, <1>7, <1>8, <1>9, <1>10

\* The frozen header cutoffs reproduce the pinned content (build_covariance_snapshot) unless a pinned
\* version was closed under them: nothing else that is committed later can make the as-of read
\* answer differently, since what was in force at the cutoffs stays so and no second version joins it.
THEOREM CutoffsReproduce == Spec => []CutoffsReproduceUnlessClosed
<1>1. Init => FoundInForce /\ PinnedInForce
  BY DEF Init, Idle, FoundInForce, PinnedInForce
<1>2. IInv /\ FoundInForce /\ PinnedInForce /\ [Next]_vars => FoundInForce' /\ PinnedInForce'
  BY InForceKept
<1>3. IInv /\ PinnedInForce => CutoffsReproduceUnlessClosed
  <2> SUFFICES ASSUME IInv, PinnedInForce, NEW s \in snapshots, NEW pin \in s.pins,
                      NEW k, k = pin[1], NEW i, i = pin[2][1], ~ClosedUnder(rows[k][i], s)
               PROVE  Visible(k, s.valid, s.known) = {i}
    BY DEF CutoffsReproduceUnlessClosed
  <2>1. /\ k \in Keys /\ i \in 1 .. Len(rows[k]) /\ pin[2] = Content(k, i)
        /\ s.valid \in Instants /\ s.known \in Instants
    BY DEF IInv, PinsExist, TypeOK
  <2>2. rows[k][i].valid_from <= s.valid /\ rows[k][i].system_from <= s.known
    <3>1. pin[2][2] = rows[k][i].valid_from /\ pin[2][3] = rows[k][i].system_from
      BY <2>1 DEF Content
    <3>2. pin[2][2] <= s.valid /\ pin[2][3] <= s.known
      BY DEF PinnedInForce
    <3> QED
      BY <3>1, <3>2
  <2>3. rows[k] \in Seq(Rows) /\ DOMAIN rows[k] = 1 .. Len(rows[k])
    BY <2>1, LenProperties DEF IInv, TypeOK
  <2>4. rows[k][i] \in Rows
    BY <2>1, <2>3, ElementOfSeq
  <2>5. s.valid \in Nat /\ s.known \in Nat
    BY <2>1, ConstantsAssumption DEF Instants
  <2>6. Within(s.valid, rows[k][i].valid_from, rows[k][i].valid_to)
    BY <2>2, <2>4, <2>5 DEF ClosedUnder, Within, Rows, Null
  <2>7. Within(s.known, rows[k][i].system_from, rows[k][i].system_to)
    BY <2>2, <2>4, <2>5 DEF ClosedUnder, Within, Rows, Null
  <2>8. i \in Visible(k, s.valid, s.known)
    BY <2>1, <2>3, <2>6, <2>7 DEF Visible
  <2>9. \A j \in Visible(k, s.valid, s.known) : j = i
    BY <2>1, <2>5, <2>8, ApartOnOneAxis DEF IInv
  <2> QED
    BY <2>8, <2>9
<1> QED
  BY <1>1, <1>2, <1>3, Invariance, PTL DEF Spec

-----------------------------------------------------------------------------
(* Refinement. *)

\* Today, a version is known if it is open on the system axis.
HeldToday(k, t) == {i \in 1 .. Len(rows[k]) :
                      Within(t, rows[k][i].valid_from, rows[k][i].valid_to) /\ rows[k][i].system_to = Null}
TodayIsOpen == IInv => \A k \in Keys, t \in Instants : /\ Visible(k, t, clock) = HeldToday(k, t)
                                                     /\ \A i, j \in HeldToday(k, t) : i = j

LEMMA KnownToday == TodayIsOpen
<1> SUFFICES ASSUME IInv, NEW k \in Keys, NEW t \in Instants
             PROVE  /\ Visible(k, t, clock) = HeldToday(k, t)
                    /\ \A i, j \in HeldToday(k, t) : i = j
  BY DEF TodayIsOpen
<1>1. rows[k] \in Seq(Rows) /\ DOMAIN rows[k] = 1 .. Len(rows[k]) /\ Chained(rows[k]) /\ clock \in Nat
  BY LenProperties DEF IInv, Ordered, TypeOK, Instants
<1>2. ASSUME NEW i \in 1 .. Len(rows[k])
      PROVE  Within(clock, rows[k][i].system_from, rows[k][i].system_to) <=> rows[k][i].system_to = Null
  <2>1. rows[k][i] \in Rows
    BY <1>1, ElementOfSeq
  <2> QED
    BY <1>1, <2>1 DEF Chained, Within, Rows, Null
<1>3. Visible(k, t, clock) = HeldToday(k, t)
  BY <1>1, <1>2 DEF Visible, HeldToday
<1>4. t \in Nat /\ clock \in Nat /\ TypeOK /\ Ordered
  BY DEF Instants, IInv, TypeOK
<1> QED
  BY <1>3, <1>4, ApartOnOneAxis

\* And so it will be after the next step.
LEMMA KnownTomorrow == TodayIsOpen'
BY KnownToday, PTL

\* Time alone, and every step but a commit, leaves today's view as it was.
LEMMA ViewKept ==
  ASSUME IInv, IInv', NEW k \in Keys, rows'[k] = rows[k]
  PROVE  (\A t \in Instants : Believed(k, t)' = Believed(k, t)) /\ Newest(k)' = Newest(k)
<1>1. ASSUME NEW t \in Instants PROVE Believed(k, t)' = Believed(k, t)
  <2>1. Visible(k, t, clock) = HeldToday(k, t)
    BY KnownToday DEF TodayIsOpen
  <2>2. Visible(k, t, clock)' = HeldToday(k, t)'
    BY KnownTomorrow DEF TodayIsOpen
  <2>3. HeldToday(k, t)' = HeldToday(k, t)
    BY DEF HeldToday
  <2> QED
    BY <2>1, <2>2, <2>3 DEF Believed
<1> QED
  BY <1>1 DEF Newest

\* What a commit does to the rows of its key: the last one is closed on an axis, and a fresh one follows.
LEMMA CommittedRows ==
  ASSUME IInv, NEW w \in Writers, Commit(w), NEW k \in Keys, k = call[w].key,
         NEW from, from = call[w].from
  PROVE  LET n == Len(rows[k])
         IN  /\ n \in Nat /\ Len(rows'[k]) = n + 1 /\ from \in Instants /\ rows'[k] # <<>>
             /\ rows'[k][n + 1].valid_from = from
             /\ rows'[k][n + 1].valid_to = Null /\ rows'[k][n + 1].system_to = Null
             /\ \A i \in 1 .. n : i # n => rows'[k][i] = rows[k][i]
             /\ n # 0 => /\ n \in 1 .. n
                         /\ rows'[k][n].valid_from = rows[k][n].valid_from /\ rows[k][n].valid_from <= from
                         /\ rows[k][n].valid_to = Null /\ rows[k][n].system_to = Null
                         /\ \/ rows'[k][n].valid_to = from /\ rows'[k][n].system_to = Null
                            \/ rows'[k][n].system_to # Null /\ rows[k][n].valid_from = from
<1> DEFINE n == Len(rows[k])
<1>1. call[w] \in Calls /\ Sound(call[w])
  BY DEF IInv, TypeOK, Idle, CallsSound, Commit
<1>2. PICK c \in Calls : c = call[w]
  BY <1>1
<1>3. /\ k = c.key /\ from = c.from /\ Sound(c) /\ TypeOK
      /\ UniqueHead(Versions(c)) /\ Chained(rows[c.key]) /\ rows'[k] = Versions(c)
  BY <1>1, <1>2 DEF IInv, Commit, TypeOK, Ordered
<1>4. IF c.op = "capture" THEN n = 0 ELSE c.prior = n
  BY <1>3, AmendsTheLast
<1>5. /\ n \in Nat /\ rows'[k] \in Seq(Rows) /\ Len(rows'[k]) = n + 1
      /\ \A i \in 1 .. n : rows'[k][i] = Closed(c)[i]
      /\ rows'[k][n + 1] = Row(c.from, c.now)
  BY <1>3, VersionRows
<1>6. /\ from \in Instants /\ c.from \in Nat /\ c.now \in Nat
      /\ rows'[k][n + 1].valid_from = from
      /\ rows'[k][n + 1].valid_to = Null /\ rows'[k][n + 1].system_to = Null
  BY <1>3, <1>5, FreshRow DEF Calls, Sound
<1>7. \A i \in 1 .. n : i # n => rows'[k][i] = rows[k][i]
  BY <1>3, <1>4, <1>5, ClosedRows
<1>8. rows'[k] # <<>>
  BY <1>5, EmptySeq
<1>9. ASSUME n # 0
      PROVE  /\ n \in 1 .. n
             /\ rows'[k][n].valid_from = rows[k][n].valid_from /\ rows[k][n].valid_from <= from
             /\ rows[k][n].valid_to = Null /\ rows[k][n].system_to = Null
             /\ \/ rows'[k][n].valid_to = from /\ rows'[k][n].system_to = Null
                \/ rows'[k][n].system_to # Null /\ rows[k][n].valid_from = from
  <2>1. n \in 1 .. n /\ c.prior = n /\ c.op \in {"supersede", "correct"}
    BY <1>4, <1>5, <1>9 DEF Calls
  <2>2. rows[k][n].valid_to = Null /\ rows[k][n].system_to = Null
    BY <1>3, <2>1 DEF Chained
  <2>3. rows'[k][n].valid_from = rows[k][n].valid_from /\ rows[k][n].valid_from <= from
    BY <1>3, <1>5, <2>1, ClosedRows DEF Sound
  <2>4. c.op = "supersede" => rows'[k][n].valid_to = from /\ rows'[k][n].system_to = Null
    BY <1>3, <1>5, <2>1, <2>2, ClosedRows
  <2>5. c.op = "correct" => rows'[k][n].system_to # Null /\ rows[k][n].valid_from = from
    BY <1>3, <1>5, <1>6, <2>1, ClosedRows DEF Sound, Null
  <2> QED
    BY <2>1, <2>2, <2>3, <2>4, <2>5
<1> QED
  BY <1>5, <1>6, <1>7, <1>8, <1>9

\* A commit amends the newest version, from its instant on.
LEMMA CommitAmends ==
  ASSUME IInv, IInv', NEW w \in Writers, Commit(w), NEW k \in Keys, k = call[w].key,
         NEW from, from = call[w].from
  PROVE  /\ from \in Instants
         /\ Newest(k).from <= from
         /\ Newest(k)' = [no |-> Newest(k).no + 1, from |-> from]
         /\ \A t \in Instants : Believed(k, t)' = IF from <= t THEN Newest(k).no + 1 ELSE Believed(k, t)
<1> DEFINE n == Len(rows[k])
<1>1. /\ n \in Nat /\ Len(rows'[k]) = n + 1 /\ from \in Instants /\ rows'[k] # <<>>
      /\ rows'[k][n + 1].valid_from = from
      /\ rows'[k][n + 1].valid_to = Null /\ rows'[k][n + 1].system_to = Null
      /\ \A i \in 1 .. n : i # n => rows'[k][i] = rows[k][i]
      /\ n # 0 => /\ n \in 1 .. n
                  /\ rows'[k][n].valid_from = rows[k][n].valid_from /\ rows[k][n].valid_from <= from
                  /\ rows[k][n].valid_to = Null /\ rows[k][n].system_to = Null
                  /\ \/ rows'[k][n].valid_to = from /\ rows'[k][n].system_to = Null
                     \/ rows'[k][n].system_to # Null /\ rows[k][n].valid_from = from
  BY SMTT(30), CommittedRows
<1>2. rows[k] \in Seq(Rows) /\ TypeOK /\ Chained(rows[k]) /\ from \in Nat
  BY <1>1 DEF IInv, TypeOK, Ordered, Instants
<1>3. rows[k] = <<>> <=> n = 0
  BY <1>2, EmptySeq
<1>4. Newest(k).no = n /\ Newest(k).from <= from
  BY <1>1, <1>2, <1>3 DEF Newest
<1>5. Newest(k)' = [no |-> n + 1, from |-> from]
  BY <1>1 DEF Newest
<1>6. n \in Nat /\ Len(rows'[k]) = n + 1 /\ \A i \in 1 .. n : i # n => rows'[k][i] = rows[k][i]
  BY <1>1
<1>7. ASSUME NEW t \in Instants, from <= t PROVE Believed(k, t)' = n + 1
  <2>1. /\ Visible(k, t, clock)' = HeldToday(k, t)'
        /\ \A i, j \in HeldToday(k, t)' : i = j
    BY KnownTomorrow DEF TodayIsOpen
  <2>2. n + 1 \in HeldToday(k, t)'
    BY <1>1, <1>7 DEF HeldToday, Within
  <2> QED
    BY <2>1, <2>2 DEF Believed
<1>8. ASSUME NEW t \in Instants, ~(from <= t) PROVE Believed(k, t)' = Believed(k, t)
  <2>1. t \in Nat
    BY DEF Instants
  <2>2. Visible(k, t, clock)' = HeldToday(k, t)'
    BY KnownTomorrow DEF TodayIsOpen
  <2>3. Visible(k, t, clock) = HeldToday(k, t)
    BY KnownToday DEF TodayIsOpen
  <2>4. ~Within(t, rows'[k][n + 1].valid_from, rows'[k][n + 1].valid_to)
    BY <1>1, <1>8 DEF Within
  <2>5. ASSUME n # 0
        PROVE  (Within(t, rows'[k][n].valid_from, rows'[k][n].valid_to) /\ rows'[k][n].system_to = Null)
                 <=> (Within(t, rows[k][n].valid_from, rows[k][n].valid_to) /\ rows[k][n].system_to = Null)
    <3>1. rows[k][n].valid_from \in Nat
      <4>1. rows[k][n] \in Rows
        BY <1>1, <1>2, <2>5, ElementOfSeq
      <4> QED
        BY <4>1 DEF Rows
    <3>2. CASE rows'[k][n].valid_to = from /\ rows'[k][n].system_to = Null
      BY SMTT(30), <1>1, <1>2, <1>8, <2>1, <2>5, <3>1, <3>2 DEF Within
    <3>3. CASE rows'[k][n].system_to # Null /\ rows[k][n].valid_from = from
      BY <1>1, <1>2, <1>8, <2>1, <2>5, <3>1, <3>3 DEF Within
    <3> QED
      BY <1>1, <2>5, <3>2, <3>3
  <2>6. ASSUME NEW i \in 1 .. n + 1
        PROVE  i \in HeldToday(k, t)' <=> i \in HeldToday(k, t)
    <3>1. CASE i = n + 1
      BY SMTT(30), <1>6, <2>4, <3>1 DEF HeldToday
    <3>2. CASE i = n
      BY SMTT(30), <1>6, <2>5, <3>2 DEF HeldToday
    <3>3. CASE i \in 1 .. n /\ i # n
      BY SMTT(30), <1>6, <3>3 DEF HeldToday
    <3> QED
      BY <1>1, <3>1, <3>2, <3>3
  <2>7. HeldToday(k, t)' \subseteq 1 .. n + 1 /\ HeldToday(k, t) \subseteq 1 .. n + 1
    BY SMTT(30), <1>6 DEF HeldToday
  <2>8. HeldToday(k, t)' = HeldToday(k, t)
    BY <2>6, <2>7
  <2>9. Visible(k, t, clock)' = Visible(k, t, clock)
    BY <2>2, <2>3, <2>8
  <2> QED
    BY <2>9 DEF Believed
<1> QED
  BY <1>1, <1>4, <1>5, <1>7, <1>8

\* Racing writers make what one careful writer would (supersede_factor_return and the others).
THEOREM ReturnsImplementBelief == Spec => ImplementsBelief
<1>1. Init => Belief!Init
  <2> SUFFICES ASSUME Init
               PROVE  /\ \A k \in Keys : Newest(k) = [no |-> IF k \in Backlog THEN 1 ELSE 0, from |-> 0]
                      /\ \A k \in Keys, t \in Instants : Believed(k, t) = IF k \in Backlog THEN 1 ELSE 0
    BY DEF Belief!Init, belief, newest
  <2>1. ASSUME NEW k \in Keys
        PROVE  /\ Newest(k) = [no |-> IF k \in Backlog THEN 1 ELSE 0, from |-> 0]
               /\ \A t \in Instants : Believed(k, t) = IF k \in Backlog THEN 1 ELSE 0
    <3>1. rows[k] = IF k \in Backlog THEN <<Row(0, 0)>> ELSE <<>>
      BY DEF Init
    <3>2. IInv
      BY InitEstablishes
    <3>3. CASE k \in Backlog
      <4>1. /\ rows[k] # <<>> /\ Len(rows[k]) = 1
            /\ rows[k][1].valid_from = 0 /\ rows[k][1].valid_to = Null /\ rows[k][1].system_to = Null
        BY <3>1, <3>3, FreshRow
      <4>2. \A t \in Instants : HeldToday(k, t) = {1}
        BY <4>1 DEF Within, Instants, HeldToday
      <4>3. \A t \in Instants : Visible(k, t, clock) = {1}
        BY <3>2, <4>2, KnownToday DEF TodayIsOpen
      <4> QED
        BY <3>3, <4>1, <4>3 DEF Newest, Believed
    <3>4. CASE k \notin Backlog
      <4>1. rows[k] = <<>>
        BY <3>1, <3>4
      <4>2. \A t \in Instants : Visible(k, t, clock) = {}
        BY <4>1 DEF Visible
      <4> QED
        BY <3>4, <4>1, <4>2 DEF Newest, Believed
    <3> QED
      BY <3>3, <3>4
  <2> QED
    BY <2>1
<1>2. ASSUME IInv, [Next]_vars
      PROVE  [Belief!Next]_Belief!vars
  <2>1. IInv'
    BY <1>2, StepPreserves
  <2>2. CASE \E w \in Writers : Commit(w)
    <3>1. PICK w \in Writers : Commit(w)
      BY <2>2
    <3>2. call[w].key \in Keys
      BY <1>2, <3>1 DEF Commit, IInv, TypeOK, Idle, Calls
    <3>3. PICK key \in Keys : key = call[w].key
      BY <3>2
    <3>4. PICK from : from = call[w].from
      OBVIOUS
    <3>5. /\ from \in Instants
          /\ Newest(key).from <= from
          /\ Newest(key)' = [no |-> Newest(key).no + 1, from |-> from]
          /\ \A t \in Instants : Believed(key, t)' = IF from <= t THEN Newest(key).no + 1 ELSE Believed(key, t)
      BY <1>2, <2>1, <3>1, <3>3, <3>4, CommitAmends
    <3>6. \A k \in Keys : k # key => rows'[k] = rows[k]
      BY <1>2, <3>1, <3>3 DEF Commit, IInv, TypeOK
    <3>7. \A k \in Keys : k # key => (\A t \in Instants : Believed(k, t)' = Believed(k, t)) /\ Newest(k)' = Newest(k)
      BY <1>2, <2>1, <3>6, ViewKept
    <3>8. newest[key].from <= from
      BY <3>5 DEF newest
    <3>9. newest' = [newest EXCEPT ![key] = [no |-> newest[key].no + 1, from |-> from]]
      BY <3>5, <3>7 DEF newest
    <3>10. belief' = [belief EXCEPT ![key] = [t \in Instants |->
              IF from <= t THEN newest[key].no + 1 ELSE belief[key][t]]]
      BY <3>5, <3>7 DEF belief, newest
    <3> QED
      BY <3>5, <3>8, <3>9, <3>10 DEF Belief!Next, Belief!Amend
  <2>3. CASE ~ \E w \in Writers : Commit(w)
    <3>1. rows' = rows
      BY <1>2, <2>3 DEF Next, Capture, Supersede, Correct, Calling, Rollback, UpdateFactor, ListDates,
                        BeginBuild, ReadVersion, Persist, FailBuild, Tick, vars
    <3>2. \A k \in Keys : (\A t \in Instants : Believed(k, t)' = Believed(k, t)) /\ Newest(k)' = Newest(k)
      BY <1>2, <2>1, <3>1, ViewKept
    <3> QED
      BY <3>2 DEF belief, newest, Belief!vars
  <2> QED
    BY <2>2, <2>3
<1> QED
  BY <1>1, <1>2, Invariance, PTL DEF Spec, ImplementsBelief, Belief!Spec
=============================================================================
