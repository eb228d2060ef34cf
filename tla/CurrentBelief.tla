--------------------------- MODULE CurrentBelief ---------------------------
(***************************************************************************)
(* What a bitemporal record promises about today: of each key one version  *)
(* is believed at each instant, and an amendment replaces what is believed *)
(* from some instant on, that instant being no earlier than the one the    *)
(* newest version starts from.  What was believed before it stays.         *)
(***************************************************************************)
EXTENDS Naturals

CONSTANTS
    Keys,       \* logical keys
    Instants,   \* valid times
    Backlog     \* keys whose first version, from 0 on, is there at the beginning

VARIABLES
    belief,     \* key |-> instant |-> the version believed to hold then, 0 for none
    newest      \* key |-> the number of the newest version and the instant it starts from

vars == <<belief, newest>>

Init ==
    /\ belief = [k \in Keys |-> [t \in Instants |-> IF k \in Backlog THEN 1 ELSE 0]]
    /\ newest = [k \in Keys |-> [no |-> IF k \in Backlog THEN 1 ELSE 0, from |-> 0]]

Amend(k, from) ==
    /\ newest[k].from <= from
    /\ newest' = [newest EXCEPT ![k] = [no |-> @.no + 1, from |-> from]]
    /\ belief' = [belief EXCEPT ![k] = [t \in Instants |-> IF from <= t THEN newest[k].no + 1 ELSE @[t]]]

Next == \E k \in Keys, from \in Instants : Amend(k, from)

Spec == Init /\ [][Next]_vars
=============================================================================
