------------------------------ MODULE AuditLog ------------------------------
(***************************************************************************)
(* What one tenant's audit trail promises the rest of the platform: a log  *)
(* that committing transactions extend at its end, each by the events it   *)
(* recorded, all at once.  The position of an event in the log is its      *)
(* sequence number.  The readers that keep a cursor over sequence numbers  *)
(* (the notification phase of the tick) rest on nothing else.              *)
(*                                                                         *)
(* AuditChain is the detailed module that implements this one.             *)
(***************************************************************************)
EXTENDS Sequences, SequencesExt

CONSTANT EventTypes      \* the event types a transaction can record

VARIABLE log             \* the types of the committed events, by sequence number

Init == log = <<>>

\* A transaction that recorded the events of "batch" commits.
Publish(batch) == log' = log \o batch

\* Some batch is published (no batch is named: Seq(EventTypes) is infinite).
Next ==
  /\ IsPrefix(log, log')
  /\ \A i \in DOMAIN log' : log'[i] \in EventTypes

Spec == Init /\ [][Next]_log
=============================================================================
