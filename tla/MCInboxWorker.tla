---------------------------- MODULE MCInboxWorker ----------------------------
(* Instances of InboxWorker for TLC. *)
EXTENDS InboxWorker

CONSTANTS m1, m2

\* An order of two items and one of a single item.
MCItems == [m \in Messages |-> IF m = m1 THEN 2 ELSE 1]

=============================================================================
