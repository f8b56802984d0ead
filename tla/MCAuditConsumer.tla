--------------------------- MODULE MCAuditConsumer ---------------------------
(* Instances of AuditConsumer for TLC. *)
EXTENDS AuditConsumer

CONSTANTS m1, m2

\* The well-formed message m1 is an order of two items.
MCItems == [m \in Messages |-> IF m = m1 THEN 2 ELSE 0]

=============================================================================
