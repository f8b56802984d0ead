----------------------------- MODULE MCAuditSvc -----------------------------
(* An instance of AuditSvc for TLC. *)
EXTENDS AuditSvc

CONSTANT m1

\* The well-formed message m1 is an order of two items.
MCItems == [m \in Messages |-> IF m = m1 THEN 2 ELSE 0]

=============================================================================
