--------------------------- MODULE MCOutboxWorker ---------------------------
(* Instances of OutboxWorker for TLC. *)
EXTENDS OutboxWorker

\* math.Pow(2, n) * 30 seconds, in units of 30 seconds; one entry more than
\* the worker needs.
MCBackoff == [n \in 0 .. MaxRetries + 1 |-> 2 ^ n]

=============================================================================
