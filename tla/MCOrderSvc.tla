----------------------------- MODULE MCOrderSvc -----------------------------
(* An instance of OrderSvc for TLC. *)
EXTENDS OrderSvc

MCBackoff == [n \in 0 .. MaxRetries + 1 |-> 2 ^ n]

=============================================================================
