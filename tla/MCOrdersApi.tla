----------------------------- MODULE MCOrdersApi -----------------------------
(* Instances of OrdersApi for TLC. *)
EXTENDS OrdersApi

CONSTANTS c1, c2, k1, k2

\* Batches of up to n orders of up to m items, all of customer k.
UpTo(n, m, k) == UNION {[1 .. j -> [customer : {k}, items : 0 .. m]] : j \in 0 .. n}

\* The first call brings any batch, the second one order of one item.
MCBatches == [c \in Creates |->
    IF c = c1 THEN UpTo(3, 3, k1) ELSE {<<[customer |-> k2, items |-> 1]>>}]

All == NoRequest
First1 == [NoRequest EXCEPT !.limit = 1]
One == [NoRequest EXCEPT !.ids = {<<c1, 1>>, <<c2, 1>>}, !.customers = {k2}]

MCRequests == {All, First1, One}

=============================================================================
