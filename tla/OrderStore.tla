----------------------------- MODULE OrderStore -----------------------------
(***************************************************************************)
(* What order-svc promises to the clients that create and list orders: one *)
(* store, in which the orders of a call appear at once and with all their  *)
(* items, and which a list sees as it was at one moment between its        *)
(* question and its answer: all of it that matches, unless the client asks *)
(* for a part with limit or offset; which part is left open.  OrdersApi,   *)
(* with its two tables and its statements one after the other, implements  *)
(* it.                                                                     *)
(***************************************************************************)
EXTENDS Integers, Sequences

CONSTANTS
    Creates,           \* calls that create orders
    Lists,             \* calls that list them
    Batches,           \* Batches[c]: what call c may create
    Requests,          \* what a list may ask for
    NoRequest          \* a list that has not asked

VARIABLES
    create,   \* "new", "open", "ok" or "error", for each call
    batch,    \* what it creates: a sequence of orders
    store,    \* the orders there are: <<c, k>> is the k-th of call c
    list,     \* "new", "asked", "seen", "ok" or "error", for each list
    request,  \* what it asks for
    view      \* view[l][o]: the items it has seen of order o

\* No orders.
Nothing == [o \in {} |-> {}]

svars == <<create, batch, store, list, request, view>>

OrdersOf(c) == {c} \X DOMAIN batch[c]

EntryOf(o) == batch[o[1]][o[2]]

\* The orders a list asks for: an empty set of ids or of customers means any.
Matching(r) == {o \in store :
    /\ r.ids = {} \/ o \in r.ids
    /\ r.customers = {} \/ EntryOf(o).customer \in r.customers}

Init ==
    /\ create = [c \in Creates |-> "new"]
    /\ batch = [c \in Creates |-> <<>>]
    /\ store = {}
    /\ list = [l \in Lists |-> "new"]
    /\ request = [l \in Lists |-> NoRequest]
    /\ view = [l \in Lists |-> Nothing]

Submit(c) ==
    /\ create[c] = "new"
    /\ create' = [create EXCEPT ![c] = "open"]
    /\ \E b \in Batches[c] : batch' = [batch EXCEPT ![c] = b]
    /\ UNCHANGED <<store, list, request, view>>

\* All orders of the call appear, and it is answered.
Create(c) ==
    /\ create[c] = "open"
    /\ create' = [create EXCEPT ![c] = "ok"]
    /\ store' = store \cup OrdersOf(c)
    /\ UNCHANGED <<batch, list, request, view>>

\* The call is answered with an error: none of its orders appear, or all.
Refuse(c) ==
    /\ create[c] = "open"
    /\ create' = [create EXCEPT ![c] = "error"]
    /\ store' \in {store, store \cup OrdersOf(c)}
    /\ UNCHANGED <<batch, list, request, view>>

Ask(l, r) ==
    /\ list[l] = "new"
    /\ list' = [list EXCEPT ![l] = "asked"]
    /\ request' = [request EXCEPT ![l] = r]
    /\ UNCHANGED <<create, batch, store, view>>

\* What a list may be shown.
Selections(r) ==
    IF r.limit = 0 /\ r.offset = 0 THEN {Matching(r)} ELSE SUBSET Matching(r)

\* The list sees the orders as they are now, each with all of its items.  The
\* answer may follow at once.
See(l) ==
    /\ list[l] = "asked"
    /\ \E to \in {"seen", "ok"} : list' = [list EXCEPT ![l] = to]
    /\ \E some \in Selections(request[l]) :
          view' = [view EXCEPT ![l] = [o \in some |-> 1 .. EntryOf(o).items]]
    /\ UNCHANGED <<create, batch, store, request>>

Answer(l) ==
    /\ list[l] = "seen"
    /\ list' = [list EXCEPT ![l] = "ok"]
    /\ UNCHANGED <<create, batch, store, request, view>>

\* The list is answered with an error, and with no orders.
Miss(l) ==
    /\ list[l] \in {"asked", "seen"}
    /\ list' = [list EXCEPT ![l] = "error"]
    /\ view' = [view EXCEPT ![l] = Nothing]
    /\ UNCHANGED <<create, batch, store, request>>

Next ==
    \/ \E c \in Creates : Submit(c) \/ Create(c) \/ Refuse(c)
    \/ \E l \in Lists : (\E r \in Requests : Ask(l, r)) \/ See(l) \/ Answer(l) \/ Miss(l)

Spec == Init /\ [][Next]_svars

=============================================================================
