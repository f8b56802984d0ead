------------------------------ MODULE OrdersApi ------------------------------
(***************************************************************************)
(* What the clients of order-svc are answered: calls of BatchInsert and of *)
(* ListOrders at the same time, on the tables orders and order_items.      *)
(*                                                                         *)
(* BatchInsert writes orders and items in one transaction, in a statement  *)
(* each, and gives the inserted items back to their orders by counting.    *)
(* GetOrders reads orders and items in two statements that are in no       *)
(* transaction: each sees what is committed when it runs.                  *)
(*                                                                         *)
(* How the calls fail, and what becomes of the audit, is in BatchInsert;   *)
(* here a call that does not commit is one that never comes to Commit.     *)
(***************************************************************************)
EXTENDS Integers, Sequences, FiniteSets, SequencesExt

CONSTANTS
    Creates,    \* calls of BatchInsert
    Lists,      \* calls of ListOrders
    Customers,  \* customer ids
    Batches,    \* Batches[c]: what call c may be asked to create
    Requests,   \* what a call of ListOrders may ask for
    Capacities  \* capacities a slice of items goes through as append grows it

\* An order of a batch, as far as the answers tell orders apart.
Entry == [customer : Customers, items : Nat]

\* The k-th order of call c.  Its id is not known before it is inserted.
Orders == Creates \X (Nat \ {0})

\* A row of order_items: the n-th item the client gave for the order.
ItemRow == [order : Orders, n : Nat \ {0}]

Request == [ids : SUBSET Orders, customers : SUBSET Customers, limit : Nat, offset : Nat]

ASSUME BatchesAssumption == Batches \in [Creates -> SUBSET Seq(Entry)]
ASSUME RequestsAssumption == Requests \subseteq Request
ASSUME CapacitiesAssumption == Capacities \subseteq Nat

VARIABLES
    cpc,         \* where each call of BatchInsert is
    batch,       \* the orders it was asked to create
    answer,      \* answer[c][k]: the items it answers for its k-th order
    orders,      \* committed rows of orders
    items,       \* committed rows of order_items
    openOrders,  \* rows of orders of the open transactions
    openItems,   \* rows of order_items of the open transactions
    lpc,         \* where each call of ListOrders is
    request,     \* what it was asked for
    known,       \* orders some client had been shown when it arrived
    found,       \* the orders its first statement read
    listing      \* listing[l][o]: the items it answers for order o

createVars == <<cpc, batch, answer, orders, items, openOrders, openItems>>
listVars == <<lpc, request, known, found, listing>>
avars == <<createVars, listVars>>

NoRequest == [ids |-> {}, customers |-> {}, limit |-> 0, offset |-> 0]

Nothing == [o \in {} |-> {}]

Init ==
    /\ cpc = [c \in Creates |-> "idle"]
    /\ batch = [c \in Creates |-> <<>>]
    /\ answer = [c \in Creates |-> <<>>]
    /\ orders = {} /\ items = {} /\ openOrders = {} /\ openItems = {}
    /\ lpc = [l \in Lists |-> "idle"]
    /\ request = [l \in Lists |-> NoRequest]
    /\ known = [l \in Lists |-> {}]
    /\ found = [l \in Lists |-> {}]
    /\ listing = [l \in Lists |-> Nothing]

OrdersOf(c) == {c} \X DOMAIN batch[c]

EntryOf(o) == batch[o[1]][o[2]]

\* Faulty variant: the items do not get the id of their order.
ItemsOfNoOrder(c) ==
    UNION {[order : {<<>>}, n : 1 .. EntryOf(o).items] : o \in OrdersOf(c)}

\* The rows of order_items a call inserts.
ItemsOf(c) ==
    UNION {[order : {o}, n : 1 .. EntryOf(o).items] : o \in OrdersOf(c)}

-----------------------------------------------------------------------------
(* The items of a batch *)

OwnItems(c, k) == [j \in 1 .. batch[c][k].items |-> [order |-> <<c, k>>, n |-> j]]

\* Faulty variant: the items of later orders come first.
CollectedReversed(c) == FlattenSeq([k \in DOMAIN batch[c] |-> OwnItems(c, Len(batch[c]) + 1 - k)])

\* The items of all orders in one slice, each with the id of its order.
Collected(c) == FlattenSeq([k \in DOMAIN batch[c] |-> OwnItems(c, k)])

\* The zero value of an item, in the spare capacity of a slice.
Zero == [order |-> <<>>, n |-> 0]

\* orderItems[(k-1)*n : k*n] with n = len(orders[k].OrderItems).
First(c, k) == (k - 1) * batch[c][k].items
Past(c, k) == k * batch[c][k].items

\* Go bounds the slice by the capacity of its operand, not by its length.
\* BulkInsert appends row by row to a slice that starts without any: it comes
\* back with the least of the capacities that holds all items.
InBounds(c, k) ==
    \A g \in Capacities : g >= Len(Collected(c)) => Past(c, k) <= g

Given(c, k) ==
    LET flat == Collected(c)
    IN  [j \in 1 .. Past(c, k) - First(c, k) |->
            IF First(c, k) + j <= Len(flat) THEN flat[First(c, k) + j] ELSE Zero]

-----------------------------------------------------------------------------
(* OrderServer.BatchInsert *)

Goto(c, from, to) ==
    /\ cpc[c] = from
    /\ cpc' = [cpc EXCEPT ![c] = to]

Call(c) ==
    /\ Goto(c, "idle", "orders")
    /\ \E b \in Batches[c] : batch' = [batch EXCEPT ![c] = b]
    /\ UNCHANGED <<answer, orders, items, openOrders, openItems, listVars>>

\* Faulty variant: the repository keeps the pool's connection when the
\* transaction begins, so that the rows are committed at once.
InsertOrdersOnPool(c) ==
    /\ Goto(c, "orders", "items")
    /\ orders' = orders \cup OrdersOf(c)
    /\ UNCHANGED <<batch, answer, items, openOrders, openItems, listVars>>

InsertOrders(c) ==
    /\ Goto(c, "orders", "items")
    /\ openOrders' = openOrders \cup OrdersOf(c)
    /\ UNCHANGED <<batch, answer, orders, items, openItems, listVars>>

InsertItems(c) ==
    /\ Goto(c, "items", "group")
    /\ openItems' = openItems \cup ItemsOf(c)
    /\ UNCHANGED <<batch, answer, orders, items, openOrders, listVars>>

\* The items are given back to their orders.
Group(c) ==
    /\ Goto(c, "group", "commit")
    /\ \A k \in DOMAIN batch[c] : InBounds(c, k)
    /\ answer' = [answer EXCEPT ![c] = [k \in DOMAIN batch[c] |-> Given(c, k)]]
    /\ UNCHANGED <<batch, orders, items, openOrders, openItems, listVars>>

\* A slice is out of range.  The transaction stays open.
Panic(c) ==
    /\ Goto(c, "group", "panic")
    /\ \E k \in DOMAIN batch[c] : ~ InBounds(c, k)
    /\ UNCHANGED <<batch, answer, orders, items, openOrders, openItems, listVars>>

\* The rows of the transaction of c become visible, all at once.
CommitRows(c) ==
    /\ orders' = orders \cup {o \in openOrders : o[1] = c}
    /\ items' = items \cup {r \in openItems : r.order[1] = c}

DropRows(c) ==
    /\ openOrders' = {o \in openOrders : o[1] # c}
    /\ openItems' = {r \in openItems : r.order[1] # c}

Commit(c) ==
    /\ Goto(c, "commit", "ok")
    /\ CommitRows(c)
    /\ DropRows(c)
    /\ UNCHANGED <<batch, answer, listVars>>

\* The answer is an error, whether or not the commit took effect.
CommitFail(c, landed) ==
    /\ Goto(c, "commit", "error")
    /\ IF landed THEN CommitRows(c) ELSE UNCHANGED <<orders, items>>
    /\ DropRows(c)
    /\ UNCHANGED <<batch, answer, listVars>>

\* An insert or the audit fails, or the process ends: the transaction is
\* rolled back, or is never ended, until its connection is closed.
Fail(c) ==
    /\ \E from \in {"orders", "items", "group", "commit"} : Goto(c, from, "error")
    /\ DropRows(c)
    /\ UNCHANGED <<batch, answer, orders, items, listVars>>

-----------------------------------------------------------------------------
(* OrderServer.ListOrders *)

\* What OrderService.GetOrders is called with.  Page and PageSize stay zero.
ListOrdersRequestFromProto(r) ==
    [ids |-> r.ids, customers |-> r.customers, limit |-> r.limit, offset |-> r.offset,
     page |-> 0, pageSize |-> 0]

OrderQuery(m) ==
    [ids |-> m.ids, customers |-> m.customers,
     limit |-> m.pageSize, offset |-> (m.page - 1) * m.pageSize]

\* An empty list of ids or of customers does not filter.
Matches(q, o) ==
    /\ q.ids = {} \/ o \in q.ids
    /\ q.customers = {} \/ EntryOf(o).customer \in q.customers

\* The results the statement may have.  There is no ORDER BY: which rows
\* OFFSET and LIMIT leave is the database's choice.
Results(q) ==
    LET rows == {o \in orders : Matches(q, o)}
        left == IF q.offset > 0 THEN Cardinality(rows) - q.offset ELSE Cardinality(rows)
        size == IF q.limit > 0 /\ q.limit < left THEN q.limit ELSE IF left > 0 THEN left ELSE 0
    IN  IF q.limit > 0 \/ q.offset > 0
        THEN {r \in SUBSET rows : Cardinality(r) = size}
        ELSE {rows}

\* Orders a client was shown, by the call that created them or by a list.
Shown ==
    (UNION {OrdersOf(c) : c \in {x \in Creates : cpc[x] = "ok"}})
        \cup (UNION {DOMAIN listing[l] : l \in Lists})

ListCall(l, r) ==
    /\ lpc[l] = "idle"
    /\ lpc' = [lpc EXCEPT ![l] = "orders"]
    /\ request' = [request EXCEPT ![l] = r]
    /\ known' = [known EXCEPT ![l] = Shown]
    /\ UNCHANGED <<createVars, found, listing>>

\* The answer is empty at once if there are no orders: a query of items
\* without order ids would read all items.
QueryOrders(l) ==
    /\ lpc[l] = "orders"
    /\ \E rows \in Results(OrderQuery(ListOrdersRequestFromProto(request[l]))) :
          /\ found' = [found EXCEPT ![l] = rows]
          /\ lpc' = [lpc EXCEPT ![l] = IF rows = {} THEN "ok" ELSE "items"]
    /\ UNCHANGED <<createVars, request, known, listing>>

\* The items of an order that are committed.
Items(o) == {r.n : r \in {x \in items : x.order = o}}

\* Faulty variant: the items are joined, and orders without items are lost.
QueryItemsJoined(l) ==
    /\ lpc[l] = "items"
    /\ lpc' = [lpc EXCEPT ![l] = "ok"]
    /\ listing' = [listing EXCEPT ![l] =
                     [o \in {r.order : r \in {x \in items : x.order \in found[l]}} |-> Items(o)]]
    /\ UNCHANGED <<createVars, request, known, found>>

\* Each order is given the items that name it.
QueryItems(l) ==
    /\ lpc[l] = "items"
    /\ lpc' = [lpc EXCEPT ![l] = "ok"]
    /\ listing' = [listing EXCEPT ![l] = [o \in found[l] |-> Items(o)]]
    /\ UNCHANGED <<createVars, request, known, found>>

\* Faulty variant: the error is logged, and an empty list is answered.
ListFailAnswersNothing(l) ==
    /\ lpc[l] \in {"orders", "items"}
    /\ lpc' = [lpc EXCEPT ![l] = "ok"]
    /\ UNCHANGED <<createVars, request, known, found, listing>>

\* A statement fails, or there is no connection for it.
ListFail(l) ==
    /\ lpc[l] \in {"orders", "items"}
    /\ lpc' = [lpc EXCEPT ![l] = "error"]
    /\ UNCHANGED <<createVars, request, known, found, listing>>

Next ==
    \/ \E c \in Creates :
          \/ Call(c) \/ InsertOrders(c) \/ InsertItems(c) \/ Group(c) \/ Panic(c)
          \/ Commit(c) \/ \E landed \in BOOLEAN : CommitFail(c, landed)
          \/ Fail(c)
    \/ \E l \in Lists :
          \/ \E r \in Requests : ListCall(l, r)
          \/ QueryOrders(l) \/ QueryItems(l) \/ ListFail(l)

Spec == Init /\ [][Next]_avars

-----------------------------------------------------------------------------
(* Properties *)

TypeOK ==
    /\ cpc \in [Creates -> {"idle", "orders", "items", "group", "commit",
                            "ok", "error", "panic"}]
    /\ \A c \in Creates : batch[c] \in Batches[c] \cup {<<>>}
    /\ orders \subseteq Orders /\ openOrders \subseteq Orders
    /\ items \subseteq ItemRow /\ openItems \subseteq ItemRow
    /\ lpc \in [Lists -> {"idle", "orders", "items", "ok", "error"}]
    /\ request \in [Lists -> Requests \cup {NoRequest}]
    /\ known \in [Lists -> SUBSET Orders]
    /\ found \in [Lists -> SUBSET Orders]

\* An order is never listed without its items or with some of them, although
\* it may be committed between the two statements of GetOrders.
ListedWhole ==
    \A l \in Lists : \A o \in DOMAIN listing[l] : listing[l][o] = 1 .. EntryOf(o).items

\* A request that leaves limit and offset open asks for every order it matches.
Unlimited(r) == r.limit = 0 /\ r.offset = 0

\* What a client was shown, every later list shows: the answer of a list without
\* limit and offset has all orders that match it and were answered to anybody
\* before it arrived.
KnownAreListed ==
    \A l \in Lists : lpc[l] = "ok" /\ Unlimited(request[l]) =>
        \A o \in known[l] : Matches(request[l], o) => o \in DOMAIN listing[l]

Uniform(c) == \A k, m \in DOMAIN batch[c] : batch[c][k].items = batch[c][m].items

\* In any batch, an order with items gets its own back exactly when as many
\* items come before them as if all orders in front had its number of items,
\* and the handler panics only if the orders differ in their numbers.
KeptExactlyWhenAligned ==
    \A c \in Creates :
        /\ cpc[c] = "panic" => ~ Uniform(c)
        /\ \A k \in DOMAIN answer[c] :
              LET before == {r \in ItemsOf(c) : r.order[2] < k}
              IN  answer[c][k] = OwnItems(c, k)
                      <=> (batch[c][k].items = 0
                             \/ Cardinality(before) = (k - 1) * batch[c][k].items)

\* "BatchInsert creates multiple orders with their items": an order that is
\* answered and sent to the audit has its own items.
OrdersKeepTheirItems ==
    \A c \in Creates : \A k \in DOMAIN answer[c] : answer[c][k] = OwnItems(c, k)

-----------------------------------------------------------------------------
(* What the clients may rely on: see OrderStore *)

CreateStatus == [c \in Creates |->
    CASE cpc[c] = "idle" -> "new"
      [] cpc[c] \in {"ok", "error"} -> cpc[c]
      [] OTHER -> "open"]

ListStatus == [l \in Lists |->
    CASE lpc[l] = "idle" -> "new"
      [] lpc[l] = "orders" -> "asked"
      [] lpc[l] = "items" -> "seen"
      [] OTHER -> lpc[l]]

\* A list has seen the items of what it found before it reads them.
View == [l \in Lists |->
    IF lpc[l] = "items" THEN [o \in found[l] |-> Items(o)] ELSE listing[l]]

Store == INSTANCE OrderStore WITH
    create <- CreateStatus, store <- orders, list <- ListStatus, view <- View

\* The two statements of a list, and the two inserts of a call, are each as
\* good as one: no client can tell the two tables from one store.
ImplementsStore == Store!Spec

=============================================================================
