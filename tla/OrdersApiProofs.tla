--------------------------- MODULE OrdersApiProofs ---------------------------
(***************************************************************************)
(* What a list answers and which items a call answers, for any number of   *)
(* calls, orders, items and requests.                                      *)
(***************************************************************************)
EXTENDS OrdersApi, FiniteSetTheorems, SequenceTheorems, TLAPS

\* Calls with rows in an open transaction: of orders, and of items as well.
Wrote == {"items", "group", "commit", "panic"}
WroteAll == {"group", "commit", "panic"}

Shape ==
    /\ batch \in [Creates -> Seq(Entry)]
    /\ answer = [c \in Creates |-> answer[c]]
    /\ listing = [l \in Lists |-> listing[l]]

\* The open rows are those of the calls that have inserted them.
OpenRows ==
    /\ \A o \in openOrders : cpc[o[1]] \in Wrote /\ o \in OrdersOf(o[1])
    /\ \A c \in Creates : cpc[c] \in Wrote => OrdersOf(c) \subseteq openOrders
    /\ \A r \in openItems : cpc[r.order[1]] \in WroteAll /\ r \in ItemsOf(r.order[1])
    /\ \A c \in Creates : cpc[c] \in WroteAll => ItemsOf(c) \subseteq openItems

\* Orders are committed with all their items, by calls that have ended.
CommittedRows ==
    /\ \A o \in orders : cpc[o[1]] \in {"ok", "error"} /\ o \in OrdersOf(o[1])
    /\ \A c \in Creates : cpc[c] = "ok" => OrdersOf(c) \subseteq orders
    /\ \A o \in orders : \A n \in 1 .. EntryOf(o).items : [order |-> o, n |-> n] \in items
    /\ \A r \in items : r.order \in orders /\ r \in ItemsOf(r.order[1])

\* What a list has found and has answered is committed; it has found every
\* order that matches and that somebody knew.
Listed ==
    /\ \A l \in Lists : known[l] \cup found[l] \subseteq orders
    /\ \A l \in Lists : lpc[l] # "ok" => listing[l] = Nothing
    /\ \A l \in Lists : lpc[l] = "ok" => DOMAIN listing[l] = found[l]
    /\ \A l \in Lists : lpc[l] \in {"items", "ok"} =>
          \A o \in known[l] : Matches(request[l], o) => o \in found[l]

IInv == TypeOK /\ Shape /\ OpenRows /\ CommittedRows /\ Listed /\ ListedWhole

-----------------------------------------------------------------------------

\* The rows of items of a call are records of its orders.
LEMMA ItemRows ==
    ASSUME NEW c \in Creates, batch \in [Creates -> Seq(Entry)]
    PROVE  /\ OrdersOf(c) \subseteq Orders
           /\ \A o \in OrdersOf(c) : o[1] = c /\ EntryOf(o).items \in Nat
           /\ ItemsOf(c) \subseteq ItemRow
           /\ \A r \in ItemsOf(c) :
                 /\ r.order \in OrdersOf(c) /\ r.n \in 1 .. EntryOf(r.order).items
                 /\ r = [order |-> r.order, n |-> r.n]
           /\ \A o \in OrdersOf(c) : \A n \in 1 .. EntryOf(o).items :
                 [order |-> o, n |-> n] \in ItemsOf(c)
<1>1. /\ OrdersOf(c) \subseteq Orders
      /\ \A o \in OrdersOf(c) : o[1] = c /\ EntryOf(o).items \in Nat
  <2> SUFFICES ASSUME NEW o \in OrdersOf(c)
               PROVE  o \in Orders /\ o[1] = c /\ EntryOf(o).items \in Nat
    OBVIOUS
  <2>1. PICK k \in DOMAIN batch[c] : o = <<c, k>>
    BY DEF OrdersOf
  <2>2. k \in Nat \ {0} /\ batch[c][k] \in Entry
    BY <2>1
  <2> QED
    BY <2>1, <2>2 DEF Orders, EntryOf, Entry
<1>2. \A r \in ItemsOf(c) :
         /\ r.order \in OrdersOf(c) /\ r.n \in 1 .. EntryOf(r.order).items
         /\ r = [order |-> r.order, n |-> r.n]
  BY DEF ItemsOf
<1>3. \A o \in OrdersOf(c) : \A n \in 1 .. EntryOf(o).items :
         [order |-> o, n |-> n] \in ItemsOf(c)
  BY DEF ItemsOf
<1>4. ItemsOf(c) \subseteq ItemRow
  BY <1>1, <1>2 DEF ItemRow
<1> QED
  BY <1>1, <1>2, <1>3, <1>4

\* Initially nothing is inserted, found or answered.
LEMMA InitIInv == Init => IInv
<1> SUFFICES ASSUME Init PROVE IInv
  OBVIOUS
<1>1. TypeOK /\ Shape
  BY DEF Init, TypeOK, Shape, NoRequest
<1>2. OpenRows /\ CommittedRows
  BY DEF Init, OpenRows, CommittedRows, Wrote, WroteAll
<1>3. Listed /\ ListedWhole
  BY DEF Init, Listed, ListedWhole, Nothing
<1> QED
  BY <1>1, <1>2, <1>3 DEF IInv

\* A call that does not change batch leaves what it names as it is.
LEMMA SameBatch ==
    ASSUME UNCHANGED batch
    PROVE  /\ \A c : OrdersOf(c)' = OrdersOf(c) /\ ItemsOf(c)' = ItemsOf(c)
           /\ \A o : EntryOf(o)' = EntryOf(o)
  BY DEF OrdersOf, ItemsOf, EntryOf

\* A call of BatchInsert that begins: it has no rows yet.
LEMMA CallStep ==
    ASSUME IInv, NEW c \in Creates, Call(c)
    PROVE  IInv'
<1> USE DEF Call, Goto, listVars
<1>1. /\ TypeOK /\ Shape /\ OpenRows /\ CommittedRows /\ Listed /\ ListedWhole
      /\ batch \in [Creates -> Seq(Entry)]
  BY DEF IInv, Shape
<1>2. PICK b \in Batches[c] : batch' = [batch EXCEPT ![c] = b]
  OBVIOUS
<1>3. (TypeOK /\ Shape)'
  BY <1>1, <1>2, BatchesAssumption DEF TypeOK, Shape
<1>4. \A d \in Creates : cpc[d] # "idle" =>
         /\ OrdersOf(d)' = OrdersOf(d) /\ ItemsOf(d)' = ItemsOf(d)
         /\ \A o \in OrdersOf(d) : EntryOf(o)' = EntryOf(o)
  <2> SUFFICES ASSUME NEW d \in Creates, cpc[d] # "idle"
               PROVE  /\ OrdersOf(d)' = OrdersOf(d) /\ ItemsOf(d)' = ItemsOf(d)
                      /\ \A o \in OrdersOf(d) : EntryOf(o)' = EntryOf(o)
    OBVIOUS
  <2>1. batch'[d] = batch[d]
    BY <1>1, <1>2
  <2>2. OrdersOf(d)' = OrdersOf(d)
    BY <2>1 DEF OrdersOf
  <2>3. \A o \in OrdersOf(d) : EntryOf(o)' = EntryOf(o)
    BY <1>1, <2>1, ItemRows DEF EntryOf
  <2>4. ItemsOf(d)' = ItemsOf(d)
    BY <2>2, <2>3 DEF ItemsOf
  <2> QED
    BY <2>2, <2>3, <2>4
<1>5. /\ \A o \in openOrders \cup orders : o[1] \in Creates
      /\ \A r \in openItems \cup items : r.order[1] \in Creates
  BY <1>1 DEF TypeOK, Orders, ItemRow
<1>c. \A d \in Creates : /\ cpc'[d] # cpc[d] => cpc[d] = "idle" /\ cpc'[d] = "orders"
                         /\ cpc[d] = "idle" => cpc'[d] \in {"idle", "orders"}
  BY <1>1 DEF TypeOK
<1>6. OpenRows'
  <2>1. \A o \in openOrders : cpc'[o[1]] \in Wrote /\ o \in OrdersOf(o[1])'
    BY <1>1, <1>4, <1>5, <1>c DEF OpenRows, Wrote
  <2>2. \A d \in Creates : cpc'[d] \in Wrote => OrdersOf(d)' \subseteq openOrders
    BY <1>1, <1>4, <1>c DEF OpenRows, Wrote
  <2>3. \A r \in openItems : cpc'[r.order[1]] \in WroteAll /\ r \in ItemsOf(r.order[1])'
    BY <1>1, <1>4, <1>5, <1>c DEF OpenRows, WroteAll
  <2>4. \A d \in Creates : cpc'[d] \in WroteAll => ItemsOf(d)' \subseteq openItems
    BY <1>1, <1>4, <1>c DEF OpenRows, WroteAll
  <2> QED
    BY <2>1, <2>2, <2>3, <2>4 DEF OpenRows, Wrote, WroteAll
<1>7. \A o \in orders : EntryOf(o)' = EntryOf(o)
  BY <1>1, <1>4, <1>5 DEF CommittedRows
<1>8. CommittedRows'
  <2>1. \A r \in items : r \in ItemsOf(r.order[1])'
    <3> SUFFICES ASSUME NEW r \in items PROVE r \in ItemsOf(r.order[1])'
      OBVIOUS
    <3>1. r \in ItemsOf(r.order[1]) /\ r.order[1] \in Creates /\ cpc[r.order[1]] # "idle"
      BY <1>1, <1>5 DEF CommittedRows
    <3> QED
      BY <3>1, <1>4
  <2>2. \A o \in orders : cpc'[o[1]] \in {"ok", "error"} /\ o \in OrdersOf(o[1])'
    BY <1>1, <1>4, <1>5, <1>c DEF CommittedRows
  <2>3. \A d \in Creates : cpc'[d] = "ok" => OrdersOf(d)' \subseteq orders
    BY <1>1, <1>4, <1>c DEF CommittedRows
  <2>4. \A r \in items : r.order \in orders
    BY <1>1 DEF CommittedRows
  <2>5. \A o \in orders : \A n \in 1 .. EntryOf(o)'.items : [order |-> o, n |-> n] \in items
    BY <1>1, <1>7 DEF CommittedRows
  <2> QED
    BY <2>1, <2>2, <2>3, <2>4, <2>5 DEF CommittedRows
<1>9. \A l \in Lists, o \in orders : Matches(request[l], o)' = Matches(request[l], o)
  BY <1>7 DEF Matches
<1>10. (Listed /\ ListedWhole)'
  BY <1>1, <1>7, <1>9 DEF Listed, ListedWhole, Nothing
<1> QED
  BY <1>3, <1>6, <1>8, <1>10 DEF IInv

\* Committing more orders changes no list.
LEMMA KeepListed ==
    ASSUME IInv, orders \subseteq orders', UNCHANGED <<batch, listVars>>
    PROVE  (Listed /\ ListedWhole)'
<1>1. \A o : EntryOf(o)' = EntryOf(o)
  BY SameBatch
<1>2. UNCHANGED <<lpc, request, known, found, listing>>
  BY DEF listVars
<1>3. \A l \in Lists : \A o : Matches(request[l], o)' = Matches(request[l], o)
  BY <1>1, <1>2 DEF Matches
<1> QED
  BY <1>1, <1>2, <1>3 DEF IInv, Listed, ListedWhole

\* The inserts of a call add its rows to its transaction, and nothing else.
LEMMA InsertStep ==
    ASSUME IInv, NEW c \in Creates, InsertOrders(c) \/ InsertItems(c) \/ Group(c) \/ Panic(c)
    PROVE  IInv'
<1>1. /\ TypeOK /\ Shape /\ OpenRows /\ CommittedRows
      /\ batch \in [Creates -> Seq(Entry)]
  BY DEF IInv, Shape
<1>2. UNCHANGED <<batch, orders, items, listVars>>
  BY DEF InsertOrders, InsertItems, Group, Panic
<1>3. /\ \A d : OrdersOf(d)' = OrdersOf(d) /\ ItemsOf(d)' = ItemsOf(d)
      /\ \A o : EntryOf(o)' = EntryOf(o)
  BY <1>2, SameBatch
<1>4. /\ OrdersOf(c) \subseteq Orders /\ ItemsOf(c) \subseteq ItemRow
      /\ \A o \in OrdersOf(c) : o[1] = c
      /\ \A r \in ItemsOf(c) : r.order[1] = c
  BY <1>1, ItemRows
<1>5. (Listed /\ ListedWhole)'
  BY <1>2, KeepListed
<1>6. CommittedRows'
  <2>1. \A d \in Creates : cpc'[d] # cpc[d] =>
           cpc[d] \notin {"ok", "error"} /\ cpc'[d] \notin {"ok", "error"}
    BY <1>1 DEF InsertOrders, InsertItems, Group, Panic, Goto, TypeOK
  <2>2. \A o \in orders : o[1] \in Creates
    BY <1>1 DEF TypeOK, Orders
  <2> QED
    BY <1>1, <1>2, <1>3, <2>1, <2>2 DEF CommittedRows
<1>7. CASE InsertOrders(c)
  <2>1. TypeOK' /\ Shape'
    BY <1>1, <1>4, <1>7 DEF TypeOK, Shape, InsertOrders, Goto, listVars
  <2>2. OpenRows'
    BY <1>1, <1>3, <1>4, <1>7 DEF TypeOK, OpenRows, InsertOrders, Goto, Wrote, WroteAll, Orders, ItemRow
  <2> QED
    BY <2>1, <2>2, <1>5, <1>6 DEF IInv
<1>8. CASE InsertItems(c)
  <2>1. TypeOK' /\ Shape'
    BY <1>1, <1>4, <1>8 DEF TypeOK, Shape, InsertItems, Goto, listVars
  <2>2. OpenRows'
    BY <1>1, <1>3, <1>4, <1>8 DEF TypeOK, OpenRows, InsertItems, Goto, Wrote, WroteAll, Orders, ItemRow
  <2> QED
    BY <2>1, <2>2, <1>5, <1>6 DEF IInv
<1>9. CASE Group(c)
  <2>1. TypeOK' /\ Shape'
    BY <1>1, <1>9 DEF TypeOK, Shape, Group, Goto, listVars
  <2>2. OpenRows'
    BY <1>1, <1>3, <1>9 DEF TypeOK, OpenRows, Group, Goto, Wrote, WroteAll, Orders, ItemRow
  <2> QED
    BY <2>1, <2>2, <1>5, <1>6 DEF IInv
<1>10. CASE Panic(c)
  <2>1. TypeOK' /\ Shape'
    BY <1>1, <1>10 DEF TypeOK, Shape, Panic, Goto, listVars
  <2>2. OpenRows'
    BY <1>1, <1>3, <1>10 DEF TypeOK, OpenRows, Panic, Goto, Wrote, WroteAll, Orders, ItemRow
  <2> QED
    BY <2>1, <2>2, <1>5, <1>6 DEF IInv
<1> QED
  BY <1>7, <1>8, <1>9, <1>10

\* A commit makes the rows of the call visible, all of them and no others.
LEMMA CommitsWhole ==
    ASSUME IInv, NEW c \in Creates, cpc[c] = "commit", CommitRows(c)
    PROVE  orders' = orders \cup OrdersOf(c) /\ items' = items \cup ItemsOf(c)
<1>1. OpenRows /\ batch \in [Creates -> Seq(Entry)]
  BY DEF IInv, Shape
<1>2. /\ OrdersOf(c) \subseteq openOrders /\ ItemsOf(c) \subseteq openItems
      /\ \A o \in OrdersOf(c) : o[1] = c
      /\ \A r \in ItemsOf(c) : r.order[1] = c
  BY <1>1, ItemRows DEF OpenRows, Wrote, WroteAll
<1> QED
  BY <1>1, <1>2 DEF CommitRows, OpenRows

\* A transaction ends with all of its rows committed, or with none.
LEMMA EndStep ==
    ASSUME IInv, NEW c \in Creates,
           Commit(c) \/ Fail(c) \/ \E landed \in BOOLEAN : CommitFail(c, landed)
    PROVE  IInv'
<1>1. /\ TypeOK /\ Shape /\ OpenRows /\ CommittedRows
      /\ batch \in [Creates -> Seq(Entry)]
  BY DEF IInv, Shape
<1>2. UNCHANGED <<batch, answer, listVars>> /\ DropRows(c)
  BY DEF Commit, Fail, CommitFail
<1>3. /\ \A d : OrdersOf(d)' = OrdersOf(d) /\ ItemsOf(d)' = ItemsOf(d)
      /\ \A o : EntryOf(o)' = EntryOf(o)
  BY <1>2, SameBatch
<1>4. /\ \/ CommitRows(c) /\ cpc[c] = "commit" /\ cpc' = [cpc EXCEPT ![c] = "ok"]
         \/ CommitRows(c) /\ cpc[c] = "commit" /\ cpc' = [cpc EXCEPT ![c] = "error"]
         \/ /\ UNCHANGED <<orders, items>> /\ cpc' = [cpc EXCEPT ![c] = "error"]
            /\ cpc[c] \in {"orders", "items", "group", "commit"}
  BY DEF Commit, Fail, CommitFail, Goto
<1>5. /\ \A o \in openOrders \cup orders : o \in Orders /\ o[1] \in Creates
      /\ \A r \in openItems \cup items : r \in ItemRow /\ r.order[1] \in Creates
  BY <1>1 DEF TypeOK, Orders, ItemRow
<1>6. TypeOK' /\ Shape'
  BY <1>1, <1>2, <1>4, <1>5 DEF TypeOK, Shape, CommitRows, DropRows, listVars
<1>7. OpenRows'
  <2>1. \A o \in openOrders' : cpc'[o[1]] \in Wrote /\ o \in OrdersOf(o[1])
    BY <1>1, <1>2, <1>4, <1>5 DEF OpenRows, DropRows, TypeOK
  <2>2. \A r \in openItems' : cpc'[r.order[1]] \in WroteAll /\ r \in ItemsOf(r.order[1])
    BY <1>1, <1>2, <1>4, <1>5 DEF OpenRows, DropRows, TypeOK
  <2>3. \A d \in Creates : d # c => /\ \A o \in OrdersOf(d) : o[1] # c
                                    /\ \A r \in ItemsOf(d) : r.order[1] # c
    BY <1>1, ItemRows
  <2>4. \A d \in Creates : /\ cpc'[d] \in Wrote => OrdersOf(d) \subseteq openOrders'
                           /\ cpc'[d] \in WroteAll => ItemsOf(d) \subseteq openItems'
    BY <1>1, <1>2, <1>4, <2>3 DEF OpenRows, DropRows, TypeOK, Wrote, WroteAll
  <2> QED
    BY <1>3, <2>1, <2>2, <2>4 DEF OpenRows, Wrote, WroteAll
<1>8. CommittedRows' /\ orders \subseteq orders'
  <2>1. CASE UNCHANGED <<orders, items>> /\ cpc[c] \notin {"ok", "error"}
             /\ cpc' = [cpc EXCEPT ![c] = "error"]
    BY <1>1, <1>3, <1>5, <2>1 DEF CommittedRows, TypeOK
  <2>2. ASSUME NEW to \in {"ok", "error"},
               CommitRows(c), cpc[c] = "commit", cpc' = [cpc EXCEPT ![c] = to]
        PROVE  CommittedRows' /\ orders \subseteq orders'
    <3>1. /\ OrdersOf(c) \subseteq openOrders /\ ItemsOf(c) \subseteq openItems
          /\ \A o \in OrdersOf(c) : o[1] = c
          /\ \A r \in ItemsOf(c) : r.order \in OrdersOf(c) /\ r.order[1] = c
          /\ \A o \in OrdersOf(c) : \A n \in 1 .. EntryOf(o).items :
                [order |-> o, n |-> n] \in ItemsOf(c)
      BY <1>1, <2>2, ItemRows DEF OpenRows, Wrote, WroteAll
    <3>2. orders' = orders \cup OrdersOf(c) /\ items' = items \cup ItemsOf(c)
      BY <2>2, CommitsWhole
    <3>3. \A o \in orders' : cpc'[o[1]] \in {"ok", "error"} /\ o \in OrdersOf(o[1])
      BY <1>1, <1>5, <2>2, <3>1, <3>2 DEF CommittedRows, TypeOK
    <3>4. \A d \in Creates : cpc'[d] = "ok" => OrdersOf(d) \subseteq orders'
      BY <1>1, <2>2, <3>2 DEF CommittedRows, TypeOK
    <3>5. \A o \in orders' : \A n \in 1 .. EntryOf(o).items : [order |-> o, n |-> n] \in items'
      BY <1>1, <3>1, <3>2 DEF CommittedRows
    <3>6. \A r \in items' : r.order \in orders' /\ r \in ItemsOf(r.order[1])
      BY <1>1, <3>1, <3>2 DEF CommittedRows
    <3> QED
      BY <1>3, <3>2, <3>3, <3>4, <3>5, <3>6 DEF CommittedRows
  <2> QED
    BY <1>4, <2>1, <2>2
<1> QED
  BY <1>2, <1>6, <1>7, <1>8, KeepListed DEF IInv

\* The committed items of a committed order are all of its items.
LEMMA WholeItems ==
    ASSUME IInv, NEW o \in orders
    PROVE  Items(o) = 1 .. EntryOf(o).items
<1>1. TypeOK /\ CommittedRows /\ batch \in [Creates -> Seq(Entry)]
  BY DEF IInv, Shape
<1>2. \A r \in items : r.order = o => r.n \in 1 .. EntryOf(o).items
  BY <1>1, ItemRows DEF TypeOK, CommittedRows, Orders
<1>3. \A n \in 1 .. EntryOf(o).items :
         [order |-> o, n |-> n] \in items /\ [order |-> o, n |-> n].order = o
         /\ [order |-> o, n |-> n].n = n
  BY <1>1 DEF CommittedRows
<1> QED
  BY <1>2, <1>3 DEF Items

\* The steps of a list write nothing that a call reads.
LEMMA ListStep ==
    ASSUME IInv, NEW l \in Lists,
           \/ \E r \in Requests : ListCall(l, r)
           \/ QueryOrders(l) \/ QueryItems(l) \/ ListFail(l)
    PROVE  IInv'
<1>1. /\ TypeOK /\ Shape /\ OpenRows /\ CommittedRows /\ Listed /\ ListedWhole
      /\ batch \in [Creates -> Seq(Entry)]
  BY DEF IInv, Shape
<1>2. UNCHANGED <<cpc, batch, answer, orders, items, openOrders, openItems>>
  BY DEF ListCall, QueryOrders, QueryItems, ListFail, createVars
<1>3. /\ \A d : OrdersOf(d)' = OrdersOf(d) /\ ItemsOf(d)' = ItemsOf(d)
      /\ \A o : EntryOf(o)' = EntryOf(o)
  BY <1>2, SameBatch
<1>4. OpenRows' /\ CommittedRows'
  BY <1>1, <1>2, <1>3 DEF OpenRows, CommittedRows
<1>5. orders \subseteq Orders
  BY <1>1 DEF TypeOK
<1>6. ASSUME NEW r \in Requests, ListCall(l, r) PROVE IInv'
  <2>a. \A k \in Lists : DOMAIN listing[k] \subseteq orders
    BY <1>1 DEF Listed, Nothing
  <2>b. \A c \in Creates : cpc[c] = "ok" => OrdersOf(c) \subseteq orders
    BY <1>1 DEF CommittedRows
  <2>1. Shown \subseteq orders
    BY <2>a, <2>b DEF Shown
  <2>2. (TypeOK /\ Shape)'
    BY <1>1, <1>2, <1>5, <1>6, <2>1 DEF ListCall, TypeOK, Shape
  <2>3. (Listed /\ ListedWhole)'
    BY <1>1, <1>2, <1>3, <1>6, <2>1 DEF ListCall, TypeOK, Listed, ListedWhole, Matches
  <2> QED
    BY <1>4, <2>2, <2>3 DEF IInv
<1>7. CASE QueryOrders(l)
  <2> DEFINE q == OrderQuery(ListOrdersRequestFromProto(request[l]))
             rows == {o \in orders : Matches(request[l], o)}
  <2>1. Results(q) = {rows}
    BY DEF Results, OrderQuery, ListOrdersRequestFromProto, Matches
  <2>2. /\ lpc[l] = "orders" /\ found' = [found EXCEPT ![l] = rows]
        /\ lpc' = [lpc EXCEPT ![l] = IF rows = {} THEN "ok" ELSE "items"]
        /\ UNCHANGED <<request, known, listing>>
    BY <1>7, <2>1 DEF QueryOrders
  <2> HIDE DEF q
  <2>3. (TypeOK /\ Shape)'
    BY <1>1, <1>2, <1>5, <2>2 DEF TypeOK, Shape
  <2>4. ListedWhole'
    BY <1>1, <1>3, <2>2 DEF ListedWhole
  <2>5. Listed'
    BY <1>1, <1>2, <1>3, <2>2 DEF TypeOK, Listed, Matches, Nothing
  <2> QED
    BY <1>4, <2>3, <2>4, <2>5 DEF IInv
<1>8. CASE QueryItems(l)
  <2>1. (TypeOK /\ Shape)'
    BY <1>1, <1>2, <1>8 DEF QueryItems, TypeOK, Shape
  <2>2. /\ DOMAIN listing'[l] = found[l]
        /\ \A o \in found[l] : listing'[l][o] = Items(o)
        /\ \A k \in Lists : k # l => listing'[k] = listing[k]
    BY <1>1, <1>8 DEF QueryItems, Shape
  <2>3. \A o \in orders : Items(o) = 1 .. EntryOf(o).items
    BY WholeItems
  <2>4. ListedWhole'
    <3> SUFFICES ASSUME NEW k \in Lists, NEW o \in DOMAIN listing'[k]
                 PROVE  listing'[k][o] = 1 .. EntryOf(o).items
      BY <1>3 DEF ListedWhole
    <3>1. CASE k = l
      BY <1>1, <3>1, <2>2, <2>3 DEF Listed
    <3>2. CASE k # l
      BY <1>1, <3>2, <2>2 DEF ListedWhole
    <3> QED
      BY <3>1, <3>2
  <2>5. Listed'
    BY <1>1, <1>2, <1>3, <1>8, <2>2 DEF QueryItems, TypeOK, Listed, Matches
  <2> QED
    BY <1>4, <2>1, <2>4, <2>5 DEF IInv
<1>9. CASE ListFail(l)
  BY <1>1, <1>2, <1>3, <1>4, <1>9
     DEF ListFail, IInv, TypeOK, Shape, Listed, ListedWhole, Matches
<1> QED
  BY <1>6, <1>7, <1>8, <1>9

-----------------------------------------------------------------------------

\* The invariant of the two tables and of what the lists have read.
THEOREM Invariant == Spec => []IInv
<1>1. Init => IInv
  BY InitIInv
<1>2. IInv /\ [Next]_avars => IInv'
  <2> SUFFICES ASSUME IInv, [Next]_avars PROVE IInv'
    OBVIOUS
  <2>1. CASE UNCHANGED avars
    <3>1. UNCHANGED <<cpc, batch, answer, orders, items, openOrders, openItems,
                      lpc, request, known, found, listing>>
      BY <2>1 DEF avars, createVars, listVars
    <3>2. (Listed /\ ListedWhole)'
      BY <3>1, KeepListed DEF listVars
    <3>3. (TypeOK /\ Shape /\ OpenRows /\ CommittedRows)'
      BY <3>1, SameBatch DEF IInv, TypeOK, Shape, OpenRows, CommittedRows
    <3> QED
      BY <3>2, <3>3 DEF IInv
  <2>2. ASSUME NEW c \in Creates,
               \/ Call(c) \/ InsertOrders(c) \/ InsertItems(c) \/ Group(c) \/ Panic(c)
               \/ Commit(c) \/ \E landed \in BOOLEAN : CommitFail(c, landed)
               \/ Fail(c)
        PROVE  IInv'
    BY <2>2, CallStep, InsertStep, EndStep
  <2>3. ASSUME NEW l \in Lists,
               \/ \E r \in Requests : ListCall(l, r)
               \/ QueryOrders(l) \/ QueryItems(l) \/ ListFail(l)
        PROVE  IInv'
    BY <2>3, ListStep
  <2> QED
    BY <2>1, <2>2, <2>3 DEF Next
<1> QED
  BY <1>1, <1>2, PTL DEF Spec

\* Tables, answers and requests keep their types.
THEOREM TypeCorrect == Spec => []TypeOK
<1>1. IInv => TypeOK
  BY DEF IInv
<1> QED
  BY <1>1, Invariant, PTL

\* No list shows an order without all of its items, although GetOrders reads
\* the two tables one after the other: they are committed together.
THEOREM ListsAreWhole == Spec => []ListedWhole
<1>1. IInv => ListedWhole
  BY DEF IInv
<1> QED
  BY <1>1, Invariant, PTL

\* A list without limit and offset shows every matching order that somebody was
\* shown before it.
THEOREM ListsAreComplete == Spec => []KnownAreListed
<1>1. IInv => KnownAreListed
  BY DEF IInv, Listed, KnownAreListed
<1> QED
  BY <1>1, Invariant, PTL

-----------------------------------------------------------------------------
(* The items of a batch *)

\* Induction on the natural numbers, over a set of them: the library's theorem
\* takes an operator, which no prover here can instantiate.
LEMMA Induct ==
    ASSUME NEW S \in SUBSET Nat, 0 \in S, \A n \in S : n + 1 \in S
    PROVE  S = Nat
<1> SUFFICES ASSUME Nat \ S # {} PROVE FALSE
  OBVIOUS
<1> DEFINE R == OpToRel(<, Nat)
<1>1. IsWellFoundedOn(R, Nat)
  BY NatLessThanWellFounded
<1>2. \A x, y \in Nat : <<y, x>> \in R <=> y < x
  BY DEF OpToRel
<1> HIDE DEF R
<1>3. PICK x \in Nat \ S : \A y \in Nat \ S : ~ (<<y, x>> \in R)
  BY <1>1, WFMin
<1>4. x - 1 \in Nat /\ x - 1 \notin S
  BY <1>3
<1>5. <<x - 1, x>> \in R
  <2>1. x - 1 < x /\ x \in Nat
    BY <1>3
  <2> QED
    BY <1>2, <1>4, <2>1
<1> QED
  BY <1>3, <1>4, <1>5

\* FlattenSeq appends one sequence after the other.
LEMMA Flattened ==
    ASSUME NEW T, NEW s \in Seq(Seq(T)), Len(s) # 0
    PROVE  \E f \in [1 .. Len(s) -> Seq(T)] :
              /\ f[1] = s[1]
              /\ \A i \in 2 .. Len(s) : f[i] = f[i - 1] \o s[i]
              /\ FlattenSeq(s) = f[Len(s)]
<1> DEFINE Step(f, n) == [i \in 1 .. n |-> IF i = 1 THEN s[i] ELSE f[i - 1] \o s[i]]
           Ok(n) == n <= Len(s) => \E f \in [1 .. n -> Seq(T)] : f = Step(f, n)
           S == {n \in Nat : Ok(n)}
<1>1. Ok(0)
  <2> DEFINE f == [i \in 1 .. 0 |-> <<>>]
  <2>1. f \in [1 .. 0 -> Seq(T)]
    OBVIOUS
  <2>2. f = Step(f, 0)
    OBVIOUS
  <2> HIDE DEF f, Step
  <2> QED
    BY <2>1, <2>2
<1>2. ASSUME NEW n \in Nat, Ok(n) PROVE Ok(n + 1)
  <2> SUFFICES ASSUME n + 1 <= Len(s)
               PROVE  \E f \in [1 .. n + 1 -> Seq(T)] : f = Step(f, n + 1)
    OBVIOUS
  <2>0. n + 1 \in 1 .. Len(s) /\ s[n + 1] \in Seq(T)
    OBVIOUS
  <2>1. PICK g \in [1 .. n -> Seq(T)] : g = Step(g, n)
    <3> HIDE DEF Step
    <3> QED
      BY <1>2, <2>0
  <2> DEFINE e == IF n + 1 = 1 THEN s[n + 1] ELSE g[n] \o s[n + 1]
             f == [i \in 1 .. n + 1 |-> IF i = n + 1 THEN e ELSE g[i]]
  <2>2. e \in Seq(T)
    <3>1. CASE n = 0
      BY <3>1, <2>0
    <3>2. CASE n # 0
      <4>1. g[n] \in Seq(T)
        BY <2>0, <2>1, <3>2
      <4> QED
        BY <4>1, <2>0, <3>2
    <3> QED
      BY <3>1, <3>2
  <2>3. f \in [1 .. n + 1 -> Seq(T)]
    BY <2>0, <2>2
  <2>4. \A i \in 1 .. n + 1 : f[i] = Step(f, n + 1)[i]
    <3> SUFFICES ASSUME NEW i \in 1 .. n + 1 PROVE f[i] = Step(f, n + 1)[i]
      OBVIOUS
    <3>1. CASE i = n + 1
      <4>1. n # 0 => f[n] = g[n]
        BY <2>0
      <4> QED
        BY <2>0, <3>1, <4>1
    <3>2. CASE i # n + 1
      <4>1. f[i] = g[i] /\ i \in 1 .. n
        BY <2>0, <3>2
      <4>2. g[i] = Step(g, n)[i]
        BY <2>1
      <4>3. i # 1 => f[i - 1] = g[i - 1]
        BY <2>0, <3>2
      <4> QED
        BY <2>0, <4>1, <4>2, <4>3
    <3> QED
      BY <3>1, <3>2
  <2>5. f = Step(f, n + 1)
    BY <2>3, <2>4
  <2> HIDE DEF f, Step
  <2> QED
    BY <2>3, <2>5
<1>3. Ok(Len(s))
  <2>1. Len(s) \in Nat
    OBVIOUS
  <2> HIDE DEF Ok
  <2>2. S \in SUBSET Nat /\ 0 \in S /\ \A n \in S : n + 1 \in S
    BY <1>1, <1>2
  <2>3. S = Nat
    <3> HIDE DEF S
    <3> QED
      BY <2>2, Induct
  <2> QED
    BY <2>1, <2>3
<1>5. \E h : h = [i \in 1 .. Len(s) |-> IF i = 1 THEN s[i] ELSE h[i - 1] \o s[i]]
  <2>1. \E h \in [1 .. Len(s) -> Seq(T)] : h = Step(h, Len(s))
    <3>1. Len(s) <= Len(s)
      OBVIOUS
    <3> HIDE DEF Step
    <3> QED
      BY <3>1, <1>3
  <2> QED
    BY <2>1, Zenon
<1> DEFINE g == CHOOSE f : f = [i \in 1 .. Len(s) |-> IF i = 1 THEN s[i] ELSE f[i - 1] \o s[i]]
<1>6. FlattenSeq(s) = g[Len(s)]
  BY Zenon DEF FlattenSeq
<1>7. g = [i \in 1 .. Len(s) |-> IF i = 1 THEN s[i] ELSE g[i - 1] \o s[i]]
  BY <1>5, Zenon
<1> HIDE DEF g
<1>8. Len(s) \in Nat \ {0}
  OBVIOUS
<1>9. g[1] = s[1] /\ \A i \in 2 .. Len(s) : g[i] = g[i - 1] \o s[i]
  <2>1. \A i \in 1 .. Len(s) : g[i] = IF i = 1 THEN s[i] ELSE g[i - 1] \o s[i]
    BY <1>7, Zenon
  <2>2. 1 \in 1 .. Len(s) /\ \A i \in 2 .. Len(s) : i \in 1 .. Len(s) /\ i # 1
    BY <1>8
  <2> QED
    BY <2>1, <2>2, Zenon
<1>10. \A i \in 1 .. Len(s) : g[i] \in Seq(T)
  <2> DEFINE In(n) == n + 1 <= Len(s) => g[n + 1] \in Seq(T)
             W == {n \in Nat : In(n)}
  <2>1. In(0)
    BY <1>8, <1>9
  <2>2. ASSUME NEW n \in Nat, In(n) PROVE In(n + 1)
    <3> SUFFICES ASSUME (n + 1) + 1 <= Len(s) PROVE g[(n + 1) + 1] \in Seq(T)
      OBVIOUS
    <3>1. g[n + 1] \in Seq(T) /\ s[n + 2] \in Seq(T)
      BY <2>2
    <3>2. n + 2 \in 2 .. Len(s) /\ (n + 2) - 1 = n + 1
      OBVIOUS
    <3>3. g[n + 2] = g[n + 1] \o s[n + 2]
      BY <1>9, <3>2
    <3>4. g[n + 1] \o s[n + 2] \in Seq(T)
      BY <3>1, ConcatProperties
    <3>5. (n + 1) + 1 = n + 2
      OBVIOUS
    <3> QED
      BY <3>3, <3>4, <3>5
  <2>3. \A n \in Nat : In(n)
    <3> HIDE DEF In
    <3>1. W \in SUBSET Nat /\ 0 \in W /\ \A n \in W : n + 1 \in W
      BY <2>1, <2>2
    <3>2. W = Nat
      <4> HIDE DEF W
      <4> QED
        BY <3>1, Induct
    <3> QED
      BY <3>2
  <2>4. \A i \in 1 .. Len(s) : i - 1 \in Nat /\ (i - 1) + 1 = i
    OBVIOUS
  <2> QED
    BY <2>3, <2>4
<1>11. g \in [1 .. Len(s) -> Seq(T)]
  BY <1>7, <1>10
<1> QED
  BY <1>6, <1>9, <1>11

\* The rows of the items of the orders of c before its k-th.
Before(c, k) == {r \in ItemsOf(c) : r.order[2] < k}

\* The n-th row of the k-th order of c.
Row(c, k, n) == [order |-> <<c, k>>, n |-> n]

\* An order adds as many rows as it has items to those before it.
LEMMA Counted ==
    ASSUME NEW c \in Creates, batch \in [Creates -> Seq(Entry)]
    PROVE  /\ Cardinality(Before(c, 1)) = 0
           /\ \A k \in 1 .. Len(batch[c]) :
                 /\ IsFiniteSet(Before(c, k)) /\ IsFiniteSet(Before(c, k + 1))
                 /\ Cardinality(Before(c, k)) \in Nat
                 /\ Cardinality(Before(c, k + 1)) = Cardinality(Before(c, k)) + batch[c][k].items
<1>1. /\ Len(batch[c]) \in Nat /\ DOMAIN batch[c] = 1 .. Len(batch[c])
      /\ \A k \in 1 .. Len(batch[c]) : batch[c][k].items \in Nat
  <2>1. batch[c] \in Seq(Entry)
    OBVIOUS
  <2>2. \A k \in 1 .. Len(batch[c]) : batch[c][k] \in Entry
    BY <2>1
  <2> QED
    BY <2>1, <2>2 DEF Entry
<1>2. \A r \in ItemsOf(c) : \E k \in 1 .. Len(batch[c]) : \E n \in 1 .. batch[c][k].items :
         r = Row(c, k, n)
  BY <1>1 DEF ItemsOf, OrdersOf, EntryOf, Row
<1>3. \A k \in 1 .. Len(batch[c]) : \A n \in 1 .. batch[c][k].items : Row(c, k, n) \in ItemsOf(c)
  <2> SUFFICES ASSUME NEW k \in 1 .. Len(batch[c]), NEW n \in 1 .. batch[c][k].items
               PROVE  Row(c, k, n) \in ItemsOf(c)
    OBVIOUS
  <2>1. <<c, k>> \in OrdersOf(c) /\ EntryOf(<<c, k>>).items = batch[c][k].items
    BY <1>1 DEF OrdersOf, EntryOf
  <2>2. Row(c, k, n) \in [order : {<<c, k>>}, n : 1 .. EntryOf(<<c, k>>).items]
    BY <2>1 DEF Row
  <2> QED
    BY <2>1, <2>2 DEF ItemsOf
<1>4. Before(c, 1) = {}
  BY <1>1, <1>2 DEF Before, Row
<1>5. ASSUME NEW k \in 1 .. Len(batch[c]), IsFiniteSet(Before(c, k))
      PROVE  /\ IsFiniteSet(Before(c, k + 1))
             /\ Cardinality(Before(c, k + 1)) = Cardinality(Before(c, k)) + batch[c][k].items
  <2> DEFINE m == batch[c][k].items
             own == {Row(c, k, n) : n \in 1 .. m}
             f == [n \in 1 .. m |-> Row(c, k, n)]
  <2>0. m \in Nat
    BY <1>1
  <2>1. Before(c, k + 1) = Before(c, k) \cup own /\ Before(c, k) \cap own = {}
    <3>1. \A r \in own : r \in ItemsOf(c) /\ r.order[2] = k
      BY <1>3 DEF Row
    <3>2. \A r \in ItemsOf(c) : r.order[2] \in Nat /\ (r.order[2] = k => r \in own)
      BY <1>1, <1>2 DEF Row
    <3>3. \A i \in Nat : i < k + 1 <=> i < k \/ i = k
      OBVIOUS
    <3> HIDE DEF own
    <3> QED
      BY <3>1, <3>2, <3>3 DEF Before
  <2>2. f \in Bijection(1 .. m, own)
    <3>1. \A i, n \in 1 .. m : f[i] = f[n] => i = n
      BY DEF Row
    <3>2. f \in [1 .. m -> own] /\ \A r \in own : \E n \in 1 .. m : f[n] = r
      OBVIOUS
    <3> HIDE DEF f, own
    <3> QED
      BY <3>1, <3>2 DEF Bijection, Injection, Surjection, IsInjective
  <2>3. IsFiniteSet(own) /\ Cardinality(own) = m
    <3> HIDE DEF f, own, m
    <3>1. ExistsBijection(1 .. m, own)
      BY <2>2 DEF ExistsBijection
    <3> QED
      BY <2>0, <3>1, FS_NatBijection, FS_CountingElements
  <2> HIDE DEF own, m
  <2>4. /\ IsFiniteSet(Before(c, k) \cup own)
        /\ Cardinality(Before(c, k) \cup own) = Cardinality(Before(c, k)) + m - Cardinality({})
    BY <1>5, <2>1, <2>3, FS_Union
  <2>5. Cardinality(Before(c, k)) \in Nat
    BY <1>5, FS_CardinalityType
  <2>6. Cardinality({}) = 0
    BY FS_EmptySet
  <2>7. IsFiniteSet(Before(c, k + 1)) /\ Cardinality(Before(c, k + 1)) = Cardinality(Before(c, k)) + m
    <3>1. Cardinality(Before(c, k + 1)) = Cardinality(Before(c, k)) + m - Cardinality({})
      BY <2>1, <2>4, Zenon
    <3>2. Cardinality(Before(c, k + 1)) = Cardinality(Before(c, k)) + m - 0
      BY <3>1, <2>6, Zenon
    <3>3. Cardinality(Before(c, k)) + m - 0 = Cardinality(Before(c, k)) + m
      BY <2>0, <2>5
    <3>4. IsFiniteSet(Before(c, k + 1))
      BY <2>1, <2>4, Zenon
    <3> QED
      BY <3>2, <3>3, <3>4, Zenon
  <2> QED
    BY <2>7 DEF m
<1>6. \A k \in Nat : k <= Len(batch[c]) => IsFiniteSet(Before(c, k + 1))
  <2> DEFINE Ok(n) == n <= Len(batch[c]) => IsFiniteSet(Before(c, n + 1))
             S == {n \in Nat : Ok(n)}
  <2>1. Ok(0)
    <3>1. 0 + 1 = 1
      OBVIOUS
    <3>2. IsFiniteSet({})
      BY FS_EmptySet
    <3> QED
      BY <1>4, <3>1, <3>2, Zenon
  <2>2. ASSUME NEW n \in Nat, Ok(n) PROVE Ok(n + 1)
    <3> SUFFICES ASSUME n + 1 <= Len(batch[c]) PROVE IsFiniteSet(Before(c, (n + 1) + 1))
      OBVIOUS
    <3>1. n + 1 \in 1 .. Len(batch[c]) /\ n <= Len(batch[c])
      BY <1>1
    <3> QED
      BY <1>5, <2>2, <3>1
  <2> HIDE DEF Ok
  <2>3. S \in SUBSET Nat /\ 0 \in S /\ \A n \in S : n + 1 \in S
    BY <2>1, <2>2
  <2>4. S = Nat
    <3> HIDE DEF S
    <3> QED
      BY <2>3, Induct
  <2> QED
    BY <2>4 DEF Ok
<1>7. \A k \in 1 .. Len(batch[c]) : IsFiniteSet(Before(c, k))
  <2> SUFFICES ASSUME NEW k \in 1 .. Len(batch[c]) PROVE IsFiniteSet(Before(c, k))
    OBVIOUS
  <2>1. k - 1 \in Nat /\ k - 1 <= Len(batch[c]) /\ (k - 1) + 1 = k
    BY <1>1
  <2> QED
    BY <1>6, <2>1
<1> QED
  BY <1>4, <1>5, <1>7, FS_EmptySet, FS_CardinalityType

\* The slice of all items has each order's rows after those before it.
LEMMA Layout ==
    ASSUME NEW c \in Creates, batch \in [Creates -> Seq(Entry)], Len(batch[c]) # 0
    PROVE  /\ Collected(c) \in Seq(ItemsOf(c))
           /\ Len(Collected(c)) = Cardinality(Before(c, Len(batch[c]) + 1))
           /\ \A k \in 1 .. Len(batch[c]) : \A n \in 1 .. batch[c][k].items :
                 /\ Cardinality(Before(c, k)) + n \in 1 .. Len(Collected(c))
                 /\ Collected(c)[Cardinality(Before(c, k)) + n] = Row(c, k, n)
<1> DEFINE L == Len(batch[c])
           s == [k \in DOMAIN batch[c] |-> OwnItems(c, k)]
           B(k) == Cardinality(Before(c, k))
           I(k) == batch[c][k].items
<1>1. /\ L \in Nat \ {0} /\ DOMAIN batch[c] = 1 .. L
      /\ \A k \in 1 .. L : I(k) \in Nat
  <2>1. batch[c] \in Seq(Entry)
    OBVIOUS
  <2>2. \A k \in 1 .. L : batch[c][k] \in Entry
    BY <2>1
  <2> QED
    BY <2>1, <2>2 DEF Entry
<1>2. \A k \in 1 .. L : /\ OwnItems(c, k) \in Seq(ItemsOf(c)) /\ Len(OwnItems(c, k)) = I(k)
                        /\ \A n \in 1 .. I(k) : OwnItems(c, k)[n] = Row(c, k, n)
  <2> SUFFICES ASSUME NEW k \in 1 .. L
               PROVE  /\ OwnItems(c, k) \in Seq(ItemsOf(c)) /\ Len(OwnItems(c, k)) = I(k)
                      /\ \A n \in 1 .. I(k) : OwnItems(c, k)[n] = Row(c, k, n)
    OBVIOUS
  <2>1. \A n \in 1 .. I(k) : Row(c, k, n) \in ItemsOf(c)
    BY <1>1, ItemRows DEF OrdersOf, EntryOf, Row
  <2>2. I(k) \in Nat
    BY <1>1
  <2>3. OwnItems(c, k) = [n \in 1 .. I(k) |-> Row(c, k, n)]
    BY DEF OwnItems, Row
  <2> HIDE DEF I
  <2> QED
    BY <2>1, <2>2, <2>3
<1>3. s \in Seq(Seq(ItemsOf(c))) /\ Len(s) = L /\ \A k \in 1 .. L : s[k] = OwnItems(c, k)
  <2>1. s = [k \in 1 .. L |-> OwnItems(c, k)]
    BY <1>1
  <2> HIDE DEF s, L
  <2> QED
    BY <1>1, <1>2, <2>1
<1>4. PICK f \in [1 .. L -> Seq(ItemsOf(c))] :
         /\ f[1] = s[1]
         /\ \A i \in 2 .. L : f[i] = f[i - 1] \o s[i]
         /\ Collected(c) = f[L]
  <2>1. Collected(c) = FlattenSeq(s)
    BY DEF Collected
  <2>2. Len(s) # 0
    BY <1>1, <1>3
  <2> HIDE DEF s, L
  <2> QED
    <3>1. \E g \in [1 .. Len(s) -> Seq(ItemsOf(c))] :
             /\ g[1] = s[1]
             /\ \A i \in 2 .. Len(s) : g[i] = g[i - 1] \o s[i]
             /\ FlattenSeq(s) = g[Len(s)]
      BY <1>3, <2>2, Flattened
    <3> QED
      BY <1>3, <2>1, <3>1, Zenon
<1>5. /\ B(1) = 0
      /\ \A k \in 1 .. L : B(k) \in Nat /\ B(k + 1) = B(k) + I(k) /\ B(k + 1) \in Nat
  <2>1. /\ B(1) = 0
        /\ \A k \in 1 .. L : B(k) \in Nat /\ B(k + 1) = B(k) + I(k)
    BY Counted
  <2> HIDE DEF B, I, L
  <2> QED
    BY <1>1, <2>1
<1> DEFINE Laid(i) == /\ Len(f[i]) = B(i + 1)
                      /\ \A k \in 1 .. i : \A n \in 1 .. I(k) :
                            B(k) + n <= Len(f[i]) /\ f[i][B(k) + n] = Row(c, k, n)
           Ok(i) == i + 1 <= L => Laid(i + 1)
<1>6. Ok(0)
  <2>1. f[1] = OwnItems(c, 1) /\ 1 \in 1 .. L /\ 0 + 1 = 1 /\ 1 .. 1 = {1}
    BY <1>1, <1>3, <1>4
  <2>2. Len(f[1]) = I(1) /\ \A n \in 1 .. I(1) : f[1][n] = Row(c, 1, n)
    BY <1>2, <2>1
  <2>3. B(1) = 0 /\ B(1 + 1) = I(1) /\ I(1) \in Nat
    <3> HIDE DEF B, I, L
    <3> QED
      BY <1>1, <1>5, <2>1
  <2> HIDE DEF B, I, L
  <2> QED
    BY <2>1, <2>2, <2>3
<1>7. ASSUME NEW i \in Nat, Ok(i) PROVE Ok(i + 1)
  <2> DEFINE m == i + 1
  <2> SUFFICES ASSUME m + 1 <= L PROVE Laid(m + 1)
    OBVIOUS
  <2>1. m \in 1 .. L /\ m + 1 \in 2 .. L /\ m + 1 \in 1 .. L /\ (m + 1) - 1 = m
    BY <1>1
  <2>2. Laid(m)
    BY <1>7, <2>1
  <2>3. f[m + 1] = f[m] \o s[m + 1]
    <3> HIDE DEF m, s
    <3> QED
      BY <1>4, <2>1
  <2>4. /\ f[m] \in Seq(ItemsOf(c)) /\ s[m + 1] \in Seq(ItemsOf(c)) /\ Len(s[m + 1]) = I(m + 1)
        /\ \A n \in 1 .. I(m + 1) : s[m + 1][n] = Row(c, m + 1, n)
    <3> HIDE DEF m, s, I, L
    <3> QED
      BY <1>2, <1>3, <1>4, <2>1
  <2>5. I(m + 1) \in Nat /\ B(m + 1) \in Nat /\ B((m + 1) + 1) = B(m + 1) + I(m + 1)
    <3> HIDE DEF m, B, I, L
    <3> QED
      BY <1>1, <1>5, <2>1
  <2> HIDE DEF m, B, I, L, s
  <2>6. /\ Len(f[m + 1]) = Len(f[m]) + I(m + 1)
        /\ \A p \in 1 .. Len(f[m]) + I(m + 1) :
              f[m + 1][p] = IF p <= Len(f[m]) THEN f[m][p] ELSE s[m + 1][p - Len(f[m])]
    <3>1. /\ Len(f[m] \o s[m + 1]) = Len(f[m]) + Len(s[m + 1])
          /\ \A p \in 1 .. Len(f[m]) + Len(s[m + 1]) : (f[m] \o s[m + 1])[p] =
                IF p <= Len(f[m]) THEN f[m][p] ELSE s[m + 1][p - Len(f[m])]
      BY <2>4, ConcatProperties, Zenon
    <3> QED
      BY <2>3, <2>4, <3>1, Zenon
  <2>7. Len(f[m + 1]) = B((m + 1) + 1)
    BY <2>2, <2>5, <2>6
  <2>8. ASSUME NEW k \in 1 .. m + 1, NEW n \in 1 .. I(k)
        PROVE  B(k) + n <= Len(f[m + 1]) /\ f[m + 1][B(k) + n] = Row(c, k, n)
    <3>1. k \in 1 .. L /\ B(k) \in Nat /\ I(k) \in Nat /\ Len(f[m]) = B(m + 1)
      <4>1. k \in 1 .. L
        BY <1>1, <2>1
      <4>2. Len(f[m]) = B(m + 1)
        BY <2>2
      <4> HIDE DEF Laid
      <4> QED
        BY <1>1, <1>5, <4>1, <4>2
    <3>2. CASE k = m + 1
      <4>1. B(k) + n \in 1 .. Len(f[m]) + I(m + 1) /\ ~ (B(k) + n <= Len(f[m]))
            /\ (B(k) + n) - Len(f[m]) = n
        BY <2>5, <3>1, <3>2
      <4> QED
        BY <2>4, <2>6, <3>2, <4>1
    <3>3. CASE k # m + 1
      <4>1. k \in 1 .. m
        BY <2>1, <3>3
      <4>2. B(k) + n <= Len(f[m]) /\ f[m][B(k) + n] = Row(c, k, n)
        BY <2>2, <4>1
      <4>3. B(k) + n \in 1 .. Len(f[m]) + I(m + 1)
        BY <2>5, <3>1, <4>2
      <4>4. f[m + 1][B(k) + n] = f[m][B(k) + n]
        BY <2>6, <4>2, <4>3, Zenon
      <4>5. B(k) + n <= Len(f[m + 1])
        BY <2>5, <2>6, <3>1, <4>2
      <4> QED
        BY <4>2, <4>4, <4>5, Zenon
    <3> QED
      BY <3>2, <3>3
  <2> QED
    BY <2>7, <2>8
<1>8. Laid(L)
  <2> DEFINE S == {i \in Nat : Ok(i)}
  <2> HIDE DEF Ok
  <2>1. S \in SUBSET Nat /\ 0 \in S /\ \A i \in S : i + 1 \in S
    BY <1>6, <1>7
  <2>2. S = Nat
    <3> HIDE DEF S
    <3> QED
      BY <2>1, Induct
  <2>3. L - 1 \in Nat /\ (L - 1) + 1 = L /\ L <= L
    BY <1>1
  <2>4. Ok(L - 1)
    BY <2>2, <2>3
  <2> HIDE DEF Laid, L
  <2> QED
    BY <2>3, <2>4 DEF Ok
<1>9. f[L] \in Seq(ItemsOf(c))
  BY <1>1
<1>10. ASSUME NEW k \in 1 .. L, NEW n \in 1 .. I(k)
       PROVE  B(k) + n \in 1 .. Len(f[L]) /\ f[L][B(k) + n] = Row(c, k, n)
  <2>1. B(k) \in Nat /\ B(k) + n <= Len(f[L]) /\ f[L][B(k) + n] = Row(c, k, n) /\ I(k) \in Nat
    BY <1>1, <1>5, <1>8
  <2>2. Len(f[L]) \in Nat
    BY <1>9
  <2> HIDE DEF B, L, I
  <2> QED
    BY <2>1, <2>2
<1> QED
  BY <1>4, <1>8, <1>9, <1>10

\* No row is in it twice: it has as many places as there are rows.
LEMMA NoRepeats ==
    ASSUME NEW c \in Creates, batch \in [Creates -> Seq(Entry)], Len(batch[c]) # 0,
           NEW p \in 1 .. Len(Collected(c)), NEW q \in 1 .. Len(Collected(c)),
           Collected(c)[p] = Collected(c)[q]
    PROVE  p = q
<1> DEFINE L == Len(batch[c])
           n == Len(Collected(c))
<1>1. L \in Nat \ {0} /\ DOMAIN batch[c] = 1 .. L
  <2>1. batch[c] \in Seq(Entry)
    OBVIOUS
  <2> QED
    BY <2>1
<1>2. \A r \in ItemsOf(c) : \E k \in 1 .. L : \E j \in 1 .. batch[c][k].items : r = Row(c, k, j)
  BY <1>1 DEF ItemsOf, OrdersOf, EntryOf, Row
<1>3. Before(c, L + 1) = ItemsOf(c)
  <2>1. \A k \in 1 .. L : k < L + 1
    BY <1>1
  <2> HIDE DEF L
  <2>2. \A r \in ItemsOf(c) : r.order[2] < L + 1
    BY <1>2, <2>1 DEF Row
  <2> QED
    BY <2>2 DEF Before
<1>4. Collected(c) \in Seq(ItemsOf(c)) /\ n = Cardinality(ItemsOf(c)) /\ n \in Nat
  BY <1>3, Layout
<1>5. IsFiniteSet(1 .. n) /\ Cardinality(1 .. n) = n
  <2> HIDE DEF n
  <2>1. /\ IsFiniteSet(1 .. n)
        /\ Cardinality(1 .. n) = IF 1 > n THEN 0 ELSE n - 1 + 1
    <3>1. 1 \in Int /\ n \in Int
      BY <1>4
    <3> QED
      BY <3>1, FS_Interval, Zenon
  <2> QED
    BY <1>4, <2>1
<1>6. Collected(c) \in [1 .. n -> ItemsOf(c)]
  BY <1>4
<1>7. \A r \in ItemsOf(c) : \E i \in 1 .. n : Collected(c)[i] = r
  <2> HIDE DEF L
  <2>1. \A k \in 1 .. L : \A j \in 1 .. batch[c][k].items :
           \E i \in 1 .. n : Collected(c)[i] = Row(c, k, j)
    BY Layout DEF L
  <2> HIDE DEF n
  <2> QED
    BY <1>2, <2>1
<1> HIDE DEF n
<1>8. Collected(c) \in Surjection(1 .. n, ItemsOf(c))
  BY <1>6, <1>7 DEF Surjection
<1>9. Collected(c) \in Injection(1 .. n, ItemsOf(c))
  BY <1>4, <1>5, <1>8, FS_SurjSameCardinalityImpliesInj
<1> QED
  BY <1>9 DEF Injection, IsInjective, n

\* An order with items gets its own back exactly when the rows before it are
\* as many as if the orders in front all had its number of items.
LEMMA OwnBack ==
    ASSUME NEW c \in Creates, batch \in [Creates -> Seq(Entry)], NEW k \in DOMAIN batch[c]
    PROVE  Given(c, k) = OwnItems(c, k)
              <=> (batch[c][k].items = 0 \/ Cardinality(Before(c, k)) = (k - 1) * batch[c][k].items)
<1> DEFINE m == batch[c][k].items
           B == Cardinality(Before(c, k))
           F == (k - 1) * m
           flat == Collected(c)
           g(j) == IF F + j <= Len(flat) THEN flat[F + j] ELSE Zero
<1>1. /\ batch[c] \in Seq(Entry) /\ Len(batch[c]) # 0 /\ k \in 1 .. Len(batch[c]) /\ k - 1 \in Nat
      /\ batch[c][k] \in Entry
  OBVIOUS
<1>2. m \in Nat /\ k \in Nat
  BY <1>1 DEF Entry
<1>3. F \in Nat /\ (k * m) - F = m
  <2> HIDE DEF m
  <2>1. F \in Nat
    BY <1>1, <1>2
  <2>2. k * m = (k - 1) * m + m
    BY <1>1, <1>2
  <2> HIDE DEF F
  <2> QED
    BY <1>2, <2>1, <2>2 DEF F
<1>4. B \in Nat
  BY <1>1, Counted
<1>5. /\ flat \in Seq(ItemsOf(c)) /\ Len(flat) \in Nat
      /\ \A n \in 1 .. m : B + n \in 1 .. Len(flat) /\ flat[B + n] = Row(c, k, n)
  BY <1>1, Layout
<1>6. Given(c, k) = [j \in 1 .. m |-> g(j)]
  <2>1. Given(c, k) = [j \in 1 .. (k * m) - F |-> g(j)]
    BY DEF Given, Past, First
  <2> QED
    BY <1>3, <2>1, Zenon
<1>7. OwnItems(c, k) = [j \in 1 .. m |-> Row(c, k, j)]
  BY DEF OwnItems, Row
<1> HIDE DEF m, B, F, flat
<1>8. CASE m = 0
  <2>1. 1 .. m = {}
    BY <1>8
  <2>2. Given(c, k) = OwnItems(c, k)
    BY <1>6, <1>7, <2>1
  <2> QED
    BY <1>8, <2>2 DEF m
<1>9. ASSUME m # 0, B = F PROVE Given(c, k) = OwnItems(c, k)
  <2>1. \A j \in 1 .. m : g(j) = Row(c, k, j)
    BY <1>3, <1>5, <1>9
  <2> HIDE DEF g
  <2> QED
    BY <1>6, <1>7, <2>1
<1>10. ASSUME m # 0, Given(c, k) = OwnItems(c, k) PROVE B = F
  <2>1. 1 \in 1 .. m
    BY <1>2, <1>10
  <2>2. g(1) = Row(c, k, 1)
    <3> HIDE DEF g
    <3>1. [j \in 1 .. m |-> g(j)] = [j \in 1 .. m |-> Row(c, k, j)]
      BY <1>6, <1>7, <1>10
    <3>2. [j \in 1 .. m |-> g(j)][1] = g(1) /\ [j \in 1 .. m |-> Row(c, k, j)][1] = Row(c, k, 1)
      BY <2>1
    <3> QED
      BY <3>1, <3>2
  <2>3. Row(c, k, 1).n = 1 /\ Zero.n = 0
    BY DEF Row, Zero
  <2>4. F + 1 <= Len(flat) /\ flat[F + 1] = Row(c, k, 1)
    BY <2>2, <2>3
  <2>5. /\ F + 1 \in 1 .. Len(flat) /\ B + 1 \in 1 .. Len(flat)
        /\ flat[F + 1] = flat[B + 1]
    BY <1>3, <1>5, <2>1, <2>4
  <2>6. F + 1 = B + 1
    BY <1>1, <2>5, NoRepeats DEF flat
  <2> QED
    BY <1>3, <1>4, <2>6
<1> QED
  BY <1>8, <1>9, <1>10 DEF m, B, F

\* If the orders have the same number of items, no slice is out of range.
LEMMA UniformFits ==
    ASSUME NEW c \in Creates, batch \in [Creates -> Seq(Entry)], Uniform(c),
           NEW k \in DOMAIN batch[c]
    PROVE  InBounds(c, k)
<1> DEFINE L == Len(batch[c])
           N == batch[c][k].items
           B(i) == Cardinality(Before(c, i))
<1>1. /\ batch[c] \in Seq(Entry) /\ L \in Nat \ {0} /\ k \in 1 .. L
      /\ batch[c][k] \in Entry
  OBVIOUS
<1>2. N \in Nat /\ \A i \in 1 .. L : batch[c][i].items = N
  BY <1>1 DEF Entry, Uniform
<1>3. /\ B(1) = 0
      /\ \A i \in 1 .. L : B(i) \in Nat /\ B(i + 1) = B(i) + N
  <2>1. /\ B(1) = 0
        /\ \A i \in 1 .. L : B(i) \in Nat /\ B(i + 1) = B(i) + batch[c][i].items
    BY Counted
  <2> HIDE DEF B, L, N
  <2> QED
    BY <1>2, <2>1
<1>4. Len(Collected(c)) = B(L + 1)
  BY <1>1, Layout
<1> HIDE DEF B, L, N
<1> DEFINE Ok(i) == i <= L => B(i + 1) = i * N
           S == {i \in Nat : Ok(i)}
<1>5. Ok(0)
  BY <1>2, <1>3
<1>6. ASSUME NEW i \in Nat, Ok(i) PROVE Ok(i + 1)
  <2> SUFFICES ASSUME i + 1 <= L PROVE B((i + 1) + 1) = (i + 1) * N
    OBVIOUS
  <2>1. B(i + 1) = i * N /\ i + 1 \in 1 .. L
    BY <1>1, <1>6
  <2>2. B((i + 1) + 1) = i * N + N
    BY <1>3, <2>1
  <2> QED
    BY <1>2, <2>2
<1>7. B(L + 1) = L * N
  <2> HIDE DEF Ok
  <2>1. S \in SUBSET Nat /\ 0 \in S /\ \A i \in S : i + 1 \in S
    BY <1>5, <1>6
  <2>2. S = Nat
    <3> HIDE DEF S
    <3> QED
      BY <2>1, Induct
  <2>3. Ok(L)
    BY <1>1, <2>2
  <2> QED
    BY <1>1, <2>3 DEF Ok
<1>8. k * N <= L * N /\ k * N \in Nat /\ L * N \in Nat
  <2>1. L - k \in Nat /\ k \in Nat /\ L \in Nat
    BY <1>1
  <2>2. (L - k) * N \in Nat /\ L * N = k * N + (L - k) * N /\ k * N \in Nat /\ L * N \in Nat
    BY <1>2, <2>1
  <2> QED
    BY <2>2
<1>9. Past(c, k) = k * N
  BY DEF Past, N
<1>10. Past(c, k) <= Len(Collected(c)) /\ Len(Collected(c)) \in Nat /\ Past(c, k) \in Nat
  BY <1>4, <1>7, <1>8, <1>9
<1> HIDE DEF N
<1>11. ASSUME NEW g \in Capacities, g >= Len(Collected(c)) PROVE Past(c, k) <= g
  BY <1>10, <1>11, CapacitiesAssumption
<1> QED
  BY <1>11 DEF InBounds

\* What a call answers is what Given computes from its batch; it panics only
\* over orders of different size.
GivenBack ==
    \A c \in Creates :
        /\ \/ answer[c] = <<>>
           \/ cpc[c] # "idle" /\ answer[c] = [k \in DOMAIN batch[c] |-> Given(c, k)]
        /\ cpc[c] = "idle" => answer[c] = <<>>
        /\ cpc[c] = "panic" => ~ Uniform(c)

\* What is computed from a batch changes with the batch only.
LEMMA SameItems ==
    ASSUME NEW c \in Creates, batch'[c] = batch[c]
    PROVE  /\ \A k \in DOMAIN batch[c] : Given(c, k)' = Given(c, k)
           /\ Uniform(c)' = Uniform(c)
<1>1. Collected(c)' = Collected(c)
  BY DEF Collected, OwnItems
<1>2. \A k \in DOMAIN batch[c] : First(c, k)' = First(c, k) /\ Past(c, k)' = Past(c, k)
  BY DEF First, Past
<1>3. Uniform(c)' = Uniform(c)
  BY DEF Uniform
<1> QED
  BY <1>1, <1>2, <1>3 DEF Given

\* Every step keeps GivenBack: Group computes the answer, Panic finds a slice
\* that is out of range, the others leave batch and answer of the call alone.
LEMMA GivenBackStep ==
    ASSUME IInv, GivenBack, [Next]_avars
    PROVE  GivenBack'
<1>1. /\ cpc = [c \in Creates |-> cpc[c]] /\ batch \in [Creates -> Seq(Entry)]
      /\ answer = [c \in Creates |-> answer[c]]
  BY DEF IInv, TypeOK, Shape
<1> SUFFICES ASSUME NEW c \in Creates
             PROVE  /\ \/ answer'[c] = <<>>
                       \/ /\ cpc'[c] # "idle"
                          /\ answer'[c] = [k \in DOMAIN batch'[c] |-> Given(c, k)']
                    /\ cpc'[c] = "idle" => answer'[c] = <<>>
                    /\ cpc'[c] = "panic" => ~ Uniform(c)'
  BY DEF GivenBack
<1>2. /\ \/ answer[c] = <<>>
         \/ cpc[c] # "idle" /\ answer[c] = [k \in DOMAIN batch[c] |-> Given(c, k)]
      /\ cpc[c] = "idle" => answer[c] = <<>>
      /\ cpc[c] = "panic" => ~ Uniform(c)
  BY DEF GivenBack
<1>3. ASSUME batch'[c] = batch[c], answer'[c] = answer[c],
             cpc'[c] = cpc[c] \/ cpc'[c] \notin {"idle", "panic"}
      PROVE  /\ \/ answer'[c] = <<>>
                \/ cpc'[c] # "idle" /\ answer'[c] = [k \in DOMAIN batch'[c] |-> Given(c, k)']
             /\ cpc'[c] = "idle" => answer'[c] = <<>>
             /\ cpc'[c] = "panic" => ~ Uniform(c)'
  <2>1. /\ \A k \in DOMAIN batch[c] : Given(c, k)' = Given(c, k)
        /\ Uniform(c)' = Uniform(c)
    BY <1>3, SameItems
  <2>2. [k \in DOMAIN batch'[c] |-> Given(c, k)'] = [k \in DOMAIN batch[c] |-> Given(c, k)]
    BY <1>3, <2>1
  <2> QED
    BY <1>2, <1>3, <2>1, <2>2, Zenon
<1>4. CASE UNCHANGED <<cpc, batch, answer>>
  BY <1>3, <1>4
<1>5. ASSUME NEW d \in Creates,
             \/ Call(d) \/ InsertOrders(d) \/ InsertItems(d) \/ Group(d) \/ Panic(d)
             \/ Commit(d) \/ \E landed \in BOOLEAN : CommitFail(d, landed)
             \/ Fail(d)
      PROVE  /\ \/ answer'[c] = <<>>
                \/ cpc'[c] # "idle" /\ answer'[c] = [k \in DOMAIN batch'[c] |-> Given(c, k)']
             /\ cpc'[c] = "idle" => answer'[c] = <<>>
             /\ cpc'[c] = "panic" => ~ Uniform(c)'
  <2>1. CASE Call(d) /\ c = d
    BY <1>1, <1>2, <2>1 DEF Call, Goto
  <2>2. CASE Group(d) /\ c = d
    <3>1. batch' = batch /\ cpc'[c] = "commit"
      BY <1>1, <2>2 DEF Group, Goto
    <3>2. answer'[c] = [k \in DOMAIN batch[c] |-> Given(c, k)]
      BY <1>1, <2>2 DEF Group
    <3>3. \A k \in DOMAIN batch[c] : Given(c, k)' = Given(c, k)
      BY <3>1, SameItems
    <3>4. [k \in DOMAIN batch'[c] |-> Given(c, k)'] = [k \in DOMAIN batch[c] |-> Given(c, k)]
      BY <3>1, <3>3
    <3> QED
      BY <3>1, <3>2, <3>4
  <2>3. CASE Panic(d) /\ c = d
    <3>1. cpc[c] = "group" /\ cpc'[c] = "panic" /\ UNCHANGED <<batch, answer>>
      BY <1>1, <2>3 DEF Panic, Goto
    <3>2. ~ Uniform(c)
      <4>1. PICK k \in DOMAIN batch[c] : ~ InBounds(c, k)
        BY <2>3 DEF Panic
      <4> QED
        BY <1>1, <4>1, UniformFits
    <3>3. /\ \A k \in DOMAIN batch[c] : Given(c, k)' = Given(c, k)
          /\ Uniform(c)' = Uniform(c)
      BY <3>1, SameItems
    <3>4. [k \in DOMAIN batch'[c] |-> Given(c, k)'] = [k \in DOMAIN batch[c] |-> Given(c, k)]
      BY <3>1, <3>3
    <3>5. answer'[c] = answer[c] /\ cpc'[c] # "idle"
      BY <3>1
    <3> QED
      BY <1>2, <3>2, <3>3, <3>4, <3>5, Zenon
  <2>4. CASE c # d \/ ~ (Call(d) \/ Group(d) \/ Panic(d))
    <3>1. batch'[c] = batch[c] /\ answer'[c] = answer[c]
      BY <1>1, <1>5, <2>4
         DEF Call, InsertOrders, InsertItems, Group, Panic, Commit, CommitFail, Fail
    <3>2. cpc'[c] = cpc[c] \/ cpc'[c] \notin {"idle", "panic"}
      BY <1>1, <1>5, <2>4
         DEF Call, InsertOrders, InsertItems, Group, Panic, Commit, CommitFail, Fail, Goto
    <3> QED
      BY <1>3, <3>1, <3>2
  <2> QED
    BY <2>1, <2>2, <2>3, <2>4
<1>6. ASSUME NEW l \in Lists,
             \/ \E r \in Requests : ListCall(l, r)
             \/ QueryOrders(l) \/ QueryItems(l) \/ ListFail(l)
      PROVE  UNCHANGED <<cpc, batch, answer>>
  BY <1>6 DEF ListCall, QueryOrders, QueryItems, ListFail, createVars
<1> QED
  BY <1>4, <1>5, <1>6 DEF Next, avars, createVars

\* An order is given its own items back exactly when the items before it are
\* as many as the handler counts, and a call panics only over a batch whose
\* orders differ in size: for batches of any length, with any numbers of items.
THEOREM ItemsAligned == Spec => []KeptExactlyWhenAligned
<1>1. Init => GivenBack
  BY DEF Init, GivenBack
<1>2. IInv /\ GivenBack /\ [Next]_avars => GivenBack'
  BY GivenBackStep
<1>3. IInv /\ GivenBack => KeptExactlyWhenAligned
  <2> SUFFICES ASSUME IInv, GivenBack, NEW c \in Creates, NEW k \in DOMAIN answer[c]
               PROVE  answer[c][k] = OwnItems(c, k)
                         <=> (batch[c][k].items = 0
                                \/ Cardinality(Before(c, k)) = (k - 1) * batch[c][k].items)
    BY DEF KeptExactlyWhenAligned, GivenBack, Before
  <2>1. answer[c] # <<>>
    OBVIOUS
  <2>2. k \in DOMAIN batch[c] /\ answer[c][k] = Given(c, k)
    BY <2>1 DEF GivenBack
  <2>3. batch \in [Creates -> Seq(Entry)]
    BY DEF IInv, Shape
  <2> QED
    BY <2>2, <2>3, OwnBack, Zenon
<1> QED
  BY <1>1, <1>2, <1>3, Invariant, PTL DEF Spec

-----------------------------------------------------------------------------
(* The refinement of OrderStore *)

\* What is in the tables keeps its customer and items while calls go on.
LEMMA StoredEntries ==
    ASSUME IInv, [Next]_avars
    PROVE  \A o \in orders : EntryOf(o)' = EntryOf(o)
<1> SUFFICES ASSUME NEW o \in orders PROVE EntryOf(o)' = EntryOf(o)
  OBVIOUS
<1>1. /\ batch \in [Creates -> Seq(Entry)] /\ o[1] \in Creates
      /\ cpc[o[1]] # "idle"
  BY DEF IInv, TypeOK, Shape, CommittedRows, Orders
<1>2. CASE batch' = batch
  BY <1>2 DEF EntryOf
<1>3. ASSUME NEW c \in Creates, Call(c) PROVE batch'[o[1]] = batch[o[1]]
  BY <1>1, <1>3 DEF Call, Goto
<1>4. CASE \E c \in Creates : Call(c)
  BY <1>3, <1>4 DEF EntryOf
<1>5. CASE UNCHANGED avars
  BY <1>2, <1>5 DEF avars, createVars
<1>6. (\A c \in Creates : ~ Call(c)) /\ Next => batch' = batch
  BY DEF Next, InsertOrders, InsertItems, Group, Panic, Commit, CommitFail, Fail,
         ListCall, QueryOrders, QueryItems, ListFail, createVars
<1> QED
  BY <1>2, <1>4, <1>5, <1>6

\* A list that has read its orders will be given all of their items.
LEMMA ViewIs ==
    IInv => View = [k \in Lists |->
        IF lpc[k] = "items" THEN [o \in found[k] |-> 1 .. EntryOf(o).items]
        ELSE listing[k]]
<1> SUFFICES ASSUME IInv
             PROVE  View = [k \in Lists |->
                 IF lpc[k] = "items" THEN [o \in found[k] |-> 1 .. EntryOf(o).items]
                 ELSE listing[k]]
  OBVIOUS
<1>1. \A l \in Lists : found[l] \subseteq orders
  BY DEF IInv, Listed
<1>2. \A l \in Lists : [o \in found[l] |-> Items(o)] = [o \in found[l] |-> 1 .. EntryOf(o).items]
  BY <1>1, WholeItems
<1> QED
  BY <1>2 DEF View

LEMMA ViewNext ==
    IInv' => (View = [k \in Lists |->
        IF lpc[k] = "items" THEN [o \in found[k] |-> 1 .. EntryOf(o).items]
        ELSE listing[k]])'
  BY ViewIs, PTL

\* A step that lists take no part in changes nothing they have seen.
LEMMA ViewStays ==
    ASSUME IInv, IInv', [Next]_avars, UNCHANGED <<lpc, found, listing>>
    PROVE  UNCHANGED <<ListStatus, View>>
<1>1. \A l \in Lists : found[l] \subseteq orders
  BY DEF IInv, Listed
<1>2. \A l \in Lists : [o \in found[l] |-> 1 .. EntryOf(o)'.items]
                          = [o \in found[l] |-> 1 .. EntryOf(o).items]
  BY <1>1, StoredEntries
<1> QED
  BY <1>2, ViewIs, ViewNext DEF ListStatus

\* The statements before the commit change nothing in the store; the commit
\* puts the whole batch there.
LEMMA CreateStore ==
    ASSUME IInv, IInv', NEW c \in Creates,
           \/ Call(c) \/ InsertOrders(c) \/ InsertItems(c) \/ Group(c) \/ Panic(c)
           \/ Commit(c) \/ \E landed \in BOOLEAN : CommitFail(c, landed)
           \/ Fail(c)
    PROVE  [Store!Next]_(Store!svars)
<1>1. TypeOK /\ cpc = [d \in Creates |-> cpc[d]]
  BY DEF IInv, TypeOK
<1>2. UNCHANGED <<lpc, request, known, found, listing>>
  BY DEF Call, InsertOrders, InsertItems, Group, Panic, Commit, CommitFail, Fail, listVars
<1>3. UNCHANGED <<ListStatus, request, View>>
  <2>1. Next
    BY DEF Next
  <2> QED
    BY <1>2, <2>1, ViewStays
<1>4. \A to : cpc' = [cpc EXCEPT ![c] = to] =>
         CreateStatus' = [CreateStatus EXCEPT ![c] =
             CASE to = "idle" -> "new" [] to \in {"ok", "error"} -> to [] OTHER -> "open"]
  BY <1>1 DEF CreateStatus
<1>5. Store!OrdersOf(c) = OrdersOf(c)
  BY DEF Store!OrdersOf, OrdersOf
<1>6. CASE Call(c)
  <2>1. CreateStatus[c] = "new" /\ CreateStatus' = [CreateStatus EXCEPT ![c] = "open"]
    BY <1>4, <1>6 DEF Call, Goto, CreateStatus
  <2>2. Store!Submit(c)
    BY <1>3, <1>6, <2>1 DEF Call, Store!Submit
  <2> QED
    BY <2>2 DEF Store!Next
<1>7. CASE InsertOrders(c) \/ InsertItems(c) \/ Group(c) \/ Panic(c)
  <2>1. UNCHANGED CreateStatus
    BY <1>1, <1>7 DEF InsertOrders, InsertItems, Group, Panic, Goto, CreateStatus
  <2>2. UNCHANGED <<batch, orders>>
    BY <1>7 DEF InsertOrders, InsertItems, Group, Panic
  <2> QED
    BY <1>3, <2>1, <2>2 DEF Store!svars
<1>8. CASE Commit(c)
  <2>1. CreateStatus[c] = "open" /\ CreateStatus' = [CreateStatus EXCEPT ![c] = "ok"]
    BY <1>4, <1>8 DEF Commit, Goto, CreateStatus
  <2>2. orders' = orders \cup OrdersOf(c) /\ UNCHANGED batch
    BY <1>8, CommitsWhole DEF Commit, Goto
  <2>3. Store!Create(c)
    BY <1>3, <1>5, <2>1, <2>2 DEF Store!Create
  <2> QED
    BY <2>3 DEF Store!Next
<1>9. CASE Fail(c) \/ \E landed \in BOOLEAN : CommitFail(c, landed)
  <2>1. CreateStatus[c] = "open" /\ CreateStatus' = [CreateStatus EXCEPT ![c] = "error"]
    BY <1>4, <1>9 DEF Fail, CommitFail, Goto, CreateStatus
  <2>2. orders' \in {orders, orders \cup OrdersOf(c)} /\ UNCHANGED batch
    BY <1>9, CommitsWhole DEF Fail, CommitFail, Goto
  <2>3. Store!Refuse(c)
    BY <1>3, <1>5, <2>1, <2>2 DEF Store!Refuse
  <2> QED
    BY <2>3 DEF Store!Next
<1> QED
  BY <1>6, <1>7, <1>8, <1>9

\* A list sees the store when it reads the orders; the items it reads later
\* are those the orders had then.
LEMMA ListStore ==
    ASSUME IInv, IInv', NEW l \in Lists,
           \/ \E r \in Requests : ListCall(l, r)
           \/ QueryOrders(l) \/ QueryItems(l) \/ ListFail(l)
    PROVE  [Store!Next]_(Store!svars)
<1>1. TypeOK /\ Listed /\ listing = [k \in Lists |-> listing[k]]
  BY DEF IInv, Shape
<1>2. UNCHANGED <<cpc, batch, answer, orders, items, openOrders, openItems>>
  BY DEF ListCall, QueryOrders, QueryItems, ListFail, createVars
<1>3. UNCHANGED <<CreateStatus, batch, orders>> /\ \A o : EntryOf(o)' = EntryOf(o)
  BY <1>2, SameBatch DEF CreateStatus
<1> DEFINE Seen(k) == IF lpc[k] = "items" THEN [o \in found[k] |-> 1 .. EntryOf(o).items]
                      ELSE listing[k]
<1>4. View = [k \in Lists |-> Seen(k)]
  BY ViewIs
<1>5. View' = [k \in Lists |-> Seen(k)']
  BY ViewNext
<1>6. \A k \in Lists : Seen(k)' =
         IF lpc'[k] = "items" THEN [o \in found'[k] |-> 1 .. EntryOf(o).items] ELSE listing'[k]
  BY <1>3
<1>7. \A to : lpc' = [lpc EXCEPT ![l] = to] =>
         ListStatus' = [ListStatus EXCEPT ![l] =
             CASE to = "idle" -> "new" [] to = "orders" -> "asked" [] to = "items" -> "seen"
               [] OTHER -> to]
  BY <1>1 DEF ListStatus, TypeOK
<1>8. ASSUME NEW r \in Requests, ListCall(l, r) PROVE Store!Ask(l, r)
  <2>1. ListStatus[l] = "new" /\ ListStatus' = [ListStatus EXCEPT ![l] = "asked"]
    BY <1>7, <1>8 DEF ListCall, ListStatus
  <2>2. View' = View
    BY <1>1, <1>4, <1>5, <1>6, <1>8 DEF ListCall, TypeOK
  <2> QED
    BY <1>3, <1>8, <2>1, <2>2 DEF ListCall, Store!Ask
<1>9. CASE QueryOrders(l)
  <2> DEFINE rows == {o \in orders : Matches(request[l], o)}
             q == OrderQuery(ListOrdersRequestFromProto(request[l]))
  <2>1. Results(q) = {rows}
    BY DEF Results, OrderQuery, ListOrdersRequestFromProto, Matches
  <2>2. /\ lpc[l] = "orders" /\ found' = [found EXCEPT ![l] = rows]
        /\ lpc' = [lpc EXCEPT ![l] = IF rows = {} THEN "ok" ELSE "items"]
        /\ UNCHANGED <<request, known, listing>>
    BY <1>9, <2>1 DEF QueryOrders
  <2> HIDE DEF q
  <2>3. Store!Matching(request[l]) = rows
    BY DEF Store!Matching, Matches, Store!EntryOf, EntryOf
  <2>4. \A o : Store!EntryOf(o) = EntryOf(o)
    BY DEF Store!EntryOf, EntryOf
  <2>5. /\ ListStatus[l] = "asked"
        /\ \E to \in {"seen", "ok"} : ListStatus' = [ListStatus EXCEPT ![l] = to]
    BY <1>7, <2>2 DEF ListStatus
  <2>6. listing[l] = [o \in {} |-> {}]
    BY <1>1, <2>2 DEF Listed, Nothing
  <2>7. rows \in Store!Selections(request[l])
    BY <2>3 DEF Store!Selections
  <2> HIDE DEF rows
  <2>8. Seen(l)' = [o \in rows |-> 1 .. EntryOf(o).items]
    BY <1>1, <1>6, <2>2, <2>6 DEF TypeOK
  <2>9. \A k \in Lists : k # l => Seen(k)' = Seen(k)
    BY <1>1, <1>6, <2>2 DEF TypeOK
  <2> HIDE DEF Seen
  <2>10. View' = [View EXCEPT ![l] = [o \in rows |-> 1 .. EntryOf(o).items]]
    BY <1>4, <1>5, <2>8, <2>9
  <2>11. Store!See(l)
    BY <1>3, <2>2, <2>4, <2>5, <2>10, <2>7 DEF Store!See
  <2> QED
    BY <2>11 DEF Store!Next
<1>10. CASE QueryItems(l)
  <2>1. ListStatus[l] = "seen" /\ ListStatus' = [ListStatus EXCEPT ![l] = "ok"]
    BY <1>7, <1>10 DEF QueryItems, ListStatus
  <2>2. \A o \in found[l] : Items(o) = 1 .. EntryOf(o).items
    BY <1>1, WholeItems DEF Listed
  <2>3. Seen(l)' = Seen(l)
    BY <1>1, <1>6, <1>10, <2>2 DEF QueryItems, TypeOK
  <2>4. \A k \in Lists : k # l => Seen(k)' = Seen(k)
    BY <1>1, <1>6, <1>10 DEF QueryItems, TypeOK
  <2> HIDE DEF Seen
  <2>5. View' = View
    BY <1>4, <1>5, <2>3, <2>4
  <2>6. Store!Answer(l)
    BY <1>3, <1>10, <2>1, <2>5 DEF QueryItems, Store!Answer
  <2> QED
    BY <2>6 DEF Store!Next
<1>11. CASE ListFail(l)
  <2>1. /\ ListStatus[l] \in {"asked", "seen"}
        /\ ListStatus' = [ListStatus EXCEPT ![l] = "error"]
    BY <1>7, <1>11 DEF ListFail, ListStatus
  <2>2. listing[l] = [o \in {} |-> {}]
    BY <1>1, <1>11 DEF ListFail, Listed, Nothing
  <2>3. Seen(l)' = [o \in {} |-> {}]
    BY <1>1, <1>6, <1>11, <2>2 DEF ListFail, TypeOK
  <2>4. \A k \in Lists : k # l => Seen(k)' = Seen(k)
    BY <1>1, <1>6, <1>11 DEF ListFail, TypeOK
  <2> HIDE DEF Seen
  <2>5. View' = [View EXCEPT ![l] = Store!Nothing]
    BY <1>4, <1>5, <2>3, <2>4 DEF Store!Nothing
  <2>6. Store!Miss(l)
    BY <1>3, <1>11, <2>1, <2>5 DEF ListFail, Store!Miss
  <2> QED
    BY <2>6 DEF Store!Next
<1> QED
  BY <1>8, <1>9, <1>10, <1>11 DEF Store!Next

\* Every list is answered from the store as it was at one moment between its
\* question and its answer, and every batch appears there at once: two tables
\* and four statements implement one store.
THEOREM StoreImplemented == Spec => ImplementsStore
<1>1. Init => Store!Init
  <2> SUFFICES ASSUME Init PROVE Store!Init
    OBVIOUS
  <2>1. /\ CreateStatus = [c \in Creates |-> "new"] /\ ListStatus = [l \in Lists |-> "new"]
        /\ View = [l \in Lists |-> Store!Nothing]
    BY DEF Init, CreateStatus, ListStatus, View, Nothing, Store!Nothing
  <2> QED
    BY <2>1 DEF Init, Store!Init
<1>2. IInv /\ IInv' /\ [Next]_avars => [Store!Next]_(Store!svars)
  <2> SUFFICES ASSUME IInv, IInv', [Next]_avars PROVE [Store!Next]_(Store!svars)
    OBVIOUS
  <2>1. CASE UNCHANGED avars
    <3>1. UNCHANGED <<lpc, found, listing>>
      BY <2>1 DEF avars, listVars
    <3>2. UNCHANGED <<ListStatus, View>>
      BY <3>1, ViewStays
    <3> QED
      BY <2>1, <3>2 DEF avars, createVars, listVars, CreateStatus, Store!svars
  <2> QED
    BY <2>1, CreateStore, ListStore DEF Next
<1> QED
  BY <1>1, <1>2, Invariant, PTL DEF Spec, ImplementsStore, Store!Spec

=============================================================================
