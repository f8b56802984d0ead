-------------------------- MODULE BatchInsertProofs --------------------------
(***************************************************************************)
(* Safety of the create-orders path for any set of calls, any size of      *)
(* their batches and any pool.                                             *)
(***************************************************************************)
EXTENDS BatchInsert, TLAPS

-----------------------------------------------------------------------------
(***************************************************************************)
(* The inductive invariant.  It ties the auditor's place in its loop to    *)
(* what was published and saved, call by call.                             *)
(***************************************************************************)

\* The auditor is not called before the items are in the database.
NotBegun(p) == pc[p] \in {"idle", "begin", "orders", "items"}

\* The loop of the auditor stays in the batch, and ends only at its end.
LoopInBatch ==
    \A p \in Requests : /\ next[p] <= size[p]
                        /\ NotBegun(p) => next[p] = 0
                        /\ pc[p] = "idle" => size[p] = 0
                        /\ pc[p] = "save" => next[p] < size[p]
                        /\ pc[p] = "commit" => next[p] = size[p]

\* The auditor has handed over every order it is done with.
DoneHandedOver ==
    \A p \in Requests : \A i \in 1 .. next[p] : <<p, i>> \in logged \cup saved

\* It has published no other order; and saved no other but the one whose insert
\* took effect and still returned an error.
NoneAhead ==
    \A o \in Orders :
        /\ o \in logged => o[2] <= next[o[1]]
        /\ o \in saved => \/ o[2] <= next[o[1]]
                          \/ o[2] = next[o[1]] + 1 /\ pc[o[1]] \in {"rollback", "error"}

\* Orders are committed call by call, at the end of the loop.
CommittedWhole ==
    /\ \A o \in committed : pc[o[1]] \in Final /\ o[2] <= next[o[1]]
    /\ \A p \in Requests : pc[p] = "ok" => OrdersOf(p) \subseteq committed

\* A connection belongs to a call in its transaction, or to one whose insert
\* failed.
HeldInside ==
    \A p \in held : \/ pc[p] \in {"orders", "items", "publish", "save", "rollback", "commit"}
                    \/ pc[p] = "error" /\ next[p] = 0

IInv ==
    /\ TypeOK
    /\ LoopInBatch
    /\ DoneHandedOver
    /\ HandedOverOnce
    /\ NoneAhead
    /\ CommittedWhole
    /\ HeldInside

-----------------------------------------------------------------------------

\* The order the auditor works on is an order of its call.
LEMMA CurrentOrder ==
    ASSUME TypeOK, NEW p \in Requests, next[p] < size[p]
    PROVE  CurOrder(p) \in Orders /\ CurOrder(p)[1] = p /\ CurOrder(p)[2] = next[p] + 1
    BY MaxBatchAssumption DEF TypeOK, CurOrder, Orders

\* The orders of a call are orders.
LEMMA OrdersOfCall ==
    ASSUME TypeOK, NEW p \in Requests
    PROVE  OrdersOf(p) \subseteq Orders
    BY MaxBatchAssumption DEF TypeOK, OrdersOf, Orders

\* Every step keeps the types.
LEMMA TypeStep == TypeOK /\ LoopInBatch /\ [Next]_bvars => TypeOK'
<1> SUFFICES ASSUME TypeOK, LoopInBatch, [Next]_bvars PROVE TypeOK'
    OBVIOUS
<1> USE MaxBatchAssumption DEF TypeOK, Final, Goto
<1>1. ASSUME NEW p \in Requests, NEW n \in 0 .. MaxBatch, Call(p, n) PROVE TypeOK'
    BY <1>1 DEF Call
<1>2. ASSUME NEW p \in Requests,
             Begin(p) \/ BeginFail(p) \/ InsertOrders(p) \/ InsertItems(p)
                \/ InsertFail(p) \/ PublishFail(p) \/ LogDone(p) \/ Rollback(p)
      PROVE  TypeOK'
    BY <1>2
    DEF Begin, BeginFail, InsertOrders, InsertItems, InsertFail, PublishFail, LogDone, Rollback
<1>3. ASSUME NEW p \in Requests, Publish(p) \/ Save(p) PROVE TypeOK'
    <2>1. next[p] < size[p] /\ CurOrder(p) \in Orders
        BY <1>3, CurrentOrder DEF Publish, Save, LoopInBatch
    <2>2. next[p] + 1 \in 0 .. MaxBatch
        BY <2>1
    <2>. QED
        BY <1>3, <2>1, <2>2 DEF Publish, Save
<1>4. ASSUME NEW p \in Requests, NEW landed \in BOOLEAN, SaveFail(p, landed) PROVE TypeOK'
    <2>1. CurOrder(p) \in Orders
        BY <1>4, CurrentOrder DEF SaveFail, LoopInBatch
    <2>. QED
        BY <1>4, <2>1 DEF SaveFail
<1>5. ASSUME NEW p \in Requests, NEW landed \in BOOLEAN, Commit(p) \/ CommitFail(p, landed)
      PROVE  TypeOK'
    BY <1>5, OrdersOfCall DEF Commit, CommitFail
<1>6. CASE ConnectionLost \/ Stop \/ Close \/ Restart \/ UNCHANGED bvars
    BY <1>6 DEF ConnectionLost, Stop, Close, Restart, bvars
<1>7. CASE Exit \/ Crash
    BY <1>7 DEF Exit, Crash
<1>. QED
    BY <1>1, <1>2, <1>3, <1>4, <1>5, <1>6, <1>7 DEF Next, Work

\* A state in which no call has begun.
LEMMA InitIInv == Init => IInv
<1> SUFFICES ASSUME Init PROVE IInv
    OBVIOUS
<1> USE MaxBatchAssumption DEF Init
<1>1. TypeOK
    BY DEF TypeOK
<1>2. LoopInBatch /\ DoneHandedOver
    BY DEF LoopInBatch, NotBegun, DoneHandedOver
<1>3. HandedOverOnce /\ NoneAhead /\ CommittedWhole /\ HeldInside
    BY DEF HandedOverOnce, NoneAhead, CommittedWhole, HeldInside
<1>. QED
    BY <1>1, <1>2, <1>3 DEF IInv

-----------------------------------------------------------------------------
(***************************************************************************)
(* The steps of a call.  Each lemma covers the steps that disturb the      *)
(* named parts of the invariant in the same way.                           *)
(***************************************************************************)

\* The steps that hand nothing over and commit nothing.
Quiet(p) ==
    \/ Begin(p) \/ BeginFail(p) \/ InsertOrders(p) \/ InsertItems(p) \/ InsertFail(p)
    \/ PublishFail(p) \/ LogDone(p) \/ Rollback(p)

\* A call that arrives has no order yet that anyone is done with.
LEMMA CallStep ==
    ASSUME IInv, NEW p \in Requests, NEW n \in 0 .. MaxBatch, Call(p, n)
    PROVE  LoopInBatch' /\ DoneHandedOver' /\ HandedOverOnce' /\ NoneAhead'
              /\ CommittedWhole' /\ HeldInside'
<1> USE MaxBatchAssumption DEF IInv, TypeOK, Call, Goto
<1>1. LoopInBatch'
    BY DEF LoopInBatch, NotBegun
<1>2. DoneHandedOver' /\ HandedOverOnce'
    BY DEF DoneHandedOver, HandedOverOnce
<1>3. NoneAhead'
    BY DEF NoneAhead, Orders
<1>4. CommittedWhole'
    BY DEF CommittedWhole, Final, OrdersOf
<1>5. HeldInside'
    BY DEF HeldInside
<1>. QED
    BY <1>1, <1>2, <1>3, <1>4, <1>5

\* A step of the transaction alone.
LEMMA QuietStep ==
    ASSUME IInv, NEW p \in Requests, Quiet(p)
    PROVE  LoopInBatch' /\ DoneHandedOver' /\ HandedOverOnce' /\ NoneAhead'
              /\ CommittedWhole' /\ HeldInside'
<1> USE MaxBatchAssumption DEF IInv, TypeOK, Goto, Quiet, Begin, BeginFail, InsertOrders,
        InsertItems, InsertFail, PublishFail, LogDone, Rollback
<1>1. LoopInBatch'
    BY DEF LoopInBatch, NotBegun
<1>2. DoneHandedOver' /\ HandedOverOnce'
    BY DEF DoneHandedOver, HandedOverOnce
<1>3. NoneAhead'
    BY DEF NoneAhead, Orders
<1>4. CommittedWhole'
    <2>1. /\ pc[p] \notin Final
          /\ pc'[p] # "ok"
          /\ \A q \in Requests \ {p} : pc'[q] = pc[q]
          /\ UNCHANGED <<size, next, committed>>
        BY DEF Final
    <2>2. \A o \in committed' : pc'[o[1]] \in Final /\ o[2] <= next'[o[1]]
        BY <2>1 DEF CommittedWhole, Orders
    <2>3. ASSUME NEW q \in Requests, pc'[q] = "ok" PROVE OrdersOf(q)' \subseteq committed'
        BY <2>1, <2>3 DEF CommittedWhole, OrdersOf
    <2>. QED
        BY <2>2, <2>3 DEF CommittedWhole
<1>5. HeldInside'
    BY DEF HeldInside, LoopInBatch, NotBegun
<1>. QED
    BY <1>1, <1>2, <1>3, <1>4, <1>5

\* The auditor is done with one more order, whichever way it went.
LEMMA HandOverStep ==
    ASSUME IInv, NEW p \in Requests, Publish(p) \/ Save(p)
    PROVE  LoopInBatch' /\ DoneHandedOver' /\ HandedOverOnce' /\ NoneAhead'
              /\ CommittedWhole' /\ HeldInside'
<1> USE MaxBatchAssumption
<1>1. pc[p] \in {"publish", "save"} /\ next[p] < size[p]
    BY DEF Publish, Save, Goto, IInv, LoopInBatch
<1>2. /\ CurOrder(p) \in Orders
      /\ CurOrder(p) = <<p, next[p] + 1>>
      /\ CurOrder(p)[1] = p
      /\ CurOrder(p)[2] = next[p] + 1
    BY <1>1, CurrentOrder DEF IInv, CurOrder
<1>3. /\ pc' = [pc EXCEPT ![p] = "publish"]
      /\ next' = [next EXCEPT ![p] = @ + 1]
      /\ \/ logged' = logged \cup {CurOrder(p)} /\ saved' = saved
         \/ saved' = saved \cup {CurOrder(p)} /\ logged' = logged
      /\ UNCHANGED <<size, held, committed>>
    BY DEF Publish, Save, Goto
<1> USE DEF TypeOK
<1>4. LoopInBatch'
    BY <1>1, <1>3 DEF IInv, LoopInBatch, NotBegun
<1>5. DoneHandedOver'
    <2>1. \A q \in Requests \ {p} : next'[q] = next[q]
        BY <1>3 DEF IInv
    <2>2. next'[p] = next[p] + 1 /\ next[p] \in Nat
        BY <1>3 DEF IInv
    <2>3. logged \cup saved \cup {CurOrder(p)} \subseteq logged' \cup saved'
        BY <1>3
    <2>4. \A i \in 1 .. next'[p] : i \in 1 .. next[p] \/ <<p, i>> = CurOrder(p)
        BY <1>2, <2>2
    <2>5. \A i \in 1 .. next[p] : <<p, i>> \in logged \cup saved
        BY DEF IInv, DoneHandedOver
    <2>6. \A i \in 1 .. next'[p] : <<p, i>> \in logged' \cup saved'
        BY <2>3, <2>4, <2>5
    <2>7. \A q \in Requests \ {p} : \A i \in 1 .. next'[q] : <<q, i>> \in logged' \cup saved'
        BY <2>1, <2>3 DEF IInv, DoneHandedOver
    <2>. QED
        BY <2>6, <2>7 DEF DoneHandedOver
<1>6. CurOrder(p) \notin logged \cup saved
    BY <1>1, <1>2 DEF IInv, NoneAhead
<1>7. HandedOverOnce'
    BY <1>3, <1>6 DEF IInv, HandedOverOnce
<1>8. NoneAhead'
    BY <1>1, <1>2, <1>3 DEF IInv, NoneAhead, Orders
<1>9. CommittedWhole'
    BY <1>1, <1>3 DEF IInv, CommittedWhole, Final, OrdersOf, Orders
<1>10. HeldInside'
    BY <1>1, <1>3 DEF IInv, HeldInside
<1>. QED
    BY <1>4, <1>5, <1>7, <1>8, <1>9, <1>10

\* The outbox insert that returns an error may leave a row of the order the
\* auditor is at.
LEMMA SaveFailStep ==
    ASSUME IInv, NEW p \in Requests, NEW landed \in BOOLEAN, SaveFail(p, landed)
    PROVE  LoopInBatch' /\ DoneHandedOver' /\ HandedOverOnce' /\ NoneAhead'
              /\ CommittedWhole' /\ HeldInside'
<1> USE MaxBatchAssumption
<1>1. pc[p] = "save" /\ next[p] < size[p]
    BY DEF SaveFail, Goto, IInv, LoopInBatch
<1>2. /\ CurOrder(p) \in Orders
      /\ CurOrder(p)[1] = p
      /\ CurOrder(p)[2] = next[p] + 1
    BY <1>1, CurrentOrder DEF IInv
<1>3. /\ pc' = [pc EXCEPT ![p] = "rollback"]
      /\ saved' = saved \/ saved' = saved \cup {CurOrder(p)}
      /\ UNCHANGED <<size, next, held, committed, logged>>
    BY DEF SaveFail, Goto
<1> USE DEF TypeOK
<1>4. LoopInBatch'
    BY <1>1, <1>3 DEF IInv, LoopInBatch, NotBegun
<1>5. DoneHandedOver'
    BY <1>3 DEF IInv, DoneHandedOver
<1>6. CurOrder(p) \notin logged \cup saved
    BY <1>1, <1>2 DEF IInv, NoneAhead
<1>7. HandedOverOnce'
    BY <1>3, <1>6 DEF IInv, HandedOverOnce
<1>8. NoneAhead'
    BY <1>1, <1>2, <1>3 DEF IInv, NoneAhead, Orders
<1>9. CommittedWhole'
    BY <1>1, <1>3 DEF IInv, CommittedWhole, Final, OrdersOf, Orders
<1>10. HeldInside'
    BY <1>1, <1>3 DEF IInv, HeldInside
<1>. QED
    BY <1>4, <1>5, <1>7, <1>8, <1>9, <1>10

\* What is committed is the whole call, and the auditor is done with it.
LEMMA CommitStep ==
    ASSUME IInv, NEW p \in Requests, NEW landed \in BOOLEAN, Commit(p) \/ CommitFail(p, landed)
    PROVE  LoopInBatch' /\ DoneHandedOver' /\ HandedOverOnce' /\ NoneAhead'
              /\ CommittedWhole' /\ HeldInside'
<1> USE MaxBatchAssumption DEF TypeOK
<1>1. pc[p] = "commit" /\ next[p] = size[p]
    BY DEF Commit, CommitFail, Goto, IInv, LoopInBatch
<1>2. /\ \/ pc' = [pc EXCEPT ![p] = "ok"] /\ committed' = committed \cup OrdersOf(p)
         \/ /\ pc' = [pc EXCEPT ![p] = "error"]
            /\ committed' = committed \/ committed' = committed \cup OrdersOf(p)
      /\ held' = held \ {p}
      /\ UNCHANGED <<size, next, logged, saved>>
    BY DEF Commit, CommitFail, Goto
<1>3. LoopInBatch'
    BY <1>1, <1>2 DEF IInv, LoopInBatch, NotBegun
<1>4. DoneHandedOver' /\ HandedOverOnce'
    BY <1>2 DEF IInv, DoneHandedOver, HandedOverOnce
<1>5. NoneAhead'
    BY <1>1, <1>2 DEF IInv, NoneAhead, Orders
<1>6. CommittedWhole'
    <2>1. \A o \in OrdersOf(p) : o[1] = p /\ o[2] <= next[p]
        BY <1>1 DEF IInv, OrdersOf
    <2>2. pc'[p] \in Final /\ next' = next
        BY <1>2 DEF IInv, Final
    <2>3. \A o \in committed' : pc'[o[1]] \in Final /\ o[2] <= next'[o[1]]
        BY <1>1, <1>2, <2>1, <2>2 DEF IInv, CommittedWhole, Final, Orders
    <2>4. \A q \in Requests : OrdersOf(q)' = OrdersOf(q)
        BY <1>2 DEF OrdersOf
    <2>5. ASSUME NEW q \in Requests, pc'[q] = "ok" PROVE OrdersOf(q) \subseteq committed'
        BY <1>1, <1>2, <2>5 DEF IInv, CommittedWhole
    <2>. QED
        BY <2>3, <2>4, <2>5 DEF CommittedWhole
<1>7. HeldInside'
    BY <1>1, <1>2 DEF IInv, HeldInside
<1>. QED
    BY <1>3, <1>4, <1>5, <1>6, <1>7

\* What happens to the connection and to the process interrupts calls, and hands
\* over nothing.
LEMMA ProcessStep ==
    ASSUME IInv,
           ConnectionLost \/ Stop \/ Close \/ Restart \/ Exit \/ Crash \/ UNCHANGED bvars
    PROVE  LoopInBatch' /\ DoneHandedOver' /\ HandedOverOnce' /\ NoneAhead'
              /\ CommittedWhole' /\ HeldInside'
<1> USE MaxBatchAssumption DEF TypeOK
<1>1. /\ UNCHANGED <<size, next, committed, logged, saved>>
      /\ \/ pc' = pc /\ held' = held
         \/ /\ held' = {}
            /\ pc' = [p \in Requests |-> IF pc[p] \in {"idle", "ok", "error"} THEN pc[p]
                                         ELSE "error"]
    BY DEF ConnectionLost, Stop, Close, Restart, Exit, Crash, bvars
<1>2. LoopInBatch'
    BY <1>1 DEF IInv, LoopInBatch, NotBegun
<1>3. DoneHandedOver' /\ HandedOverOnce'
    BY <1>1 DEF IInv, DoneHandedOver, HandedOverOnce
<1>4. NoneAhead'
    BY <1>1 DEF IInv, NoneAhead, Orders
<1>5. CommittedWhole'
    BY <1>1 DEF IInv, CommittedWhole, Final, OrdersOf, Orders
<1>6. HeldInside'
    BY <1>1 DEF IInv, HeldInside
<1>. QED
    BY <1>2, <1>3, <1>4, <1>5, <1>6

\* Every step keeps the invariant.
LEMMA NextIInv == IInv /\ [Next]_bvars => IInv'
<1> SUFFICES ASSUME IInv, [Next]_bvars PROVE IInv'
    OBVIOUS
<1>1. TypeOK'
    BY TypeStep DEF IInv
<1>2. LoopInBatch' /\ DoneHandedOver' /\ HandedOverOnce' /\ NoneAhead'
         /\ CommittedWhole' /\ HeldInside'
    <2>1. CASE \E p \in Requests, n \in 0 .. MaxBatch : Call(p, n)
        BY <2>1, CallStep
    <2>2. CASE \E p \in Requests : Quiet(p)
        BY <2>2, QuietStep
    <2>3. CASE \E p \in Requests : Publish(p) \/ Save(p)
        BY <2>3, HandOverStep
    <2>4. CASE \E p \in Requests, landed \in BOOLEAN : SaveFail(p, landed)
        BY <2>4, SaveFailStep
    <2>5. CASE \E p \in Requests, landed \in BOOLEAN : Commit(p) \/ CommitFail(p, landed)
        BY <2>5, CommitStep
    <2>6. CASE ConnectionLost \/ Stop \/ Close \/ Restart \/ Exit \/ Crash \/ UNCHANGED bvars
        BY <2>6, ProcessStep
    <2>. QED
        BY <2>1, <2>2, <2>3, <2>4, <2>5, <2>6 DEF Next, Work, Quiet
<1>. QED
    BY <1>1, <1>2 DEF IInv

-----------------------------------------------------------------------------
(* The theorems *)

\* The invariant holds in every state of every behaviour of the service.
THEOREM Invariant == Spec => []IInv
<1>. QED
    BY InitIInv, NextIInv, PTL DEF Spec

\* Every variable keeps its type: the loop of the auditor never leaves the
\* batch, so all it publishes and saves are orders.
THEOREM TypeCorrect == Spec => []TypeOK
<1>1. IInv => TypeOK
    BY DEF IInv
<1>. QED
    BY <1>1, Invariant, PTL

\* No order reaches the database before its audit message is in the queue or
\* in the outbox, whatever fails in LogBatchInsert, commit or rollback.
THEOREM AuditBeforeCommit == Spec => []CommittedHandedOver
<1>1. IInv => CommittedHandedOver
    <2> SUFFICES ASSUME IInv, NEW o \in committed PROVE o \in logged \cup saved
        BY DEF CommittedHandedOver
    <2>1. o \in Orders /\ o[1] \in Requests /\ o[2] \in 1 .. MaxBatch /\ o = <<o[1], o[2]>>
        BY DEF IInv, TypeOK, Orders
    <2>2. o[2] \in 1 .. next[o[1]]
        BY <2>1, MaxBatchAssumption DEF IInv, TypeOK, CommittedWhole
    <2>3. <<o[1], o[2]>> \in logged \cup saved
        BY <2>1, <2>2 DEF IInv, DoneHandedOver
    <2>. QED
        BY <2>1, <2>3
<1>. QED
    BY <1>1, Invariant, PTL

\* The auditor never both publishes and saves the message of an order.
THEOREM NoDuplicateOfOutbox == Spec => []HandedOverOnce
<1>1. IInv => HandedOverOnce
    BY DEF IInv
<1>. QED
    BY <1>1, Invariant, PTL

\* A caller that is answered without an error finds every order it was audited
\* for in the database.
THEOREM PhantomsAreErrors == Spec => []PhantomOnlyOnError
<1>1. IInv => PhantomOnlyOnError
    <2> SUFFICES ASSUME IInv, NEW p \in Requests,
                        NEW o \in OrdersOf(p) \cap ((logged \cup saved) \ committed)
                 PROVE  pc[p] \notin {"idle", "begin", "orders", "items", "ok"}
        BY DEF PhantomOnlyOnError
    <2>1. o \in Orders /\ o[1] = p /\ o[2] \in 1 .. MaxBatch
        BY OrdersOfCall DEF IInv, OrdersOf, Orders
    <2>2. pc[p] # "ok"
        BY DEF IInv, CommittedWhole
    <2>3. ASSUME NotBegun(p) PROVE FALSE
        <3>1. next[p] = 0 /\ pc[p] \notin {"rollback", "error"}
            BY <2>3 DEF IInv, LoopInBatch, NotBegun
        <3>. QED
            BY <2>1, <3>1, MaxBatchAssumption DEF IInv, NoneAhead
    <2>. QED
        BY <2>2, <2>3 DEF NotBegun
<1>. QED
    BY <1>1, Invariant, PTL

\* A call that reached the auditor never ends with the connection of its
\* transaction, on whichever order the auditor failed: only a step in which an
\* insert fails ends a call and leaves it its connection.
THEOREM OnlyInsertsLeak == Spec => ConnectionReturned
<1>1. IInv /\ [Next]_bvars
      => [\A p \in held' : pc'[p] \in Final =>
            /\ pc'[p] = "error"
            /\ p \in held /\ pc[p] \in {"orders", "items", "error"}]_bvars
    <2> SUFFICES ASSUME IInv, Next, NEW p \in held', pc'[p] \in Final
                 PROVE  /\ pc'[p] = "error"
                        /\ p \in held /\ pc[p] \in {"orders", "items", "error"}
        OBVIOUS
    <2>1. ASSUME p \in held, pc'[p] = pc[p]
          PROVE  pc'[p] = "error" /\ pc[p] \in {"orders", "items", "error"}
        BY <2>1 DEF IInv, HeldInside, Final
    <2>2. CASE \E q \in Requests :
                  \/ \E n \in 0 .. MaxBatch : Call(q, n)
                  \/ Begin(q) \/ BeginFail(q) \/ InsertOrders(q) \/ InsertItems(q)
                  \/ InsertFail(q) \/ Publish(q) \/ PublishFail(q) \/ LogDone(q)
                  \/ Save(q) \/ \E landed \in BOOLEAN : SaveFail(q, landed)
                  \/ Rollback(q) \/ Commit(q)
                  \/ \E landed \in BOOLEAN : CommitFail(q, landed)
        <3>1. PICK q \in Requests :
                 /\ \/ p \in held
                    \/ p = q /\ pc' = [pc EXCEPT ![q] = "orders"]
                 /\ \/ pc' = [pc EXCEPT ![q] = "error"] /\ pc[q] \in {"orders", "items"}
                    \/ pc' = [pc EXCEPT ![q] = "error"] /\ pc[q] = "begin" /\ held' = held
                    \/ q \notin held' /\ \E to : pc' = [pc EXCEPT ![q] = to]
                    \/ \E to \in {"begin", "orders", "items", "publish", "save", "commit",
                                   "rollback"} : pc' = [pc EXCEPT ![q] = to]
            BY <2>2
            DEF Call, Begin, BeginFail, InsertOrders, InsertItems, InsertFail, Publish,
                PublishFail, LogDone, Save, SaveFail, Rollback, Commit, CommitFail, Goto
        <3>2. pc'[p] # pc[p] => p = q
            BY <3>1 DEF IInv, TypeOK
        <3>. QED
            BY <2>1, <3>1, <3>2 DEF IInv, TypeOK, HeldInside, Final
    <2>3. CASE ConnectionLost \/ Stop \/ Close \/ Restart
        BY <2>1, <2>3 DEF ConnectionLost, Stop, Close, Restart
    <2>4. CASE Exit \/ Crash
        BY <2>4 DEF Exit, Crash
    <2>. QED
        BY <2>2, <2>3, <2>4 DEF Next, Work
<1>. QED
    BY <1>1, Invariant, PTL DEF Spec, ConnectionReturned

-----------------------------------------------------------------------------
(***************************************************************************)
(* What creating orders promises: every step of the service is a step of   *)
(* AuditedCommit, or none that it can tell.                                *)
(***************************************************************************)

\* What AuditedCommit sees of a call that goes from one place to another.
LEMMA AnswerMoves ==
    ASSUME TypeOK, NEW p \in Requests, NEW to, pc' = [pc EXCEPT ![p] = to]
    PROVE  /\ to = "ok" \/ to = "error" => Answer' = [Answer EXCEPT ![p] = to]
           /\ to \notin Final \cup {"idle"} => Answer' = [Answer EXCEPT ![p] = "open"]
    BY DEF TypeOK, Answer, Final

\* The orders of a call are its own, and as many as it came with.
LEMMA CreatedStays == UNCHANGED size => UNCHANGED Created
    BY DEF Created, OrdersOf

LEMMA OpenStays ==
    ASSUME TypeOK, NEW p \in Requests, pc[p] \notin Final \cup {"idle"}
    PROVE  Answer[p] = "open" /\ [Answer EXCEPT ![p] = "open"] = Answer
    BY DEF TypeOK, Answer, Final

\* A call that arrives submits its orders, which are new.
LEMMA CallSubmits ==
    ASSUME IInv, NEW p \in Requests, NEW n \in 0 .. MaxBatch, Call(p, n)
    PROVE  Audited!Submit(p)
<1> DEFINE new == {<<p, i>> : i \in 1 .. n}
<1> USE MaxBatchAssumption
<1>1. /\ pc[p] = "idle" /\ pc' = [pc EXCEPT ![p] = "begin"]
      /\ size' = [size EXCEPT ![p] = n]
      /\ UNCHANGED <<committed, logged, saved>>
    BY DEF Call, Goto
<1>2. next[p] = 0 /\ size[p] = 0
    BY <1>1 DEF IInv, LoopInBatch, NotBegun
<1>3. new \subseteq Orders
    BY DEF Orders
<1>4. ASSUME NEW o \in new PROVE o \notin Announced
    <2>1. o \in Orders /\ o[1] = p /\ o[2] \in 1 .. n
        BY <1>3
    <2>. QED
        BY <1>1, <1>2, <2>1 DEF IInv, NoneAhead, Announced
<1>5. ASSUME NEW o \in new, NEW q \in Requests PROVE o \notin Created[q]
    BY <1>2 DEF Created, OrdersOf
<1>6. new \in SUBSET (Orders \ (Announced \cup UNION {Created[q] : q \in Requests}))
    BY <1>3, <1>4, <1>5
<1>7. Created' = [Created EXCEPT ![p] = new]
    BY <1>1 DEF IInv, TypeOK, Created, OrdersOf
<1>8. Answer[p] = "none" /\ Answer' = [Answer EXCEPT ![p] = "open"]
    BY <1>1, AnswerMoves DEF IInv, Answer, Final
<1>. QED
    BY <1>1, <1>6, <1>7, <1>8 DEF Audited!Submit, Announced

\* The transaction on its own: an answer, if there is one, is an error.
LEMMA QuietRefuses ==
    ASSUME IInv, NEW p \in Requests, Quiet(p)
    PROVE  Audited!Refuse(p) \/ UNCHANGED Audited!avars
<1>1. /\ pc[p] \notin Final \cup {"idle"}
      /\ \/ pc' = [pc EXCEPT ![p] = "error"]
         \/ \E to \in {"orders", "items", "publish", "save", "commit"} :
               pc' = [pc EXCEPT ![p] = to]
      /\ UNCHANGED <<size, committed, logged, saved>>
    BY DEF Quiet, Begin, BeginFail, InsertOrders, InsertItems, InsertFail, PublishFail,
        LogDone, Rollback, Goto, Final
<1>2. Answer[p] = "open" /\ [Answer EXCEPT ![p] = "open"] = Answer
    BY <1>1, OpenStays DEF IInv
<1>3. UNCHANGED <<Created, Announced, committed>>
    BY <1>1, CreatedStays DEF Announced
<1>4. CASE pc' = [pc EXCEPT ![p] = "error"]
    <2>1. Answer' = [Answer EXCEPT ![p] = "error"]
        BY <1>4, AnswerMoves DEF IInv
    <2>. QED
        BY <1>2, <1>3, <2>1 DEF Audited!Refuse
<1>5. ASSUME NEW to \in {"orders", "items", "publish", "save", "commit"},
             pc' = [pc EXCEPT ![p] = to]
      PROVE  UNCHANGED Audited!avars
    <2>1. Answer' = Answer
        BY <1>2, <1>5, AnswerMoves DEF IInv, Final
    <2>. QED
        BY <1>3, <2>1 DEF Audited!avars
<1>. QED
    BY <1>1, <1>4, <1>5

\* The auditor announces the order it is at, by the queue or by the outbox; an
\* insert that fails announces it or does not.
LEMMA AuditorAnnounces ==
    ASSUME IInv, NEW p \in Requests,
           Publish(p) \/ Save(p) \/ \E landed \in BOOLEAN : SaveFail(p, landed)
    PROVE  Audited!Announce(p) \/ UNCHANGED Audited!avars
<1>1. /\ pc[p] \in {"publish", "save"} /\ next[p] < size[p]
      /\ \E to \in {"publish", "rollback"} : pc' = [pc EXCEPT ![p] = to]
      /\ Announced' \in {Announced, Announced \cup {CurOrder(p)}}
      /\ UNCHANGED <<size, committed>>
    BY DEF Publish, Save, SaveFail, Goto, IInv, LoopInBatch, Announced
<1>2. CurOrder(p) \in Created[p]
    BY <1>1, MaxBatchAssumption DEF IInv, TypeOK, Created, OrdersOf, CurOrder
<1>3. CurOrder(p) \notin Announced
    <2>1. /\ CurOrder(p) \in Orders
          /\ CurOrder(p)[1] = p /\ CurOrder(p)[2] = next[p] + 1
          /\ next[p] \in Nat /\ pc[p] \notin {"rollback", "error"}
        BY <1>1, CurrentOrder, MaxBatchAssumption DEF IInv, TypeOK
    <2>. QED
        BY <2>1 DEF IInv, NoneAhead, Announced
<1>4. Answer[p] = "open" /\ Answer' = Answer
    BY <1>1, OpenStays, AnswerMoves DEF IInv, Final
<1>5. UNCHANGED <<Answer, Created, committed>>
    BY <1>1, <1>4, CreatedStays
<1>. QED
    BY <1>1, <1>2, <1>3, <1>4, <1>5 DEF Audited!Announce, Audited!avars

\* The commit comes when every order of the call was announced.
LEMMA CommitAnswers ==
    ASSUME IInv, NEW p \in Requests, NEW landed \in BOOLEAN,
           Commit(p) \/ CommitFail(p, landed)
    PROVE  Audited!Accept(p) \/ Audited!Refuse(p)
<1>1. /\ pc[p] = "commit" /\ next[p] = size[p]
      /\ UNCHANGED <<size, logged, saved>>
      /\ \/ pc' = [pc EXCEPT ![p] = "ok"] /\ committed' = committed \cup OrdersOf(p)
         \/ /\ pc' = [pc EXCEPT ![p] = "error"]
            /\ committed' \in {committed, committed \cup OrdersOf(p)}
    BY DEF Commit, CommitFail, Goto, IInv, LoopInBatch
<1>2. Created[p] = OrdersOf(p) /\ Created[p] \subseteq Announced
    BY <1>1 DEF IInv, DoneHandedOver, Created, OrdersOf, Announced
<1>3. Answer[p] = "open" /\ UNCHANGED <<Created, Announced>>
    BY <1>1, OpenStays, CreatedStays DEF IInv, Final, Announced
<1>4. pc' = [pc EXCEPT ![p] = "ok"] => Answer' = [Answer EXCEPT ![p] = "ok"]
    BY AnswerMoves DEF IInv
<1>5. pc' = [pc EXCEPT ![p] = "error"] => Answer' = [Answer EXCEPT ![p] = "error"]
    BY AnswerMoves DEF IInv
<1>. QED
    BY <1>1, <1>2, <1>3, <1>4, <1>5 DEF Audited!Accept, Audited!Refuse, Audited!Store

\* The end of the process interrupts the calls it has; the rest of its life and
\* the connection's is not seen.
LEMMA ProcessInterrupts ==
    ASSUME IInv,
           ConnectionLost \/ Stop \/ Close \/ Restart \/ Exit \/ Crash \/ UNCHANGED bvars
    PROVE  Audited!Interrupt \/ UNCHANGED Audited!avars
<1>1. /\ UNCHANGED <<size, committed, logged, saved>>
      /\ \/ pc' = pc
         \/ pc' = [p \in Requests |-> IF pc[p] \in {"idle", "ok", "error"} THEN pc[p]
                                      ELSE "error"]
    BY DEF ConnectionLost, Stop, Close, Restart, Exit, Crash, bvars
<1>2. UNCHANGED <<Created, Announced, committed>>
    BY <1>1, CreatedStays DEF Announced
<1>3. pc' = pc => Answer' = Answer
    BY DEF Answer
<1>4. ASSUME pc' = [p \in Requests |-> IF pc[p] \in {"idle", "ok", "error"} THEN pc[p]
                                       ELSE "error"]
      PROVE  Answer' = [p \in Requests |-> IF Answer[p] = "open" THEN "error" ELSE Answer[p]]
    BY <1>4 DEF IInv, TypeOK, Answer, Final
<1>. QED
    BY <1>1, <1>2, <1>3, <1>4 DEF Audited!Interrupt, Audited!avars

LEMMA AuditedStep == IInv /\ [Next]_bvars => [Audited!Next]_(Audited!avars)
<1> SUFFICES ASSUME IInv, [Next]_bvars PROVE Audited!Next \/ UNCHANGED Audited!avars
    OBVIOUS
<1>1. CASE \E p \in Requests, n \in 0 .. MaxBatch : Call(p, n)
    BY <1>1, CallSubmits DEF Audited!Next
<1>2. CASE \E p \in Requests : Quiet(p)
    BY <1>2, QuietRefuses DEF Audited!Next
<1>3. CASE \E p \in Requests :
              Publish(p) \/ Save(p) \/ \E landed \in BOOLEAN : SaveFail(p, landed)
    BY <1>3, AuditorAnnounces DEF Audited!Next
<1>4. CASE \E p \in Requests, landed \in BOOLEAN : Commit(p) \/ CommitFail(p, landed)
    BY <1>4, CommitAnswers DEF Audited!Next
<1>5. CASE ConnectionLost \/ Stop \/ Close \/ Restart \/ Exit \/ Crash \/ UNCHANGED bvars
    BY <1>5, ProcessInterrupts DEF Audited!Next
<1>. QED
    BY <1>1, <1>2, <1>3, <1>4, <1>5 DEF Next, Work, Quiet

\* However transaction, auditor, connection and process fail, orders are stored
\* call by call and after they were announced to the audit log, and an answer
\* is final: for any number of calls, any batches and any pool.
THEOREM AuditedCommitImplemented == Spec => ImplementsAuditedCommit
<1>1. Init => Audited!Init
    BY DEF Init, Audited!Init, Answer, Created, OrdersOf, Announced
<1>. QED
    BY <1>1, AuditedStep, Invariant, PTL DEF Spec, ImplementsAuditedCommit, Audited!Spec

=============================================================================
