----------------------------- MODULE BatchInsert -----------------------------
(***************************************************************************)
(* The create-orders path of order-svc: OrderService.BatchInsert with the  *)
(* unit of work it runs in and the auditor it calls before it commits, for *)
(* several requests at once.  They share one connection pool and one AMQP  *)
(* channel, and race with the loss of the connection, the shutdown of the  *)
(* service and crashes.                                                    *)
(*                                                                         *)
(* A transaction holds a pool connection from Begin to Commit or Rollback. *)
(* The outbox repository takes a second connection of the same pool while  *)
(* the transaction is open, and its insert is not part of the transaction. *)
(***************************************************************************)
EXTENDS Integers, FiniteSets

CONSTANTS
    Requests,  \* calls of BatchInsert
    MaxBatch,  \* bound: orders of one call
    PoolSize   \* connections of the pool

ASSUME RequestsAssumption == IsFiniteSet(Requests)
ASSUME MaxBatchAssumption == MaxBatch \in Nat
ASSUME PoolSizeAssumption == PoolSize \in Nat \ {0}

\* The i-th order of a call.
Orders == Requests \X (1 .. MaxBatch)

VARIABLES
    pc,         \* where each call is
    size,       \* number of its orders
    next,       \* number of its orders the auditor is done with
    held,       \* calls that hold their transaction's connection
    committed,  \* orders whose transaction the database committed
    logged,     \* orders published to the queue by the auditor
    saved,      \* orders the auditor inserted in the outbox
    channel,    \* the AMQP channel, created once per process
    svc         \* "up", "draining" (http.Shutdown), "closing", "down"

bvars == <<pc, size, next, held, committed, logged, saved, channel, svc>>

Init ==
    /\ pc = [p \in Requests |-> "idle"]
    /\ size = [p \in Requests |-> 0]
    /\ next = [p \in Requests |-> 0]
    /\ held = {}
    /\ committed = {}
    /\ logged = {}
    /\ saved = {}
    /\ channel = "open"
    /\ svc = "up"

OrdersOf(p) == {<<p, i>> : i \in 1 .. size[p]}

\* The order the auditor works on.
CurOrder(p) == <<p, next[p] + 1>>

\* Faulty variant: one connection of the pool is kept for something else.
CanAcquireButOne == Cardinality(held) < PoolSize - 1 /\ svc \in {"up", "draining"}

\* Acquire of the pool: it blocks until a connection is free, and fails once
\* Close was called.
CanAcquire == Cardinality(held) < PoolSize /\ svc \in {"up", "draining"}

Goto(p, from, to) ==
    /\ pc[p] = from
    /\ pc' = [pc EXCEPT ![p] = to]

-----------------------------------------------------------------------------
(* OrderService.BatchInsert *)

\* A call arrives over HTTP or gRPC.  The gRPC server is stopped last.
Call(p, n) ==
    /\ svc \in {"up", "draining"}
    /\ Goto(p, "idle", "begin")
    /\ size' = [size EXCEPT ![p] = n]
    /\ UNCHANGED <<next, held, committed, logged, saved, channel, svc>>

Begin(p) ==
    /\ CanAcquire
    /\ Goto(p, "begin", "orders")
    /\ held' = held \cup {p}
    /\ UNCHANGED <<size, next, committed, logged, saved, channel, svc>>

\* The client gave up waiting, the database refused, or the pool is closed.
BeginFail(p) ==
    /\ Goto(p, "begin", "error")
    /\ UNCHANGED <<size, next, held, committed, logged, saved, channel, svc>>

InsertOrders(p) ==
    /\ Goto(p, "orders", "items")
    /\ UNCHANGED <<size, next, held, committed, logged, saved, channel, svc>>

InsertItems(p) ==
    /\ Goto(p, "items", "publish")
    /\ UNCHANGED <<size, next, held, committed, logged, saved, channel, svc>>

\* Either insert fails, or the items cannot be given back to their orders (a
\* panic, which net/http recovers; over gRPC it is a Crash): BatchInsert
\* returns, and nobody ends the transaction.
InsertFail(p) ==
    /\ Goto(p, "orders", "error") \/ Goto(p, "items", "error")
    /\ UNCHANGED <<size, next, held, committed, logged, saved, channel, svc>>

\* Faulty variants: the call returns without an error; it does not roll back.
RollbackAnswersOk(p) ==
    /\ Goto(p, "rollback", "ok")
    /\ held' = held \ {p}
    /\ UNCHANGED <<size, next, committed, logged, saved, channel, svc>>
RollbackForgotten(p) ==
    /\ Goto(p, "rollback", "error")
    /\ UNCHANGED <<size, next, held, committed, logged, saved, channel, svc>>

Rollback(p) ==
    /\ Goto(p, "rollback", "error")
    /\ held' = held \ {p}
    /\ UNCHANGED <<size, next, committed, logged, saved, channel, svc>>

Commit(p) ==
    /\ Goto(p, "commit", "ok")
    /\ held' = held \ {p}
    /\ committed' = committed \cup OrdersOf(p)
    /\ UNCHANGED <<size, next, logged, saved, channel, svc>>

\* Faulty variant: the last order was not inserted in the transaction.
CommitFailPartly(p, landed) ==
    /\ Goto(p, "commit", "error")
    /\ held' = held \ {p}
    /\ committed' = IF landed THEN committed \cup (OrdersOf(p) \ {<<p, size[p]>>}) ELSE committed
    /\ UNCHANGED <<size, next, logged, saved, channel, svc>>

\* The answer is an error, whether or not the commit took effect.
CommitFail(p, landed) ==
    /\ Goto(p, "commit", "error")
    /\ held' = held \ {p}
    /\ committed' = IF landed THEN committed \cup OrdersOf(p) ELSE committed
    /\ UNCHANGED <<size, next, logged, saved, channel, svc>>

-----------------------------------------------------------------------------
(* AuditRabbitMQRepository.LogBatchInsert *)

\* Faulty variants: the loop runs once too often; the outbox gets the message
\* although the publish went well.
PublishPastEnd(p) ==
    /\ channel = "open"
    /\ next[p] <= size[p]
    /\ Goto(p, "publish", "publish")
    /\ logged' = logged \cup {CurOrder(p)}
    /\ next' = [next EXCEPT ![p] = @ + 1]
    /\ UNCHANGED <<size, held, committed, saved, channel, svc>>
PublishThenSave(p) ==
    /\ channel = "open"
    /\ next[p] < size[p]
    /\ Goto(p, "publish", "save")
    /\ logged' = logged \cup {CurOrder(p)}
    /\ UNCHANGED <<size, next, held, committed, saved, channel, svc>>

Publish(p) ==
    /\ channel = "open"
    /\ next[p] < size[p]
    /\ Goto(p, "publish", "publish")
    /\ logged' = logged \cup {CurOrder(p)}
    /\ next' = [next EXCEPT ![p] = @ + 1]
    /\ UNCHANGED <<size, held, committed, saved, channel, svc>>

\* Faulty variant: the failure is logged and the loop goes on.
PublishFailSkips(p) ==
    /\ channel = "closed"
    /\ next[p] < size[p]
    /\ Goto(p, "publish", "publish")
    /\ next' = [next EXCEPT ![p] = @ + 1]
    /\ UNCHANGED <<size, held, committed, logged, saved, channel, svc>>

PublishFail(p) ==
    /\ channel = "closed"
    /\ next[p] < size[p]
    /\ Goto(p, "publish", "save")
    /\ UNCHANGED <<size, next, held, committed, logged, saved, channel, svc>>

\* If publish fails, save to outbox: on another connection than the
\* transaction's.
Save(p) ==
    /\ CanAcquire
    /\ Goto(p, "save", "publish")
    /\ saved' = saved \cup {CurOrder(p)}
    /\ next' = [next EXCEPT ![p] = @ + 1]
    /\ UNCHANGED <<size, held, committed, logged, channel, svc>>

\* The outbox insert fails; its row may be there all the same.
SaveFail(p, landed) ==
    /\ landed => CanAcquire
    /\ Goto(p, "save", "rollback")
    /\ saved' = IF landed THEN saved \cup {CurOrder(p)} ELSE saved
    /\ UNCHANGED <<size, next, held, committed, logged, channel, svc>>

LogDone(p) ==
    /\ next[p] = size[p]
    /\ Goto(p, "publish", "commit")
    /\ UNCHANGED <<size, next, held, committed, logged, saved, channel, svc>>

-----------------------------------------------------------------------------
(* The connection and the process *)

ConnectionLost ==
    /\ svc # "down"
    /\ channel = "open"
    /\ channel' = "closed"
    /\ UNCHANGED <<pc, size, next, held, committed, logged, saved, svc>>

\* gracefulShutdown: the HTTP server stops taking calls and waits for those
\* it has, for 10 s.
Stop ==
    /\ svc = "up"
    /\ svc' = "draining"
    /\ UNCHANGED <<pc, size, next, held, committed, logged, saved, channel>>

\* RabbitMQ, the pool and the gRPC server are closed at the same time.
Close ==
    /\ svc = "draining"
    /\ svc' = "closing"
    /\ channel' = "closed"
    /\ UNCHANGED <<pc, size, next, held, committed, logged, saved>>

\* pool.Close() returns when every connection is back, and Run with it.
Exit ==
    /\ svc = "closing"
    /\ held = {}
    /\ svc' = "down"
    /\ pc' = [p \in Requests |-> IF pc[p] \in {"idle", "ok", "error"} THEN pc[p] ELSE "error"]
    /\ UNCHANGED <<size, next, held, committed, logged, saved, channel>>

\* The process dies or is killed: the database rolls its transactions back.
Crash ==
    /\ svc # "down"
    /\ svc' = "down"
    /\ channel' = "closed"
    /\ held' = {}
    /\ pc' = [p \in Requests |-> IF pc[p] \in {"idle", "ok", "error"} THEN pc[p] ELSE "error"]
    /\ UNCHANGED <<size, next, committed, logged, saved>>

Restart ==
    /\ svc = "down"
    /\ svc' = "up"
    /\ channel' = "open"
    /\ UNCHANGED <<pc, size, next, held, committed, logged, saved>>

\* The steps of a call in which nothing goes wrong but the publish.
Work(p) ==
    \/ Begin(p) \/ InsertOrders(p) \/ InsertItems(p)
    \/ Publish(p) \/ PublishFail(p) \/ Save(p) \/ LogDone(p)
    \/ Rollback(p) \/ Commit(p)

Next ==
    \/ \E p \in Requests :
          \/ \E n \in 0 .. MaxBatch : Call(p, n)
          \/ Work(p)
          \/ BeginFail(p) \/ InsertFail(p)
          \/ \E landed \in BOOLEAN : CommitFail(p, landed) \/ SaveFail(p, landed)
    \/ ConnectionLost \/ Stop \/ Close \/ Exit \/ Crash \/ Restart

Spec == Init /\ [][Next]_bvars

\* A call that can go on does.  Nothing in the service bounds how long a call
\* waits for a connection of the pool, so no failure is fair, but Acquire
\* fails at once when the pool is closed.
Fairness ==
    /\ \A p \in Requests :
          /\ WF_bvars(Work(p))
          /\ WF_bvars(svc = "closing" /\ (BeginFail(p) \/ SaveFail(p, FALSE)))
    /\ WF_bvars(Close) /\ WF_bvars(Exit) /\ WF_bvars(Restart)

FairSpec == Spec /\ Fairness

-----------------------------------------------------------------------------
(* Properties *)

Final == {"ok", "error"}

TypeOK ==
    /\ pc \in [Requests -> {"idle", "begin", "orders", "items", "publish", "save",
                            "rollback", "commit"} \cup Final]
    /\ size \in [Requests -> 0 .. MaxBatch]
    /\ next \in [Requests -> 0 .. MaxBatch]
    /\ held \in SUBSET Requests
    /\ committed \in SUBSET Orders
    /\ logged \in SUBSET Orders
    /\ saved \in SUBSET Orders
    /\ channel \in {"open", "closed"}
    /\ svc \in {"up", "draining", "closing", "down"}

\* No order is in the database without its audit message being in the queue or
\* in the outbox, whatever failed in between.
CommittedHandedOver == committed \subseteq logged \cup saved

\* An order's audit message is published or saved, never both: the outbox does
\* not add duplicates of its own.
HandedOverOnce == logged \cap saved = {}

\* An audit message of an order that is not in the database belongs to a call
\* that is still running or was answered with an error.
PhantomOnlyOnError ==
    \A p \in Requests :
        OrdersOf(p) \cap ((logged \cup saved) \ committed) # {}
            => pc[p] \notin {"idle", "begin", "orders", "items", "ok"}

\* Once the inserts are through and the auditor is called, the connection of the
\* transaction goes back to the pool on every way out, whichever order the
\* auditor failed on: a call that has ended holds a connection only since one of
\* its inserts failed.
ConnectionReturned ==
    [][\A p \in held' : pc'[p] \in Final =>
          /\ pc'[p] = "error"
          /\ p \in held /\ pc[p] \in {"orders", "items", "error"}]_bvars

\* Every call is answered if the pool has one connection more than there are
\* calls, which is the one the outbox inserts share.
CallsTerminate ==
    \A p \in Requests : pc[p] = "begin" ~> pc[p] \in Final

\* "If publish fails, save to outbox": the auditor gets on from there.
SaveCompletes ==
    \A p \in Requests : pc[p] = "save" ~> pc[p] # "save"

\* gracefulShutdown "shuts down HTTP server, RabbitMQ and PostgreSQL
\* connections": once called, the process ends.
ShutdownCompletes == svc = "closing" ~> svc = "down"

-----------------------------------------------------------------------------
(* What creating orders promises: see AuditedCommit *)

Answer == [p \in Requests |-> IF pc[p] = "idle" THEN "none"
                              ELSE IF pc[p] \in Final THEN pc[p] ELSE "open"]

Created == [p \in Requests |-> OrdersOf(p)]

Announced == logged \cup saved

Audited == INSTANCE AuditedCommit WITH
    Calls <- Requests, answer <- Answer, batch <- Created, announced <- Announced,
    stored <- committed

\* However transaction, auditor, connection and process fail, orders are stored
\* call by call and after they were announced, and an answer is final.
ImplementsAuditedCommit == Audited!Spec

=============================================================================
