# backend-labs: a verification development

TLA+ models of the two services of this repository, the TLC configurations that check them,
and TLAPS proofs about every part of them.

* **order-svc** takes batches of orders over HTTP and gRPC, writes them to PostgreSQL in a
  transaction, and publishes an audit message per order to RabbitMQ before it commits. A message
  that cannot be published goes to the `outbox` table, whose worker publishes it later.
* **order-audit-consumer-svc** consumes the audit messages and writes a row per order item to the
  audit log. A message it cannot process goes to the `inbox` table, whose worker processes it later.

## 1. Inventory

| Part | State | Operations | What makes it hard |
|---|---|---|---|
| `BatchInsert` path (`ordersvc.go`, `uow.go`, `audit.go`) | a transaction and its pool connection, the channel, outbox rows | begin, two bulk inserts, publish or save per order, commit / rollback | the publish and the outbox insert are not part of the transaction; the fallback needs a second connection; error paths that do not roll back |
| Items of a batch (`ordersvc.go:94-108`) | one slice of all items | collect, insert, give back by index | index arithmetic, slice capacity |
| Outbox table and worker (`worker/outbox`, `repositories/outbox`) | rows with retry count and next retry time; the batch in hand | poll, publish, delete, update retry | crash between publish and delete, stale batch, backoff and limit, shutdown in the middle of a batch |
| Life of order-svc (`app.go`, `rabbitmq.go`, `postgres.go`) | worker context, servers, one connection and channel, the pool | start, graceful shutdown | the channel is never reopened; nobody waits for the worker; the pool waits for every connection |
| Audit consumer (`consumer.go`, `consumersvc.go`, `repositories/audit`) | reader, up to 50 handlers, errgroup context, unacknowledged deliveries | receive, audit item by item, save to inbox, ack / nack | redelivery, shared context that the first error cancels, partial work, shutdown |
| Inbox table and worker (`worker/inbox`, `repositories/inbox`) | rows, unique by message id; the batch in hand | poll, audit item by item, delete, update retry | races with the handlers over the same order, partial passes |
| Life of the audit service (`app.go`, `rabbitmq.go`) | one context for consumer and worker, one channel | start, shutdown | as above |
| Listing orders (`order_service.go`, `GetOrders`, `Query` of both repositories) | what the two statements read | list | two statements without a transaction next to running transactions; paging arguments that are filled and read under different names |
| The way to the audit log (`audit.go`, both `rabbitmq.go`, both workers, `consumer.go`) | the wire, the queue, both tables, the audit log | publish, deliver, acknowledge, retry | no confirms, a queue that is not durable, connections that break, a consumer that stays up without a channel |
| Servers (`http.go`, `grpc.go`) | running calls | serve, shut down | calls outlive the channel and the pool |
| Logging, telemetry, configuration, the unused gRPC client and HTTP handlers | none of interest | | |

The parts interact through the outbox table (calls insert, the worker removes), the AMQP channel
(calls and worker publish), the pool (transactions, outbox inserts and worker statements), the
queue between the services, the inbox table and the audit log (handlers and worker write both), and
the life of each process.

## 2. Modules

| Module | Models | Composes |
|---|---|---|
| `RetryTable` | abstract: what a table of retried messages promises | |
| `OutboxWorker` | outbox table, its worker, connection, process | implements `RetryTable` |
| `OutboxWorkerProofs` | TLAPS proofs of the safety of `OutboxWorker`, and that it implements `RetryTable` | |
| `AuditedCommit` | abstract: what creating orders promises to the clients and to the audit log | |
| `BatchInsert` | concurrent calls of `BatchInsert`, pool, channel, shutdown | implements `AuditedCommit` |
| `BatchInsertProofs` | TLAPS proofs of the safety of `BatchInsert`, and that it implements `AuditedCommit` | |
| `OrderSvc` | order-svc as a whole | `BatchInsert`, `OutboxWorker`; implements both |
| `OrderSvcProofs` | TLAPS proofs that `OrderSvc` implements both and what they implement, and of its own invariants | the proofs of both |
| `OrderStore` | abstract: one store of orders, which lists see as it was at one moment | |
| `OrdersApi` | what clients are answered: `BatchInsert` and `ListOrders` on the two tables, items given back to orders | implements `OrderStore` |
| `OrdersApiProofs` | TLAPS proofs about the answers of lists and of calls, and that `OrdersApi` implements `OrderStore` | |
| `AtLeastOnce` | abstract: what a consumer promises that acknowledges after its work, alone or with retries | |
| `AuditConsumer` | queue, reader, handlers, errgroup, process | implements `AtLeastOnce` |
| `AuditConsumerProofs` | TLAPS proofs of the safety of `AuditConsumer`, and that it implements `AtLeastOnce` | |
| `InboxWorker` | inbox table, its worker | implements `RetryTable` |
| `InboxWorkerProofs` | TLAPS proofs of the safety of `InboxWorker`, and that it implements `RetryTable` | |
| `AuditSvc` | the audit service as a whole | `AuditConsumer`, `InboxWorker`; implements `RetryTable` and `AtLeastOnce` |
| `AuditSvcProofs` | TLAPS proofs of the invariants of `AuditSvc`, and that it implements both | the proofs of both |
| `AuditPipeline` | the way of a message from the call to the audit log, with the broker | `RetryTable` twice: the outbox and the inbox |
| `AuditPipelineProofs` | TLAPS proofs of the safety of `AuditPipeline` | |

`MCx` modules give the constants of `x` values for TLC.

### How the models correspond to the code

Every database statement, publish and acknowledgement is a step of its own, so that other calls,
goroutines, a shutdown, a crash or the loss of the connection can come between any two of them. A
step that can fail has a failing twin (`Delete` / `DeleteFail`); a statement that may have taken
effect although its call returned an error takes an argument `landed`.

**OutboxWorker.** `outbox[m]` is the row of message `m` (`retry_count`, and the time left until
`next_retry_at`); `batch` is what `GetPendingMessages` returned and is still to be processed; `wpc`
is the worker's place in the loop of `processMessages`. Time is a `Tick` of the retry interval (30 s).
`ORDER BY next_retry_at` is abstracted to any order, `LIMIT` and the `WHERE` clause are kept.
`channel` is opened by `Restart` only, as in `MustNewClient`. `redo[m]` counts the publishes that
were not followed by a delete; it exists for the properties.

**BatchInsert.** `pc[p]` is the place of call `p` in `BatchInsert` and `LogBatchInsert`; `held` are
the calls whose transaction holds a connection. `Begin` and `Save` (the outbox insert) need a
connection of the pool; a failed insert leaves the call in `held`, because the code returns without
`Rollback`. A shutdown is `Stop` (http.Shutdown), `Close` (RabbitMQ, pool and gRPC in parallel) and
`Exit`, which waits for every connection, as `pgxpool.Close` does.
To `AuditedCommit` an order is *announced* when it was published or saved, a call is *open* from
`Call` to its answer, and its orders are *stored* by the step that commits them: `Commit`, or a
`CommitFail` whose commit took effect. `Publish`, `Save` and a `SaveFail` whose insert took effect
announce, and the end of the process interrupts every open call.

**OrderSvc** runs the actions of both modules on shared variables: a call's insert makes the
worker's row (`SaveRow`), the worker's statements need a connection the transactions leave free,
and the life of the process is one.

**OrdersApi.** `openOrders` and `openItems` are the rows of open transactions, `orders` and `items`
the committed ones; `Commit` moves all rows of a call at once, and a statement of a list sees what
is committed when it runs. `known[l]` are the orders any client had been shown when list `l`
arrived; it exists for the properties. `ListOrdersRequestFromProto` and `OrderQuery` hand the
request's fields on as the code does, under the names it reads and writes: `Limit` and `Offset` are
filled, `Page` and `PageSize` are used. `Results` leaves open which rows `LIMIT` and `OFFSET` pick,
since the statement has no `ORDER BY`. `Given` follows the slice expression
`orderItems[i*n : (i+1)*n]` with Go's rule that a slice is bounded by the capacity of its operand;
`BulkInsert` appends row by row to an empty slice, so that its capacity is the least of `Capacities`,
the sizes a slice grows through, that holds all items; what is beyond the items is zero values.
Which statements of a call
fail, the pool and the audit are in `BatchInsert`; `Fail` stands for all of them here.
To `OrderStore` a list sees the store when its *first* statement runs (`QueryOrders`), although the
items are read later: from then on `View` gives each order found the items it has, and the second
statement finds just those. A call's orders appear with its commit. Which part of the matching
orders a list with limit or offset sees, `OrderStore` leaves open (`Selections`), since the statement
has no order.

**AuditConsumer.** `queue`, `acked`, `dropped` count copies of a message, handlers hold the
deliveries in progress; `GiveBack` is what the broker does when the channel closes. A message in
the client's prefetch buffer, or waiting for a free handler, counts as still in the queue. `gctx` is
the context of the errgroup: `Return` with an error cancels it, and it stays cancelled until the
process is restarted. A handler with no items to write goes straight to the acknowledgement.
To `AtLeastOnce` the copies *owed* are those in the queue and those delivered and not settled, what
is *kept* has a row in the inbox, and a part is *written* when its row is in the audit log, once or
more often. A handler that was cut off from its channel still writes and keeps, but settles nothing.

**InboxWorker** is built like `OutboxWorker`, with a pass over the items of an order (`item`)
instead of the publish. Which of the pending rows are due is left open.

**AuditSvc** runs handlers and worker on the same inbox and audit log. Its mapping to `RetryTable` is
the worker's; `HandedByHandler` is the step the worker alone does not make, in which a handler writes
the last item of a message, whatever the state of its row. Its mapping to `AtLeastOnce` is the
consumer's; the worker writes what is *kept* and removes what is written in full
(`SpecWithRetries`).

**AuditPipeline** takes a step of it to be what a handler, a call or a worker does to one message:
`HandlerAudits` is all items of an order, `OutboxPublish` the publish of a row. The tables are
`RetryTable`, so that what `OutboxWorker` and `InboxWorker` are proved to implement is what is
composed here. `wire[m]` are the copies written to order-svc's connection that have not reached the
broker: `Reach` moves one to the queue, `Break` loses them. `consumer` is *up*, *cancelled* (after a
handler's error) or *deaf*, when its channel is gone and the process stays up without it.
`BrokerRestart` empties the queue (`rabbitmq.queue.durable` is false in both configurations) and cuts
both connections. `sent` and `lost` exist for the bound and the properties.

## 3. Runs

| Run | What it shows | Bounds |
|---|---|---|
| `outbox_worker` | A saved message is never lost, is published again only after a publish without its delete, is given up no sooner than the backoff allows and is silent afterwards; the worker's copy of a row is never stale; every row settles; `RetryTable` is implemented | 2 messages in one batch, 2 retries, 1 publish per message left without its delete |
| `batch_insert` | Committed orders are handed over, once; audits of orders that do not exist belong to failed calls; once the inserts are through, the connection comes back on every way out, whichever order the auditor failed on; calls end; `AuditedCommit` is implemented | 2 calls of up to 2 orders, 3 connections |
| `batch_insert_pool` | *violation*: the fallback to the outbox may wait for ever | 2 calls, 2 connections |
| `batch_insert_shutdown` | *violation*: a leaked connection blocks the shutdown | 2 calls, 2 connections |
| `order_svc` | Nothing is forgotten, nothing is sent twice without cause, a committed order's message settles; the composition implements `BatchInsert` and `OutboxWorker` | 2 calls of one order, 2 connections, 1 retry, batches of one row |
| `audit_consumer` | Every copy is accounted for; what is acknowledged is kept; nothing well-formed is dropped; no unexplained duplicates in the audit log; `AtLeastOnce` is implemented: no gaps, and nothing is settled before its work is done | an order of 2 items sent twice, a malformed message sent twice, 2 handlers |
| `audit_consumer_group` | *violation*: after one handler's error, messages go round the queue for ever | one copy each |
| `inbox_worker` | A message leaves the inbox only when fully audited; the batch is never stale; every message settles; `RetryTable` is implemented | orders of 2 items and 1 item in one batch, 2 retries |
| `audit_svc` | With the handlers inserting and auditing the worker's message at the same time, an acknowledged order is kept, and settles; the inbox is still a `RetryTable`, and the service implements `AtLeastOnce` with retries | an order of 2 items sent twice, 2 handlers, 2 retries |
| `orders_api` | A list has no order without its items or with some of them, and without limit and offset has every order that matches and that anybody was shown before; items come back to their order exactly when the items in front are as many as if all orders had the same number; `OrderStore` is implemented | all batches of up to 3 orders of up to 3 items, next to a batch of one order of another customer; 2 lists, each of all orders, of all with a limit of 1, or with both filters; slices of 1, 2, 4, 8 or 16 items |
| `orders_api_mixed` | *violation*: mixed batches get other orders' items | the same |
| `audit_pipeline` | An order in the database is in the outbox or on its way to the audit log, unless a copy nobody confirmed was lost; it is audited in the end, given up, or waits for a restart of the consumer | one order, 3 copies, 2 retries |

What follows from an abstract specification that a run checks is not checked beside it: of the outbox
worker `RemovedOnlyAfterPublish` and of the inbox worker `RemovedOnlyAfterAudit` follow from
`ImplementsTable` (`Remove` asks that the message was handed over), `AuditedInOrder` from
`ImplementsDelivery` (`WritePart` asks for the parts in front). In `audit_svc` a stale batch
(`SnapshotFresh`) would show as a step that is none of the table's. The theorems state all of these.

**Why the bounds are enough.** Two messages, calls or handlers are what a race needs: nothing in the
code looks at three of them together. Two rows in one batch have one waiting behind the other with
the table changing meanwhile; in `order_svc` a batch has one row, so that another row may fill it
again and again. Two retries go through a first, a repeated and a last failure. Two
copies of a message give a redelivery that meets the inbox row, or the handler, of the first. Two
items allow a failure between them. The pool of `batch_insert` is larger than the number of calls,
since `CallsTerminate` needs that; in `order_svc` and in the violations the calls compete for it.
`MaxRedo`, `MaxCopies` and `MaxBatch` bound counters in guards; `MaxAudits` and `Horizon` are
values beyond which larger numbers are not told apart. `audit_pipeline` has one order because its
messages meet only in the state of the connections and services, which failures set at any time
anyway; the proof is for any number. Its three copies are one from the call, one redelivered or
repeated by the worker, and one more while the first is in the inbox. In `orders_api`, three orders
are the fewest with one in the middle, and two lists the fewest with one that is shown what the
other must have.

`orders_api` does not check for deadlock, because calls and lists end. All other models never stop.

### Violations: where the code and its own words differ

1. **The outbox fallback can wait for ever** (`SaveCompletes`). "If publish fails, save to outbox"
   (`audit.go:92`): the insert takes a second connection of the pool while the call's transaction
   holds the first. With RabbitMQ gone, as many calls as the pool has connections wait for each other.
2. **A failed insert blocks the shutdown** (`ShutdownCompletes`). `BatchInsert` returns at
   `ordersvc.go:91` and `:103` without rolling back; `pool.Close()` waits for the connection.
3. **One error poisons the consumer** (`EveryMessageHandled`). The handlers share the context of an
   errgroup (`consumer.go:98`) that is never renewed. TLC's shortest way is an audit insert and an
   inbox insert that fail for the same message; a message that cannot be decoded does it as well.
4. **Mixed batches get wrong items** (`OrdersKeepTheirItems`): `ordersvc.go:107`. TLC's shortest way
   is a batch of orders of one and of two items: the slice of the three has room for four, and the
   second order is answered its last item and a zero value.

Further divergences, which have no run:

* `ListOrdersRequest` has `limit` and `offset` (`order.proto:61-62`, `order.swagger.json:104-118`, and
  `list_orders.go:63-73` parses them), the converter fills `Limit` and `Offset`
  (`converters.go:132-133`), but `GetOrders` reads `Page` and `PageSize` (`ordersvc.go:141-142`),
  which nothing fills: no list is ever cut, whatever limit its client names. The model hands the
  fields on as the code does; `KnownAreListed` is about requests without limit and offset only, and
  `OrderStore` allows a list that names one any part of what matches, so neither says that a limit
  may be ignored.
* A connection kept by a failed insert (2) is one the outbox worker queries on, too: after as many of
  them as the pool has connections, `GetPendingMessages` waits for ever in a process that is up, and
  so does every call. `ConnectionReturned` says that nothing else keeps a connection.
* `Consumer.Run` "starts consuming messages from RabbitMQ" (`consumer.go:77`). When the channel is lost
  the reader ends (`:110`), `Run` returns nil, and the process stays up, *deaf*, with the messages in
  the queue, until somebody restarts it.
* `consumer.go:234` says "Wait for processing to finish with timeout", but `Shutdown` waits for
  `done`, which the reader closes (`:106`, `:112`). Handlers are waited for by `Run` only (`:125`),
  which nobody waits for: the channel and the pool are closed under them. `AuditConsumer` models
  this (`Close` does not ask for idle handlers), and its invariants hold all the same.
* "Commit transaction only if audit logging succeeded" (`ordersvc.go:121`): a publish that returned
  no error may still be lost, as `AuditPipeline` shows (`lost`), and the order is committed.
* The comment at `worker/outbox/worker.go:113` gives the series 30s, 60s, ..., the code starts at
  60 s (the first 30 s come from `audit.go:113`); the log says "will retry" after the last failure
  too (`worker.go:116`), when the row is never read again.
* The HTTP handlers `create_order` and `list_orders` are not registered; HTTP requests reach
  `OrderServer` through the gRPC gateway, in the process itself.

## 4. Fairness

* `OutboxWorker`, `InboxWorker`, `AuditSvc`, `OrderSvc`: time passes, a process told to stop ends,
  and one that is down is started again (by whoever runs it: the compose file gives the two
  services no restart policy). The worker's steps
  are strongly fair while the service is up: the service may be stopped, crash, or be cut off from the
  database again and again, but not always at the same step. Failures themselves are never fair,
  and nothing makes the connection stay up. `InboxWorker` asks that a row that stays due comes first
  in a poll in the end: rows saved or retried meanwhile have a later `next_retry_at`.
* `OrderSvc` also takes it that a process whose shutdown does not end is killed.
* `BatchInsert`: a call that can go on does; `Acquire` fails at once on a closed pool. Nothing
  bounds how long a call waits for a connection (the server sets no deadline on the calls'
  contexts), so giving up is not fair.
* `AuditPipeline`: what is on the wire arrives if the connection holds (weak fairness); deliveries
  are handled, and the two workers come round to every pending row although services are restarted
  again and again (strong fairness; `EveryRowSettles` of the two worker modules shows this of the
  code). That a connection is made again or a service restarted is not assumed: `CommittedSettles`
  therefore ends where the consumer is not *up*.
* `AuditConsumer`: the reader takes what the broker delivers, handlers go on, and a statement on a
  cancelled context, or an insert of a row that exists, fails.

## 5. Proofs

All theorems hold for every value of the constants that meets the assumptions of the module
(positive limits, capacities that are numbers, finite sets of calls and of handlers; for the worker a backoff that starts at one
unit, doubles up to its largest value, and a `NoRow` that is no row). The composed modules assume of
their constants what the parts do.

### The outbox worker (`OutboxWorkerProofs`)

`Spec` implies `[]TypeOK`, `[]SnapshotFresh`, `[]RemovedOnlyAfterPublish`, `[]DuplicatesExplained`,
`[]AbandonedOnlyAfterWindow` and `AbandonedStaysSilent`. The properties are not inductive. `IInv`
adds to them what they rest on:

* `UnsavedUntouched`: a message that was never saved has no row and was never published, so a row
  begins with no publishes.
* `HandedOver`: a saved message without a row was published, and so was the message the worker is
  about to delete. A publish that failed must not lead to the delete.
* `CopiesCounted`: `published[m]` is at most `redo[m]`, and at most one more when the row of `m` is
  gone or the worker is about to delete it.
* `AgeCoversWaits`: the age of a row covers the backoffs up to its retry count, less the wait
  that is still ahead. It needs `SnapshotFresh`: a stale retry count, or a row written before
  its wait is over, would cut the window.

`SnapshotFresh` is proved first (`FreshStep`), because every write of the worker relies on it: the
current row is there, with the retry count the batch says, and no later entry of the batch is the
same row. `CopiesStep` and `AgeStep` follow action by action.

It also implements the abstract table: `Spec => ImplementsTable`, with the mapping of `OutboxWorker`: a row is *pending* until it is out
of retries (*dead*), a message is *handed* once it was published, and *tries* is the retry count.
`Save` maps to `Enter`, `PublishOk` to `HandOver`, `Delete` to `Remove` and `UpdateRetry` to
`Miss`; all other steps leave the table as it is. That the row in hand is pending, and was handed
over before it is deleted, comes from `IInv`.

### The create-orders path (`BatchInsertProofs`)

`Spec` implies `[]TypeOK`, `[]CommittedHandedOver`, `[]HandedOverOnce`, `[]PhantomOnlyOnError` and
`ConnectionReturned`, for any number of calls, any size of batches and any pool. `IInv` ties the
auditor's place in its loop to the rest:

* `LoopInBatch`: the loop stays in the batch, and the commit comes only when it is at its end.
* `DoneHandedOver` and `NoneAhead`: what the auditor is done with is published or saved, and nothing
  further on is, except for the row of an outbox insert that returned an error.
* `CommittedWhole`: a call is committed as a whole, when the loop is at its end.
* `HeldInside`: who holds a connection is in a transaction, or has failed with none of its orders audited.

`CommittedHandedOver` follows from the first three, `HandedOverOnce` needs `NoneAhead` (the next
order was not handed over yet), `PhantomOnlyOnError` needs that an unanswered call's loop has not
begun or is still going. `ConnectionReturned` is about steps: with `HeldInside`, a call that ends and
keeps its connection came from one of its inserts, since `Rollback`, `Commit` and `CommitFail` give it
back, and `Exit` waits for it.

`Spec => ImplementsAuditedCommit` follows with one lemma for each kind of step. The auditor's step
announces an order of its call that nobody announced (`NoneAhead`), a commit has every order of
its call announced (`DoneHandedOver` with the loop at its end) and stores them all at once, whether
or not it returns an error, and a call that starts takes orders nobody has heard of (`NoneAhead` with
an empty batch).

### order-svc as a whole (`OrderSvcProofs`)

The module instantiates `BatchInsertProofs` and `OutboxWorkerProofs` on the variables of `OrderSvc`.
`Spec => ImplementsCalls` and `Spec => ImplementsWorker` are proved step by step; with them the
inductive invariants of the two parts, proved there, hold of the whole.

The worker's model allows a row to be saved only while the channel is closed, and only once. The
calls keep to that: `NoneAhead` of their invariant says that the order a call is about to save has
not been saved, and `SaveWhenClosed` that a call comes to the outbox only after the channel was
closed, and that none is left there when a new process opens another.

`NothingForgotten` takes a fact from each side: a committed order was published or saved
(`DoneHandedOver`), and a saved order without a row was published by the worker (`HandedOver`).
`SentOnce` needs that the auditor's orders are never the worker's (`HandedOverOnce`,
`UnsavedUntouched`) and that the worker repeats only publishes left without their delete
(`CopiesCounted`).

Because `OrderSvc` implements the specifications of its parts, what these are proved to do or to
implement is true of the whole, on its pool and its channel: `PhantomsAreErrors`, `OnlyInsertsLeak`,
`WindowRespected`, and the abstract specifications by transitivity, `Calls!ImplementsAuditedCommit`
(`AuditedCommitImplemented`) and `Worker!ImplementsTable` (`OutboxImplemented`). An operator of an
instance of a proof module is not the operator of the instance in `OrderSvc`: each of these proofs
shows first that the two agree.

### What clients are answered (`OrdersApiProofs`)

`Spec` implies `[]TypeOK`, `[]ListedWhole`, `[]KnownAreListed`, `[]KeptExactlyWhenAligned` and
`ImplementsStore`, for any number of calls, lists and requests and batches of any length with any
numbers of items. `IInv` adds:

* `OpenRows`: the open rows are exactly those of the calls that have come past the insert.
* `CommittedRows`: a committed order has all its items, and a call that was answered has all its
  orders committed. A list that reads an order therefore finds its items in the later statement.
* `Listed`: what a list knew and found is committed, and it found every known order that matches.

`Results` is used only through the fact that limit and offset are zero when it is reached.

`ItemsAligned` is about the index arithmetic of `ordersvc.go:94-108`. The slice of all items is a
fold over the batch; the library's induction theorems take an operator, which the provers cannot
instantiate, so `Induct` states induction over a *set* of numbers, from the well-foundedness of `<`.
`Flattened` unrolls the fold of `FlattenSeq`, `Counted` the sum of the items in front of an order,
`Layout` says which row is where in the slice, `NoRepeats` that no row is there twice. From them
`OwnBack`: an order with items gets its own exactly when the rows in front of it are as many as if
every order in front had its number; and `UniformFits`: with equal numbers no slice is out of range.
`GivenBack` (what `Group` answered is `Given` of the call's batch, `Panic` had a slice out of range)
is kept by every step.

`StoreImplemented` rests on two facts: an order's items never change once it is committed
(`StoredEntries`, from `CommittedRows`), so that the items a list will read are known when it has read
the orders (`ViewIs`); and nothing but the two statements of a list changes what it has seen
(`ViewStays`).

### The audit consumer (`AuditConsumerProofs`)

`Spec` implies `[]TypeOK`, `[]CopiesConserved`, `[]AckedIsKept`, `[]OnlyMalformedDropped`,
`[]AuditedInOrder` and `[]DuplicatesExplained`, for any messages, items, copies and any finite set of handlers. `IInv` adds
`HandlersOK`, which ties a handler's place to its message (it has written the items before `hitem`,
rejects exactly what is malformed, and acknowledges only what is audited in full or in the inbox),
and `DownIsIdle`. The copies are counted with cardinalities of sets of handlers: the lemmas
`ReceiveCounts` and its kin say how each step changes what the broker waits for.

`DuplicatesExplained` needs `WritesCounted`: the rows of an item together with the handlers that may
still write it (`MayWrite`) are at most the deliveries that are unacknowledged, acknowledged or
given back. A handler that goes on after its channel was closed is paid for by the delivery that
was given back, one that writes a row leaves `MayWrite`, and one that rejects a message never wrote
any.

`Spec => ImplementsDelivery` needs one more invariant, `HeldIsQueued`: when the channel is closed,
the queue has at least as many copies of a message as there are handlers that still work on one. It
says that a handler cut off from its channel does not write something the broker no longer owes
(`OwedInHand`); a copy goes back to the queue in the same step in which the channel closes, and can
not be delivered again before the process, and the handler with it, is gone.

### The inbox worker (`InboxWorkerProofs`)

`Spec` implies `[]TypeOK`, `[]SnapshotFresh` and `RemovedOnlyAfterAudit`, and `ImplementsTable` if
every order has an item: an order without items counts as audited from the start, so that its first
step would be no step of `RetryTable`. `IInv` adds `PassRecorded`: the items the pass has come past
are in the audit log, and all of them before the delete.

### The audit service as a whole (`AuditSvcProofs`)

Handlers and worker write the same two tables, so neither part's specification holds as it stands:
`AuditConsumer` knows nobody who removes rows from the inbox. Instead the invariants of both parts,
taken from `AuditConsumerProofs` and `InboxWorkerProofs` by instantiation, are shown to hold
together. Each is kept by its own side's steps (`Inductive` of either module) and by anything the
other side may do to what they share: audit rows are only added and in order (`AuditsGrow`), the
handlers leave the worker's rows alone (`RowsStay`), and the worker removes a row only when its
order is audited in full (`RowsSettle`). `[]AckedIsKept`, `[]AuditedInOrder` and `[]SnapshotFresh`
follow.

`TableImplemented`: if every order has an item, the inbox is a `RetryTable`, with the steps of
`HandedByHandler` added. The worker's steps map as in `InboxWorkerProofs`; what is to be shown of
the handlers is that an insert meets no row of the message, live or out of retries, and that their
writing changes no row. `DeliveryImplemented`: each consumer step was shown to be a step of
`AtLeastOnce` under the consumer's invariant and `HeldIsQueued`, which the worker does not touch
(`WorkerOwesAlike`); the worker writes items only of what is in its batch and so kept, in order
(`PassRecorded`), and removes a row only when the order is written in full (`WorkerDelivers`).

### The way to the audit log (`AuditPipelineProofs`)

`Spec` implies `[]CommittedAccounted`, for any number of orders, retries and copies. `IInv` adds that
what was ever published is on its way or lost (`SentOnItsWay`), that what is about to be
acknowledged is kept (`DoneIsKept`), that a table is told a message was handed over only when it was
(`HandedIsTrue`), and that a call commits only with its message handed over (`AuditBeforeCommit`).

### Only model-checked

* Liveness (`EveryRowSettles`, `CallsTerminate`, `AckedSettles`, `CommittedSettles`), which is out of
  the prover's reach.
* Of `ImplementsTable` of `InboxWorker` and `AuditSvc`, the case of orders without items: the theorems
  assume there are none. The code lets such an order be created; a handler acknowledges its message
  at once, and `RetryTable` has no step for a message handed over before it was saved.

## 6. Not modelled

* The servers' routing and middleware, logging, telemetry, configuration, the generated API code,
  and the code nothing calls (the gRPC client of the audit service, the HTTP handlers).
* Channel errors that leave the connection open, and RabbitMQ's flow control.
* The order of `RETURNING`: `BulkInsert` (`order/postgres.go:152`) takes the rows to come back in the
  order of the request, which PostgreSQL does and SQL does not promise.
* The branch of the inbox worker for payloads that cannot be decoded: the consumer saves only what
  it has decoded (`OnlyMalformedDropped`).
* The contents of orders and messages. JSON encoding of an order does not fail.
* Several instances of a service: the compose file starts one of each.

## 7. Plan

* `AuditPipeline` takes the two tables as `RetryTable`, which is proved of both, but its calls and
  handlers are models of their own. To tie them to `OrderSvc` and `AuditSvc` by refinement, its
  calls have to commit several orders at once, and the two services need a history of the wire.
* A run of `AuditPipeline` with two orders, if it is made cheaper.
