--------------------------- MODULE OrderSvcProofs ---------------------------
(***************************************************************************)
(* order-svc as a whole, for any number of calls, orders, retries and      *)
(* connections.  The calls and the worker are shown to implement the       *)
(* models that treat them apart, so that what BatchInsertProofs and        *)
(* OutboxWorkerProofs prove of those holds of the two in one process; the  *)
(* properties of the whole follow from the two invariants together.        *)
(***************************************************************************)
EXTENDS OrderSvc, TLAPS

CallsSafety == INSTANCE BatchInsertProofs

WorkerSafety == INSTANCE OutboxWorkerProofs WITH Messages <- Orders, svc <- WorkerSvc

-----------------------------------------------------------------------------
(* The calls *)

\* A step of order-svc is a step of the calls, or none that they can tell.
LEMMA CallsStep == [Next]_vars => [Calls!Next]_(Calls!bvars)
<1> SUFFICES ASSUME [Next]_vars PROVE [Calls!Next]_(Calls!bvars)
    OBVIOUS
<1>1. CASE \E p \in Requests : CallStep(p)
    BY <1>1 DEF CallStep, Calls!Next, Calls!Work
<1>2. CASE \E p \in Requests : SaveRow(p)
    BY <1>2 DEF SaveRow, Calls!Next, Calls!Work
<1>3. CASE WorkerQuery \/ WorkerPublish \/ WorkerQueryFail \/ Tick
    <2>1. UNCHANGED <<callVars, svc>>
        BY <1>3 DEF WorkerQuery, WorkerPublish, WorkerQueryFail, Tick
    <2>2. UNCHANGED <<saved, channel>>
        BY <1>3
        DEF WorkerQuery, WorkerPublish, WorkerQueryFail, Tick, Worker!Poll, Worker!Delete,
            Worker!UpdateRetry, Worker!PublishOk, Worker!PublishFail, Worker!DeleteFail,
            Worker!UpdateRetryFail, Worker!Tick
    <2>. QED
        BY <2>1, <2>2 DEF Calls!bvars, callVars
<1>4. CASE ConnectionLost \/ Stop \/ Close \/ Exit \/ Crash \/ Restart
    BY <1>4 DEF ConnectionLost, Stop, Close, Exit, Crash, Restart, Calls!Next
<1>5. CASE UNCHANGED vars
    BY <1>5 DEF vars, callVars, Calls!bvars
<1>. QED
    BY <1>1, <1>2, <1>3, <1>4, <1>5 DEF Next

\* The worker keeps out of the calls' way: to them, order-svc behaves like the
\* calls on their own.
THEOREM CallsImplemented == Spec => ImplementsCalls
<1>1. Init => Calls!Init
    BY DEF Init
<1>. QED
    BY <1>1, CallsStep, PTL DEF Spec, ImplementsCalls, Calls!Spec

\* The whole is a behaviour of the calls as BatchInsertProofs knows it.
LEMMA CallsBehave == Spec => CallsSafety!Spec
<1>1. Calls!Init => CallsSafety!Init
    BY DEF Calls!Init, CallsSafety!Init
<1>2. [Calls!Next]_(Calls!bvars) => [CallsSafety!Next]_(CallsSafety!bvars)
    <2> USE DEF Calls!Goto, CallsSafety!Goto, Calls!CanAcquire, CallsSafety!CanAcquire,
            Calls!CurOrder, CallsSafety!CurOrder, Calls!OrdersOf, CallsSafety!OrdersOf,
            Calls!Cardinality, CallsSafety!Cardinality
    <2>1. \A p \in Requests, n \in 0 .. MaxBatch : Calls!Call(p, n) => CallsSafety!Call(p, n)
        BY DEF Calls!Call, CallsSafety!Call
    <2>2. ASSUME NEW p \in Requests
          PROVE  /\ Calls!Begin(p) => CallsSafety!Begin(p)
                 /\ Calls!BeginFail(p) => CallsSafety!BeginFail(p)
                 /\ Calls!InsertOrders(p) => CallsSafety!InsertOrders(p)
                 /\ Calls!InsertItems(p) => CallsSafety!InsertItems(p)
                 /\ Calls!InsertFail(p) => CallsSafety!InsertFail(p)
        BY DEF Calls!Begin, CallsSafety!Begin, Calls!BeginFail, CallsSafety!BeginFail,
            Calls!InsertOrders, CallsSafety!InsertOrders, Calls!InsertItems,
            CallsSafety!InsertItems, Calls!InsertFail, CallsSafety!InsertFail
    <2>3. ASSUME NEW p \in Requests
          PROVE  /\ Calls!Publish(p) => CallsSafety!Publish(p)
                 /\ Calls!PublishFail(p) => CallsSafety!PublishFail(p)
                 /\ Calls!LogDone(p) => CallsSafety!LogDone(p)
                 /\ Calls!Save(p) => CallsSafety!Save(p)
                 /\ \A landed \in BOOLEAN :
                       Calls!SaveFail(p, landed) => CallsSafety!SaveFail(p, landed)
        BY DEF Calls!Publish, CallsSafety!Publish, Calls!PublishFail,
            CallsSafety!PublishFail, Calls!LogDone, CallsSafety!LogDone,
            Calls!Save, CallsSafety!Save, Calls!SaveFail, CallsSafety!SaveFail
    <2>4. ASSUME NEW p \in Requests
          PROVE  /\ Calls!Rollback(p) => CallsSafety!Rollback(p)
                 /\ Calls!Commit(p) => CallsSafety!Commit(p)
                 /\ \A landed \in BOOLEAN :
                       Calls!CommitFail(p, landed) => CallsSafety!CommitFail(p, landed)
        BY DEF Calls!Rollback, CallsSafety!Rollback, Calls!Commit, CallsSafety!Commit,
            Calls!CommitFail, CallsSafety!CommitFail
    <2>5. /\ Calls!ConnectionLost => CallsSafety!ConnectionLost
          /\ Calls!Stop => CallsSafety!Stop
          /\ Calls!Close => CallsSafety!Close
          /\ Calls!Exit => CallsSafety!Exit
          /\ Calls!Crash => CallsSafety!Crash
          /\ Calls!Restart => CallsSafety!Restart
          /\ UNCHANGED Calls!bvars => UNCHANGED CallsSafety!bvars
        BY DEF Calls!ConnectionLost, CallsSafety!ConnectionLost, Calls!Stop,
            CallsSafety!Stop, Calls!Close, CallsSafety!Close, Calls!Exit,
            CallsSafety!Exit, Calls!Crash, CallsSafety!Crash, Calls!Restart,
            CallsSafety!Restart, Calls!bvars, CallsSafety!bvars
    <2>. QED
        BY <2>1, <2>2, <2>3, <2>4, <2>5
        DEF Calls!Next, CallsSafety!Next, Calls!Work, CallsSafety!Work
<1>3. Calls!Spec => CallsSafety!Spec
    BY <1>1, <1>2, PTL DEF Calls!Spec, CallsSafety!Spec
<1>. QED
    BY <1>3, CallsImplemented, PTL DEF ImplementsCalls

\* The invariant of the calls holds in the whole.
LEMMA CallsInvariant == Spec => []CallsSafety!IInv
<1>1. CallsSafety!Spec => []CallsSafety!IInv
    BY CallsSafety!Invariant, CallsAssumption DEF IsFiniteSet, CallsSafety!IsFiniteSet
<1>. QED
    BY <1>1, CallsBehave, PTL

-----------------------------------------------------------------------------
(* The worker *)

\* A call comes to the outbox only after the channel was closed, and none is
\* left there when a new process opens another.
SaveWhenClosed ==
    /\ \A p \in Requests : pc[p] = "save" => channel = "closed"
    /\ svc = "down" => \A p \in Requests : pc[p] \in {"idle", "ok", "error"}

\* Every step of the calls keeps it.
LEMMA SaveWhenClosedStep ==
    CallsSafety!IInv /\ SaveWhenClosed /\ [Calls!Next]_(Calls!bvars) => SaveWhenClosed'
<1> SUFFICES ASSUME CallsSafety!TypeOK, SaveWhenClosed, [Calls!Next]_(Calls!bvars)
             PROVE  SaveWhenClosed'
    BY DEF CallsSafety!IInv
<1> USE DEF CallsSafety!TypeOK, CallsSafety!Final, SaveWhenClosed, Calls!Goto
<1>1. ASSUME NEW p \in Requests,
             \/ \E n \in 0 .. MaxBatch : Calls!Call(p, n)
             \/ Calls!Begin(p) \/ Calls!BeginFail(p) \/ Calls!InsertOrders(p)
             \/ Calls!InsertItems(p) \/ Calls!InsertFail(p)
      PROVE  SaveWhenClosed'
    BY <1>1
    DEF Calls!Call, Calls!Begin, Calls!CanAcquire, Calls!BeginFail, Calls!InsertOrders,
        Calls!InsertItems, Calls!InsertFail
<1>2. ASSUME NEW p \in Requests,
             \/ Calls!Publish(p) \/ Calls!PublishFail(p) \/ Calls!LogDone(p)
             \/ Calls!Save(p) \/ \E landed \in BOOLEAN : Calls!SaveFail(p, landed)
      PROVE  SaveWhenClosed'
    BY <1>2
    DEF Calls!Publish, Calls!PublishFail, Calls!LogDone, Calls!Save, Calls!SaveFail
<1>3. ASSUME NEW p \in Requests,
             \/ Calls!Rollback(p) \/ Calls!Commit(p)
             \/ \E landed \in BOOLEAN : Calls!CommitFail(p, landed)
      PROVE  SaveWhenClosed'
    BY <1>3 DEF Calls!Rollback, Calls!Commit, Calls!CommitFail
<1>4. CASE \/ Calls!ConnectionLost \/ Calls!Stop \/ Calls!Close \/ Calls!Exit
           \/ Calls!Crash \/ Calls!Restart \/ UNCHANGED Calls!bvars
    BY <1>4
    DEF Calls!ConnectionLost, Calls!Stop, Calls!Close, Calls!Exit, Calls!Crash,
        Calls!Restart, Calls!bvars
<1>. QED
    BY <1>1, <1>2, <1>3, <1>4 DEF Calls!Next, Calls!Work

LEMMA SaveWhenClosedInvariant == Spec => []SaveWhenClosed
<1>1. Init => SaveWhenClosed
    BY DEF Init, Calls!Init, SaveWhenClosed
<1>. QED
    BY <1>1, SaveWhenClosedStep, CallsStep, CallsInvariant, PTL DEF Spec

\* The insert of a row is the Save the worker's model allows for: the row's
\* order is new, and the channel is closed.
LEMMA SaveRowStep ==
    ASSUME CallsSafety!IInv, SaveWhenClosed, NEW p \in Requests, SaveRow(p)
    PROVE  \E m \in Orders : Worker!Save(m)
<1> DEFINE o == Calls!CurOrder(p)
<1>1. /\ pc[p] = "save" /\ svc \in {"up", "draining"} /\ saved' = saved \cup {o}
      /\ UNCHANGED <<channel, svc>>
    BY DEF SaveRow, Calls!Save, Calls!SaveFail, Calls!Goto, Calls!CanAcquire
<1>2. /\ next[p] \in Nat /\ next[p] + 1 \in 1 .. MaxBatch
    BY <1>1, CallsAssumption
    DEF CallsSafety!IInv, CallsSafety!TypeOK, CallsSafety!LoopInBatch
<1>3. o \in Orders /\ o[1] = p /\ o[2] = next[p] + 1
    BY <1>2 DEF Calls!CurOrder, Orders, Calls!Orders
<1>4. o \notin saved
    BY <1>1, <1>2, <1>3
    DEF CallsSafety!IInv, CallsSafety!NoneAhead, CallsSafety!Orders, Orders, Calls!Orders
<1>5. channel = "closed"
    BY <1>1 DEF SaveWhenClosed
<1>6. Worker!Save(o)
    BY <1>1, <1>4, <1>5 DEF SaveRow, Worker!Save, WorkerSvc
<1>. QED
    BY <1>3, <1>6

\* A step of order-svc is a step of the worker, or none that it can tell.
LEMMA WorkerStep ==
    CallsSafety!IInv /\ SaveWhenClosed /\ [Next]_vars => [Worker!Next]_(Worker!vars)
<1> SUFFICES ASSUME CallsSafety!IInv, SaveWhenClosed, [Next]_vars
             PROVE  [Worker!Next]_(Worker!vars)
    OBVIOUS
<1>1. CASE \E p \in Requests : CallStep(p)
    <2>1. UNCHANGED <<saved, channel, svc>>
        BY <1>1
        DEF CallStep, Calls!Call, Calls!Begin, Calls!BeginFail, Calls!InsertOrders,
            Calls!InsertItems, Calls!InsertFail, Calls!Publish, Calls!PublishFail,
            Calls!LogDone, Calls!SaveFail, Calls!Rollback, Calls!Commit, Calls!CommitFail
    <2>. QED
        BY <1>1, <2>1 DEF CallStep, workerVars, Worker!vars, WorkerSvc
<1>2. CASE \E p \in Requests : SaveRow(p)
    BY <1>2, SaveRowStep DEF Worker!Next
<1>3. CASE WorkerQuery \/ WorkerPublish \/ WorkerQueryFail \/ Tick
    BY <1>3 DEF WorkerQuery, WorkerPublish, WorkerQueryFail, Tick, Worker!Next
<1>4. CASE ConnectionLost
    BY <1>4
    DEF ConnectionLost, Calls!ConnectionLost, workerVars, WorkerSvc, Worker!Next,
        Worker!ConnectionLost
<1>5. CASE Stop
    BY <1>5 DEF Stop, Calls!Stop, workerVars, WorkerSvc, Worker!Next, Worker!Stop
<1>6. CASE Close
    <2>1. channel \in {"open", "closed"}
        BY DEF CallsSafety!IInv, CallsSafety!TypeOK
    <2>. QED
        BY <1>6, <2>1
        DEF Close, Calls!Close, workerVars, WorkerSvc, Worker!vars, Worker!Next,
            Worker!ConnectionLost
<1>7. CASE Exit
    BY <1>7
    DEF Exit, Calls!Exit, Worker!Die, Worker!Exit, WorkerSvc, Worker!Next
<1>8. CASE Crash
    <2>1. svc \in {"up", "draining", "closing"}
        BY <1>8 DEF Crash, Calls!Crash, CallsSafety!IInv, CallsSafety!TypeOK
    <2>. QED
        BY <1>8, <2>1
        DEF Crash, Calls!Crash, Worker!Die, Worker!Exit, Worker!Crash, WorkerSvc, Worker!Next
<1>9. CASE Restart
    BY <1>9
    DEF Restart, Calls!Restart, workerVars, WorkerSvc, Worker!Next, Worker!Restart
<1>10. CASE UNCHANGED vars
    BY <1>10 DEF vars, workerVars, Worker!vars, WorkerSvc
<1>. QED
    BY <1>1, <1>2, <1>3, <1>4, <1>5, <1>6, <1>7, <1>8, <1>9, <1>10 DEF Next

\* The calls keep to what the worker relies on: to the worker, order-svc behaves
\* like the process its model describes.
THEOREM WorkerImplemented == Spec => ImplementsWorker
<1>1. Init => Worker!Init
    BY DEF Init
<1>. QED
    BY <1>1, WorkerStep, CallsInvariant, SaveWhenClosedInvariant, PTL
    DEF Spec, ImplementsWorker, Worker!Spec

\* The whole is a behaviour of the worker as OutboxWorkerProofs knows it.
LEMMA WorkerBehaves == Spec => WorkerSafety!Spec
<1>1. Worker!Init => WorkerSafety!Init
    BY DEF Worker!Init, WorkerSafety!Init
<1>2. [Worker!Next]_(Worker!vars) => [WorkerSafety!Next]_(WorkerSafety!vars)
    <2> USE DEF Worker!Cur, WorkerSafety!Cur, Worker!Advance, WorkerSafety!Advance,
            Worker!CanLeaveBehind, WorkerSafety!CanLeaveBehind
    <2>1. \A m \in Orders : Worker!Save(m) => WorkerSafety!Save(m)
        BY DEF Worker!Save, WorkerSafety!Save, Worker!NewRow, WorkerSafety!NewRow
    <2>2. Worker!Tick => WorkerSafety!Tick
        BY DEF Worker!Tick, WorkerSafety!Tick, Worker!Older, WorkerSafety!Older,
            Worker!Horizon, WorkerSafety!Horizon
    <2>3. Worker!Poll => WorkerSafety!Poll
        BY DEF Worker!Poll, WorkerSafety!Poll, Worker!Due, WorkerSafety!Due
    <2>4. /\ Worker!PublishOk => WorkerSafety!PublishOk
          /\ Worker!PublishFail => WorkerSafety!PublishFail
          /\ Worker!Delete => WorkerSafety!Delete
          /\ Worker!DeleteFail => WorkerSafety!DeleteFail
        BY DEF Worker!PublishOk, WorkerSafety!PublishOk, Worker!PublishFail,
            WorkerSafety!PublishFail, Worker!Delete, WorkerSafety!Delete,
            Worker!DeleteFail, WorkerSafety!DeleteFail
    <2>5. /\ Worker!UpdateRetry => WorkerSafety!UpdateRetry
          /\ Worker!UpdateRetryFail => WorkerSafety!UpdateRetryFail
        BY DEF Worker!UpdateRetry, WorkerSafety!UpdateRetry, Worker!Retried,
            WorkerSafety!Retried, Worker!UpdateRetryFail, WorkerSafety!UpdateRetryFail
    <2>6. /\ Worker!ConnectionLost => WorkerSafety!ConnectionLost
          /\ Worker!Stop => WorkerSafety!Stop
          /\ Worker!Crash => WorkerSafety!Crash
          /\ Worker!Exit => WorkerSafety!Exit
          /\ Worker!Restart => WorkerSafety!Restart
          /\ UNCHANGED Worker!vars => UNCHANGED WorkerSafety!vars
        BY DEF Worker!ConnectionLost, WorkerSafety!ConnectionLost, Worker!Stop,
            WorkerSafety!Stop, Worker!Die, WorkerSafety!Die, Worker!Crash,
            WorkerSafety!Crash, Worker!Exit, WorkerSafety!Exit, Worker!Restart,
            WorkerSafety!Restart, Worker!vars, WorkerSafety!vars
    <2>. QED
        BY <2>1, <2>2, <2>3, <2>4, <2>5, <2>6 DEF Worker!Next, WorkerSafety!Next
<1>3. Worker!Spec => WorkerSafety!Spec
    BY <1>1, <1>2, PTL DEF Worker!Spec, WorkerSafety!Spec
<1>. QED
    BY <1>3, WorkerImplemented, PTL DEF ImplementsWorker

\* The invariant of the worker holds in the whole.
LEMMA WorkerInvariant == Spec => []WorkerSafety!IInv
<1>1. WorkerSafety!Spec => []WorkerSafety!IInv
    BY WorkerSafety!Safety, WorkerAssumption, BackoffAssumption
    DEF Worker!Row, WorkerSafety!Row
<1>. QED
    BY <1>1, WorkerBehaves, PTL

-----------------------------------------------------------------------------
(* The two together *)

\* No order in the database is forgotten: what the auditor handed over is sent
\* or in the table, and what leaves the table was sent.
THEOREM NothingLost == Spec => []NothingForgotten
<1>1. CallsSafety!IInv /\ WorkerSafety!IInv => NothingForgotten
    <2> SUFFICES ASSUME CallsSafety!IInv, WorkerSafety!IInv, NEW o \in committed
                 PROVE  Sent(o) > 0 \/ outbox[o] # NoRow
        BY DEF NothingForgotten
    <2>1. o \in Orders /\ o \in logged \cup saved
        BY DEF CallsSafety!IInv, CallsSafety!TypeOK, CallsSafety!CommittedWhole,
            CallsSafety!DoneHandedOver, CallsSafety!Orders, Orders, Calls!Orders
    <2>2. published[o] \in Nat
        BY <2>1 DEF WorkerSafety!IInv, WorkerSafety!TypeOK
    <2>3. o \in saved /\ outbox[o] = NoRow => published[o] > 0
        BY <2>1 DEF WorkerSafety!IInv, WorkerSafety!HandedOver
    <2>. QED
        BY <2>1, <2>2, <2>3 DEF Sent
<1>. QED
    BY <1>1, CallsInvariant, WorkerInvariant, PTL

\* The auditor and the worker together send no order twice, except for the
\* publishes the worker left without their delete: an order is the auditor's or
\* the worker's, never both.
THEOREM NoneSentTwice == Spec => []SentOnce
<1>1. CallsSafety!IInv /\ WorkerSafety!IInv => SentOnce
    <2> SUFFICES ASSUME CallsSafety!IInv, WorkerSafety!IInv, NEW o \in Orders
                 PROVE  Sent(o) <= redo[o] + 1
        BY DEF SentOnce
    <2>1. published[o] \in Nat /\ redo[o] \in Nat
        BY WorkerAssumption DEF WorkerSafety!IInv, WorkerSafety!TypeOK
    <2>2. published[o] <= redo[o] + 1
        BY <2>1 DEF WorkerSafety!IInv, WorkerSafety!CopiesCounted
    <2>3. o \in logged => published[o] = 0
        BY DEF CallsSafety!IInv, CallsSafety!HandedOverOnce, WorkerSafety!IInv,
            WorkerSafety!UnsavedUntouched
    <2>. QED
        BY <2>1, <2>2, <2>3 DEF Sent
<1>. QED
    BY <1>1, CallsInvariant, WorkerInvariant, PTL

-----------------------------------------------------------------------------
(* What each part promises, kept next to the other *)

\* An audit message whose order is not in the database belongs to a call that
\* still runs or was answered with an error, although the worker publishes
\* what such a call saved.
THEOREM PhantomsAreErrors == Spec => []Calls!PhantomOnlyOnError
<1>1. CallsSafety!PhantomOnlyOnError => Calls!PhantomOnlyOnError
    BY DEF CallsSafety!PhantomOnlyOnError, Calls!PhantomOnlyOnError,
        CallsSafety!OrdersOf, Calls!OrdersOf
<1>2. CallsSafety!Spec => []CallsSafety!PhantomOnlyOnError
    BY CallsSafety!PhantomsAreErrors, CallsAssumption
    DEF IsFiniteSet, CallsSafety!IsFiniteSet
<1>. QED
    BY <1>1, <1>2, CallsBehave, PTL

\* With the worker taking connections of the same pool, a call that reached the
\* auditor still gives its own back: a call that has ended holds one only since
\* one of its inserts failed.
THEOREM OnlyInsertsLeak == Spec => Calls!ConnectionReturned
<1>1. [\A p \in held' : pc'[p] \in CallsSafety!Final =>
          /\ pc'[p] = "error"
          /\ p \in held /\ pc[p] \in {"orders", "items", "error"}]_(CallsSafety!bvars)
      => [\A p \in held' : pc'[p] \in Calls!Final =>
            /\ pc'[p] = "error"
            /\ p \in held /\ pc[p] \in {"orders", "items", "error"}]_(Calls!bvars)
    BY DEF CallsSafety!Final, Calls!Final, CallsSafety!bvars, Calls!bvars
<1>2. CallsSafety!Spec => CallsSafety!ConnectionReturned
    BY CallsSafety!OnlyInsertsLeak, CallsAssumption
    DEF IsFiniteSet, CallsSafety!IsFiniteSet
<1>. QED
    BY <1>1, <1>2, CallsBehave, PTL
    DEF CallsSafety!ConnectionReturned, Calls!ConnectionReturned

\* To its clients and to the audit log, order-svc creates orders as
\* AuditedCommit says, with its worker running and its shutdown in three steps.
THEOREM AuditedCommitImplemented == Spec => Calls!ImplementsAuditedCommit
<1> USE DEF CallsSafety!Answer, Calls!Answer, CallsSafety!Created, Calls!Created,
        CallsSafety!Announced, Calls!Announced, CallsSafety!OrdersOf, Calls!OrdersOf,
        CallsSafety!Final, Calls!Final, CallsSafety!Orders, Calls!Orders
<1>1. CallsSafety!Audited!Init => Calls!Audited!Init
    BY DEF CallsSafety!Audited!Init, Calls!Audited!Init
<1>2. [CallsSafety!Audited!Next]_(CallsSafety!Audited!avars)
      => [Calls!Audited!Next]_(Calls!Audited!avars)
    BY DEF CallsSafety!Audited!Next, Calls!Audited!Next, CallsSafety!Audited!avars,
        Calls!Audited!avars, CallsSafety!Audited!Submit, Calls!Audited!Submit,
        CallsSafety!Audited!Announce, Calls!Audited!Announce, CallsSafety!Audited!Accept,
        Calls!Audited!Accept, CallsSafety!Audited!Refuse, Calls!Audited!Refuse,
        CallsSafety!Audited!Store, Calls!Audited!Store, CallsSafety!Audited!Interrupt,
        Calls!Audited!Interrupt
<1>3. CallsSafety!Spec => CallsSafety!ImplementsAuditedCommit
    BY CallsSafety!AuditedCommitImplemented, CallsAssumption
    DEF IsFiniteSet, CallsSafety!IsFiniteSet
<1>. QED
    BY <1>1, <1>2, <1>3, CallsBehave, PTL
    DEF CallsSafety!ImplementsAuditedCommit, CallsSafety!Audited!Spec,
        Calls!ImplementsAuditedCommit, Calls!Audited!Spec

\* With calls inserting rows under the worker's eyes, no row is given up before
\* its backoff allows.
THEOREM WindowRespected == Spec => []Worker!AbandonedOnlyAfterWindow
<1>1. WorkerSafety!AbandonedOnlyAfterWindow => Worker!AbandonedOnlyAfterWindow
    BY DEF WorkerSafety!AbandonedOnlyAfterWindow, Worker!AbandonedOnlyAfterWindow,
        WorkerSafety!Abandoned, Worker!Abandoned
<1>2. WorkerSafety!Spec => []WorkerSafety!AbandonedOnlyAfterWindow
    BY WorkerSafety!WindowRespected, WorkerAssumption, BackoffAssumption
    DEF Worker!Row, WorkerSafety!Row
<1>. QED
    BY <1>1, <1>2, WorkerBehaves, PTL

\* To its users, the outbox inside order-svc is a table of retried messages,
\* with calls entering messages and the pool delaying the worker.
THEOREM OutboxImplemented == Spec => Worker!ImplementsTable
<1>1. WorkerSafety!Table!Init => Worker!Table!Init
    BY DEF WorkerSafety!Table!Init, Worker!Table!Init, WorkerSafety!Status, Worker!Status,
        WorkerSafety!Handed, Worker!Handed, WorkerSafety!Tries, Worker!Tries,
        WorkerSafety!Abandoned, Worker!Abandoned
<1>2. [WorkerSafety!Table!Next]_(WorkerSafety!Table!tvars)
      => [Worker!Table!Next]_(Worker!Table!tvars)
    BY DEF WorkerSafety!Table!Next, Worker!Table!Next, WorkerSafety!Table!tvars,
        Worker!Table!tvars, WorkerSafety!Table!Enter, Worker!Table!Enter,
        WorkerSafety!Table!HandOver, Worker!Table!HandOver, WorkerSafety!Table!Remove,
        Worker!Table!Remove, WorkerSafety!Table!Miss, Worker!Table!Miss,
        WorkerSafety!Status, Worker!Status, WorkerSafety!Handed, Worker!Handed,
        WorkerSafety!Tries, Worker!Tries, WorkerSafety!Abandoned, Worker!Abandoned
<1>3. WorkerSafety!Spec => WorkerSafety!ImplementsTable
    BY WorkerSafety!TableImplemented, WorkerAssumption, BackoffAssumption
    DEF Worker!Row, WorkerSafety!Row
<1>. QED
    BY <1>1, <1>2, <1>3, WorkerBehaves, PTL
    DEF WorkerSafety!ImplementsTable, WorkerSafety!Table!Spec, Worker!ImplementsTable,
        Worker!Table!Spec

=============================================================================
