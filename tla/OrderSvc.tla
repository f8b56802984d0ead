------------------------------ MODULE OrderSvc ------------------------------
(***************************************************************************)
(* order-svc as a whole: the calls of BatchInsert, the outbox and its      *)
(* worker in one process.  They share the table, the channel, the life of  *)
(* the process and the connection pool: the worker's statements need a     *)
(* connection that the transactions leave free.                            *)
(***************************************************************************)
EXTENDS Integers, Sequences, FiniteSets

CONSTANTS Requests, MaxBatch, PoolSize, NoRow, MaxRetries, BatchSize, Backoff, MaxRedo

VARIABLES
    pc, size, next, held, committed, logged, saved, channel, svc,  \* BatchInsert
    outbox, published, redo, wpc, batch                            \* OutboxWorker

callVars == <<pc, size, next, held, committed, logged>>
workerVars == <<outbox, published, redo, wpc, batch>>
vars == <<callVars, saved, channel, svc, workerVars>>

Calls == INSTANCE BatchInsert

Orders == Calls!Orders

\* workerCancel() is the first thing gracefulShutdown does.
WorkerSvc == IF svc \in {"draining", "closing"} THEN "stopping" ELSE svc

Worker == INSTANCE OutboxWorker WITH Messages <- Orders, svc <- WorkerSvc

\* What BatchInsert and OutboxWorker assume of the constants.
ASSUME CallsAssumption ==
    IsFiniteSet(Requests) /\ MaxBatch \in Nat /\ PoolSize \in Nat \ {0}
ASSUME WorkerAssumption ==
    /\ MaxRetries \in Nat \ {0} /\ BatchSize \in Nat \ {0} /\ MaxRedo \in Nat
    /\ NoRow \notin Worker!Row
ASSUME BackoffAssumption ==
    /\ Backoff[0] = 1
    /\ \A n \in 0 .. MaxRetries :
          Backoff[n] \in Nat \ {0} /\ Backoff[n] <= Backoff[MaxRetries]
    /\ \A n \in 0 .. MaxRetries - 1 : Backoff[n + 1] = 2 * Backoff[n]

Init == Calls!Init /\ Worker!Init

-----------------------------------------------------------------------------
(* A call and the table *)

\* The steps of a call that leave the outbox alone.
CallStep(p) ==
    /\ \/ \E n \in 0 .. MaxBatch : Calls!Call(p, n)
       \/ Calls!Begin(p) \/ Calls!BeginFail(p)
       \/ Calls!InsertOrders(p) \/ Calls!InsertItems(p) \/ Calls!InsertFail(p)
       \/ Calls!Publish(p) \/ Calls!PublishFail(p) \/ Calls!LogDone(p)
       \/ Calls!SaveFail(p, FALSE)
       \/ Calls!Rollback(p) \/ Calls!Commit(p)
       \/ \E landed \in BOOLEAN : Calls!CommitFail(p, landed)
    /\ UNCHANGED workerVars

\* Faulty variants: the row is rolled back with the transaction; it is due at
\* once.
SaveRowLost(p) ==
    /\ Calls!Save(p) \/ Calls!SaveFail(p, TRUE)
    /\ UNCHANGED workerVars
SaveRowDue(p) ==
    /\ Calls!Save(p) \/ Calls!SaveFail(p, TRUE)
    /\ outbox' = [outbox EXCEPT ![Calls!CurOrder(p)] = [Worker!NewRow EXCEPT !.wait = 0]]
    /\ UNCHANGED <<published, redo, wpc, batch>>

\* The insert takes effect, for the auditor or behind its back.
SaveRow(p) ==
    /\ Calls!Save(p) \/ Calls!SaveFail(p, TRUE)
    /\ outbox' = [outbox EXCEPT ![Calls!CurOrder(p)] = Worker!NewRow]
    /\ UNCHANGED <<published, redo, wpc, batch>>

-----------------------------------------------------------------------------
(* The worker, which needs a connection for every statement *)

WorkerQuery ==
    /\ Calls!CanAcquire
    /\ UNCHANGED <<callVars, svc>>
    /\ Worker!Poll \/ Worker!Delete \/ Worker!UpdateRetry

WorkerPublish ==
    /\ UNCHANGED <<callVars, svc>>
    /\ Worker!PublishOk \/ Worker!PublishFail

WorkerQueryFail ==
    /\ UNCHANGED <<callVars, svc>>
    /\ Worker!DeleteFail \/ Worker!UpdateRetryFail

Tick ==
    /\ UNCHANGED <<callVars, svc>>
    /\ Worker!Tick

-----------------------------------------------------------------------------
(* The process *)

ConnectionLost == Calls!ConnectionLost /\ UNCHANGED workerVars

\* Faulty variant: the connections are closed without http.Shutdown before.
StopWithoutDraining ==
    /\ svc = "up"
    /\ svc' = "closing"
    /\ channel' = "closed"
    /\ UNCHANGED <<callVars, saved, workerVars>>

\* Bound: as in OutboxWorker.
Stop ==
    /\ wpc = "delete" => Worker!CanLeaveBehind
    /\ Calls!Stop
    /\ UNCHANGED workerVars

Close == Calls!Close /\ UNCHANGED workerVars

Exit == Calls!Exit /\ Worker!Die

Crash == Calls!Crash /\ Worker!Die

Restart == Calls!Restart /\ UNCHANGED workerVars

Next ==
    \/ \E p \in Requests : CallStep(p) \/ SaveRow(p)
    \/ WorkerQuery \/ WorkerPublish \/ WorkerQueryFail \/ Tick
    \/ ConnectionLost \/ Stop \/ Close \/ Exit \/ Crash \/ Restart

Spec == Init /\ [][Next]_vars

\* As in OutboxWorker, and a process that does not come to the end of its
\* shutdown is killed in the end.
Fairness ==
    /\ WF_vars(Tick)
    /\ WF_vars(Close) /\ WF_vars(svc = "closing" /\ (Exit \/ Crash)) /\ WF_vars(Restart)
    /\ SF_vars(wpc = "idle" /\ WorkerQuery)
    /\ SF_vars(svc = "up" /\ WorkerPublish)
    /\ SF_vars(wpc = "delete" /\ WorkerQuery)
    /\ SF_vars(wpc = "update" /\ WorkerQuery)

FairSpec == Spec /\ Fairness

-----------------------------------------------------------------------------
(* Properties *)

\* Copies of an order's audit message that were sent to the queue.
Sent(o) == published[o] + (IF o \in logged THEN 1 ELSE 0)

\* No order in the database is forgotten: its audit message was sent, or it is
\* still in the table.
NothingForgotten ==
    \A o \in committed : Sent(o) > 0 \/ outbox[o] # NoRow

\* The auditor, the outbox and the worker together send a message again only
\* if the worker left a publish without its delete.
SentOnce == \A o \in Orders : Sent(o) <= redo[o] + 1

\* The message of an order in the database is sent or runs out of retries,
\* unless the other calls keep every connection of the pool: there are too few
\* of them here, since a call that committed has given its own back.
CommittedSettles ==
    \A o \in Orders : o \in committed ~> (Sent(o) > 0 \/ Worker!Abandoned(o))

\* The calls keep to what the worker relies on: a row is new, and is saved
\* only while the channel is closed.
ImplementsWorker == Worker!Spec

\* The worker keeps out of the calls' way.
ImplementsCalls == Calls!Spec

=============================================================================
