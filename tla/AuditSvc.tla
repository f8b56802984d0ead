------------------------------ MODULE AuditSvc ------------------------------
(***************************************************************************)
(* The audit service as a whole: the consumer and the inbox worker in one  *)
(* process.  Both write the audit log, and the inbox joins them: handlers  *)
(* save in it what they could not process, the worker removes it.          *)
(***************************************************************************)
EXTENDS Integers, Sequences, FiniteSets

CONSTANTS Messages, Malformed, Items, Handlers, NoRow, NoMessage, MaxCopies, MaxAudits,
          MaxRetries, BatchSize

VARIABLES
    copies, queue, acked, dropped, redone,             \* AuditConsumer
    hpc, hmsg, hitem, gctx, reader, channel,
    svc, inbox, audits,                                \* shared
    wpc, batch, item                                   \* InboxWorker

consumerVars == <<copies, queue, acked, dropped, redone,
                  hpc, hmsg, hitem, gctx, reader, channel>>
workerVars == <<wpc, batch, item>>
vars == <<consumerVars, svc, inbox, audits, workerVars>>

Consumer == INSTANCE AuditConsumer

\* Run cancels the one context that the consumer and the worker share.
WorkerSvc == IF svc = "closing" THEN "stopping" ELSE svc

Worker == INSTANCE InboxWorker WITH svc <- WorkerSvc

\* What AuditConsumer and InboxWorker assume of the constants.
ASSUME MessagesAssumption ==
    /\ Malformed \subseteq Messages /\ Items \in [Messages -> Nat]
    /\ NoMessage \notin Messages /\ NoRow \notin Nat
    /\ IsFiniteSet(Handlers)
ASSUME BoundsAssumption ==
    /\ MaxCopies \in Nat /\ MaxAudits \in Nat \ {0}
    /\ MaxRetries \in Nat \ {0} /\ BatchSize \in Nat \ {0}

Init == Consumer!Init /\ Worker!Init

-----------------------------------------------------------------------------

ConsumerStep ==
    /\ \/ \E m \in Messages :
             Consumer!Arrive(m) \/ \E h \in Handlers : Consumer!Receive(h, m)
       \/ \E h \in Handlers : Consumer!Work(h) \/ Consumer!Fail(h)
       \/ Consumer!ReaderDone
       \/ Consumer!ConnectionLost
    /\ UNCHANGED workerVars

WorkerStep ==
    /\ UNCHANGED <<consumerVars, svc>>
    /\ \/ Worker!Poll
       \/ Worker!SaveItem \/ Worker!SaveDone
       \/ \E landed \in BOOLEAN : Worker!SaveItemFail(landed)
       \/ Worker!Delete \/ Worker!UpdateRetry \/ Worker!WriteFail

Stop == Consumer!Stop /\ UNCHANGED workerVars

Close == Consumer!Close /\ UNCHANGED workerVars

Exit == Consumer!Exit /\ Worker!Die

Crash == Consumer!Crash /\ Worker!Die

Restart == Consumer!Restart /\ UNCHANGED workerVars

Next == ConsumerStep \/ WorkerStep \/ Stop \/ Close \/ Exit \/ Crash \/ Restart

Spec == Init /\ [][Next]_vars

\* Only the inbox worker has to get its turn: see InboxWorker.
Fairness ==
    /\ WF_vars(Close) /\ WF_vars(Exit) /\ WF_vars(Restart)
    /\ \A m \in Messages :
          /\ SF_vars(UNCHANGED <<consumerVars, svc>> /\ Worker!PollFirst(m))
          /\ \A i \in 0 .. Items[m] :
                /\ SF_vars(/\ UNCHANGED <<consumerVars, svc>>
                           /\ Worker!At(m, i)
                           /\ \/ Worker!SaveItem \/ Worker!SaveItemFail(FALSE)
                              \/ Worker!SaveDone)
                /\ SF_vars(/\ UNCHANGED <<consumerVars, svc>>
                           /\ Worker!At(m, i)
                           /\ Worker!Delete \/ Worker!UpdateRetry)

FairSpec == Spec /\ Fairness

-----------------------------------------------------------------------------
(* Properties *)

\* Whatever the handlers, the worker and the crashes do to each other, an
\* acknowledged order is in the audit log with all its items or in the inbox.
AckedIsKept == Consumer!AckedIsKept

\* Handlers and the worker write the items of an order at the same time, and
\* still no item is in the audit log before the ones in front of it.
AuditedInOrder == Consumer!AuditedInOrder

\* The worker's rows stay as it read them, although handlers insert rows of
\* the same messages: message_id is unique.
SnapshotFresh == Worker!SnapshotFresh

\* An acknowledged order is fully audited in the end, or its message runs out
\* of retries in the inbox.
AckedSettles ==
    \A m \in Messages :
        acked[m] > 0 ~> (Consumer!FullyAudited(m) \/ Worker!Abandoned(m))

-----------------------------------------------------------------------------
(* What the inbox promises: see RetryTable *)

Table == INSTANCE RetryTable WITH
    status <- Worker!Status, handed <- Worker!Handed, tries <- Worker!Tries

\* A handler writes the last item of a message, which may be in the inbox,
\* given up, or neither.
HandedByHandler ==
    /\ Worker!Handed \subseteq Worker!Handed'
    /\ UNCHANGED <<Worker!Status, Worker!Tries, workerVars>>

\* With handlers inserting and auditing next to it, the inbox is still the
\* RetryTable that its worker alone makes of it: no redelivery revives a
\* message that was given up or starts its retries again, and none is removed
\* that was not audited in full.
ImplementsTable == Table!Init /\ [][Table!Next \/ HandedByHandler]_(Table!tvars)

-----------------------------------------------------------------------------
(* What the service promises: see AtLeastOnce *)

\* Every message that was sent is owed by the broker, kept in the inbox or
\* written in full at any time, and whoever writes an item of it has a copy
\* that would survive: the broker's, or the row in the inbox.
ImplementsDelivery == Consumer!Delivery!SpecWithRetries

=============================================================================
