---------------------------- MODULE AuditPipeline ----------------------------
(***************************************************************************)
(* The way of an order's audit message from the call that creates the      *)
(* order to the audit log: the auditor, the outbox, the wire to the        *)
(* broker, the queue, the handlers and the inbox.  The two tables are      *)
(* instances of RetryTable, which OutboxWorker and InboxWorker implement.  *)
(*                                                                         *)
(* Publish writes to the connection and returns; the broker does not       *)
(* confirm.  A copy that is still on the wire when the connection breaks   *)
(* may be lost, and the queue, which is not durable, does not survive a    *)
(* restart of the broker.                                                  *)
(***************************************************************************)
EXTENDS Naturals

CONSTANTS
    Messages,    \* audit messages: one order each
    MaxRetries,  \* max_retries of the outbox and of the inbox
    MaxCopies    \* bound: copies of a message that are published

ASSUME MaxRetriesAssumption == MaxRetries \in Nat \ {0}
ASSUME MaxCopiesAssumption == MaxCopies \in Nat \ {0}

VARIABLES
    call,       \* where the call that creates the order is
    committed,  \* orders in the database
    channel,    \* order-svc's AMQP channel
    ostatus, ohanded, otries,  \* the outbox
    sent,       \* copies ever published
    wire,       \* copies written to the connection, not yet with the broker
    queue,      \* copies in the queue
    lost,       \* messages of which a copy was lost
    consumer,   \* "up", "cancelled" (context of its errgroup), "deaf" (no channel)
    working,    \* deliveries a handler processes
    done,       \* deliveries that are processed and to be acknowledged
    istatus, ihanded, itries,  \* the inbox
    audited     \* orders with all their items in the audit log

Outbox == INSTANCE RetryTable WITH status <- ostatus, handed <- ohanded, tries <- otries
Inbox == INSTANCE RetryTable WITH status <- istatus, handed <- ihanded, tries <- itries

callVars == <<call, committed>>
outboxVars == <<ostatus, ohanded, otries>>
brokerVars == <<sent, wire, queue, lost>>
handlerVars == <<consumer, working, done>>
inboxVars == <<istatus, ihanded, itries>>
pvars == <<callVars, channel, outboxVars, brokerVars, handlerVars, inboxVars, audited>>

Zero == [m \in Messages |-> 0]

Init ==
    /\ call = [m \in Messages |-> "idle"]
    /\ committed = {}
    /\ channel = "open"
    /\ Outbox!Init
    /\ sent = Zero /\ wire = Zero /\ queue = Zero /\ lost = {}
    /\ consumer = "up"
    /\ working = Zero /\ done = Zero
    /\ Inbox!Init
    /\ audited = {}

-----------------------------------------------------------------------------
(* order-svc: the call and the outbox *)

Goto(m, from, to) ==
    /\ call[m] = from
    /\ call' = [call EXCEPT ![m] = to]

Call(m) ==
    /\ Goto(m, "idle", "publish")
    /\ UNCHANGED <<committed, channel, outboxVars, brokerVars, handlerVars, inboxVars, audited>>

\* A copy is written to the connection.
Send(m) ==
    /\ channel = "open"
    /\ sent[m] < MaxCopies
    /\ sent' = [sent EXCEPT ![m] = @ + 1]
    /\ wire' = [wire EXCEPT ![m] = @ + 1]
    /\ UNCHANGED <<queue, lost>>

Publish(m) ==
    /\ Goto(m, "publish", "commit")
    /\ Send(m)
    /\ UNCHANGED <<committed, channel, outboxVars, handlerVars, inboxVars, audited>>

PublishFail(m) ==
    /\ channel = "closed"
    /\ Goto(m, "publish", "save")
    /\ UNCHANGED <<committed, channel, outboxVars, brokerVars, handlerVars, inboxVars, audited>>

Save(m) ==
    /\ Goto(m, "save", "commit")
    /\ Outbox!Enter(m)
    /\ UNCHANGED <<committed, channel, brokerVars, handlerVars, inboxVars, audited>>

\* The transaction is rolled back; the row may be there all the same.
SaveFail(m, landed) ==
    /\ Goto(m, "save", "error")
    /\ IF landed THEN Outbox!Enter(m) ELSE UNCHANGED outboxVars
    /\ UNCHANGED <<committed, channel, brokerVars, handlerVars, inboxVars, audited>>

Commit(m) ==
    /\ Goto(m, "commit", "ok")
    /\ committed' = committed \cup {m}
    /\ UNCHANGED <<channel, outboxVars, brokerVars, handlerVars, inboxVars, audited>>

CommitFail(m, landed) ==
    /\ Goto(m, "commit", "error")
    /\ committed' = IF landed THEN committed \cup {m} ELSE committed
    /\ UNCHANGED <<channel, outboxVars, brokerVars, handlerVars, inboxVars, audited>>

\* The outbox worker: its publish, the delete after it, a failed publish.
OutboxPublish(m) ==
    /\ Outbox!HandOver(m)
    /\ Send(m)
    /\ UNCHANGED <<callVars, channel, handlerVars, inboxVars, audited>>

OutboxDelete(m) ==
    /\ Outbox!Remove(m)
    /\ UNCHANGED <<callVars, channel, brokerVars, handlerVars, inboxVars, audited>>

\* Faulty variant: the retry is not counted.
OutboxMissUncounted(m) ==
    /\ channel = "closed"
    /\ ostatus[m] = "pending"
    /\ UNCHANGED pvars

OutboxMiss(m) ==
    /\ channel = "closed"
    /\ Outbox!Miss(m)
    /\ UNCHANGED <<callVars, channel, brokerVars, handlerVars, inboxVars, audited>>

\* order-svc ends, in order or in a crash, and starts with a new connection.
\* What is on the wire of the old one may still arrive: see Break.
Restart ==
    /\ channel' = "open"
    /\ call' = [m \in Messages |-> IF call[m] \in {"publish", "save", "commit"}
                                   THEN "error" ELSE call[m]]
    /\ UNCHANGED <<committed, outboxVars, brokerVars, handlerVars, inboxVars, audited>>

-----------------------------------------------------------------------------
(* The wire and the broker *)

Reach(m) ==
    /\ wire[m] > 0
    /\ wire' = [wire EXCEPT ![m] = @ - 1]
    /\ queue' = [queue EXCEPT ![m] = @ + 1]
    /\ UNCHANGED <<callVars, channel, outboxVars, sent, lost, handlerVars, inboxVars, audited>>

\* order-svc's connection breaks, with what has not reached the broker.
Break ==
    /\ channel = "open"
    /\ channel' = "closed"
    /\ wire' = Zero
    /\ lost' = lost \cup {m \in Messages : wire[m] > 0}
    /\ UNCHANGED <<callVars, outboxVars, sent, queue, handlerVars, inboxVars, audited>>

\* Deliveries the broker still waits for.
Unacked(m) == IF consumer = "deaf" THEN 0 ELSE working[m] + done[m]

\* The broker restarts: its queue is gone, with what was delivered from it,
\* and so are both connections.
BrokerRestart ==
    /\ channel' = "closed"
    /\ wire' = Zero
    /\ queue' = Zero
    /\ lost' = lost \cup {m \in Messages : wire[m] + queue[m] + Unacked(m) > 0}
    /\ consumer' = "deaf"
    /\ done' = Zero
    /\ UNCHANGED <<callVars, outboxVars, sent, working, inboxVars, audited>>

-----------------------------------------------------------------------------
(* The audit service *)

Deliver(m) ==
    /\ consumer # "deaf"
    /\ queue[m] > 0
    /\ queue' = [queue EXCEPT ![m] = @ - 1]
    /\ working' = [working EXCEPT ![m] = @ + 1]
    /\ UNCHANGED <<callVars, channel, outboxVars, sent, wire, lost, consumer, done, inboxVars, audited>>

\* A handler goes on to acknowledge.  Without a channel this fails.
ToAck(m) ==
    /\ working[m] > 0
    /\ working' = [working EXCEPT ![m] = @ - 1]
    /\ done' = IF consumer = "deaf" THEN done ELSE [done EXCEPT ![m] = @ + 1]

HandlerAudits(m) ==
    /\ consumer # "cancelled"
    /\ ToAck(m)
    /\ audited' = audited \cup {m}
    /\ UNCHANGED <<callVars, channel, outboxVars, brokerVars, consumer, inboxVars>>

\* Faulty variant: the handler acknowledges a message whose insert failed.
HandlerSavesOrNot(m) ==
    /\ consumer # "cancelled"
    /\ ToAck(m)
    /\ UNCHANGED <<callVars, channel, outboxVars, brokerVars, consumer, inboxVars, audited>>

HandlerSaves(m) ==
    /\ consumer # "cancelled"
    /\ ToAck(m)
    /\ Inbox!Enter(m)
    /\ UNCHANGED <<callVars, channel, outboxVars, brokerVars, consumer, audited>>

\* The insert in the inbox fails, as every statement does on a cancelled
\* context, or the row exists.  The row may be there all the same.  The error
\* cancels the context of the group.
HandlerFails(m, landed) ==
    /\ working[m] > 0
    /\ working' = [working EXCEPT ![m] = @ - 1]
    /\ IF consumer = "deaf"
       THEN UNCHANGED <<queue, consumer>>
       ELSE /\ queue' = [queue EXCEPT ![m] = @ + 1]
            /\ consumer' = "cancelled"
    /\ IF landed THEN consumer # "cancelled" /\ Inbox!Enter(m) ELSE UNCHANGED inboxVars
    /\ UNCHANGED <<callVars, channel, outboxVars, sent, wire, lost, done, audited>>

Ack(m) ==
    /\ done[m] > 0
    /\ done' = [done EXCEPT ![m] = @ - 1]
    /\ UNCHANGED <<callVars, channel, outboxVars, brokerVars, consumer, working, inboxVars, audited>>

\* The consumer's connection breaks: the broker takes the deliveries back.
ConsumerBreak ==
    /\ consumer # "deaf"
    /\ consumer' = "deaf"
    /\ queue' = [m \in Messages |-> queue[m] + Unacked(m)]
    /\ done' = Zero
    /\ UNCHANGED <<callVars, channel, outboxVars, sent, wire, lost, working, inboxVars, audited>>

\* The audit service ends, in order or in a crash, and starts again.
ConsumerRestart ==
    /\ consumer' = "up"
    /\ queue' = [m \in Messages |-> queue[m] + Unacked(m)]
    /\ working' = Zero
    /\ done' = Zero
    /\ UNCHANGED <<callVars, channel, outboxVars, sent, wire, lost, inboxVars, audited>>

\* The inbox worker: a pass over all items, the delete after it, a failed pass.
InboxAudits(m) ==
    /\ Inbox!HandOver(m)
    /\ audited' = audited \cup {m}
    /\ UNCHANGED <<callVars, channel, outboxVars, brokerVars, handlerVars>>

InboxDelete(m) ==
    /\ Inbox!Remove(m)
    /\ UNCHANGED <<callVars, channel, outboxVars, brokerVars, handlerVars, audited>>

InboxMiss(m) ==
    /\ Inbox!Miss(m)
    /\ UNCHANGED <<callVars, channel, outboxVars, brokerVars, handlerVars, audited>>

-----------------------------------------------------------------------------

Next ==
    \/ \E m \in Messages :
          \/ Call(m) \/ Publish(m) \/ PublishFail(m) \/ Save(m) \/ Commit(m)
          \/ \E landed \in BOOLEAN :
                SaveFail(m, landed) \/ CommitFail(m, landed) \/ HandlerFails(m, landed)
          \/ OutboxPublish(m) \/ OutboxDelete(m) \/ OutboxMiss(m)
          \/ Reach(m) \/ Deliver(m) \/ HandlerAudits(m) \/ HandlerSaves(m) \/ Ack(m)
          \/ InboxAudits(m) \/ InboxDelete(m) \/ InboxMiss(m)
    \/ Restart \/ Break \/ BrokerRestart \/ ConsumerBreak \/ ConsumerRestart

Spec == Init /\ [][Next]_pvars

\* What is on the wire arrives unless the connection breaks; deliveries are
\* processed, with whatever outcome, and the two workers come round to every
\* pending row (EveryRowSettles of OutboxWorker and of InboxWorker), although
\* services may be restarted and cut off again and again, but not always at
\* the same step.  That a connection is made again, or a service restarted,
\* is not taken for granted.
Fairness ==
    \A m \in Messages :
        /\ WF_pvars(Reach(m)) /\ SF_pvars(Deliver(m))
        /\ SF_pvars(HandlerAudits(m) \/ HandlerSaves(m) \/ HandlerFails(m, FALSE))
        /\ SF_pvars(OutboxPublish(m) \/ OutboxMiss(m)) /\ WF_pvars(OutboxDelete(m))
        /\ SF_pvars(InboxAudits(m) \/ InboxMiss(m)) /\ WF_pvars(InboxDelete(m))

FairSpec == Spec /\ Fairness

-----------------------------------------------------------------------------
(* Properties *)

TypeOK ==
    /\ call \in [Messages -> {"idle", "publish", "save", "commit", "ok", "error"}]
    /\ committed \in SUBSET Messages
    /\ channel \in {"open", "closed"}
    /\ ostatus \in [Messages -> {"absent", "pending", "dead"}]
    /\ ohanded \in SUBSET Messages
    /\ otries \in [Messages -> Nat]
    /\ sent \in [Messages -> Nat] /\ wire \in [Messages -> Nat] /\ queue \in [Messages -> Nat]
    /\ lost \in SUBSET Messages
    /\ consumer \in {"up", "cancelled", "deaf"}
    /\ working \in [Messages -> Nat] /\ done \in [Messages -> Nat]
    /\ istatus \in [Messages -> {"absent", "pending", "dead"}]
    /\ ihanded \in SUBSET Messages
    /\ itries \in [Messages -> Nat]
    /\ audited \in SUBSET Messages

\* A copy of the message is on its way to the audit log, or was.
OnItsWay(m) ==
    \/ wire[m] + queue[m] + Unacked(m) > 0
    \/ m \in audited
    \/ istatus[m] # "absent"
    \/ m \in lost

\* However calls, workers, handlers, breaks and restarts interleave, an order
\* in the database is in the outbox or on its way to the audit log; nothing
\* but a lost copy that nobody confirmed takes it off.
CommittedAccounted ==
    \A m \in committed : ostatus[m] # "absent" \/ OnItsWay(m)

GivenUp(m) == ostatus[m] = "dead" \/ istatus[m] = "dead"

\* An order in the database comes to be audited, unless a table gives it up, a
\* copy is lost, or the consumer is in a state that only a restart ends.
CommittedSettles ==
    \A m \in Messages :
        m \in committed ~> (m \in audited \/ GivenUp(m) \/ m \in lost \/ consumer # "up")

=============================================================================
