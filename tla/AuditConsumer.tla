---------------------------- MODULE AuditConsumer ----------------------------
(***************************************************************************)
(* The RabbitMQ consumer of the audit service                              *)
(* (internal/transport/consumer/consumer.go): a reader goroutine that      *)
(* starts a handler per delivery in an errgroup, and the handlers, which   *)
(* write one audit row per order item, fall back to the inbox table and    *)
(* acknowledge.  All handlers share the context of the errgroup: the first *)
(* error one of them returns cancels it for the rest of the process.       *)
(*                                                                         *)
(* The broker gives an unacknowledged delivery back to the queue when the  *)
(* channel closes.  Nothing reopens the channel before a restart.          *)
(***************************************************************************)
EXTENDS Integers, FiniteSets

CONSTANTS
    Messages,   \* message bodies: what message_id identifies
    Malformed,  \* those json.Unmarshal refuses
    Items,      \* Items[m]: order items of message m
    Handlers,   \* handlers that may run at once (errgroup SetLimit)
    NoRow,      \* the inbox holds no row for a message
    NoMessage,  \* a handler that does not run
    MaxCopies,  \* bound: copies of a message ever sent to the queue
    MaxAudits   \* bound: audit rows of an item that are told apart

ASSUME MalformedAssumption == Malformed \subseteq Messages
ASSUME ItemsAssumption == Items \in [Messages -> Nat]
ASSUME BoundsAssumption == MaxCopies \in Nat /\ MaxAudits \in Nat \ {0}
ASSUME NoMessageAssumption == NoMessage \notin Messages
ASSUME NoRowAssumption == NoRow \notin Nat
ASSUME HandlersAssumption == IsFiniteSet(Handlers)

VARIABLES
    copies,   \* copies of a message ever sent to the queue
    queue,    \* copies of it waiting in the queue
    acked,    \* copies acknowledged
    dropped,  \* copies rejected without requeue
    redone,   \* deliveries of it that were given back to the queue
    hpc,      \* where each handler is
    hmsg,     \* the message it was given
    hitem,    \* items of it already written
    gctx,     \* context of the errgroup: "live" or "cancelled"
    reader,   \* the reader goroutine: "running" or "done"
    channel,  \* the AMQP channel
    svc,      \* "up", "stopping" (context cancelled), "down"
    inbox,    \* the table: retry count of a message's row, or NoRow
    audits    \* audits[m][i]: rows of the audit log for item i of m

cvars == <<copies, queue, acked, dropped, redone, hpc, hmsg, hitem, gctx, reader, channel,
           svc, inbox, audits>>

\* Bound: larger numbers of audit rows and of redeliveries are not told apart.
AtMost(n) == IF n < MaxAudits THEN n ELSE MaxAudits

Busy == {h \in Handlers : hpc[h] # "free"}

Holding(m) == {h \in Busy : hmsg[h] = m}

Init ==
    /\ copies = [m \in Messages |-> 0]
    /\ queue = [m \in Messages |-> 0]
    /\ acked = [m \in Messages |-> 0]
    /\ dropped = [m \in Messages |-> 0]
    /\ redone = [m \in Messages |-> 0]
    /\ hpc = [h \in Handlers |-> "free"]
    /\ hmsg = [h \in Handlers |-> NoMessage]
    /\ hitem = [h \in Handlers |-> 0]
    /\ gctx = "live"
    /\ reader = "running"
    /\ channel = "open"
    /\ svc = "up"
    /\ inbox = [m \in Messages |-> NoRow]
    /\ audits = [m \in Messages |-> [i \in 1 .. Items[m] |-> 0]]

-----------------------------------------------------------------------------
(* The queue and the reader *)

\* order-svc publishes a message, possibly again.
Arrive(m) ==
    /\ copies[m] < MaxCopies
    /\ copies' = [copies EXCEPT ![m] = @ + 1]
    /\ queue' = [queue EXCEPT ![m] = @ + 1]
    /\ UNCHANGED <<acked, dropped, redone, hpc, hmsg, hitem, gctx, reader, channel, svc, inbox, audits>>

Receive(h, m) ==
    /\ reader = "running"
    /\ channel = "open"
    /\ queue[m] > 0
    /\ hpc[h] = "free"
    /\ queue' = [queue EXCEPT ![m] = @ - 1]
    /\ hpc' = [hpc EXCEPT ![h] = IF m \in Malformed THEN "reject" ELSE "save"]
    /\ hmsg' = [hmsg EXCEPT ![h] = m]
    /\ hitem' = [hitem EXCEPT ![h] = 0]
    /\ UNCHANGED <<copies, acked, dropped, redone, gctx, reader, channel, svc, inbox, audits>>

\* The delivery channel is closed, or the stop channel is.
ReaderDone ==
    /\ reader = "running"
    /\ channel = "closed" \/ svc = "stopping"
    /\ reader' = "done"
    /\ UNCHANGED <<copies, queue, acked, dropped, redone, hpc, hmsg, hitem, gctx, channel, svc, inbox, audits>>

-----------------------------------------------------------------------------
(* processMessage *)

Goto(h, from, to) ==
    /\ hpc[h] = from
    /\ hpc' = [hpc EXCEPT ![h] = to]

\* processMessage returns: nil, or an error that cancels the group.
Return(h, from, ctx) ==
    /\ hpc[h] = from
    /\ hpc' = [hpc EXCEPT ![h] = "free"]
    /\ hmsg' = [hmsg EXCEPT ![h] = NoMessage]
    /\ hitem' = [hitem EXCEPT ![h] = 0]
    /\ gctx' = ctx

Audited(a, m, i) == [a EXCEPT ![m][i] = AtMost(@ + 1)]

\* ProcessAuditLog: one row, in a statement of its own.
SaveItem(h) ==
    /\ Goto(h, "save", "save")
    /\ gctx = "live"
    /\ hitem[h] < Items[hmsg[h]]
    /\ audits' = Audited(audits, hmsg[h], hitem[h] + 1)
    /\ hitem' = [hitem EXCEPT ![h] = @ + 1]
    /\ UNCHANGED <<copies, queue, acked, dropped, redone, hmsg, gctx, reader, channel, svc, inbox>>

\* Faulty variants: the loop goes on with the next item; the statement is made
\* again at once.
SaveItemFailSkips(h, landed) ==
    /\ Goto(h, "save", "save")
    /\ hitem[h] < Items[hmsg[h]]
    /\ hitem' = [hitem EXCEPT ![h] = @ + 1]
    /\ UNCHANGED <<copies, queue, acked, dropped, redone, hmsg, gctx, reader, channel, svc, inbox, audits>>
SaveItemFailRetries(h, landed) ==
    /\ Goto(h, "save", "save")
    /\ hitem[h] < Items[hmsg[h]]
    /\ landed => gctx = "live"
    /\ audits' = IF landed THEN Audited(audits, hmsg[h], hitem[h] + 1) ELSE audits
    /\ UNCHANGED <<copies, queue, acked, dropped, redone, hmsg, hitem, gctx, reader, channel, svc, inbox>>

\* The statement fails, or the context was cancelled; the row may be there.
SaveItemFail(h, landed) ==
    /\ Goto(h, "save", "inbox")
    /\ hitem[h] < Items[hmsg[h]]
    /\ landed => gctx = "live"
    /\ audits' = IF landed THEN Audited(audits, hmsg[h], hitem[h] + 1) ELSE audits
    /\ UNCHANGED <<copies, queue, acked, dropped, redone, hmsg, hitem, gctx, reader, channel, svc, inbox>>

SaveDone(h) ==
    /\ Goto(h, "save", "ack")
    /\ hitem[h] = Items[hmsg[h]]
    /\ UNCHANGED <<copies, queue, acked, dropped, redone, hmsg, hitem, gctx, reader, channel, svc, inbox, audits>>

\* Faulty variant: ON CONFLICT DO UPDATE.
InboxInsertUpserts(h) ==
    /\ Goto(h, "inbox", "ack")
    /\ gctx = "live"
    /\ inbox' = [inbox EXCEPT ![hmsg[h]] = 0]
    /\ UNCHANGED <<copies, queue, acked, dropped, redone, hmsg, hitem, gctx, reader, channel, svc, audits>>

InboxInsert(h) ==
    /\ Goto(h, "inbox", "ack")
    /\ gctx = "live"
    /\ inbox[hmsg[h]] = NoRow
    /\ inbox' = [inbox EXCEPT ![hmsg[h]] = 0]
    /\ UNCHANGED <<copies, queue, acked, dropped, redone, hmsg, hitem, gctx, reader, channel, svc, audits>>

\* Faulty variants: the handler acknowledges all the same; it rejects the
\* message without requeue.
InboxInsertFailAcks(h, landed) ==
    /\ Goto(h, "inbox", "ack")
    /\ UNCHANGED <<copies, queue, acked, dropped, redone, hmsg, hitem, gctx, reader, channel, svc, inbox, audits>>
InboxInsertFailRejects(h, landed) ==
    /\ Goto(h, "inbox", "reject")
    /\ UNCHANGED <<copies, queue, acked, dropped, redone, hmsg, hitem, gctx, reader, channel, svc, inbox, audits>>

\* The statement fails (the row may be there all the same), the context was
\* cancelled, or message_id is already in the table.
InboxInsertFail(h, landed) ==
    /\ Goto(h, "inbox", "requeue")
    /\ landed => gctx = "live" /\ inbox[hmsg[h]] = NoRow
    /\ inbox' = IF landed THEN [inbox EXCEPT ![hmsg[h]] = 0] ELSE inbox
    /\ UNCHANGED <<copies, queue, acked, dropped, redone, hmsg, hitem, gctx, reader, channel, svc, audits>>

\* Faulty variant: the handler does not return, and acknowledges again.
AckRepeats(h) ==
    /\ channel = "open"
    /\ Goto(h, "ack", "ack")
    /\ acked' = [acked EXCEPT ![hmsg[h]] = @ + 1]
    /\ UNCHANGED <<copies, queue, dropped, redone, hmsg, hitem, gctx, reader, channel, svc, inbox, audits>>

Ack(h) ==
    /\ channel = "open"
    /\ Return(h, "ack", gctx)
    /\ acked' = [acked EXCEPT ![hmsg[h]] = @ + 1]
    /\ UNCHANGED <<copies, queue, dropped, redone, reader, channel, svc, inbox, audits>>

AckFail(h) ==
    /\ channel = "closed"
    /\ Return(h, "ack", "cancelled")
    /\ UNCHANGED <<copies, queue, acked, dropped, redone, reader, channel, svc, inbox, audits>>

\* Faulty variant: the handler goes on to acknowledge what it gave back.
RequeueFallsThrough(h) ==
    /\ Goto(h, "requeue", "ack")
    /\ channel = "open"
    /\ queue' = [queue EXCEPT ![hmsg[h]] = @ + 1]
    /\ UNCHANGED <<copies, acked, dropped, redone, hmsg, hitem, gctx, reader, channel, svc, inbox, audits>>

\* Nack(false, true).  On a closed channel it fails: the broker has given the
\* delivery back already.
Requeue(h) ==
    /\ Return(h, "requeue", "cancelled")
    /\ IF channel = "open"
       THEN /\ queue' = [queue EXCEPT ![hmsg[h]] = @ + 1]
            /\ redone' = [redone EXCEPT ![hmsg[h]] = AtMost(@ + 1)]
       ELSE UNCHANGED <<queue, redone>>
    /\ UNCHANGED <<copies, acked, dropped, reader, channel, svc, inbox, audits>>

\* Nack(false, false) of a message that cannot be decoded.
Reject(h) ==
    /\ Return(h, "reject", "cancelled")
    /\ dropped' = IF channel = "open" THEN [dropped EXCEPT ![hmsg[h]] = @ + 1] ELSE dropped
    /\ UNCHANGED <<redone, copies, queue, acked, reader, channel, svc, inbox, audits>>

-----------------------------------------------------------------------------
(* The connection and the process *)

\* What the broker does when the channel closes.
GiveBack ==
    IF channel = "open"
    THEN /\ queue' = [m \in Messages |-> queue[m] + Cardinality(Holding(m))]
         /\ redone' = [m \in Messages |-> AtMost(redone[m] + Cardinality(Holding(m)))]
    ELSE UNCHANGED <<queue, redone>>

ConnectionLost ==
    /\ svc # "down"
    /\ channel = "open"
    /\ channel' = "closed"
    /\ GiveBack
    /\ UNCHANGED <<copies, acked, dropped, hpc, hmsg, hitem, gctx, reader, svc, inbox, audits>>

\* SIGTERM: Run cancels the context of the consumer and of the inbox worker.
Stop ==
    /\ svc = "up"
    /\ svc' = "stopping"
    /\ gctx' = "cancelled"
    /\ UNCHANGED <<copies, queue, acked, dropped, redone, hpc, hmsg, hitem, reader, channel, inbox, audits>>

\* Shutdown returns, because the reader is done or after 10 s, and the channel
\* is closed.
Close ==
    /\ svc = "stopping"
    /\ svc' = "closing"
    /\ channel' = "closed"
    /\ GiveBack
    /\ UNCHANGED <<copies, acked, dropped, hpc, hmsg, hitem, gctx, reader, inbox, audits>>

\* The process ends, with the handlers it has.
Die ==
    /\ svc' = "down"
    /\ channel' = "closed"
    /\ GiveBack
    /\ hpc' = [h \in Handlers |-> "free"]
    /\ hmsg' = [h \in Handlers |-> NoMessage]
    /\ hitem' = [h \in Handlers |-> 0]
    /\ gctx' = "cancelled"
    /\ reader' = "done"
    /\ UNCHANGED <<copies, acked, dropped, inbox, audits>>

Exit == svc = "closing" /\ Die

Crash == svc \in {"up", "stopping"} /\ Die

Restart ==
    /\ svc = "down"
    /\ svc' = "up"
    /\ gctx' = "live"
    /\ reader' = "running"
    /\ channel' = "open"
    /\ UNCHANGED <<copies, queue, acked, dropped, redone, hpc, hmsg, hitem, inbox, audits>>

\* The steps of a handler the database lets through.
Work(h) ==
    \/ SaveItem(h) \/ SaveDone(h) \/ InboxInsert(h)
    \/ Ack(h) \/ AckFail(h) \/ Requeue(h) \/ Reject(h)

Fail(h) ==
    \E landed \in BOOLEAN : SaveItemFail(h, landed) \/ InboxInsertFail(h, landed)

Next ==
    \/ \E m \in Messages : Arrive(m) \/ \E h \in Handlers : Receive(h, m)
    \/ \E h \in Handlers : Work(h) \/ Fail(h)
    \/ ReaderDone \/ ConnectionLost \/ Stop \/ Close \/ Exit \/ Crash \/ Restart

Spec == Init /\ [][Next]_cvars

\* The statement a handler is about to make cannot succeed.
MustFail(h) == gctx = "cancelled" \/ (hpc[h] = "inbox" /\ inbox[hmsg[h]] # NoRow)

\* The reader takes what the broker delivers, a handler goes on when it can,
\* and fails when its context is cancelled or its row exists.  The service is
\* restarted when it is down, and only then.
Fairness ==
    /\ \A m \in Messages : SF_cvars(\E h \in Handlers : Receive(h, m))
    /\ \A h \in Handlers :
          /\ WF_cvars(Work(h))
          /\ WF_cvars(MustFail(h) /\ Fail(h))
    /\ WF_cvars(ReaderDone) /\ WF_cvars(Close) /\ WF_cvars(Exit) /\ WF_cvars(Restart)

FairSpec == Spec /\ Fairness

-----------------------------------------------------------------------------
(* Properties *)

TypeOK ==
    /\ copies \in [Messages -> 0 .. MaxCopies]
    /\ queue \in [Messages -> 0 .. MaxCopies]
    /\ acked \in [Messages -> 0 .. MaxCopies]
    /\ dropped \in [Messages -> 0 .. MaxCopies]
    /\ redone \in [Messages -> 0 .. MaxAudits]
    /\ hpc \in [Handlers -> {"free", "save", "inbox", "ack", "requeue", "reject"}]
    /\ hmsg \in [Handlers -> Messages \cup {NoMessage}]
    /\ hitem \in [Handlers -> Nat]
    /\ gctx \in {"live", "cancelled"}
    /\ reader \in {"running", "done"}
    /\ channel \in {"open", "closed"}
    /\ svc \in {"up", "stopping", "closing", "down"}
    /\ inbox \in [Messages -> Nat \cup {NoRow}]
    /\ \A m \in Messages : audits[m] \in [1 .. Items[m] -> 0 .. MaxAudits]

\* Deliveries the broker still waits for.
Unacked(m) == IF channel = "open" THEN Cardinality(Holding(m)) ELSE 0

\* The broker and the handlers agree on every copy of a message: it waits, is
\* being handled, was acknowledged or was rejected, and only one of these.
CopiesConserved ==
    \A m \in Messages : copies[m] = queue[m] + Unacked(m) + acked[m] + dropped[m]

FullyAudited(m) == \A i \in 1 .. Items[m] : audits[m][i] > 0

\* A message that is acknowledged is not lost: all its items are in the audit
\* log, or it is in the inbox.
AckedIsKept ==
    \A m \in Messages : acked[m] > 0 => FullyAudited(m) \/ inbox[m] # NoRow

\* Only a message that cannot be decoded is dropped, and none of those gets
\* into the inbox, whose worker would retry it in vain.
OnlyMalformedDropped ==
    \A m \in Messages : /\ dropped[m] > 0 => m \in Malformed
                        /\ inbox[m] # NoRow => m \notin Malformed

\* Whatever fails, items are audited in their order: there is no gap in the
\* audit log of an order.
AuditedInOrder ==
    \A m \in Messages : \A i \in 1 .. Items[m] :
        audits[m][i] > 0 => \A j \in 1 .. i : audits[m][j] > 0

\* An item is audited once for each delivery of its order that is or was being
\* handled: duplicates in the audit log come from redeliveries alone.
DuplicatesExplained ==
    \A m \in Messages : \A i \in 1 .. Items[m] :
        audits[m][i] <= acked[m] + Unacked(m) + redone[m]

\* "processMessage processes a single message from RabbitMQ": while the service
\* and its connection stay up, a message that can be decoded is audited or kept
\* for a retry, whatever became of the others.
EveryMessageHandled ==
    \A m \in Messages \ Malformed :
        queue[m] > 0 /\ [](svc = "up" /\ channel = "open")
            ~> (FullyAudited(m) \/ inbox[m] # NoRow)

-----------------------------------------------------------------------------
(* What the consumer promises: see AtLeastOnce *)

Owed == [m \in Messages |-> queue[m] + Unacked(m)]

Kept == {m \in Messages : inbox[m] # NoRow}

Written == [m \in Messages |-> {i \in 1 .. Items[m] : audits[m][i] > 0}]

Delivery == INSTANCE AtLeastOnce WITH
    Parts <- Items, owed <- Owed, kept <- Kept, written <- Written

\* A handler at work has its message still owed by the broker, also when the
\* channel it came on is closed; it is settled when its work is done, whatever
\* other handlers, copies, failures and crashes come in between.
ImplementsDelivery == Delivery!Spec

=============================================================================
