------------------------- MODULE AuditPipelineProofs -------------------------
(***************************************************************************)
(* The safety of AuditPipeline, for any number of orders, retries and      *)
(* copies.                                                                 *)
(***************************************************************************)
EXTENDS AuditPipeline, TLAPS

\* What was published is on its way, or came to its end, as long as no copy
\* of it is lost.
SentOnItsWay == \A m \in Messages : sent[m] > 0 => OnItsWay(m)

\* What is about to be acknowledged is in the audit log or in the inbox.
DoneIsKept == \A m \in Messages : done[m] > 0 => m \in audited \/ istatus[m] # "absent"

\* A table is told that a message was handed over only when it was.
HandedIsTrue ==
    /\ \A m \in ohanded : sent[m] > 0
    /\ ihanded \subseteq audited

\* The transaction comes to its commit only with the message handed over.
AuditBeforeCommit ==
    \A m \in Messages :
        call[m] = "commit" \/ m \in committed => sent[m] > 0 \/ ostatus[m] # "absent"

IInv == TypeOK /\ SentOnItsWay /\ DoneIsKept /\ HandedIsTrue /\ AuditBeforeCommit

-----------------------------------------------------------------------------

\* Initially nothing is sent, done or committed.
LEMMA InitIInv == Init => IInv
  BY MaxRetriesAssumption
     DEF Init, Outbox!Init, Inbox!Init, Zero, IInv, TypeOK, SentOnItsWay, DoneIsKept,
         HandedIsTrue, AuditBeforeCommit

\* The steps of order-svc keep the invariant.
LEMMA ProducerStep ==
    ASSUME IInv, NEW m \in Messages,
           \/ Call(m) \/ Publish(m) \/ PublishFail(m) \/ Save(m) \/ Commit(m)
           \/ \E landed \in BOOLEAN : SaveFail(m, landed) \/ CommitFail(m, landed)
           \/ OutboxPublish(m) \/ OutboxDelete(m) \/ OutboxMiss(m)
           \/ Restart
    PROVE  IInv'
<1> USE DEF IInv, TypeOK, SentOnItsWay, DoneIsKept, HandedIsTrue, AuditBeforeCommit,
        OnItsWay, Unacked, Goto, callVars, outboxVars, brokerVars, handlerVars, inboxVars
<1>1. CASE Call(m)
  BY <1>1 DEF Call
<1>2. CASE Publish(m)
  BY <1>2 DEF Publish, Send
<1>3. CASE PublishFail(m)
  BY <1>3 DEF PublishFail
<1>4. CASE Save(m)
  BY <1>4 DEF Save, Outbox!Enter
<1>5. CASE Commit(m)
  BY <1>5 DEF Commit
<1>6. ASSUME NEW landed \in BOOLEAN, SaveFail(m, landed) PROVE IInv'
  <2>1. CASE landed
    BY <1>6, <2>1 DEF SaveFail, Outbox!Enter
  <2>2. CASE ~ landed
    BY <1>6, <2>2 DEF SaveFail
  <2> QED
    BY <2>1, <2>2
<1>7. ASSUME NEW landed \in BOOLEAN, CommitFail(m, landed) PROVE IInv'
  BY <1>7 DEF CommitFail
<1>8. CASE OutboxPublish(m)
  BY <1>8 DEF OutboxPublish, Outbox!HandOver, Send
<1>9. CASE OutboxDelete(m)
  BY <1>9 DEF OutboxDelete, Outbox!Remove
<1>10. CASE OutboxMiss(m)
  BY <1>10 DEF OutboxMiss, Outbox!Miss
<1>11. CASE Restart
  BY <1>11 DEF Restart
<1> QED
  BY <1>1, <1>2, <1>3, <1>4, <1>5, <1>6, <1>7, <1>8, <1>9, <1>10, <1>11

\* The wire and the broker keep it: what they lose is in lost.
LEMMA BrokerStep ==
    ASSUME IInv, Break \/ BrokerRestart \/ \E m \in Messages : Reach(m)
    PROVE  IInv'
<1> USE DEF IInv, TypeOK, SentOnItsWay, DoneIsKept, HandedIsTrue, AuditBeforeCommit,
        OnItsWay, Unacked, Zero, callVars, outboxVars, handlerVars, inboxVars
<1>1. CASE Break
  BY <1>1 DEF Break
<1>2. CASE BrokerRestart
  BY <1>2 DEF BrokerRestart
<1>3. ASSUME NEW m \in Messages, Reach(m) PROVE IInv'
  BY <1>3 DEF Reach
<1> QED
  BY <1>1, <1>2, <1>3

\* The steps of the audit service keep it.
LEMMA ConsumerStep ==
    ASSUME IInv, NEW m \in Messages,
           \/ Deliver(m) \/ HandlerAudits(m) \/ HandlerSaves(m) \/ Ack(m)
           \/ \E landed \in BOOLEAN : HandlerFails(m, landed)
           \/ ConsumerBreak \/ ConsumerRestart
           \/ InboxAudits(m) \/ InboxDelete(m) \/ InboxMiss(m)
    PROVE  IInv'
<1> USE DEF IInv, TypeOK, SentOnItsWay, DoneIsKept, HandedIsTrue, AuditBeforeCommit,
        OnItsWay, Unacked, Zero, callVars, outboxVars, brokerVars, handlerVars, inboxVars
<1>1. CASE Deliver(m)
  BY <1>1 DEF Deliver
<1>2. CASE HandlerAudits(m)
  BY <1>2 DEF HandlerAudits, ToAck
<1>3. CASE HandlerSaves(m)
  BY <1>3 DEF HandlerSaves, ToAck, Inbox!Enter
<1>4. CASE Ack(m)
  BY <1>4 DEF Ack
<1>5. ASSUME NEW landed \in BOOLEAN, HandlerFails(m, landed) PROVE IInv'
  <2>1. CASE landed
    BY <1>5, <2>1 DEF HandlerFails, Inbox!Enter
  <2>2. CASE ~ landed
    BY <1>5, <2>2 DEF HandlerFails
  <2> QED
    BY <2>1, <2>2
<1>6. CASE ConsumerBreak
  BY <1>6 DEF ConsumerBreak
<1>7. CASE ConsumerRestart
  BY <1>7 DEF ConsumerRestart
<1>8. CASE InboxAudits(m)
  BY <1>8 DEF InboxAudits, Inbox!HandOver
<1>9. CASE InboxDelete(m)
  BY <1>9 DEF InboxDelete, Inbox!Remove
<1>10. CASE InboxMiss(m)
  BY <1>10 DEF InboxMiss, Inbox!Miss
<1> QED
  BY <1>1, <1>2, <1>3, <1>4, <1>5, <1>6, <1>7, <1>8, <1>9, <1>10

-----------------------------------------------------------------------------

\* The invariant that ties the places of a message to each other.
THEOREM Invariant == Spec => []IInv
<1>1. Init => IInv
  BY InitIInv
<1>2. IInv /\ [Next]_pvars => IInv'
  <2> SUFFICES ASSUME IInv, [Next]_pvars PROVE IInv'
    OBVIOUS
  <2>1. CASE UNCHANGED pvars
    BY <2>1 DEF IInv, TypeOK, SentOnItsWay, DoneIsKept, HandedIsTrue, AuditBeforeCommit,
       OnItsWay, Unacked, pvars, callVars, outboxVars, brokerVars, handlerVars, inboxVars
  <2>2. CASE Break \/ BrokerRestart
    BY <2>2, BrokerStep
  <2>3. CASE Restart \/ ConsumerBreak \/ ConsumerRestart
    <3>1. CASE Messages = {}
      BY <2>3, <3>1 DEF IInv, TypeOK, SentOnItsWay, DoneIsKept, HandedIsTrue,
         AuditBeforeCommit, Restart, ConsumerBreak, ConsumerRestart, Zero, callVars,
         outboxVars, brokerVars, handlerVars, inboxVars
    <3>2. CASE Messages # {}
      BY <2>3, <3>2, ProducerStep, ConsumerStep
    <3> QED
      BY <3>1, <3>2
  <2>4. ASSUME NEW m \in Messages,
               \/ Call(m) \/ Publish(m) \/ PublishFail(m) \/ Save(m) \/ Commit(m)
               \/ \E landed \in BOOLEAN :
                     SaveFail(m, landed) \/ CommitFail(m, landed) \/ HandlerFails(m, landed)
               \/ OutboxPublish(m) \/ OutboxDelete(m) \/ OutboxMiss(m)
               \/ Reach(m) \/ Deliver(m) \/ HandlerAudits(m) \/ HandlerSaves(m) \/ Ack(m)
               \/ InboxAudits(m) \/ InboxDelete(m) \/ InboxMiss(m)
        PROVE  IInv'
    BY <2>4, ProducerStep, BrokerStep, ConsumerStep
  <2> QED
    BY <2>1, <2>2, <2>3, <2>4 DEF Next
<1> QED
  BY <1>1, <1>2, PTL DEF Spec

\* Every variable of the pipeline keeps its type.
THEOREM TypeCorrect == Spec => []TypeOK
<1>1. IInv => TypeOK
  BY DEF IInv
<1> QED
  BY <1>1, Invariant, PTL

\* Every committed order is in the outbox or on its way to the audit log, or a
\* copy of its message was lost between services: the end-to-end account.
THEOREM OrdersAccounted == Spec => []CommittedAccounted
<1>1. IInv => CommittedAccounted
  BY DEF IInv, TypeOK, SentOnItsWay, AuditBeforeCommit, CommittedAccounted
<1> QED
  BY <1>1, Invariant, PTL

=============================================================================
