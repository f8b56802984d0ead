--------------------------- MODULE AuditSvcProofs ---------------------------
(***************************************************************************)
(* The audit service as a whole, for any messages, items, copies and       *)
(* handlers.  The consumer and the inbox worker write the same two tables, *)
(* so neither runs as its own model describes: each invariant is kept by   *)
(* the steps of its own side, which its own proofs cover, and by the       *)
(* little the other side does to the tables.                               *)
(***************************************************************************)
EXTENDS AuditSvc, FiniteSetTheorems, SequenceTheorems, TLAPS

ConsumerSafety == INSTANCE AuditConsumerProofs

WorkerSafety == INSTANCE InboxWorkerProofs WITH svc <- WorkerSvc

IInv == ConsumerSafety!IInv /\ WorkerSafety!IInv

-----------------------------------------------------------------------------
(* What a side relies on *)

\* The audit log loses no row.
AuditsGrow ==
    /\ DOMAIN audits' = Messages
    /\ \A m \in Messages : /\ audits'[m] \in [1 .. Items[m] -> 0 .. MaxAudits]
                           /\ \A i \in 1 .. Items[m] : audits[m][i] > 0 => audits'[m][i] > 0

\* The consumer only adds rows to the inbox.
RowsStay ==
    /\ inbox' \in [Messages -> 0 .. MaxRetries \cup {NoRow}]
    /\ \A m \in Messages : inbox[m] # NoRow => inbox'[m] = inbox[m]

\* The worker adds none, and removes only those of audited messages.
RowsSettle ==
    /\ inbox' \in [Messages -> Nat \cup {NoRow}]
    /\ \A m \in Messages :
          /\ inbox'[m] # NoRow => inbox[m] # NoRow
          /\ inbox[m] # NoRow /\ inbox'[m] = NoRow => Consumer!FullyAudited(m)

\* That is enough for the worker's batch to stay as it was read.
LEMMA WorkerUndisturbed ==
    ASSUME WorkerSafety!IInv, UNCHANGED workerVars, svc' \in {"up", "stopping", "closing", "down"},
           AuditsGrow, RowsStay
    PROVE  WorkerSafety!IInv'
<1> USE DEF workerVars, AuditsGrow, RowsStay, WorkerSafety!IInv, WorkerSafety!TypeOK
<1>1. \A i \in 1 .. Len(batch) : /\ batch[i].id \in Messages
                                 /\ batch[i].retry \in 0 .. MaxRetries - 1
    <2>1. \A i \in 1 .. Len(batch) : batch[i] \in WorkerSafety!Snapshot
        BY ElementOfSeq
    <2>. QED
        BY <2>1 DEF WorkerSafety!Snapshot
<1>2. WorkerSafety!SnapshotFresh'
    BY <1>1, MessagesAssumption, BoundsAssumption DEF WorkerSafety!SnapshotFresh
<1>3. wpc # "idle" => Len(batch) \in Nat \ {0} /\ WorkerSafety!Cur = batch[1]
    BY DEF WorkerSafety!Cur
<1>4. WorkerSafety!PassRecorded'
    <2>1. wpc # "idle" => WorkerSafety!Cur.id \in Messages
        BY <1>1, <1>3
    <2>2. UNCHANGED WorkerSafety!Cur
        BY DEF WorkerSafety!Cur
    <2>3. Items \in [Messages -> Nat]
        BY MessagesAssumption
    <2>. QED
        BY <2>1, <2>2, <2>3 DEF WorkerSafety!PassRecorded, WorkerSafety!FullyAudited
<1>5. WorkerSafety!TypeOK'
    BY DEF WorkerSvc
<1>. QED
    BY <1>2, <1>4, <1>5

\* And for the handlers to find the tables as they left them.
LEMMA ConsumerUndisturbed ==
    ASSUME ConsumerSafety!IInv, UNCHANGED <<consumerVars, svc>>,
           AuditsGrow, RowsSettle, ConsumerSafety!AuditedInOrder'
    PROVE  ConsumerSafety!IInv'
<1> USE DEF consumerVars, AuditsGrow, RowsSettle, ConsumerSafety!IInv
<1>1. ConsumerSafety!Types'
    BY DEF ConsumerSafety!Types
<1>2. ConsumerSafety!DownIsIdle'
    BY DEF ConsumerSafety!DownIsIdle
<1>3. ConsumerSafety!CopiesConserved'
    <2>1. \A m \in Messages : UNCHANGED ConsumerSafety!Unacked(m)
        BY DEF ConsumerSafety!Unacked, ConsumerSafety!Holding, ConsumerSafety!Busy
    <2>. QED
        BY <2>1 DEF ConsumerSafety!CopiesConserved
<1>4. \A m \in Messages : ConsumerSafety!FullyAudited(m) => ConsumerSafety!FullyAudited(m)'
    BY DEF ConsumerSafety!FullyAudited
<1>5. \A m \in Messages : inbox[m] # NoRow => inbox'[m] # NoRow \/ ConsumerSafety!FullyAudited(m)'
    BY <1>4 DEF ConsumerSafety!FullyAudited, Consumer!FullyAudited
<1>6. ConsumerSafety!AckedIsKept'
    BY <1>4, <1>5 DEF ConsumerSafety!AckedIsKept
<1>7. ConsumerSafety!OnlyMalformedDropped'
    BY DEF ConsumerSafety!OnlyMalformedDropped
<1>8. ConsumerSafety!HandlersOK'
    <2> SUFFICES ASSUME NEW h \in Handlers, hpc[h] # "free"
                 PROVE  /\ hmsg[h] \in Messages /\ hitem[h] <= Items[hmsg[h]]
                        /\ hpc[h] = "reject" <=> hmsg[h] \in Malformed
                        /\ \A i \in 1 .. hitem[h] : audits'[hmsg[h]][i] > 0
                        /\ hpc[h] = "ack" => \/ ConsumerSafety!FullyAudited(hmsg[h])'
                                             \/ inbox'[hmsg[h]] # NoRow
        BY DEF ConsumerSafety!HandlersOK
    <2>1. /\ hmsg[h] \in Messages /\ hitem[h] <= Items[hmsg[h]]
          /\ hpc[h] = "reject" <=> hmsg[h] \in Malformed
          /\ \A i \in 1 .. hitem[h] : audits[hmsg[h]][i] > 0
          /\ hpc[h] = "ack" => \/ ConsumerSafety!FullyAudited(hmsg[h])
                               \/ inbox[hmsg[h]] # NoRow
        BY DEF ConsumerSafety!HandlersOK
    <2>2. hitem[h] \in Nat /\ Items[hmsg[h]] \in Nat
        BY <2>1, MessagesAssumption DEF ConsumerSafety!Types
    <2>. QED
        BY <1>4, <1>5, <2>1, <2>2
<1>. QED
    BY <1>1, <1>2, <1>3, <1>6, <1>7, <1>8

-----------------------------------------------------------------------------
(* The steps of the consumer *)

\* The handlers' steps are those AuditConsumerProofs is about.
LEMMA HandlerSame ==
    ASSUME NEW h \in Handlers
    PROVE  /\ Consumer!Work(h) => ConsumerSafety!Work(h)
           /\ Consumer!Fail(h) => ConsumerSafety!Fail(h)
<1> USE DEF Consumer!Goto, ConsumerSafety!Goto, Consumer!Return, ConsumerSafety!Return,
        Consumer!Audited, ConsumerSafety!Audited, Consumer!AtMost, ConsumerSafety!AtMost
<1>1. /\ Consumer!SaveItem(h) => ConsumerSafety!SaveItem(h)
      /\ Consumer!SaveDone(h) => ConsumerSafety!SaveDone(h)
      /\ Consumer!InboxInsert(h) => ConsumerSafety!InboxInsert(h)
    BY DEF Consumer!SaveItem, ConsumerSafety!SaveItem, Consumer!SaveDone,
        ConsumerSafety!SaveDone, Consumer!InboxInsert, ConsumerSafety!InboxInsert
<1>2. /\ Consumer!Ack(h) => ConsumerSafety!Ack(h)
      /\ Consumer!AckFail(h) => ConsumerSafety!AckFail(h)
      /\ Consumer!Requeue(h) => ConsumerSafety!Requeue(h)
      /\ Consumer!Reject(h) => ConsumerSafety!Reject(h)
    BY DEF Consumer!Ack, ConsumerSafety!Ack, Consumer!AckFail,
        ConsumerSafety!AckFail, Consumer!Requeue, ConsumerSafety!Requeue,
        Consumer!Reject, ConsumerSafety!Reject
<1>3. \A landed \in BOOLEAN :
          /\ Consumer!SaveItemFail(h, landed) => ConsumerSafety!SaveItemFail(h, landed)
          /\ Consumer!InboxInsertFail(h, landed) => ConsumerSafety!InboxInsertFail(h, landed)
    BY DEF Consumer!SaveItemFail, ConsumerSafety!SaveItemFail,
        Consumer!InboxInsertFail, ConsumerSafety!InboxInsertFail
<1>. QED
    BY <1>1, <1>2, <1>3
    DEF Consumer!Work, ConsumerSafety!Work, Consumer!Fail, ConsumerSafety!Fail

\* So are those of the queue, the reader and the process.
LEMMA ProcessSame ==
    /\ \A m \in Messages : Consumer!Arrive(m) => ConsumerSafety!Arrive(m)
    /\ \A m \in Messages, h \in Handlers :
          Consumer!Receive(h, m) => ConsumerSafety!Receive(h, m)
    /\ Consumer!ReaderDone => ConsumerSafety!ReaderDone
    /\ Consumer!ConnectionLost => ConsumerSafety!ConnectionLost
    /\ Consumer!Stop => ConsumerSafety!Stop
    /\ Consumer!Close => ConsumerSafety!Close
    /\ Consumer!Exit => ConsumerSafety!Exit
    /\ Consumer!Crash => ConsumerSafety!Crash
    /\ Consumer!Restart => ConsumerSafety!Restart
    /\ UNCHANGED Consumer!cvars => UNCHANGED ConsumerSafety!cvars
<1> USE DEF Consumer!AtMost, ConsumerSafety!AtMost, Consumer!Busy, ConsumerSafety!Busy,
        Consumer!Holding, ConsumerSafety!Holding, Consumer!GiveBack, ConsumerSafety!GiveBack,
        Consumer!Cardinality, ConsumerSafety!Cardinality
<1>1. /\ \A m \in Messages : Consumer!Arrive(m) => ConsumerSafety!Arrive(m)
      /\ \A m \in Messages, h \in Handlers :
            Consumer!Receive(h, m) => ConsumerSafety!Receive(h, m)
      /\ UNCHANGED Consumer!cvars => UNCHANGED ConsumerSafety!cvars
    BY DEF Consumer!Arrive, ConsumerSafety!Arrive, Consumer!Receive, ConsumerSafety!Receive,
        Consumer!cvars, ConsumerSafety!cvars
<1>2. /\ Consumer!ReaderDone => ConsumerSafety!ReaderDone
      /\ Consumer!ConnectionLost => ConsumerSafety!ConnectionLost
      /\ Consumer!Stop => ConsumerSafety!Stop
      /\ Consumer!Restart => ConsumerSafety!Restart
    BY DEF Consumer!ReaderDone, ConsumerSafety!ReaderDone, Consumer!ConnectionLost,
        ConsumerSafety!ConnectionLost, Consumer!Stop, ConsumerSafety!Stop,
        Consumer!Restart, ConsumerSafety!Restart
<1>3. Consumer!Close => ConsumerSafety!Close
    BY DEF Consumer!Close, ConsumerSafety!Close
<1>4. /\ Consumer!Exit => ConsumerSafety!Exit
      /\ Consumer!Crash => ConsumerSafety!Crash
    BY DEF Consumer!Exit, ConsumerSafety!Exit, Consumer!Crash,
        ConsumerSafety!Crash, Consumer!Die, ConsumerSafety!Die
<1>. QED
    BY <1>1, <1>2, <1>3, <1>4

\* A step of the consumer or of the process is one AuditConsumerProofs covers.
LEMMA ConsumerSteps ==
    ASSUME ConsumerStep \/ Stop \/ Close \/ Exit \/ Crash \/ Restart \/ UNCHANGED vars
    PROVE  [ConsumerSafety!Next]_(ConsumerSafety!cvars)
<1>1. CASE ConsumerStep
    BY <1>1, HandlerSame, ProcessSame DEF ConsumerStep, ConsumerSafety!Next
<1>2. CASE Stop \/ Close \/ Exit \/ Crash \/ Restart
    BY <1>2, ProcessSame DEF Stop, Close, Exit, Crash, Restart, ConsumerSafety!Next
<1>3. CASE UNCHANGED vars
    BY <1>3 DEF vars, consumerVars, ConsumerSafety!cvars
<1>. QED
    BY <1>1, <1>2, <1>3

\* A step of the consumer keeps its own invariant.
LEMMA ConsumerKeeps ==
    ASSUME ConsumerSafety!IInv,
           ConsumerStep \/ Stop \/ Close \/ Exit \/ Crash \/ Restart \/ UNCHANGED vars
    PROVE  ConsumerSafety!IInv'
    BY ConsumerSteps, ConsumerSafety!Inductive, MessagesAssumption, BoundsAssumption
    DEF IsFiniteSet, ConsumerSafety!IsFiniteSet

\* What it does to the tables leaves the worker alone.
LEMMA ConsumerRely ==
    ASSUME IInv, ConsumerStep
    PROVE  AuditsGrow /\ RowsStay
<1> USE DEF IInv
<1>0. /\ AuditsGrow \/ audits' # audits
      /\ RowsStay \/ inbox' # inbox
    BY DEF AuditsGrow, RowsStay, ConsumerSafety!IInv, ConsumerSafety!Types,
        WorkerSafety!IInv, WorkerSafety!TypeOK
<1>1. ASSUME NEW h \in Handlers, NEW landed \in BOOLEAN,
             ConsumerSafety!SaveItem(h) \/ ConsumerSafety!SaveItemFail(h, landed)
      PROVE  AuditsGrow /\ RowsStay
    <2>1. /\ inbox' = inbox /\ hpc[h] = "save" /\ hitem[h] < Items[hmsg[h]]
          /\ \/ audits' = audits
             \/ audits' = ConsumerSafety!Audited(audits, hmsg[h], hitem[h] + 1)
        BY <1>1
        DEF ConsumerSafety!SaveItem, ConsumerSafety!SaveItemFail, ConsumerSafety!Goto
    <2>2. hmsg[h] \in Messages /\ hitem[h] \in Nat
        BY <2>1 DEF ConsumerSafety!IInv, ConsumerSafety!HandlersOK, ConsumerSafety!Types
    <2>3. hitem[h] + 1 \in 1 .. Items[hmsg[h]]
        BY <2>1, <2>2, MessagesAssumption
    <2>4. ConsumerSafety!Types
        BY DEF ConsumerSafety!IInv
    <2>5. audits' = ConsumerSafety!Audited(audits, hmsg[h], hitem[h] + 1) => AuditsGrow
        BY <2>2, <2>3, <2>4, ConsumerSafety!AuditedGrows, MessagesAssumption, BoundsAssumption
        DEF AuditsGrow, IsFiniteSet, ConsumerSafety!IsFiniteSet
    <2>. QED
        BY <1>0, <2>1, <2>5
<1>2. ASSUME NEW h \in Handlers, NEW landed \in BOOLEAN,
             ConsumerSafety!InboxInsert(h) \/ ConsumerSafety!InboxInsertFail(h, landed)
      PROVE  AuditsGrow /\ RowsStay
    <2>1. /\ audits' = audits
          /\ \/ inbox' = inbox
             \/ inbox[hmsg[h]] = NoRow /\ inbox' = [inbox EXCEPT ![hmsg[h]] = 0]
        BY <1>2 DEF ConsumerSafety!InboxInsert, ConsumerSafety!InboxInsertFail
    <2>2. inbox[hmsg[h]] = NoRow /\ inbox' = [inbox EXCEPT ![hmsg[h]] = 0] => RowsStay
        <3>1. 0 \in 0 .. MaxRetries
            BY BoundsAssumption
        <3>2. inbox \in [Messages -> 0 .. MaxRetries \cup {NoRow}]
            BY DEF WorkerSafety!IInv, WorkerSafety!TypeOK
        <3>. QED
            BY <3>1, <3>2 DEF RowsStay
    <2>. QED
        BY <1>0, <2>1, <2>2
<1>3. ASSUME \/ \E m \in Messages : \/ ConsumerSafety!Arrive(m)
                                    \/ \E h \in Handlers : ConsumerSafety!Receive(h, m)
             \/ \E h \in Handlers : \/ ConsumerSafety!SaveDone(h) \/ ConsumerSafety!Ack(h)
                                    \/ ConsumerSafety!AckFail(h) \/ ConsumerSafety!Requeue(h)
                                    \/ ConsumerSafety!Reject(h)
             \/ ConsumerSafety!ReaderDone \/ ConsumerSafety!ConnectionLost
      PROVE  AuditsGrow /\ RowsStay
    BY <1>0, <1>3
    DEF ConsumerSafety!Arrive, ConsumerSafety!Receive, ConsumerSafety!SaveDone,
        ConsumerSafety!Ack, ConsumerSafety!AckFail, ConsumerSafety!Requeue,
        ConsumerSafety!Reject, ConsumerSafety!ReaderDone, ConsumerSafety!ConnectionLost
<1>. QED
    BY <1>1, <1>2, <1>3, HandlerSame, ProcessSame
    DEF ConsumerStep, ConsumerSafety!Work, ConsumerSafety!Fail

-----------------------------------------------------------------------------
(* The steps of the worker *)

\* The worker's steps are those InboxWorkerProofs is about.
LEMMA WorkerSame ==
    /\ Worker!Poll => WorkerSafety!Poll
    /\ Worker!SaveItem => WorkerSafety!SaveItem
    /\ Worker!SaveDone => WorkerSafety!SaveDone
    /\ \A landed \in BOOLEAN : Worker!SaveItemFail(landed) => WorkerSafety!SaveItemFail(landed)
    /\ Worker!Delete => WorkerSafety!Delete
    /\ Worker!UpdateRetry => WorkerSafety!UpdateRetry
    /\ Worker!WriteFail => WorkerSafety!WriteFail
    /\ Worker!Die => WorkerSafety!Die
<1> USE DEF Worker!Cur, WorkerSafety!Cur, Worker!Audited, WorkerSafety!Audited,
        Worker!Advance, WorkerSafety!Advance
<1>1. Worker!Poll => WorkerSafety!Poll
    BY DEF Worker!Poll, WorkerSafety!Poll, Worker!Pending, WorkerSafety!Pending
<1>2. /\ Worker!SaveItem => WorkerSafety!SaveItem
      /\ Worker!SaveDone => WorkerSafety!SaveDone
      /\ \A landed \in BOOLEAN :
            Worker!SaveItemFail(landed) => WorkerSafety!SaveItemFail(landed)
    BY DEF Worker!SaveItem, WorkerSafety!SaveItem, Worker!SaveDone, WorkerSafety!SaveDone,
        Worker!SaveItemFail, WorkerSafety!SaveItemFail
<1>3. /\ Worker!Delete => WorkerSafety!Delete
      /\ Worker!UpdateRetry => WorkerSafety!UpdateRetry
      /\ Worker!WriteFail => WorkerSafety!WriteFail
      /\ Worker!Die => WorkerSafety!Die
    BY DEF Worker!Delete, WorkerSafety!Delete, Worker!UpdateRetry, WorkerSafety!UpdateRetry,
        Worker!WriteFail, WorkerSafety!WriteFail, Worker!Die, WorkerSafety!Die
<1>. QED
    BY <1>1, <1>2, <1>3

\* A step of the worker, or the end of its process, keeps its own invariant.
LEMMA WorkerKeeps ==
    ASSUME WorkerSafety!IInv, WorkerStep \/ Exit \/ Crash
    PROVE  WorkerSafety!IInv'
<1>1. WorkerSafety!Next
    BY WorkerSame DEF WorkerStep, Exit, Crash, WorkerSafety!Next
<1>. QED
    BY <1>1, WorkerSafety!Inductive, MessagesAssumption, BoundsAssumption

\* What it does to the tables leaves the handlers alone: it writes the items of
\* an order from the first one on, and a message goes when all are written.
LEMMA WorkerRely ==
    ASSUME IInv, WorkerStep
    PROVE  AuditsGrow /\ RowsSettle /\ ConsumerSafety!AuditedInOrder'
<1> USE DEF IInv
<1>0. /\ audits' = audits => AuditsGrow /\ ConsumerSafety!AuditedInOrder'
      /\ inbox' = inbox => RowsSettle
    BY DEF AuditsGrow, RowsSettle, ConsumerSafety!IInv, ConsumerSafety!Types,
        ConsumerSafety!AuditedInOrder
<1>1. /\ MaxRetries \in Nat \ {0} /\ WorkerSafety!IInv
      /\ WorkerSafety!TypeOK /\ WorkerSafety!SnapshotFresh /\ WorkerSafety!PassRecorded
    BY BoundsAssumption DEF WorkerSafety!IInv
<1>2. wpc # "idle" =>
          /\ WorkerSafety!Cur.id \in Messages /\ WorkerSafety!Cur.retry \in 0 .. MaxRetries - 1
          /\ inbox[WorkerSafety!Cur.id] = WorkerSafety!Cur.retry
    BY <1>1, WorkerSafety!InHand, MessagesAssumption, BoundsAssumption
<1> DEFINE m == WorkerSafety!Cur.id
<1>3. ASSUME NEW landed \in BOOLEAN,
             WorkerSafety!SaveItem \/ WorkerSafety!SaveItemFail(landed)
      PROVE  AuditsGrow /\ RowsSettle /\ ConsumerSafety!AuditedInOrder'
    <2>1. /\ wpc = "save" /\ item < Items[m] /\ inbox' = inbox
          /\ audits' = audits \/ audits' = WorkerSafety!Audited(audits, m, item + 1)
        BY <1>3 DEF WorkerSafety!SaveItem, WorkerSafety!SaveItemFail
    <2>2. /\ m \in Messages /\ item \in Nat /\ item + 1 \in 1 .. Items[m]
          /\ \A i \in 1 .. item : audits[m][i] > 0
        BY <1>1, <1>2, <2>1, MessagesAssumption
        DEF WorkerSafety!TypeOK, WorkerSafety!PassRecorded
    <2>3. CASE audits' = WorkerSafety!Audited(audits, m, item + 1)
        <3>1. /\ AuditsGrow /\ audits'[m][item + 1] > 0
              /\ \A k \in Messages \ {m} : audits'[k] = audits[k]
            BY <1>1, <2>2, <2>3, WorkerSafety!AuditedGrows, MessagesAssumption,
                BoundsAssumption
            DEF AuditsGrow
        <3>2. \A i \in 1 .. Items[m] : i # item + 1 => audits'[m][i] = audits[m][i]
            BY <1>1, <2>2, <2>3 DEF WorkerSafety!Audited, WorkerSafety!IInv, WorkerSafety!TypeOK
        <3>3. \A i \in 1 .. item + 1 : audits'[m][i] > 0
            <4>1. Items[m] \in Nat
                BY <2>2, MessagesAssumption
            <4>2. \A i \in 1 .. item : i \in 1 .. Items[m] /\ audits[m][i] > 0
                BY <2>2, <4>1
            <4>3. \A i \in 1 .. item : audits'[m][i] > 0
                BY <2>2, <3>1, <4>2 DEF AuditsGrow
            <4>4. \A i \in 1 .. item + 1 : i \in 1 .. item \/ i = item + 1
                BY <2>2
            <4>. QED
                BY <3>1, <4>3, <4>4
        <3>4. \A i \in 1 .. Items[m] : audits'[m][i] > 0 =>
                  \A j \in 1 .. i : audits'[m][j] > 0
            <4> SUFFICES ASSUME NEW i \in 1 .. Items[m], audits'[m][i] > 0, NEW j \in 1 .. i
                         PROVE  audits'[m][j] > 0
                OBVIOUS
            <4>1. CASE i <= item + 1
                BY <2>2, <3>3, <4>1
            <4>2. CASE i > item + 1
                <5>1. audits[m][i] > 0
                    BY <2>2, <3>2, <4>2
                <5>2. audits[m][j] > 0 /\ j \in 1 .. Items[m]
                    BY <2>2, <5>1, MessagesAssumption
                    DEF ConsumerSafety!IInv, ConsumerSafety!AuditedInOrder
                <5>. QED
                    BY <2>2, <3>1, <5>2 DEF AuditsGrow
            <4>. QED
                BY <2>2, <4>1, <4>2
        <3>5. ConsumerSafety!AuditedInOrder'
            BY <3>1, <3>4 DEF ConsumerSafety!IInv, ConsumerSafety!AuditedInOrder
        <3>. QED
            BY <1>0, <2>1, <3>1, <3>5
    <2>. QED
        BY <1>0, <2>1, <2>3
<1>4. CASE WorkerSafety!Delete
    <2>1. /\ wpc = "delete" /\ audits' = audits /\ inbox' = [inbox EXCEPT ![m] = NoRow]
        BY <1>4 DEF WorkerSafety!Delete
    <2>2. Consumer!FullyAudited(m)
        BY <1>1, <2>1
        DEF WorkerSafety!PassRecorded, WorkerSafety!FullyAudited, Consumer!FullyAudited
    <2>3. RowsSettle
        BY <1>2, <2>1, <2>2 DEF RowsSettle, ConsumerSafety!IInv, ConsumerSafety!Types
    <2>. QED
        BY <1>0, <2>1, <2>3
<1>5. CASE WorkerSafety!UpdateRetry
    <2>1. /\ wpc = "update" /\ audits' = audits
          /\ inbox' = [inbox EXCEPT ![m] = IF @ = NoRow THEN NoRow ELSE WorkerSafety!Cur.retry + 1]
        BY <1>5 DEF WorkerSafety!UpdateRetry
    <2>2. inbox[m] # NoRow /\ WorkerSafety!Cur.retry + 1 \in Nat
        BY <1>1, <1>2, <2>1, MessagesAssumption
    <2>3. inbox' = [inbox EXCEPT ![m] = WorkerSafety!Cur.retry + 1]
        BY <2>1, <2>2
    <2>4. RowsSettle
        BY <1>2, <2>1, <2>2, <2>3, MessagesAssumption
        DEF RowsSettle, ConsumerSafety!IInv, ConsumerSafety!Types
    <2>. QED
        BY <1>0, <2>1, <2>4
<1>6. CASE WorkerSafety!Poll \/ WorkerSafety!SaveDone \/ WorkerSafety!WriteFail
    BY <1>0, <1>6 DEF WorkerSafety!Poll, WorkerSafety!SaveDone, WorkerSafety!WriteFail
<1>. QED
    BY <1>3, <1>4, <1>5, <1>6, WorkerSame DEF WorkerStep

-----------------------------------------------------------------------------
(* The service *)

\* The invariants of the consumer and of the worker hold together.
THEOREM Invariant == Spec => []IInv
<1>1. Init => IInv
    <2>1. Init => ConsumerSafety!IInv
        <3>1. Init => ConsumerSafety!Init
            BY DEF Init, Consumer!Init, ConsumerSafety!Init
        <3>. QED
            BY <3>1, ConsumerSafety!InitIInv, MessagesAssumption, BoundsAssumption
            DEF IsFiniteSet, ConsumerSafety!IsFiniteSet
    <2>2. Init => WorkerSafety!IInv
        BY BoundsAssumption, EmptySeq
        DEF Init, Worker!Init, WorkerSvc, WorkerSafety!IInv, WorkerSafety!TypeOK,
            WorkerSafety!SnapshotFresh, WorkerSafety!PassRecorded
    <2>. QED
        BY <2>1, <2>2 DEF IInv
<1>2. ASSUME IInv, [Next]_vars PROVE IInv'
    <2> USE <1>2 DEF IInv
    <2>1. CASE ConsumerStep
        <3>1. UNCHANGED workerVars
            BY <2>1 DEF ConsumerStep
        <3>2. ConsumerSafety!IInv'
            BY <2>1, ConsumerKeeps
        <3>3. svc' \in {"up", "stopping", "closing", "down"}
            BY <3>2 DEF ConsumerSafety!IInv, ConsumerSafety!Types
        <3>. QED
            BY <2>1, <3>1, <3>2, <3>3, ConsumerRely, WorkerUndisturbed
    <2>2. CASE WorkerStep
        <3>1. UNCHANGED <<consumerVars, svc>>
            BY <2>2 DEF WorkerStep
        <3>. QED
            BY <2>2, <3>1, WorkerKeeps, WorkerRely, ConsumerUndisturbed
    <2>3. CASE Stop \/ Close \/ Restart \/ UNCHANGED vars
        <3>1. UNCHANGED workerVars /\ UNCHANGED <<inbox, audits>>
            BY <2>3
            DEF Stop, Close, Restart, vars, Consumer!Stop, Consumer!Close, Consumer!Restart,
                workerVars
        <3>2. ConsumerSafety!IInv'
            BY <2>3, ConsumerKeeps
        <3>3. svc' \in {"up", "stopping", "closing", "down"}
            BY <3>2 DEF ConsumerSafety!IInv, ConsumerSafety!Types
        <3>4. AuditsGrow /\ RowsStay
            BY <3>1 DEF AuditsGrow, RowsStay, WorkerSafety!IInv, WorkerSafety!TypeOK
        <3>. QED
            BY <3>1, <3>2, <3>3, <3>4, WorkerUndisturbed
    <2>4. CASE Exit \/ Crash
        BY <2>4, ConsumerKeeps, WorkerKeeps
    <2>. QED
        BY <2>1, <2>2, <2>3, <2>4 DEF Next
<1>. QED
    BY <1>1, <1>2, PTL DEF Spec

\* Whatever the handlers, the worker and the crashes do to each other, an
\* acknowledged order is in the audit log with all its items or in the inbox:
\* the worker takes no message away that is not fully audited.
THEOREM AckedMessagesKept == Spec => []AckedIsKept
<1>1. IInv => AckedIsKept
    BY DEF IInv, ConsumerSafety!IInv, AckedIsKept, ConsumerSafety!AckedIsKept,
        Consumer!AckedIsKept, ConsumerSafety!FullyAudited, Consumer!FullyAudited
<1>. QED
    BY <1>1, Invariant, PTL

\* Handlers and the worker may write the items of an order at the same time:
\* each starts with the first one, so the audit log has no gap.
THEOREM NoGaps == Spec => []AuditedInOrder
<1>1. IInv => AuditedInOrder
    BY DEF IInv, ConsumerSafety!IInv, AuditedInOrder, ConsumerSafety!AuditedInOrder,
        Consumer!AuditedInOrder
<1>. QED
    BY <1>1, Invariant, PTL

\* The worker's rows stay as it read them, although handlers insert rows of the
\* same messages: they never touch a row that is there.
THEOREM Freshness == Spec => []SnapshotFresh
<1>1. IInv => SnapshotFresh
    BY DEF IInv, WorkerSafety!IInv, SnapshotFresh, WorkerSafety!SnapshotFresh,
        Worker!SnapshotFresh
<1>. QED
    BY <1>1, Invariant, PTL

-----------------------------------------------------------------------------
(* The refinement of RetryTable *)

\* A row that a handler inserts is an entry.
LEMMA HandlerEnters ==
    ASSUME IInv, NEW m \in Messages, inbox[m] = NoRow, inbox' = [inbox EXCEPT ![m] = 0],
           UNCHANGED audits
    PROVE  Table!Enter(m)
<1>1. inbox \in [Messages -> 0 .. MaxRetries \cup {NoRow}]
    BY DEF IInv, WorkerSafety!IInv, WorkerSafety!TypeOK
<1>2. Worker!Status[m] = "absent"
    BY DEF Worker!Status
<1>3. Worker!Status' = [Worker!Status EXCEPT ![m] = "pending"]
    <2>1. inbox'[m] = 0 /\ NoRow # 0 /\ ~ 0 >= MaxRetries
        BY <1>1, MessagesAssumption, BoundsAssumption
    <2>2. \A k \in Messages : k # m => inbox'[k] = inbox[k]
        BY <1>1
    <2>. QED
        BY <2>1, <2>2 DEF Worker!Status, Worker!Abandoned
<1>4. UNCHANGED <<Worker!Tries, Worker!Handed>>
    BY <1>1 DEF Worker!Tries, Worker!Handed, Worker!FullyAudited
<1>. QED
    BY <1>2, <1>3, <1>4 DEF Table!Enter

\* What a handler audits may complete a message.
LEMMA HandlerHandsOver ==
    ASSUME AuditsGrow, UNCHANGED <<inbox, workerVars>>
    PROVE  HandedByHandler
<1>1. \A m \in Messages : Worker!FullyAudited(m) => Worker!FullyAudited(m)'
    BY DEF AuditsGrow, Worker!FullyAudited
<1>2. UNCHANGED <<Worker!Status, Worker!Tries>>
    BY DEF Worker!Status, Worker!Tries, Worker!Abandoned
<1>. QED
    BY <1>1, <1>2 DEF HandedByHandler, Worker!Handed

\* RetryTable, as it is instantiated for the worker's own proofs.
LEMMA TableSame ==
    [WorkerSafety!Table!Next]_(WorkerSafety!Table!tvars) => [Table!Next]_(Table!tvars)
<1>1. /\ UNCHANGED WorkerSafety!Table!tvars => UNCHANGED Table!tvars
      /\ \A m \in Messages :
            /\ WorkerSafety!Table!Enter(m) => Table!Enter(m)
            /\ WorkerSafety!Table!HandOver(m) => Table!HandOver(m)
            /\ WorkerSafety!Table!Remove(m) => Table!Remove(m)
            /\ WorkerSafety!Table!Miss(m) => Table!Miss(m)
    BY DEF WorkerSafety!Table!tvars, Table!tvars, WorkerSafety!Table!Enter, Table!Enter,
        WorkerSafety!Table!HandOver, Table!HandOver, WorkerSafety!Table!Remove, Table!Remove,
        WorkerSafety!Table!Miss, Table!Miss,
        WorkerSafety!Status, WorkerSafety!Tries, WorkerSafety!Handed,
        WorkerSafety!Abandoned, WorkerSafety!FullyAudited,
        Worker!Status, Worker!Tries, Worker!Handed, Worker!Abandoned, Worker!FullyAudited
<1>. QED
    BY <1>1 DEF WorkerSafety!Table!Next, Table!Next

\* Every step of the service is a step of RetryTable, the end of an audit by a
\* handler, or changes nothing that RetryTable tells apart.
LEMMA TableStep ==
    ASSUME IInv, [Next]_vars
    PROVE  [Table!Next \/ HandedByHandler]_(Table!tvars)
<1>1. CASE ConsumerStep
    <2>1. AuditsGrow /\ UNCHANGED workerVars
        BY <1>1, ConsumerRely DEF ConsumerStep
    <2>2. CASE inbox' = inbox
        BY <2>1, <2>2, HandlerHandsOver
    <2>3. ASSUME NEW h \in Handlers, inbox[hmsg[h]] = NoRow,
                 inbox' = [inbox EXCEPT ![hmsg[h]] = 0], UNCHANGED audits, hpc[h] = "inbox"
          PROVE  Table!Next
        <3>1. hmsg[h] \in Messages
            BY <2>3 DEF IInv, ConsumerSafety!IInv, ConsumerSafety!HandlersOK
        <3>. QED
            BY <2>3, <3>1, HandlerEnters DEF Table!Next
    <2>4. ASSUME inbox' # inbox
          PROVE  \E h \in Handlers :
                    /\ inbox[hmsg[h]] = NoRow /\ inbox' = [inbox EXCEPT ![hmsg[h]] = 0]
                    /\ UNCHANGED audits /\ hpc[h] = "inbox"
        <3>1. \E h \in Handlers :
                 \/ Consumer!InboxInsert(h)
                 \/ \E landed \in BOOLEAN : Consumer!InboxInsertFail(h, landed)
            BY <1>1, <2>4
            DEF ConsumerStep, Consumer!Work, Consumer!Fail, Consumer!Arrive, Consumer!Receive,
                Consumer!SaveItem, Consumer!SaveItemFail, Consumer!SaveDone, Consumer!Ack,
                Consumer!AckFail, Consumer!Requeue, Consumer!Reject, Consumer!ReaderDone,
                Consumer!ConnectionLost
        <3>. QED
            BY <2>4, <3>1
            DEF Consumer!InboxInsert, Consumer!InboxInsertFail, Consumer!Goto
    <2>. QED
        BY <2>2, <2>3, <2>4
<1>2. CASE WorkerStep
    <2>1. WorkerSafety!Next
        BY <1>2, WorkerSame DEF WorkerStep, WorkerSafety!Next
    <2>2. [WorkerSafety!Table!Next]_(WorkerSafety!Table!tvars)
        BY <2>1, WorkerSafety!TableStep, MessagesAssumption, BoundsAssumption DEF IInv
    <2>. QED
        BY <2>2, TableSame
<1>3. CASE Stop \/ Close \/ Exit \/ Crash \/ Restart \/ UNCHANGED vars
    <2>1. UNCHANGED <<inbox, audits>>
        BY <1>3
        DEF Stop, Close, Exit, Crash, Restart, vars, Consumer!Stop, Consumer!Close,
            Consumer!Restart, Worker!Die
    <2>. QED
        BY <2>1
        DEF Table!tvars, Worker!Status, Worker!Handed, Worker!Tries, Worker!Abandoned,
            Worker!FullyAudited
<1>. QED
    BY <1>1, <1>2, <1>3 DEF Next

\* With handlers inserting and auditing next to its worker, the inbox is still
\* a table of retried messages: none is revived or starts again, and none is
\* removed that was not audited in full.  Orders without items are audited in
\* full from the start, and are left out.
THEOREM TableImplemented ==
    ASSUME \A m \in Messages : Items[m] > 0
    PROVE  Spec => ImplementsTable
<1>1. Init => Table!Init
    <2> SUFFICES ASSUME Init PROVE Table!Init
        OBVIOUS
    <2>1. \A m \in Messages : ~ Worker!FullyAudited(m)
        <3> SUFFICES ASSUME NEW m \in Messages PROVE ~ Worker!FullyAudited(m)
            OBVIOUS
        <3>1. 1 \in 1 .. Items[m] /\ audits[m][1] = 0
            BY MessagesAssumption DEF Init, Worker!Init
        <3>. QED
            BY <3>1 DEF Worker!FullyAudited
    <2>. QED
        BY <2>1 DEF Init, Worker!Init, Table!Init, Worker!Status, Worker!Handed, Worker!Tries
<1>2. IInv /\ [Next]_vars => [Table!Next \/ HandedByHandler]_(Table!tvars)
    BY TableStep
<1>. QED
    BY <1>1, <1>2, Invariant, PTL DEF Spec, ImplementsTable

-----------------------------------------------------------------------------
(* The refinement of AtLeastOnce *)

\* AtLeastOnce, as it is instantiated for the consumer's own proofs.
LEMMA DeliverySame ==
    [ConsumerSafety!Delivery!Next]_(ConsumerSafety!Delivery!lvars)
    => [Consumer!Delivery!Next]_(Consumer!Delivery!lvars)
<1> USE DEF ConsumerSafety!Owed, Consumer!Owed, ConsumerSafety!Kept, Consumer!Kept,
        ConsumerSafety!Written, Consumer!Written, ConsumerSafety!Unacked, Consumer!Unacked,
        ConsumerSafety!Holding, Consumer!Holding, ConsumerSafety!Busy, Consumer!Busy,
        ConsumerSafety!Cardinality, Consumer!Cardinality
<1>1. /\ UNCHANGED ConsumerSafety!Delivery!lvars => UNCHANGED Consumer!Delivery!lvars
      /\ \A m \in Messages :
            /\ ConsumerSafety!Delivery!Send(m) => Consumer!Delivery!Send(m)
            /\ ConsumerSafety!Delivery!Keep(m) => Consumer!Delivery!Keep(m)
            /\ ConsumerSafety!Delivery!Settle(m) => Consumer!Delivery!Settle(m)
    BY DEF ConsumerSafety!Delivery!lvars, Consumer!Delivery!lvars,
        ConsumerSafety!Delivery!Send, Consumer!Delivery!Send,
        ConsumerSafety!Delivery!Keep, Consumer!Delivery!Keep,
        ConsumerSafety!Delivery!Settle, Consumer!Delivery!Settle
<1>2. \A m \in Messages : ConsumerSafety!Delivery!Write(m) => Consumer!Delivery!Write(m)
    BY DEF ConsumerSafety!Delivery!Write, Consumer!Delivery!Write,
        ConsumerSafety!Delivery!WritePart, Consumer!Delivery!WritePart
<1>. QED
    BY <1>1, <1>2 DEF ConsumerSafety!Delivery!Next, Consumer!Delivery!Next

\* The worker moves no copy of the broker's.
LEMMA WorkerOwesAlike ==
    ASSUME UNCHANGED consumerVars
    PROVE  /\ UNCHANGED Consumer!Owed
           /\ ConsumerSafety!HeldIsQueued => ConsumerSafety!HeldIsQueued'
<1> USE DEF consumerVars
<1>1. \A m \in Messages : UNCHANGED <<Consumer!Unacked(m), ConsumerSafety!Holding(m)>>
    BY DEF Consumer!Unacked, Consumer!Holding, Consumer!Busy, ConsumerSafety!Holding,
        ConsumerSafety!Busy
<1>. QED
    BY <1>1 DEF Consumer!Owed, ConsumerSafety!HeldIsQueued

\* The worker writes an item of a message that is kept, or removes a message
\* that is written in full.
LEMMA WorkerDelivers ==
    ASSUME IInv, WorkerStep
    PROVE  \/ \E m \in Messages : Consumer!Delivery!WriteKept(m) \/ Consumer!Delivery!Remove(m)
           \/ UNCHANGED Consumer!Delivery!lvars
<1> USE MessagesAssumption, BoundsAssumption
<1>1. UNCHANGED Consumer!Owed
    BY WorkerOwesAlike DEF WorkerStep
<1>2. WorkerSafety!IInv /\ WorkerSafety!TypeOK /\ WorkerSafety!PassRecorded
    BY DEF IInv, WorkerSafety!IInv
<1>3. wpc # "idle" =>
          /\ WorkerSafety!Cur.id \in Messages
          /\ inbox[WorkerSafety!Cur.id] = WorkerSafety!Cur.retry
          /\ WorkerSafety!Cur.retry \in Nat
    BY <1>2, WorkerSafety!InHand DEF WorkerSafety!IInv
<1> DEFINE m == WorkerSafety!Cur.id
<1>4. wpc # "idle" => m \in Consumer!Kept /\ m \notin Malformed
    BY <1>3
    DEF IInv, ConsumerSafety!IInv, ConsumerSafety!OnlyMalformedDropped, Consumer!Kept
<1>5. ASSUME NEW landed \in BOOLEAN,
             WorkerSafety!SaveItem \/ WorkerSafety!SaveItemFail(landed)
      PROVE  Consumer!Delivery!WriteKept(m) \/ UNCHANGED Consumer!Delivery!lvars
    <2>1. /\ wpc = "save" /\ item < Items[m] /\ inbox' = inbox
          /\ audits' = audits \/ audits' = WorkerSafety!Audited(audits, m, item + 1)
        BY <1>5 DEF WorkerSafety!SaveItem, WorkerSafety!SaveItemFail
    <2>2. UNCHANGED Consumer!Kept
        BY <2>1 DEF Consumer!Kept
    <2>3. CASE audits' = audits
        BY <1>1, <2>2, <2>3 DEF Consumer!Delivery!lvars, Consumer!Written
    <2>4. CASE audits' = WorkerSafety!Audited(audits, m, item + 1)
        <3>1. /\ m \in Messages /\ Items[m] \in Nat /\ item \in Nat
              /\ item + 1 \in 1 .. Items[m]
            BY <1>2, <1>3, <2>1 DEF WorkerSafety!TypeOK
        <3>2. /\ audits'[m][item + 1] > 0
              /\ \A k \in Messages \ {m} : audits'[k] = audits[k]
              /\ \A j \in 1 .. Items[m] : j # item + 1 => audits'[m][j] = audits[m][j]
            <4>1. /\ audits'[m][item + 1] > 0
                  /\ \A k \in Messages \ {m} : audits'[k] = audits[k]
                BY <1>2, <2>4, <3>1, WorkerSafety!AuditedGrows
            <4>2. \A j \in 1 .. Items[m] : j # item + 1 => audits'[m][j] = audits[m][j]
                BY <1>2, <2>4, <3>1
                DEF WorkerSafety!Audited, WorkerSafety!IInv, WorkerSafety!TypeOK
            <4>. QED
                BY <4>1, <4>2
        <3>3. {j \in 1 .. Items[m] : audits'[m][j] > 0}
                 = {j \in 1 .. Items[m] : audits[m][j] > 0} \cup {item + 1}
            BY <3>1, <3>2
        <3>4. Consumer!Written' = [Consumer!Written EXCEPT ![m] = @ \cup {item + 1}]
            BY <3>1, <3>2, <3>3 DEF Consumer!Written
        <3>5. \A i \in 1 .. item : i \in 1 .. Items[m] /\ audits[m][i] > 0
            BY <1>2, <2>1, <3>1 DEF WorkerSafety!PassRecorded
        <3>6. 1 .. (item + 1) - 1 \subseteq Consumer!Written[m]
            <4>1. (item + 1) - 1 = item
                BY <3>1
            <4>. QED
                BY <3>1, <3>5, <4>1 DEF Consumer!Written
        <3>. QED
            BY <1>1, <1>4, <2>1, <2>2, <3>1, <3>4, <3>6
            DEF Consumer!Delivery!WriteKept, Consumer!Delivery!WritePart
    <2>. QED
        BY <2>1, <2>3, <2>4
<1>6. CASE WorkerSafety!Delete
    <2>1. wpc = "delete" /\ audits' = audits /\ inbox' = [inbox EXCEPT ![m] = NoRow]
        BY <1>6 DEF WorkerSafety!Delete
    <2>2. Consumer!Kept' = Consumer!Kept \ {m}
        BY <1>2, <1>3, <2>1 DEF Consumer!Kept, WorkerSafety!TypeOK
    <2>3. Consumer!Written[m] = 1 .. Items[m]
        BY <1>2, <1>3, <2>1
        DEF WorkerSafety!PassRecorded, WorkerSafety!FullyAudited, Consumer!Written
    <2>4. UNCHANGED Consumer!Written
        BY <2>1 DEF Consumer!Written
    <2>. QED
        BY <1>1, <1>3, <1>4, <2>1, <2>2, <2>3, <2>4 DEF Consumer!Delivery!Remove
<1>7. CASE WorkerSafety!UpdateRetry
    <2>1. /\ wpc = "update" /\ audits' = audits
          /\ inbox' = [inbox EXCEPT ![m] = IF @ = NoRow THEN NoRow ELSE WorkerSafety!Cur.retry + 1]
        BY <1>7 DEF WorkerSafety!UpdateRetry
    <2>2. WorkerSafety!Cur.retry + 1 # NoRow
        BY <1>3, <2>1
    <2>3. UNCHANGED <<Consumer!Kept, Consumer!Written>>
        BY <1>2, <1>3, <2>1, <2>2 DEF Consumer!Kept, Consumer!Written, WorkerSafety!TypeOK
    <2>. QED
        BY <1>1, <2>3 DEF Consumer!Delivery!lvars
<1>8. CASE WorkerSafety!Poll \/ WorkerSafety!SaveDone \/ WorkerSafety!WriteFail
    <2>1. UNCHANGED <<inbox, audits>>
        BY <1>8 DEF WorkerSafety!Poll, WorkerSafety!SaveDone, WorkerSafety!WriteFail
    <2>. QED
        BY <1>1, <2>1 DEF Consumer!Delivery!lvars, Consumer!Kept, Consumer!Written
<1>9. wpc \in {"save", "delete", "update"} => m \in Messages
    BY <1>3
<1>10. \/ \E landed \in BOOLEAN : WorkerSafety!SaveItem \/ WorkerSafety!SaveItemFail(landed)
       \/ WorkerSafety!Delete \/ WorkerSafety!UpdateRetry
       \/ WorkerSafety!Poll \/ WorkerSafety!SaveDone \/ WorkerSafety!WriteFail
    BY WorkerSame DEF WorkerStep
<1>11. ASSUME NEW landed \in BOOLEAN,
              WorkerSafety!SaveItem \/ WorkerSafety!SaveItemFail(landed)
       PROVE  m \in Messages
    BY <1>9, <1>11 DEF WorkerSafety!SaveItem, WorkerSafety!SaveItemFail
<1>. QED
    BY <1>5, <1>6, <1>7, <1>8, <1>10, <1>11

\* Every step of the service is a step of AtLeastOnce, or none that it can tell.
LEMMA DeliveryStep ==
    IInv /\ ConsumerSafety!HeldIsQueued /\ [Next]_vars
    => /\ [Consumer!Delivery!NextWithRetries]_(Consumer!Delivery!lvars)
       /\ ConsumerSafety!HeldIsQueued'
<1> SUFFICES ASSUME IInv, ConsumerSafety!HeldIsQueued, [Next]_vars
             PROVE  /\ [Consumer!Delivery!NextWithRetries]_(Consumer!Delivery!lvars)
                    /\ ConsumerSafety!HeldIsQueued'
    OBVIOUS
<1>1. CASE WorkerStep
    <2>1. UNCHANGED consumerVars
        BY <1>1 DEF WorkerStep
    <2>. QED
        BY <1>1, <2>1, WorkerDelivers, WorkerOwesAlike
        DEF Consumer!Delivery!NextWithRetries
<1>2. CASE ConsumerStep \/ Stop \/ Close \/ Exit \/ Crash \/ Restart \/ UNCHANGED vars
    <2>1. [ConsumerSafety!Next]_(ConsumerSafety!cvars)
        BY <1>2, ConsumerSteps
    <2>2. ConsumerSafety!HeldIsQueued'
        BY <2>1, ConsumerSafety!HeldStep, MessagesAssumption, BoundsAssumption
        DEF IInv, IsFiniteSet, ConsumerSafety!IsFiniteSet
    <2>3. [ConsumerSafety!Delivery!Next]_(ConsumerSafety!Delivery!lvars)
        BY <2>1, ConsumerSafety!DeliveryStep, MessagesAssumption, BoundsAssumption
        DEF IInv, IsFiniteSet, ConsumerSafety!IsFiniteSet
    <2>. QED
        BY <2>2, <2>3, DeliverySame DEF Consumer!Delivery!NextWithRetries
<1>. QED
    BY <1>1, <1>2 DEF Next

\* The audit service delivers at least once: between the broker, the inbox and
\* the audit log no message that can be decoded is ever missing, and every item
\* is written by somebody who could die over it without losing the message.
THEOREM DeliveryImplemented == Spec => ImplementsDelivery
<1>1. Init => Consumer!Delivery!Init
    <2> SUFFICES ASSUME Init PROVE Consumer!Delivery!Init
        OBVIOUS
    <2>1. \A m : Consumer!Holding(m) = {}
        BY DEF Init, Consumer!Init, Consumer!Holding, Consumer!Busy
    <2>2. Consumer!Cardinality({}) = 0
        BY FS_EmptySet DEF Consumer!Cardinality, Cardinality
    <2>3. \A m \in Messages : queue[m] = 0 /\ Consumer!Unacked(m) = 0
        BY <2>1, <2>2 DEF Init, Consumer!Init, Consumer!Unacked
    <2>4. Consumer!Owed = [m \in Messages |-> 0]
        BY <2>3 DEF Consumer!Owed
    <2>5. Consumer!Kept = {} /\ Consumer!Written = [m \in Messages |-> {}]
        BY DEF Init, Consumer!Init, Consumer!Kept, Consumer!Written
    <2>. QED
        BY <2>4, <2>5 DEF Consumer!Delivery!Init
<1>2. Init => ConsumerSafety!HeldIsQueued
    BY DEF Init, Consumer!Init, ConsumerSafety!HeldIsQueued
<1>. QED
    BY <1>1, <1>2, DeliveryStep, Invariant, PTL
    DEF Spec, ImplementsDelivery, Consumer!Delivery!SpecWithRetries

=============================================================================
