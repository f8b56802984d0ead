------------------------- MODULE OutboxWorkerProofs -------------------------
(***************************************************************************)
(* Safety of the outbox worker, and that the outbox and its worker         *)
(* implement RetryTable, for any set of messages, any number of retries,   *)
(* any batch size and any bound on publishes left without their delete.    *)
(***************************************************************************)
EXTENDS OutboxWorker, SequenceTheorems, TLAPS

\* A worker that is not idle has a message in hand.
LEMMA CurrentMessage ==
    ASSUME TypeOK, wpc # "idle"
    PROVE  /\ Len(batch) \in Nat \ {0}
           /\ Cur = batch[1]
           /\ Cur \in Snapshot
           /\ Cur.id \in Messages
           /\ Cur.retry \in 0 .. MaxRetries - 1
<1>1. batch \in Seq(Snapshot) /\ batch # <<>>
    BY DEF TypeOK
<1>2. Len(batch) \in Nat \ {0} /\ Cur = batch[1] /\ Cur \in Snapshot
    BY <1>1 DEF Cur
<1>. QED
    BY <1>2 DEF Snapshot

\* Moving on to the next message keeps the batch well-formed.
LEMMA AdvanceType ==
    ASSUME TypeOK, wpc # "idle", Advance
    PROVE  /\ batch' \in Seq(Snapshot)
           /\ wpc' \in {"idle", "publish", "delete", "update"}
           /\ (wpc' = "idle") <=> (batch' = <<>>)
           /\ Len(batch') = Len(batch) - 1
           /\ \A i \in 1 .. Len(batch') : batch'[i] = batch[i + 1]
<1>1. batch \in Seq(Snapshot) /\ batch # <<>>
    BY DEF TypeOK
<1>2. /\ Tail(batch) \in Seq(Snapshot)
      /\ Len(Tail(batch)) = Len(batch) - 1
      /\ \A i \in 1 .. Len(Tail(batch)) : Tail(batch)[i] = batch[i + 1]
    BY <1>1
<1>3. (Tail(batch) = <<>>) <=> (Len(Tail(batch)) = 0)
    BY <1>2, EmptySeq
<1>4. Len(batch) \in Nat
    BY <1>1
<1>. QED
    BY <1>2, <1>3, <1>4 DEF Advance

\* A row that gets older stays a row, and only its times change.
LEMMA OlderType ==
    ASSUME NEW r \in Row
    PROVE  /\ Older(r) \in Row
           /\ Older(r).retry = r.retry
           /\ Older(r).wait = IF r.wait = 0 THEN 0 ELSE r.wait - 1
           /\ Older(r).age = IF r.age < Horizon THEN r.age + 1 ELSE r.age
    BY DEF Older, Row

\* The row UpdateRetry writes.
LEMMA RetriedType ==
    ASSUME TypeOK, wpc # "idle", NEW r \in Row
    PROVE  Retried(r) \in Row
    BY CurrentMessage, BackoffAssumption, MaxRetriesAssumption DEF Retried, Row

\* Every step keeps the table, the batch and the worker's position well-formed.
LEMMA TypeStep == TypeOK /\ [Next]_vars => TypeOK'
<1> SUFFICES ASSUME TypeOK, [Next]_vars PROVE TypeOK'
    OBVIOUS
<1>1. CASE \E m \in Messages : Save(m)
    BY <1>1, BackoffAssumption, MaxRetriesAssumption DEF Save, NewRow, TypeOK, Row
<1>2. CASE Tick
    BY <1>2, OlderType, NoRowAssumption DEF Tick, TypeOK
<1>3. CASE Poll
    <2>0. PICK n \in 1 .. BatchSize : \E s \in [1 .. n -> Due] :
             batch' = [i \in 1 .. n |-> [id |-> s[i], retry |-> outbox[s[i]].retry]]
        BY <1>3 DEF Poll
    <2>1. PICK s \in [1 .. n -> Due] :
             batch' = [i \in 1 .. n |-> [id |-> s[i], retry |-> outbox[s[i]].retry]]
        BY <2>0
    <2>2. \A m \in Due : [id |-> m, retry |-> outbox[m].retry] \in Snapshot
        BY MaxRetriesAssumption DEF Due, Snapshot, TypeOK, Row
    <2>3. batch' \in Seq(Snapshot) /\ Len(batch') = n /\ n > 0
        BY <2>1, <2>2, BatchSizeAssumption
    <2>. QED
        BY <1>3, <2>3 DEF Poll, TypeOK
<1>4. CASE PublishOk
    BY <1>4, CurrentMessage DEF PublishOk, TypeOK
<1>5. CASE PublishFail
    BY <1>5 DEF PublishFail, TypeOK
<1>6. CASE Delete
    BY <1>6, CurrentMessage, AdvanceType DEF Delete, TypeOK
<1>7. CASE DeleteFail
    BY <1>7, CurrentMessage, AdvanceType, MaxRedoAssumption
    DEF DeleteFail, CanLeaveBehind, TypeOK
<1>8. CASE UpdateRetry
    BY <1>8, CurrentMessage, AdvanceType, RetriedType DEF UpdateRetry, TypeOK
<1>9. CASE UpdateRetryFail
    BY <1>9, AdvanceType DEF UpdateRetryFail, TypeOK
<1>10. CASE ConnectionLost \/ Stop \/ Restart
    BY <1>10 DEF ConnectionLost, Stop, Restart, TypeOK
<1>11. CASE Crash \/ Exit
    <2>1. redo' \in [Messages -> 0 .. MaxRedo]
        BY <1>11, CurrentMessage, MaxRedoAssumption
        DEF Crash, Exit, Die, CanLeaveBehind, TypeOK
    <2>2. batch' = <<>> /\ <<>> \in Seq(Snapshot)
        BY <1>11, EmptySeq DEF Crash, Exit, Die
    <2>. QED
        BY <1>11, <2>1, <2>2 DEF Crash, Exit, Die, TypeOK
<1>12. CASE UNCHANGED vars
    BY <1>12 DEF vars, TypeOK
<1>. QED
    BY <1>1, <1>2, <1>3, <1>4, <1>5, <1>6, <1>7, <1>8, <1>9, <1>10, <1>11, <1>12
    DEF Next

\* The variables keep their types: the worker is idle exactly when its batch is
\* empty, and the retry counts it read are below the limit.
THEOREM TypeCorrect == Spec => []TypeOK
<1>1. Init => TypeOK
    BY MaxRedoAssumption DEF Init, TypeOK
<1>. QED
    BY <1>1, TypeStep, PTL DEF Spec

-----------------------------------------------------------------------------
(***************************************************************************)
(* The inductive invariant.  SnapshotFresh ties the worker's copy of the   *)
(* rows to the table; the other parts say of every message what the        *)
(* table's row, the publishes and the ones left without a delete have to   *)
(* do with each other between any two steps.                               *)
(***************************************************************************)
UnsavedUntouched ==
    \A m \in Messages \ saved : outbox[m] = NoRow /\ published[m] = 0

AtDelete(m) == wpc = "delete" /\ Cur.id = m

\* Published and on the way out of the table.
HandedOver ==
    \A m \in Messages :
        (m \in saved /\ outbox[m] = NoRow) \/ AtDelete(m) => published[m] > 0

\* While the row is there, every publish was left without its delete.
CopiesCounted ==
    \A m \in Messages :
        published[m] <= redo[m] + (IF outbox[m] = NoRow \/ AtDelete(m) THEN 1 ELSE 0)

\* The row is at least as old as the intervals it has waited for.
AgeCoversWaits ==
    \A m \in Messages : outbox[m] # NoRow =>
        /\ outbox[m].age >= Backoff[outbox[m].retry] - 1
        /\ outbox[m].age + outbox[m].wait >= 2 * Backoff[outbox[m].retry] - 1

IInv ==
    /\ TypeOK
    /\ SnapshotFresh
    /\ UnsavedUntouched
    /\ HandedOver
    /\ CopiesCounted
    /\ AgeCoversWaits

\* The batch a poll reads agrees with the table.
LEMMA PollFresh ==
    ASSUME TypeOK, Poll
    PROVE  SnapshotFresh'
<1>0. PICK n \in 1 .. BatchSize : \E s \in [1 .. n -> Due] :
         /\ \A i, j \in 1 .. n : s[i] = s[j] => i = j
         /\ batch' = [i \in 1 .. n |-> [id |-> s[i], retry |-> outbox[s[i]].retry]]
    BY DEF Poll
<1>1. PICK s \in [1 .. n -> Due] :
         /\ \A i, j \in 1 .. n : s[i] = s[j] => i = j
         /\ batch' = [i \in 1 .. n |-> [id |-> s[i], retry |-> outbox[s[i]].retry]]
    BY <1>0
<1>2. Len(batch') = n /\ n \in Nat
    BY <1>1, BatchSizeAssumption
<1>3. \A i \in 1 .. n : /\ batch'[i].id = s[i] /\ s[i] \in Due
                        /\ batch'[i].retry = outbox[s[i]].retry
    BY <1>1
<1>4. outbox' = outbox
    BY DEF Poll
<1>. QED
    BY <1>1, <1>2, <1>3, <1>4 DEF SnapshotFresh, Due

\* What is left of a fresh batch stays fresh when only the current message's
\* row changes, and no longer holds the current message.
LEMMA AdvanceFresh ==
    ASSUME TypeOK, SnapshotFresh, wpc # "idle", Advance,
           \A m \in Messages : m # Cur.id => outbox'[m] = outbox[m]
    PROVE  SnapshotFresh'
<1>1. \A i \in 1 .. Len(batch') : /\ i + 1 \in 1 .. Len(batch)
                                 /\ batch'[i] = batch[i + 1]
                                 /\ batch[i + 1] \in Snapshot
    BY CurrentMessage, AdvanceType DEF TypeOK
<1>2. \A i \in 1 .. Len(batch') : batch[i + 1].id # Cur.id
    BY <1>1, CurrentMessage DEF SnapshotFresh
<1>3. \A i \in 1 .. Len(batch') : outbox'[batch'[i].id] = outbox[batch[i + 1].id]
    BY <1>1, <1>2 DEF Snapshot
<1>4. \A i, j \in 1 .. Len(batch') : batch[i + 1].id = batch[j + 1].id => i + 1 = j + 1
    BY <1>1 DEF SnapshotFresh
<1>5. \A i, j \in 1 .. Len(batch') : i + 1 = j + 1 => i = j
    OBVIOUS
<1>6. \A i, j \in 1 .. Len(batch') : batch'[i].id = batch'[j].id => i = j
    BY <1>1, <1>4, <1>5
<1>7. \A i \in 1 .. Len(batch) : /\ outbox[batch[i].id] # NoRow
                                /\ outbox[batch[i].id].retry = batch[i].retry
                                /\ outbox[batch[i].id].wait = 0
    BY DEF SnapshotFresh
<1>8. ASSUME NEW i \in 1 .. Len(batch')
      PROVE  /\ outbox'[batch'[i].id] # NoRow
             /\ outbox'[batch'[i].id].retry = batch'[i].retry
             /\ outbox'[batch'[i].id].wait = 0
    BY <1>1, <1>3, <1>7
<1>. QED
    BY <1>6, <1>8 DEF SnapshotFresh

\* No step makes the worker's copy of the rows stale.
LEMMA FreshStep == IInv /\ [Next]_vars => SnapshotFresh'
<1> SUFFICES ASSUME TypeOK, SnapshotFresh, UnsavedUntouched, [Next]_vars
             PROVE  SnapshotFresh'
    BY DEF IInv
<1>00. \A i \in 1 .. Len(batch) : batch[i] \in Snapshot
    BY ElementOfSeq DEF TypeOK
<1>0. \A i \in 1 .. Len(batch) : batch[i].id \in Messages
    BY <1>00 DEF Snapshot
<1>1. CASE \E m \in Messages : Save(m)
    BY <1>0, <1>1 DEF Save, SnapshotFresh, UnsavedUntouched, TypeOK
<1>2. CASE Tick
    <2>1. \A m \in Messages : outbox[m] # NoRow =>
              /\ outbox[m] \in Row
              /\ outbox'[m] = Older(outbox[m])
              /\ Older(outbox[m]) \in Row
        BY <1>2, OlderType DEF Tick, TypeOK
    <2>. QED
        BY <1>0, <1>2, <2>1, OlderType, NoRowAssumption DEF Tick, SnapshotFresh
<1>3. CASE Poll
    BY <1>3, PollFresh
<1>4. CASE Delete \/ DeleteFail \/ UpdateRetry \/ UpdateRetryFail
    BY <1>4, AdvanceFresh, CurrentMessage
    DEF Delete, DeleteFail, UpdateRetry, UpdateRetryFail, TypeOK
<1>5. CASE Crash \/ Exit
    BY <1>5 DEF Crash, Exit, Die, SnapshotFresh
<1>6. CASE PublishOk \/ PublishFail \/ ConnectionLost \/ Stop \/ Restart \/ UNCHANGED vars
    BY <1>6
    DEF PublishOk, PublishFail, ConnectionLost, Stop, Restart, vars, SnapshotFresh
<1>. QED
    BY <1>1, <1>2, <1>3, <1>4, <1>5, <1>6 DEF Next

\* Publishes are counted against the rows and the publishes left behind.
LEMMA CopiesStep ==
    IInv /\ [Next]_vars => UnsavedUntouched' /\ HandedOver' /\ CopiesCounted'
<1> SUFFICES ASSUME IInv, [Next]_vars
             PROVE  UnsavedUntouched' /\ HandedOver' /\ CopiesCounted'
    OBVIOUS
<1> USE DEF IInv, TypeOK, UnsavedUntouched, HandedOver, CopiesCounted, AtDelete
<1>0. wpc # "idle" =>
          /\ Cur \in Snapshot /\ Cur.id \in Messages
          /\ outbox[Cur.id] # NoRow
          /\ Cur.id \in saved
    BY CurrentMessage DEF SnapshotFresh
<1>1. CASE \E m \in Messages : Save(m)
    <2>1. PICK m \in Messages : Save(m)
        BY <1>1
    <2>2. outbox'[m] # NoRow
        BY <2>1, NoRowAssumption, BackoffAssumption, MaxRetriesAssumption DEF Save, NewRow, Row
    <2>. QED
        BY <2>1, <2>2 DEF Save, Cur
<1>2. CASE Tick
    <2>1. \A m \in Messages : (outbox'[m] = NoRow) <=> (outbox[m] = NoRow)
        BY <1>2, OlderType, NoRowAssumption DEF Tick
    <2>. QED
        BY <1>2, <2>1 DEF Tick, Cur
<1>3. CASE Poll
    BY <1>3 DEF Poll
<1>4. CASE PublishOk
    BY <1>0, <1>4 DEF PublishOk, Cur
<1>5. CASE PublishFail \/ UpdateRetryFail
    BY <1>5 DEF PublishFail, UpdateRetryFail, Advance
<1>6. CASE Delete
    BY <1>0, <1>6 DEF Delete, Advance
<1>7. CASE DeleteFail
    BY <1>0, <1>7 DEF DeleteFail, Advance
<1>8. CASE UpdateRetry
    <2>1. \A m \in Messages : (outbox'[m] = NoRow) <=> (outbox[m] = NoRow)
        BY <1>0, <1>8, RetriedType, NoRowAssumption DEF UpdateRetry
    <2>. QED
        BY <1>0, <1>8, <2>1 DEF UpdateRetry, Advance
<1>9. CASE Crash \/ Exit
    <2>1. CASE wpc = "delete"
        <3>1. /\ redo' = [redo EXCEPT ![Cur.id] = @ + 1]
              /\ wpc' = "idle"
              /\ UNCHANGED <<outbox, saved, published>>
            BY <1>9, <2>1 DEF Crash, Exit, Die
        <3>2. \A m \in Messages : redo'[m] = IF AtDelete(m) THEN redo[m] + 1 ELSE redo[m]
            BY <1>0, <2>1, <3>1
        <3>. QED
            BY <1>0, <3>1, <3>2
    <2>2. CASE wpc # "delete"
        BY <1>9, <2>2 DEF Crash, Exit, Die
    <2>. QED
        BY <2>1, <2>2
<1>10. CASE ConnectionLost \/ Stop \/ Restart \/ UNCHANGED vars
    BY <1>10 DEF ConnectionLost, Stop, Restart, vars, Cur
<1>. QED
    BY <1>1, <1>2, <1>3, <1>4, <1>5, <1>6, <1>7, <1>8, <1>9, <1>10 DEF Next

\* A row is only moved to its next interval when the last one is over.
LEMMA AgeStep == IInv /\ [Next]_vars => AgeCoversWaits'
<1> SUFFICES ASSUME IInv, [Next]_vars, NEW m \in Messages, outbox'[m] # NoRow
             PROVE  /\ outbox'[m].age >= Backoff[outbox'[m].retry] - 1
                    /\ outbox'[m].age + outbox'[m].wait
                          >= 2 * Backoff[outbox'[m].retry] - 1
    BY DEF AgeCoversWaits
<1>0. /\ outbox[m] # NoRow =>
            /\ outbox[m] \in Row
            /\ outbox[m].age >= Backoff[outbox[m].retry] - 1
            /\ outbox[m].age + outbox[m].wait >= 2 * Backoff[outbox[m].retry] - 1
      /\ outbox \in [Messages -> Row \cup {NoRow}]
    BY DEF IInv, TypeOK, AgeCoversWaits
<1>1. CASE \E q \in Messages : Save(q)
    <2>1. PICK q \in Messages : Save(q)
        BY <1>1
    <2>2. CASE q = m
        BY <1>0, <2>1, <2>2, BackoffAssumption, MaxRetriesAssumption DEF Save, NewRow
    <2>3. CASE q # m
        BY <1>0, <2>1, <2>3 DEF Save
    <2>. QED
        BY <2>2, <2>3
<1>2. CASE Tick
    <2>1. outbox[m] # NoRow /\ outbox'[m] = Older(outbox[m])
        BY <1>0, <1>2 DEF Tick
    <2>2. outbox[m].retry \in 0 .. MaxRetries /\ outbox[m].wait \in Nat /\ outbox[m].age \in Nat
        BY <1>0, <2>1 DEF Row
    <2>3. /\ Backoff[outbox[m].retry] \in Nat /\ Backoff[MaxRetries] \in Nat
          /\ Backoff[outbox[m].retry] <= Backoff[MaxRetries]
        BY <2>2, BackoffAssumption, MaxRetriesAssumption
    <2>. QED
        BY <1>0, <2>1, <2>2, <2>3, OlderType DEF Horizon
<1>3. CASE UpdateRetry
    <2>1. CASE m = Cur.id
        <3>1. /\ outbox[m] # NoRow
              /\ outbox[m].wait = 0
              /\ outbox[m].retry = Cur.retry
              /\ Cur.retry \in 0 .. MaxRetries - 1
            BY <1>0, <1>3, <2>1, CurrentMessage DEF UpdateRetry, IInv, SnapshotFresh
        <3>2. outbox'[m] = Retried(outbox[m])
            BY <1>0, <1>3, <2>1, <3>1 DEF UpdateRetry
        <3>3. /\ Backoff[Cur.retry + 1] = 2 * Backoff[Cur.retry]
              /\ Backoff[Cur.retry] \in Nat
            BY <3>1, BackoffAssumption, MaxRetriesAssumption
        <3>4. outbox[m].age \in Nat
            BY <1>0, <3>1 DEF Row
        <3>. QED
            BY <1>0, <3>1, <3>2, <3>3, <3>4 DEF Retried
    <2>2. CASE m # Cur.id
        BY <1>0, <1>3, <2>2 DEF UpdateRetry
    <2>. QED
        BY <2>1, <2>2
<1>4. CASE Delete
    BY <1>0, <1>4 DEF Delete
<1>5. CASE \/ Poll \/ PublishOk \/ PublishFail \/ DeleteFail \/ UpdateRetryFail
           \/ ConnectionLost \/ Stop \/ Crash \/ Exit \/ Restart \/ UNCHANGED vars
    BY <1>0, <1>5
    DEF Poll, PublishOk, PublishFail, DeleteFail, UpdateRetryFail, ConnectionLost,
        Stop, Crash, Exit, Die, Restart, vars
<1>. QED
    BY <1>1, <1>2, <1>3, <1>4, <1>5 DEF Next

\* The inductive invariant, from which the safety properties of the worker
\* follow.
THEOREM Safety == Spec => []IInv
<1>1. Init => IInv
    BY MaxRedoAssumption
    DEF Init, IInv, TypeOK, SnapshotFresh, UnsavedUntouched, HandedOver,
        CopiesCounted, AgeCoversWaits, AtDelete
<1>2. IInv /\ [Next]_vars => IInv'
    BY TypeStep, FreshStep, CopiesStep, AgeStep DEF IInv
<1>. QED
    BY <1>1, <1>2, PTL DEF Spec

\* The worker's copy of the rows is never stale when it is used.
THEOREM Freshness == Spec => []SnapshotFresh
    BY Safety, PTL DEF IInv

\* No row is removed before its message was published.
THEOREM NoSavedMessageLost == Spec => []RemovedOnlyAfterPublish
<1>1. IInv => RemovedOnlyAfterPublish
    BY DEF IInv, TypeOK, HandedOver, RemovedOnlyAfterPublish
<1>. QED
    BY <1>1, Safety, PTL

\* Duplicates are bounded by the publishes left without their delete.
THEOREM DuplicatesBounded == Spec => []DuplicatesExplained
<1>1. IInv => DuplicatesExplained
    <2> SUFFICES ASSUME IInv, NEW m \in Messages
                 PROVE  published[m] <= redo[m] + 1
        BY DEF DuplicatesExplained
    <2>1. published[m] \in Nat /\ redo[m] \in Int
        BY DEF IInv, TypeOK
    <2>2. published[m] <= redo[m] + 1 \/ published[m] <= redo[m] + 0
        BY DEF IInv, CopiesCounted
    <2>. QED
        BY <2>1, <2>2
<1>. QED
    BY <1>1, Safety, PTL

\* No row is given up before its retry window is over.
THEOREM WindowRespected == Spec => []AbandonedOnlyAfterWindow
<1>1. IInv => AbandonedOnlyAfterWindow
    <2> SUFFICES ASSUME IInv, NEW m \in Messages, Abandoned(m)
                 PROVE  outbox[m].age >= Backoff[MaxRetries] - 1
        BY DEF AbandonedOnlyAfterWindow
    <2>1. outbox[m] # NoRow /\ outbox[m].retry = MaxRetries
        BY MaxRetriesAssumption DEF IInv, TypeOK, Row, Abandoned
    <2>. QED
        BY <2>1 DEF IInv, AgeCoversWaits
<1>. QED
    BY <1>1, Safety, PTL

\* A row out of retries is never published again.
THEOREM AbandonedIsFinal == Spec => AbandonedStaysSilent
<1>1. IInv /\ [Next]_vars =>
          [\A m \in Messages : Abandoned(m) => published'[m] = published[m]]_vars
    <2> SUFFICES ASSUME IInv, [Next]_vars, NEW m \in Messages, Abandoned(m)
                 PROVE  published'[m] = published[m]
        OBVIOUS
    <2>1. CASE PublishOk
        <3>1. Cur.id # m
            BY <2>1, CurrentMessage, MaxRetriesAssumption
            DEF PublishOk, IInv, SnapshotFresh, Abandoned
        <3>. QED
            BY <2>1, <3>1 DEF PublishOk, IInv, TypeOK
    <2>2. CASE ~ PublishOk
        BY <2>2
        DEF Next, Save, Tick, Poll, PublishFail, Delete, DeleteFail, UpdateRetry,
            UpdateRetryFail, ConnectionLost, Stop, Crash, Exit, Die, Restart, vars
    <2>. QED
        BY <2>1, <2>2
<1>. QED
    BY <1>1, Safety, PTL DEF Spec, AbandonedStaysSilent

-----------------------------------------------------------------------------
(* The outbox and its worker implement RetryTable *)


\* A step that leaves every row's presence and retry count alone, and
\* publishes nothing, is no step of the table.
LEMMA TableUnchanged ==
    ASSUME published' = published,
           \A m \in Messages :
              /\ outbox'[m] = NoRow <=> outbox[m] = NoRow
              /\ outbox[m] # NoRow => outbox'[m].retry = outbox[m].retry
    PROVE  UNCHANGED <<Status, Handed, Tries>>
<1>1. Status' = Status
    BY DEF Status, Abandoned
<1>2. Handed' = Handed
    BY DEF Handed
<1>3. Tries' = Tries
    BY DEF Tries
<1>. QED
    BY <1>1, <1>2, <1>3

\* Saving a message enters it in the table.
LEMMA SaveEnters ==
    ASSUME IInv, NEW m \in Messages, Save(m)
    PROVE  Table!Enter(m)
<1>1. outbox[m] = NoRow /\ published' = published
    BY DEF Save, IInv, UnsavedUntouched
<1>2. outbox' = [outbox EXCEPT ![m] = NewRow] /\ NewRow # NoRow /\ NewRow.retry = 0
    BY NoRowAssumption, BackoffAssumption, MaxRetriesAssumption DEF Save, NewRow, Row
<1>3. outbox'[m] = NewRow /\ \A k \in Messages \ {m} : outbox'[k] = outbox[k]
    BY <1>2 DEF IInv, TypeOK
<1>4. Status[m] = "absent"
    BY <1>1 DEF Status
<1>5. Status' = [Status EXCEPT ![m] = "pending"]
    <2>1. Status'[m] = "pending"
        BY <1>2, <1>3, MaxRetriesAssumption DEF Status, Abandoned
    <2>2. \A k \in Messages \ {m} : Status'[k] = Status[k]
        BY <1>3 DEF Status, Abandoned
    <2>. QED
        BY <2>1, <2>2 DEF Status
<1>6. Handed' = Handed
    BY <1>1 DEF Handed
<1>7. Tries' = Tries
    BY <1>1, <1>2, <1>3 DEF Tries
<1>. QED
    BY <1>4, <1>5, <1>6, <1>7 DEF Table!Enter

\* The message the worker has in hand is pending.
LEMMA CurrentPending ==
    ASSUME IInv, wpc # "idle"
    PROVE  /\ Cur.id \in Messages
           /\ outbox[Cur.id] # NoRow
           /\ outbox[Cur.id] \in Row
           /\ outbox[Cur.id].retry = Cur.retry
           /\ Cur.retry \in 0 .. MaxRetries - 1
           /\ Status[Cur.id] = "pending"
<1>1. /\ Cur.id \in Messages /\ Cur.retry \in 0 .. MaxRetries - 1
      /\ outbox[Cur.id] # NoRow /\ outbox[Cur.id].retry = Cur.retry
    BY CurrentMessage DEF IInv, SnapshotFresh
<1>2. ~ Abandoned(Cur.id)
    BY <1>1, MaxRetriesAssumption DEF Abandoned
<1>. QED
    BY <1>1, <1>2 DEF Status, IInv, TypeOK

\* A publish hands the current message over.
LEMMA PublishHandsOver ==
    ASSUME IInv, PublishOk
    PROVE  Table!HandOver(Cur.id)
<1>1. /\ Cur.id \in Messages /\ Status[Cur.id] = "pending"
      /\ outbox' = outbox
      /\ published' = [published EXCEPT ![Cur.id] = @ + 1]
    BY CurrentPending DEF PublishOk
<1>2. \A m \in Messages :
          published'[m] > 0 <=> (published[m] > 0 \/ m = Cur.id)
    BY <1>1 DEF IInv, TypeOK
<1>3. Handed' = Handed \cup {Cur.id}
    BY <1>1, <1>2 DEF Handed
<1>4. Status' = Status /\ Tries' = Tries
    BY <1>1 DEF Status, Tries, Abandoned
<1>. QED
    BY <1>1, <1>3, <1>4 DEF Table!HandOver

\* A delete removes the current message, which was handed over.
LEMMA DeleteRemoves ==
    ASSUME IInv, Delete
    PROVE  Table!Remove(Cur.id)
<1>1. /\ Cur.id \in Messages /\ Status[Cur.id] = "pending"
      /\ outbox' = [outbox EXCEPT ![Cur.id] = NoRow]
      /\ published' = published
    BY CurrentPending DEF Delete
<1>2. Cur.id \in Handed
    BY <1>1 DEF Delete, IInv, HandedOver, AtDelete, Handed
<1>3. outbox'[Cur.id] = NoRow /\ \A k \in Messages \ {Cur.id} : outbox'[k] = outbox[k]
    BY <1>1 DEF IInv, TypeOK
<1>4. Status' = [Status EXCEPT ![Cur.id] = "absent"]
    BY <1>1, <1>3 DEF Status, Abandoned
<1>5. Tries' = [Tries EXCEPT ![Cur.id] = 0]
    <2>1. Tries'[Cur.id] = 0
        BY <1>1, <1>3 DEF Tries
    <2>2. \A k \in Messages \ {Cur.id} : Tries'[k] = Tries[k]
        BY <1>3 DEF Tries
    <2>. QED
        BY <2>1, <2>2 DEF Tries
<1>6. Handed' = Handed
    BY <1>1 DEF Handed
<1>. QED
    BY <1>1, <1>2, <1>4, <1>5, <1>6 DEF Table!Remove

\* A recorded retry is a miss: the count the worker read with the poll is the
\* one in the table.
LEMMA RetryMisses ==
    ASSUME IInv, UpdateRetry
    PROVE  Table!Miss(Cur.id)
<1>0. /\ Cur.id \in Messages /\ Status[Cur.id] = "pending"
      /\ outbox[Cur.id] # NoRow /\ outbox[Cur.id] \in Row
      /\ outbox[Cur.id].retry = Cur.retry
      /\ Cur.retry \in 0 .. MaxRetries - 1
    BY CurrentPending DEF UpdateRetry
<1>1. /\ outbox' = [outbox EXCEPT ![Cur.id] = Retried(outbox[Cur.id])]
      /\ published' = published
    BY <1>0 DEF UpdateRetry
<1>2. /\ Retried(outbox[Cur.id]) \in Row
      /\ Retried(outbox[Cur.id]).retry = Cur.retry + 1
    BY <1>0, RetriedType DEF Retried, IInv, UpdateRetry
<1>3. /\ outbox'[Cur.id] # NoRow
      /\ outbox'[Cur.id].retry = Cur.retry + 1
      /\ \A k \in Messages \ {Cur.id} : outbox'[k] = outbox[k]
    BY <1>0, <1>1, <1>2, NoRowAssumption DEF IInv, TypeOK
<1>4. Tries' = [Tries EXCEPT ![Cur.id] = @ + 1]
    BY <1>0, <1>3 DEF Tries
<1>5. Tries'[Cur.id] = Cur.retry + 1
    BY <1>0, <1>3 DEF Tries
<1>6. Cur.retry + 1 >= MaxRetries <=> Cur.retry + 1 = MaxRetries
    BY <1>0, MaxRetriesAssumption
<1>7. Status' = [Status EXCEPT ![Cur.id] = IF Tries'[Cur.id] = MaxRetries THEN "dead" ELSE @]
    BY <1>0, <1>3, <1>5, <1>6 DEF Status, Abandoned
<1>8. Handed' = Handed
    BY <1>1 DEF Handed
<1>. QED
    BY <1>0, <1>4, <1>7, <1>8 DEF Table!Miss

\* Every step of the worker and its surroundings is a step of the table, or
\* none.
LEMMA TableStep == IInv /\ [Next]_vars => [Table!Next]_(Table!tvars)
<1> SUFFICES ASSUME IInv, [Next]_vars
             PROVE  Table!Next \/ UNCHANGED <<Status, Handed, Tries>>
    BY DEF Table!tvars
<1>1. CASE \E m \in Messages : Save(m)
    BY <1>1, SaveEnters DEF Table!Next
<1>2. CASE Tick
    <2>1. \A m \in Messages :
              /\ outbox'[m] = NoRow <=> outbox[m] = NoRow
              /\ outbox[m] # NoRow => outbox'[m].retry = outbox[m].retry
        BY <1>2, OlderType, NoRowAssumption DEF Tick, IInv, TypeOK
    <2>. QED
        BY <1>2, <2>1, TableUnchanged DEF Tick
<1>3. CASE PublishOk
    BY <1>3, PublishHandsOver, CurrentPending DEF Table!Next, PublishOk
<1>4. CASE Delete
    BY <1>4, DeleteRemoves, CurrentPending DEF Table!Next, Delete
<1>5. CASE UpdateRetry
    BY <1>5, RetryMisses, CurrentPending DEF Table!Next, UpdateRetry
<1>6. CASE \/ Poll \/ PublishFail \/ DeleteFail \/ UpdateRetryFail \/ ConnectionLost
           \/ Stop \/ Crash \/ Exit \/ Restart \/ UNCHANGED vars
    <2>1. outbox' = outbox /\ published' = published
        BY <1>6
        DEF Poll, PublishFail, DeleteFail, UpdateRetryFail, ConnectionLost, Stop,
            Crash, Exit, Die, Restart, vars
    <2>. QED
        BY <2>1, TableUnchanged
<1>. QED
    BY <1>1, <1>2, <1>3, <1>4, <1>5, <1>6 DEF Next

\* The outbox, its worker, the connection and the life of the process
\* implement the table of retried messages, for any number of messages.
THEOREM TableImplemented == Spec => ImplementsTable
<1>1. Init => Table!Init
    BY DEF Init, Table!Init, Status, Handed, Tries
<1>. QED
    BY <1>1, TableStep, Safety, PTL DEF Spec, ImplementsTable, Table!Spec

=============================================================================
