-------------------------- MODULE InboxWorkerProofs --------------------------
(***************************************************************************)
(* Safety of the inbox worker, and that the inbox and its worker implement *)
(* RetryTable, for any messages, items, retries and batches.               *)
(***************************************************************************)
EXTENDS InboxWorker, SequenceTheorems, TLAPS

\* How far the pass over the items of the current message has come.  A pass is
\* followed by the delete only when it has written all of them.
PassRecorded ==
    /\ wpc = "save" =>
          /\ item <= Items[Cur.id]
          /\ \A i \in 1 .. item : audits[Cur.id][i] > 0
    /\ wpc = "delete" => FullyAudited(Cur.id)

IInv == TypeOK /\ DOMAIN audits = Messages /\ SnapshotFresh /\ PassRecorded

-----------------------------------------------------------------------------

\* The worker has a message in hand unless it is idle: its row is in the table
\* with the retry count the poll read.
LEMMA InHand ==
    ASSUME TypeOK, SnapshotFresh, wpc # "idle"
    PROVE  /\ Len(batch) \in Nat \ {0} /\ Cur = batch[1]
           /\ Cur.id \in Messages /\ Cur.retry \in 0 .. MaxRetries - 1
           /\ inbox[Cur.id] = Cur.retry
<1>1. batch \in Seq(Snapshot) /\ batch # <<>>
  BY DEF TypeOK
<1>2. Len(batch) \in Nat \ {0} /\ Cur = batch[1] /\ Cur \in Snapshot
  BY <1>1 DEF Cur
<1>3. inbox[batch[1].id] = batch[1].retry
  BY <1>2 DEF SnapshotFresh
<1> QED
  BY <1>2, <1>3 DEF Snapshot

\* Advance drops the first message of the batch.
LEMMA AdvanceDrops ==
    ASSUME TypeOK, SnapshotFresh, wpc # "idle", Advance
    PROVE  /\ batch' \in Seq(Snapshot) /\ Len(batch') = Len(batch) - 1 /\ item' = 0
           /\ wpc' \in {"idle", "save"} /\ (wpc' = "idle") <=> (batch' = <<>>)
           /\ \A i \in 1 .. Len(batch') : batch'[i] = batch[i + 1]
<1>1. batch \in Seq(Snapshot) /\ batch # <<>> /\ Len(batch) \in Nat
  BY DEF TypeOK
<1>2. /\ Tail(batch) \in Seq(Snapshot) /\ Len(Tail(batch)) = Len(batch) - 1
      /\ \A i \in 1 .. Len(Tail(batch)) : Tail(batch)[i] = batch[i + 1]
  BY <1>1
<1>3. (Tail(batch) = <<>>) <=> (Len(Tail(batch)) = 0)
  BY <1>2, EmptySeq
<1> QED
  BY <1>1, <1>2, <1>3 DEF Advance

\* A row of the audit log that is written stays.
LEMMA AuditedGrows ==
    ASSUME IInv, NEW m \in Messages, NEW i \in 1 .. Items[m], audits' = Audited(audits, m, i)
    PROVE  /\ DOMAIN audits' = Messages
           /\ \A k \in Messages : audits'[k] \in [1 .. Items[k] -> 0 .. MaxAudits]
           /\ audits'[m][i] > 0
           /\ \A k \in Messages : \A j \in 1 .. Items[k] : audits[k][j] > 0 => audits'[k][j] > 0
           /\ \A k \in Messages \ {m} : audits'[k] = audits[k]
<1>1. /\ audits'[m] = [audits[m] EXCEPT ![i] = IF @ < MaxAudits THEN @ + 1 ELSE @]
      /\ DOMAIN audits' = Messages
      /\ \A k \in Messages \ {m} : audits'[k] = audits[k]
  BY DEF IInv, Audited
<1>2. audits[m] \in [1 .. Items[m] -> 0 .. MaxAudits]
  BY DEF IInv, TypeOK
<1>3. \A j \in 1 .. Items[m] : audits[m][j] \in 0 .. MaxAudits
  BY <1>2
<1>4. /\ audits'[m] \in [1 .. Items[m] -> 0 .. MaxAudits] /\ audits'[m][i] > 0
      /\ \A j \in 1 .. Items[m] : j # i => audits'[m][j] = audits[m][j]
  <2>1. PICK v \in 1 .. MaxAudits :
           v = (IF audits[m][i] < MaxAudits THEN audits[m][i] + 1 ELSE audits[m][i])
    BY <1>3, BoundsAssumption
  <2>2. audits'[m] = [audits[m] EXCEPT ![i] = v]
    BY <1>1, <2>1
  <2>3. v \in 0 .. MaxAudits /\ v > 0
    BY BoundsAssumption
  <2> QED
    BY <1>2, <2>2, <2>3
<1> QED
  BY <1>1, <1>4 DEF IInv, TypeOK

-----------------------------------------------------------------------------
(* The invariant *)

\* A poll reads rows as they are.
LEMMA PollStep ==
    ASSUME IInv, Poll
    PROVE  IInv'
<1>0. PICK n \in 1 .. BatchSize : \E s \in [1 .. n -> Pending] :
         /\ \A i, j \in 1 .. n : s[i] = s[j] => i = j
         /\ batch' = [i \in 1 .. n |-> [id |-> s[i], retry |-> inbox[s[i]]]]
  BY DEF Poll
<1>1. PICK s \in [1 .. n -> Pending] :
         /\ \A i, j \in 1 .. n : s[i] = s[j] => i = j
         /\ batch' = [i \in 1 .. n |-> [id |-> s[i], retry |-> inbox[s[i]]]]
  BY <1>0
<1>2. \A m \in Pending : m \in Messages /\ [id |-> m, retry |-> inbox[m]] \in Snapshot
  <2> SUFFICES ASSUME NEW m \in Pending
               PROVE  m \in Messages /\ [id |-> m, retry |-> inbox[m]] \in Snapshot
    OBVIOUS
  <2>1. m \in Messages /\ inbox[m] \in 0 .. MaxRetries /\ inbox[m] < MaxRetries
    BY DEF Pending, IInv, TypeOK
  <2>2. inbox[m] \in 0 .. MaxRetries - 1
    BY <2>1, BoundsAssumption
  <2> QED
    BY <2>1, <2>2 DEF Snapshot
<1>3. batch' \in Seq(Snapshot) /\ Len(batch') = n /\ n \in Nat \ {0}
  BY <1>1, <1>2, BoundsAssumption
<1>4. TypeOK' /\ DOMAIN audits' = Messages
  BY <1>3 DEF Poll, IInv, TypeOK
<1>5. \A i \in 1 .. n : batch'[i].id = s[i] /\ batch'[i].retry = inbox[s[i]]
  BY <1>1
<1>6. SnapshotFresh'
  BY <1>1, <1>3, <1>5 DEF Poll, SnapshotFresh
<1>7. Cur'.id \in Messages
  <2>1. Cur' = batch'[1] /\ 1 \in 1 .. n
    BY <1>3 DEF Cur
  <2> QED
    BY <1>2, <1>5, <2>1
<1>8. PassRecorded'
  BY <1>7, ItemsAssumption DEF Poll, PassRecorded
<1> QED
  BY <1>4, <1>6, <1>8 DEF IInv

\* The steps of a pass.
LEMMA PassStep ==
    ASSUME IInv, SaveItem \/ SaveDone \/ \E landed \in BOOLEAN : SaveItemFail(landed)
    PROVE  IInv'
<1>1. /\ wpc = "save" /\ UNCHANGED <<inbox, svc, batch>> /\ Cur' = Cur
      /\ Cur.id \in Messages /\ Items[Cur.id] \in Nat /\ item \in Nat
      /\ batch # <<>>
  BY InHand, ItemsAssumption DEF IInv, TypeOK, SaveItem, SaveDone, SaveItemFail, Cur
<1>2. SnapshotFresh'
  BY <1>1 DEF IInv, SnapshotFresh
<1>3. CASE SaveDone
  <2>1. FullyAudited(Cur.id)
    BY <1>3 DEF SaveDone, IInv, PassRecorded, FullyAudited
  <2> QED
    BY <1>1, <1>2, <1>3, <2>1 DEF SaveDone, IInv, TypeOK, PassRecorded, FullyAudited
<1> DEFINE m == Cur.id
<1> HIDE DEF m
<1>4. CASE SaveItem
  <2>1. item + 1 \in 1 .. Items[m] /\ audits' = Audited(audits, m, item + 1) /\ m \in Messages
    BY <1>1, <1>4 DEF SaveItem, m
  <2>2. /\ DOMAIN audits' = Messages /\ audits'[m][item + 1] > 0
        /\ \A k \in Messages : audits'[k] \in [1 .. Items[k] -> 0 .. MaxAudits]
        /\ \A j \in 1 .. Items[m] : audits[m][j] > 0 => audits'[m][j] > 0
    BY <2>1, AuditedGrows
  <2>3. item <= Items[m] /\ \A i \in 1 .. item : audits[m][i] > 0
    BY <1>1 DEF m, IInv, PassRecorded
  <2>4. \A i \in 1 .. item + 1 : audits'[m][i] > 0
    <3> SUFFICES ASSUME NEW i \in 1 .. item + 1 PROVE audits'[m][i] > 0
      OBVIOUS
    <3>1. CASE i = item + 1
      BY <2>2, <3>1
    <3>2. CASE i # item + 1
      <4>1. i \in 1 .. item /\ i \in 1 .. Items[m]
        BY <1>1, <2>3, <3>2 DEF m
      <4> QED
        BY <2>2, <2>3, <4>1
    <3> QED
      BY <3>1, <3>2
  <2>5. TypeOK'
    BY <1>1, <1>4, <2>2 DEF SaveItem, IInv, TypeOK
  <2>6. PassRecorded'
    BY <1>1, <1>4, <2>1, <2>4 DEF SaveItem, PassRecorded, m
  <2> QED
    BY <1>2, <2>2, <2>5, <2>6 DEF IInv
<1>5. ASSUME NEW landed \in BOOLEAN, SaveItemFail(landed) PROVE IInv'
  <2>1. /\ DOMAIN audits' = Messages
        /\ \A k \in Messages : audits'[k] \in [1 .. Items[k] -> 0 .. MaxAudits]
    <3>1. CASE landed
      <4>1. item + 1 \in 1 .. Items[m] /\ audits' = Audited(audits, m, item + 1) /\ m \in Messages
        BY <1>1, <1>5, <3>1 DEF SaveItemFail, m
      <4> QED
        BY <4>1, AuditedGrows
    <3>2. CASE ~ landed
      BY <1>5, <3>2 DEF SaveItemFail, IInv, TypeOK
    <3> QED
      BY <3>1, <3>2
  <2> QED
    BY <1>1, <1>2, <1>5, <2>1 DEF SaveItemFail, IInv, TypeOK, PassRecorded
<1> QED
  BY <1>3, <1>4, <1>5

\* After the last write of a pass, the rest of the batch is as it was read.
LEMMA WriteStep ==
    ASSUME IInv, Delete \/ UpdateRetry \/ WriteFail
    PROVE  IInv'
<1>1. /\ wpc # "idle" /\ Advance /\ UNCHANGED <<audits, svc>>
      /\ \A m \in Messages : m # Cur.id => inbox'[m] = inbox[m]
  BY DEF Delete, UpdateRetry, WriteFail, IInv, TypeOK
<1>2. /\ Len(batch) \in Nat \ {0} /\ Cur = batch[1] /\ Cur.id \in Messages
      /\ Cur.retry \in 0 .. MaxRetries - 1
  BY <1>1, InHand DEF IInv
<1>3. /\ batch' \in Seq(Snapshot) /\ Len(batch') = Len(batch) - 1 /\ item' = 0
      /\ wpc' \in {"idle", "save"} /\ (wpc' = "idle") <=> (batch' = <<>>)
      /\ \A i \in 1 .. Len(batch') : batch'[i] = batch[i + 1]
  BY <1>1, AdvanceDrops DEF IInv
<1>0. wpc' \in {"idle", "save"} /\ item' = 0
  BY <1>1 DEF Advance
<1>4. inbox' \in [Messages -> 0 .. MaxRetries \cup {NoRow}]
  BY <1>2, BoundsAssumption DEF Delete, UpdateRetry, WriteFail, IInv, TypeOK
<1>5. TypeOK'
  <2>1. wpc' \in {"idle", "save", "delete", "update"} /\ item' \in Nat
    BY <1>0
  <2>2. \A m \in Messages : audits'[m] \in [1 .. Items[m] -> 0 .. MaxAudits]
    BY <1>1 DEF IInv, TypeOK
  <2>3. svc' \in {"up", "stopping", "down"}
    BY <1>1 DEF IInv, TypeOK
  <2> QED
    BY <1>3, <1>4, <2>1, <2>2, <2>3 DEF TypeOK
<1>6. SnapshotFresh'
  <2>1. \A i \in 1 .. Len(batch') :
           i + 1 \in 1 .. Len(batch) /\ i + 1 # 1 /\ batch[i + 1] \in Snapshot
    BY <1>2, <1>3, ElementOfSeq DEF IInv, TypeOK
  <2>2. \A i \in 1 .. Len(batch') : /\ batch[i + 1].id # Cur.id
                                    /\ batch[i + 1].id \in Messages
                                    /\ inbox[batch[i + 1].id] = batch[i + 1].retry
    BY <1>2, <2>1 DEF IInv, SnapshotFresh, Snapshot
  <2>3. \A i, j \in 1 .. Len(batch') : batch[i + 1].id = batch[j + 1].id => i = j
    BY <2>1 DEF IInv, SnapshotFresh
  <2> QED
    BY <1>1, <1>3, <2>2, <2>3 DEF SnapshotFresh
<1>7. PassRecorded'
  <2>1. wpc' = "save" => Cur'.id \in Messages
    <3> SUFFICES ASSUME wpc' = "save" PROVE Cur'.id \in Messages
      OBVIOUS
    <3>1. batch' # <<>> /\ Cur' \in Snapshot
      BY <1>3 DEF Cur
    <3> QED
      BY <3>1 DEF Snapshot
  <2>2. wpc' = "save" => item' <= Items[Cur'.id] /\ \A i \in 1 .. item' : audits'[Cur'.id][i] > 0
    BY <1>0, <2>1, ItemsAssumption
  <2> QED
    BY <1>0, <2>2 DEF PassRecorded
<1> QED
  BY <1>1, <1>5, <1>6, <1>7 DEF IInv

\* The other steps.  A row that is inserted is not in the batch.
LEMMA OtherStep ==
    ASSUME IInv, Stop \/ Die \/ Restart \/ UNCHANGED ivars \/ \E m \in Messages : Insert(m)
    PROVE  IInv'
<1>1. CASE Stop \/ Restart \/ UNCHANGED ivars
  BY <1>1 DEF Stop, Restart, ivars, IInv, TypeOK, SnapshotFresh, PassRecorded, FullyAudited, Cur
<1>2. CASE Die
  BY <1>2, EmptySeq DEF Die, IInv, TypeOK, SnapshotFresh, PassRecorded
<1>3. ASSUME NEW m \in Messages, Insert(m) PROVE IInv'
  <2>1. \A i \in 1 .. Len(batch) : batch[i] \in Snapshot
    BY ElementOfSeq DEF IInv, TypeOK
  <2>2. \A i \in 1 .. Len(batch) : batch[i].id # m
    BY <1>3, <2>1, NoRowAssumption DEF Insert, IInv, SnapshotFresh, Snapshot
  <2>3. SnapshotFresh'
    BY <1>3, <2>1, <2>2 DEF Insert, IInv, TypeOK, SnapshotFresh, Snapshot
  <2> QED
    BY <1>3, <2>3, BoundsAssumption DEF Insert, IInv, TypeOK, PassRecorded, FullyAudited, Cur
<1> QED
  BY <1>1, <1>2, <1>3

\* Every step keeps the invariant.
LEMMA Inductive == IInv /\ [Next]_ivars => IInv'
  BY PollStep, PassStep, WriteStep, OtherStep DEF Next

\* The invariant of the worker's batch, its pass and the table.
THEOREM Invariant == Spec => []IInv
<1>1. Init => IInv
  BY BoundsAssumption, EmptySeq DEF Init, IInv, TypeOK, SnapshotFresh, PassRecorded
<1> QED
  BY <1>1, Inductive, PTL DEF Spec

\* The table, the audit log and the batch keep their types.
THEOREM TypeCorrect == Spec => []TypeOK
  BY Invariant, PTL DEF IInv

\* What the worker read with the poll is true until it writes.
THEOREM Freshness == Spec => []SnapshotFresh
  BY Invariant, PTL DEF IInv

\* No message is removed from the inbox before all of its items are audited.
THEOREM RemovedAfterAudit == Spec => RemovedOnlyAfterAudit
<1>1. IInv /\ [Next]_ivars =>
         [\A m \in Messages : inbox[m] # NoRow /\ inbox'[m] = NoRow => FullyAudited(m)]_ivars
  <2> SUFFICES ASSUME IInv, [Next]_ivars, NEW m \in Messages,
                      inbox[m] # NoRow, inbox'[m] = NoRow
               PROVE  FullyAudited(m)
    OBVIOUS
  <2>1. CASE Delete
    <3>1. m = Cur.id
      BY <2>1 DEF Delete, IInv, TypeOK
    <3> QED
      BY <2>1, <3>1 DEF Delete, IInv, PassRecorded
  <2>2. CASE UpdateRetry
    <3>1. Cur.id \in Messages /\ Cur.retry + 1 \in Nat
      BY <2>2, InHand DEF UpdateRetry, IInv
    <3> QED
      BY <2>2, <3>1, NoRowAssumption DEF UpdateRetry, IInv, TypeOK
  <2>3. CASE \E k \in Messages : Insert(k)
    BY <2>3, NoRowAssumption DEF Insert, IInv, TypeOK
  <2>4. CASE ~ Delete /\ ~ UpdateRetry /\ ~ \E k \in Messages : Insert(k)
    BY <2>4 DEF Next, Poll, SaveItem, SaveDone, SaveItemFail, WriteFail, Stop, Die, Restart, ivars
  <2> QED
    BY <2>1, <2>2, <2>3, <2>4
<1> QED
  BY <1>1, Invariant, PTL DEF Spec, RemovedOnlyAfterAudit

-----------------------------------------------------------------------------
(* The refinement of RetryTable *)

\* A step that leaves the table and the finished audits alone is none of
\* RetryTable.
LEMMA TableUnchanged ==
    ASSUME inbox' = inbox, \A m \in Messages : FullyAudited(m)' <=> FullyAudited(m)
    PROVE  UNCHANGED <<Status, Handed, Tries>>
  BY DEF Status, Handed, Tries, Abandoned

\* A row that is inserted is an entry.
LEMMA InsertEnters ==
    ASSUME IInv, NEW m \in Messages, Insert(m)
    PROVE  Table!Enter(m)
<1>1. /\ inbox[m] = NoRow /\ inbox'[m] = 0 /\ UNCHANGED audits
      /\ \A k \in Messages \ {m} : inbox'[k] = inbox[k]
  BY DEF Insert, IInv, TypeOK
<1>2. Status[m] = "absent"
  BY <1>1 DEF Status
<1>3. Status' = [Status EXCEPT ![m] = "pending"]
  <2>1. inbox'[m] # NoRow /\ ~ inbox'[m] >= MaxRetries
    BY <1>1, NoRowAssumption, BoundsAssumption
  <2>2. Status'[m] = "pending"
    BY <2>1 DEF Status, Abandoned
  <2>3. \A k \in Messages \ {m} : Status'[k] = Status[k]
    BY <1>1 DEF Status, Abandoned
  <2> QED
    BY <2>2, <2>3 DEF Status
<1>4. Tries' = Tries /\ Handed' = Handed
  BY <1>1 DEF Tries, Handed, FullyAudited
<1> QED
  BY <1>2, <1>3, <1>4 DEF Table!Enter

\* The message in hand has tries left.
LEMMA InHandPending ==
    ASSUME IInv, wpc # "idle"
    PROVE  Status[Cur.id] = "pending"
<1>1. /\ Cur.id \in Messages /\ inbox[Cur.id] = Cur.retry
      /\ Cur.retry \in 0 .. MaxRetries - 1
  BY InHand DEF IInv
<1> QED
  BY <1>1, NoRowAssumption, BoundsAssumption DEF Status, Abandoned

\* A row of the audit log either completes the audit of the message in hand,
\* which hands it over, or changes nothing that RetryTable tells apart.
LEMMA AuditHandsOver ==
    ASSUME IInv, wpc = "save", inbox' = inbox, item < Items[Cur.id],
           audits' = Audited(audits, Cur.id, item + 1)
    PROVE  Table!HandOver(Cur.id) \/ UNCHANGED <<Status, Handed, Tries>>
<1> PICK m \in Messages : m = Cur.id
  BY InHand DEF IInv
<1>1. item + 1 \in 1 .. Items[m]
  BY ItemsAssumption DEF IInv, TypeOK
<1>2. /\ \A k \in Messages \ {m} : audits'[k] = audits[k]
      /\ \A j \in 1 .. Items[m] : audits[m][j] > 0 => audits'[m][j] > 0
  BY <1>1, AuditedGrows
<1>3. Status' = Status /\ Tries' = Tries
  BY DEF Status, Tries, Abandoned
<1>4. /\ \A k \in Messages \ {m} : FullyAudited(k)' <=> FullyAudited(k)
      /\ FullyAudited(m) => FullyAudited(m)'
  BY <1>2 DEF FullyAudited
<1>5. Handed' = Handed \/ Handed' = Handed \cup {m}
  BY <1>4 DEF Handed
<1> QED
  BY <1>3, <1>5, InHandPending DEF Table!HandOver

\* The delete removes a message that was handed over.
LEMMA DeleteRemoves ==
    ASSUME IInv, Delete
    PROVE  Table!Remove(Cur.id)
<1> PICK m \in Messages : m = Cur.id
  BY InHand DEF IInv, Delete
<1>1. /\ inbox'[m] = NoRow /\ UNCHANGED audits
      /\ \A k \in Messages \ {m} : inbox'[k] = inbox[k]
  BY DEF Delete, IInv, TypeOK
<1>2. m \in Handed
  BY DEF Delete, IInv, PassRecorded, Handed
<1>3. Status[m] = "pending"
  BY InHandPending DEF Delete
<1>4. Status' = [Status EXCEPT ![m] = "absent"] /\ Tries' = [Tries EXCEPT ![m] = 0]
  BY <1>1 DEF Status, Tries, Abandoned
<1>5. Handed' = Handed
  BY <1>1 DEF Handed, FullyAudited
<1> QED
  BY <1>2, <1>3, <1>4, <1>5 DEF Table!Remove

\* A retry that is recorded is a miss.
LEMMA RetryMisses ==
    ASSUME IInv, UpdateRetry
    PROVE  Table!Miss(Cur.id)
<1> PICK m \in Messages : m = Cur.id
  BY InHand DEF IInv, UpdateRetry
<1>1. inbox[m] = Cur.retry /\ Cur.retry \in 0 .. MaxRetries - 1
  BY InHand DEF IInv, UpdateRetry
<1>2. /\ inbox'[m] = inbox[m] + 1 /\ UNCHANGED audits
      /\ \A k \in Messages \ {m} : inbox'[k] = inbox[k]
  BY <1>1, NoRowAssumption, BoundsAssumption DEF UpdateRetry, IInv, TypeOK
<1>3. Status[m] = "pending"
  BY InHandPending DEF UpdateRetry
<1>4. inbox[m] \in Nat /\ inbox[m] # NoRow /\ inbox'[m] # NoRow
  BY <1>1, <1>2, NoRowAssumption, BoundsAssumption
<1>5. Tries' = [Tries EXCEPT ![m] = @ + 1] /\ Tries'[m] = inbox[m] + 1
  BY <1>2, <1>4 DEF Tries
<1>6. inbox[m] + 1 >= MaxRetries <=> Tries'[m] = MaxRetries
  BY <1>1, <1>5, BoundsAssumption
<1>7. Status' = [Status EXCEPT ![m] = IF Tries'[m] = MaxRetries THEN "dead" ELSE @]
  <2>1. Status'[m] = IF Tries'[m] = MaxRetries THEN "dead" ELSE Status[m]
    BY <1>2, <1>3, <1>4, <1>6 DEF Status, Abandoned
  <2>2. \A k \in Messages \ {m} : Status'[k] = Status[k]
    BY <1>2 DEF Status, Abandoned
  <2> QED
    BY <2>1, <2>2 DEF Status
<1>8. Handed' = Handed
  BY <1>2 DEF Handed, FullyAudited
<1> QED
  BY <1>3, <1>5, <1>7, <1>8 DEF Table!Miss

\* Every step of the inbox and its worker is a step of RetryTable or none.
LEMMA TableStep == IInv /\ [Next]_ivars => [Table!Next]_(Table!tvars)
<1> SUFFICES ASSUME IInv, [Next]_ivars
             PROVE  Table!Next \/ UNCHANGED <<Status, Handed, Tries>>
  BY DEF Table!tvars
<1>0. wpc # "idle" => Cur.id \in Messages
  BY InHand DEF IInv
<1>1. CASE \E m \in Messages : Insert(m)
  BY <1>1, InsertEnters DEF Table!Next
<1>2. CASE SaveItem
  BY <1>0, <1>2, AuditHandsOver DEF SaveItem, Table!Next
<1>3. ASSUME NEW landed \in BOOLEAN, SaveItemFail(landed)
      PROVE  Table!Next \/ UNCHANGED <<Status, Handed, Tries>>
  <2>1. CASE landed
    BY <1>0, <1>3, <2>1, AuditHandsOver DEF SaveItemFail, Table!Next
  <2>2. CASE ~ landed
    <3>1. UNCHANGED <<inbox, audits>>
      BY <1>3, <2>2 DEF SaveItemFail
    <3> QED
      BY <3>1, TableUnchanged DEF FullyAudited
  <2> QED
    BY <2>1, <2>2
<1>4. CASE Delete
  BY <1>0, <1>4, DeleteRemoves DEF Delete, Table!Next
<1>5. CASE UpdateRetry
  BY <1>0, <1>5, RetryMisses DEF UpdateRetry, Table!Next
<1>6. CASE Poll \/ SaveDone \/ WriteFail \/ Stop \/ Die \/ Restart \/ UNCHANGED ivars
  <2>1. UNCHANGED <<inbox, audits>>
    BY <1>6 DEF Poll, SaveDone, WriteFail, Stop, Die, Restart, ivars
  <2> QED
    BY <2>1, TableUnchanged DEF FullyAudited
<1> QED
  BY <1>1, <1>2, <1>3, <1>4, <1>5, <1>6 DEF Next

\* The inbox implements the table of retried messages: an order leaves it only
\* fully audited, and its retries are counted.  Orders without items are
\* audited in full from the start, and are left out.
THEOREM TableImplemented ==
    ASSUME \A m \in Messages : Items[m] > 0
    PROVE  Spec => ImplementsTable
<1>1. Init => Table!Init
  <2> SUFFICES ASSUME Init PROVE Table!Init
    OBVIOUS
  <2>1. \A m \in Messages : ~ FullyAudited(m)
    <3> SUFFICES ASSUME NEW m \in Messages PROVE ~ FullyAudited(m)
      OBVIOUS
    <3>1. 1 \in 1 .. Items[m] /\ audits[m][1] = 0
      BY ItemsAssumption DEF Init
    <3> QED
      BY <3>1 DEF FullyAudited
  <2> QED
    BY <2>1 DEF Init, Table!Init, Status, Handed, Tries
<1> QED
  BY <1>1, TableStep, Invariant, PTL DEF Spec, ImplementsTable, Table!Spec

=============================================================================
