----------------------------- MODULE InboxWorker -----------------------------
(***************************************************************************)
(* The inbox table of the audit service and the worker goroutine that      *)
(* processes its messages again (internal/worker/inbox/worker.go), across  *)
(* shutdowns and crashes.  A message is processed item by item, each audit *)
(* row in a statement of its own, so that a pass may end in the middle.    *)
(*                                                                         *)
(* Which rows are due is left open: the backoff is the outbox worker's,    *)
(* modelled in OutboxWorker.  The branch for payloads that cannot be       *)
(* decoded is left out: the consumer saves only what it could decode       *)
(* (OnlyMalformedDropped of AuditConsumer).                                *)
(***************************************************************************)
EXTENDS Integers, Sequences

CONSTANTS
    Messages,    \* message bodies
    Items,       \* Items[m]: order items of message m
    NoRow,       \* the inbox holds no row for a message
    MaxRetries,  \* inbox max_retries
    BatchSize,   \* inbox batch_size, the LIMIT of a poll
    MaxAudits    \* bound: audit rows of an item that are told apart

ASSUME ItemsAssumption == Items \in [Messages -> Nat]
ASSUME BoundsAssumption ==
    MaxRetries \in Nat \ {0} /\ BatchSize \in Nat \ {0} /\ MaxAudits \in Nat \ {0}
ASSUME NoRowAssumption == NoRow \notin Nat

VARIABLES
    inbox,   \* the table: retry count of a message's row, or NoRow
    audits,  \* audits[m][i]: rows of the audit log for item i of m
    svc,     \* "up", "stopping" (the worker's context is cancelled), "down"
    wpc,     \* where the worker is
    batch,   \* rows read by the last poll and still to be processed
    item     \* items of the current message already written in this pass

ivars == <<inbox, audits, svc, wpc, batch, item>>

Snapshot == [id : Messages, retry : 0 .. MaxRetries - 1]

Cur == Head(batch)

Init ==
    /\ inbox = [m \in Messages |-> NoRow]
    /\ audits = [m \in Messages |-> [i \in 1 .. Items[m] |-> 0]]
    /\ svc = "up"
    /\ wpc = "idle"
    /\ batch = <<>>
    /\ item = 0

\* processMessage of the consumer: processing failed, the message is saved.
Insert(m) ==
    /\ svc # "down"
    /\ inbox[m] = NoRow
    /\ inbox' = [inbox EXCEPT ![m] = 0]
    /\ UNCHANGED <<audits, svc, wpc, batch, item>>

-----------------------------------------------------------------------------
(* The worker *)

\* Faulty variant: a row is due once more after its last retry.
PendingAtLimit == {m \in Messages : inbox[m] # NoRow /\ inbox[m] <= MaxRetries}

\* retry_count < max_retries, and next_retry_at in the past.
Pending == {m \in Messages : inbox[m] # NoRow /\ inbox[m] < MaxRetries}

\* Faulty variant: polls overlap, each in a goroutine of its own.
PollOverlaps ==
    /\ svc = "up"
    /\ Len(batch) < 2
    /\ \E m \in Pending : batch' = Append(batch, [id |-> m, retry |-> inbox[m]])
    /\ wpc' = IF wpc = "idle" THEN "save" ELSE wpc
    /\ UNCHANGED <<inbox, audits, svc, item>>

\* Faulty variant: a poll takes the row out of the table (DELETE ... RETURNING).
PollClaims ==
    /\ svc = "up"
    /\ wpc = "idle"
    /\ \E m \in Pending :
          /\ batch' = <<[id |-> m, retry |-> inbox[m]]>>
          /\ inbox' = [inbox EXCEPT ![m] = NoRow]
    /\ wpc' = "save"
    /\ item' = 0
    /\ UNCHANGED <<audits, svc>>

Poll ==
    /\ svc = "up"
    /\ wpc = "idle"
    /\ \E n \in 1 .. BatchSize : \E s \in [1 .. n -> Pending] :
          /\ \A i, j \in 1 .. n : s[i] = s[j] => i = j
          /\ batch' = [i \in 1 .. n |-> [id |-> s[i], retry |-> inbox[s[i]]]]
    /\ wpc' = "save"
    /\ item' = 0
    /\ UNCHANGED <<inbox, audits, svc>>

\* Bound: more audit rows than MaxAudits are not told apart.
Audited(a, m, i) == [a EXCEPT ![m][i] = IF @ < MaxAudits THEN @ + 1 ELSE @]

\* ProcessAuditLog of the next item.
SaveItem ==
    /\ svc = "up"
    /\ wpc = "save"
    /\ item < Items[Cur.id]
    /\ audits' = Audited(audits, Cur.id, item + 1)
    /\ item' = item + 1
    /\ UNCHANGED <<inbox, svc, wpc, batch>>

\* Faulty variant: the error of the last item is forgotten.
SaveItemFailDeletes(landed) ==
    /\ svc # "down"
    /\ wpc = "save"
    /\ item < Items[Cur.id]
    /\ wpc' = "delete"
    /\ UNCHANGED <<inbox, audits, svc, batch, item>>

\* The statement fails, or the context was cancelled; the row may be there.
SaveItemFail(landed) ==
    /\ svc # "down"
    /\ wpc = "save"
    /\ item < Items[Cur.id]
    /\ landed => svc = "up"
    /\ audits' = IF landed THEN Audited(audits, Cur.id, item + 1) ELSE audits
    /\ wpc' = "update"
    /\ UNCHANGED <<inbox, svc, batch, item>>

SaveDone ==
    /\ svc # "down"
    /\ wpc = "save"
    /\ item = Items[Cur.id]
    /\ wpc' = "delete"
    /\ UNCHANGED <<inbox, audits, svc, batch, item>>

\* Faulty variant: the loop does not see the end of the batch.
AdvanceStuck ==
    /\ batch' = Tail(batch)
    /\ wpc' = "save"
    /\ item' = 0

Advance ==
    /\ batch' = Tail(batch)
    /\ wpc' = IF Len(batch) = 1 THEN "idle" ELSE "save"
    /\ item' = 0

Delete ==
    /\ svc = "up"
    /\ wpc = "delete"
    /\ inbox' = [inbox EXCEPT ![Cur.id] = NoRow]
    /\ Advance
    /\ UNCHANGED <<audits, svc>>

\* Faulty variant: a retry is not counted.
UpdateRetryUncounted ==
    /\ svc = "up"
    /\ wpc = "update"
    /\ Advance
    /\ UNCHANGED <<inbox, audits, svc>>

UpdateRetry ==
    /\ svc = "up"
    /\ wpc = "update"
    /\ inbox' = [inbox EXCEPT ![Cur.id] = IF @ = NoRow THEN NoRow ELSE Cur.retry + 1]
    /\ Advance
    /\ UNCHANGED <<audits, svc>>

\* The delete or the update fails: the worker goes on with the next message.
WriteFail ==
    /\ svc # "down"
    /\ wpc \in {"delete", "update"}
    /\ Advance
    /\ UNCHANGED <<inbox, audits, svc>>

-----------------------------------------------------------------------------
(* The process *)

Stop ==
    /\ svc = "up"
    /\ svc' = "stopping"
    /\ UNCHANGED <<inbox, audits, wpc, batch, item>>

Die ==
    /\ svc # "down"
    /\ svc' = "down"
    /\ wpc' = "idle"
    /\ batch' = <<>>
    /\ item' = 0
    /\ UNCHANGED <<inbox, audits>>

Restart ==
    /\ svc = "down"
    /\ svc' = "up"
    /\ UNCHANGED <<inbox, audits, wpc, batch, item>>

Next ==
    \/ \E m \in Messages : Insert(m)
    \/ Poll \/ SaveItem \/ SaveDone \/ \E landed \in BOOLEAN : SaveItemFail(landed)
    \/ Delete \/ UpdateRetry \/ WriteFail
    \/ Stop \/ Die \/ Restart

Spec == Init /\ [][Next]_ivars

\* A poll that reads the row of m in front of all others.
PollFirst(m) == Poll /\ batch'[1].id = m

\* The worker has m in hand, at its item i.
At(m, i) == svc = "up" /\ wpc # "idle" /\ Cur.id = m /\ item = i

\* ORDER BY next_retry_at: a row that stays due comes first in the end, since
\* every row that is saved or retried meanwhile is due later.  The service is not stopped or cut off
\* from the database at the same step of the worker, here the same item of the
\* same message, for ever.
Fairness ==
    /\ WF_ivars(svc = "stopping" /\ Die) /\ WF_ivars(Restart)
    /\ \A m \in Messages :
          /\ SF_ivars(PollFirst(m))
          /\ \A i \in 0 .. Items[m] :
                /\ SF_ivars(At(m, i) /\ (SaveItem \/ SaveItemFail(FALSE) \/ SaveDone))
                /\ SF_ivars(At(m, i) /\ (Delete \/ UpdateRetry))

FairSpec == Spec /\ Fairness

-----------------------------------------------------------------------------
(* Properties *)

TypeOK ==
    /\ inbox \in [Messages -> 0 .. MaxRetries \cup {NoRow}]
    /\ \A m \in Messages : audits[m] \in [1 .. Items[m] -> 0 .. MaxAudits]
    /\ svc \in {"up", "stopping", "down"}
    /\ wpc \in {"idle", "save", "delete", "update"}
    /\ batch \in Seq(Snapshot)
    /\ (wpc = "idle") <=> (batch = <<>>)
    /\ item \in Nat

FullyAudited(m) == \A i \in 1 .. Items[m] : audits[m][i] > 0

Abandoned(m) == inbox[m] # NoRow /\ inbox[m] >= MaxRetries

\* What the worker read still holds when it writes the outcome of a pass.
SnapshotFresh ==
    /\ \A i \in 1 .. Len(batch) : inbox[batch[i].id] = batch[i].retry
    /\ \A i, j \in 1 .. Len(batch) : batch[i].id = batch[j].id => i = j

\* A message leaves the inbox only when all of its items are in the audit log:
\* a pass that ends in the middle never removes it.
RemovedOnlyAfterAudit ==
    [][\A m \in Messages :
          inbox[m] # NoRow /\ inbox'[m] = NoRow => FullyAudited(m)]_ivars

\* The worker finishes with every message: it is audited and removed, or it
\* runs out of retries.
EveryRowSettles ==
    \A m \in Messages : inbox[m] # NoRow ~> (inbox[m] = NoRow \/ Abandoned(m))

-----------------------------------------------------------------------------
(* What the table promises: see RetryTable *)

Status == [m \in Messages |->
    IF inbox[m] = NoRow THEN "absent" ELSE IF Abandoned(m) THEN "dead" ELSE "pending"]

Handed == {m \in Messages : FullyAudited(m)}

Tries == [m \in Messages |-> IF inbox[m] = NoRow THEN 0 ELSE inbox[m]]

Table == INSTANCE RetryTable WITH status <- Status, handed <- Handed, tries <- Tries

\* The inbox and its worker implement RetryTable, as the outbox does.
ImplementsTable == Table!Spec

=============================================================================
