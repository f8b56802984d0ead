---------------------------- MODULE OutboxWorker ----------------------------
(***************************************************************************)
(* The outbox table of order-svc, the handlers that save messages in it    *)
(* and the single worker goroutine that publishes them again               *)
(* (internal/worker/outbox/worker.go), across shutdowns and crashes of the *)
(* service and the loss of its only RabbitMQ connection.                   *)
(*                                                                         *)
(* Time advances in units of the retry interval (30 s).  A row keeps the   *)
(* time left until next_retry_at instead of next_retry_at itself, and the  *)
(* time since created_at instead of created_at, so that the state space is *)
(* finite.                                                                 *)
(***************************************************************************)
EXTENDS Integers, Sequences

CONSTANTS
    Messages,    \* the audit messages whose first publish fails
    NoRow,       \* the outbox holds no row for a message
    MaxRetries,  \* outbox max_retries
    BatchSize,   \* outbox batch_size, the LIMIT of a poll
    Backoff,     \* Backoff[n]: units until attempt number n + 1
    MaxRedo      \* bound: publishes of one message that survive without a delete

Row == [retry : 0 .. MaxRetries, wait : Nat, age : Nat]

ASSUME MaxRetriesAssumption == MaxRetries \in Nat \ {0}
ASSUME BatchSizeAssumption == BatchSize \in Nat \ {0}
ASSUME MaxRedoAssumption == MaxRedo \in Nat
ASSUME NoRowAssumption == NoRow \notin Row
ASSUME BackoffAssumption ==
    /\ Backoff[0] = 1
    /\ \A n \in 0 .. MaxRetries :
          Backoff[n] \in Nat \ {0} /\ Backoff[n] <= Backoff[MaxRetries]
    /\ \A n \in 0 .. MaxRetries - 1 : Backoff[n + 1] = 2 * Backoff[n]

VARIABLES
    outbox,     \* the table: a row or NoRow for every message
    saved,      \* messages ever inserted in the table
    published,  \* published[m]: publishes of m by the worker that returned no error
    redo,       \* redo[m]: those of them whose row was not deleted afterwards
    channel,    \* the AMQP channel, created once per process
    svc,        \* "up", "stopping" (the worker's context is cancelled), "down"
    wpc,        \* where the worker is
    batch       \* rows read by the last poll and still to be processed

vars == <<outbox, saved, published, redo, channel, svc, wpc, batch>>

\* A row cannot be worth distinguishing after all its retries are over.
Horizon == 2 * Backoff[MaxRetries] - 1

\* A snapshot of a row, as GetPendingMessages returns it.
Snapshot == [id : Messages, retry : 0 .. MaxRetries - 1]

Cur == Head(batch)

Init ==
    /\ outbox = [m \in Messages |-> NoRow]
    /\ saved = {}
    /\ published = [m \in Messages |-> 0]
    /\ redo = [m \in Messages |-> 0]
    /\ channel = "open"
    /\ svc = "up"
    /\ wpc = "idle"
    /\ batch = <<>>

-----------------------------------------------------------------------------
(* The request handlers' side, and time *)

NewRow == [retry |-> 0, wait |-> Backoff[0], age |-> 0]

\* audit.LogBatchInsert: the publish failed, so the message becomes a row.
Save(m) ==
    /\ svc # "down"
    /\ channel = "closed"
    /\ m \notin saved
    /\ outbox' = [outbox EXCEPT ![m] = NewRow]
    /\ saved' = saved \cup {m}
    /\ UNCHANGED <<published, redo, channel, svc, wpc, batch>>

Older(r) == [retry |-> r.retry,
             wait |-> IF r.wait = 0 THEN 0 ELSE r.wait - 1,
             age |-> IF r.age < Horizon THEN r.age + 1 ELSE r.age]

Tick ==
    /\ outbox' = [m \in Messages |->
                    IF outbox[m] = NoRow THEN NoRow ELSE Older(outbox[m])]
    /\ UNCHANGED <<saved, published, redo, channel, svc, wpc, batch>>

-----------------------------------------------------------------------------
(* The worker *)

\* Faulty variant: a row is due once more after its last retry.
DueAtLimit == {m \in Messages : /\ outbox[m] # NoRow
                                /\ outbox[m].wait = 0
                                /\ outbox[m].retry <= MaxRetries}

\* The WHERE clause of GetPendingMessages.
Due == {m \in Messages : /\ outbox[m] # NoRow
                         /\ outbox[m].wait = 0
                         /\ outbox[m].retry < MaxRetries}

\* Faulty variant: polls overlap, each in a goroutine of its own.
PollOverlaps ==
    /\ svc = "up"
    /\ Len(batch) < 2
    /\ \E m \in Due : batch' = Append(batch, [id |-> m, retry |-> outbox[m].retry])
    /\ wpc' = IF wpc = "idle" THEN "publish" ELSE wpc
    /\ UNCHANGED <<outbox, saved, published, redo, channel, svc>>

\* One tick of the poll interval that finds rows.  ORDER BY next_retry_at is
\* abstracted to any order, LIMIT is kept.
Poll ==
    /\ svc = "up"
    /\ wpc = "idle"
    /\ \E n \in 1 .. BatchSize : \E s \in [1 .. n -> Due] :
          /\ \A i, j \in 1 .. n : s[i] = s[j] => i = j
          /\ n = BatchSize \/ Due = {s[i] : i \in 1 .. n}
          /\ batch' = [i \in 1 .. n |-> [id |-> s[i], retry |-> outbox[s[i]].retry]]
    /\ wpc' = "publish"
    /\ UNCHANGED <<outbox, saved, published, redo, channel, svc>>

\* Bound: the current message may be left behind, published but not deleted.
CanLeaveBehind == redo[Cur.id] < MaxRedo

\* The loop over the batch does not look at the context: it publishes while
\* the service stops, too.
PublishOk ==
    /\ svc # "down"
    /\ wpc = "publish"
    /\ channel = "open"
    /\ svc = "stopping" => CanLeaveBehind
    /\ published' = [published EXCEPT ![Cur.id] = @ + 1]
    /\ wpc' = "delete"
    /\ UNCHANGED <<outbox, saved, redo, channel, svc, batch>>

\* Faulty variant: the message is deleted whatever the publish returned.
PublishFailDeletes ==
    /\ svc # "down"
    /\ wpc = "publish"
    /\ channel = "closed"
    /\ wpc' = "delete"
    /\ UNCHANGED <<outbox, saved, published, redo, channel, svc, batch>>

PublishFail ==
    /\ svc # "down"
    /\ wpc = "publish"
    /\ channel = "closed"
    /\ wpc' = "update"
    /\ UNCHANGED <<outbox, saved, published, redo, channel, svc, batch>>

\* Faulty variant: the loop does not see the end of the batch.
AdvanceStuck ==
    /\ batch' = Tail(batch)
    /\ wpc' = "publish"

\* On to the next message of the batch, or back to the ticker.
Advance ==
    /\ batch' = Tail(batch)
    /\ wpc' = IF Len(batch) = 1 THEN "idle" ELSE "publish"

\* Faulty variant: the statement deletes no row, and says nothing.
DeleteNothing ==
    /\ svc = "up"
    /\ wpc = "delete"
    /\ Advance
    /\ UNCHANGED <<outbox, saved, published, redo, channel, svc>>

Delete ==
    /\ svc = "up"
    /\ wpc = "delete"
    /\ outbox' = [outbox EXCEPT ![Cur.id] = NoRow]
    /\ Advance
    /\ UNCHANGED <<saved, published, redo, channel, svc>>

\* The database refuses, or the context was cancelled.  A delete that took
\* effect although the call returned an error is Delete: the worker only logs.
DeleteFail ==
    /\ svc # "down"
    /\ wpc = "delete"
    /\ CanLeaveBehind
    /\ redo' = [redo EXCEPT ![Cur.id] = @ + 1]
    /\ Advance
    /\ UNCHANGED <<outbox, saved, published, channel, svc>>

\* Faulty variants: every retry after the same time; a retry is not counted.
RetriedAtFixedRate(r) == [retry |-> Cur.retry + 1, wait |-> Backoff[0], age |-> r.age]
RetriedUncounted(r) ==
    [retry |-> Cur.retry, wait |-> Backoff[Cur.retry + 1], age |-> r.age]

\* The row the worker writes has the retry count it read with the poll, plus
\* one.  An UPDATE of a row that is no longer there changes nothing.
Retried(r) == [retry |-> Cur.retry + 1,
               wait |-> Backoff[Cur.retry + 1],
               age |-> r.age]

UpdateRetry ==
    /\ svc = "up"
    /\ wpc = "update"
    /\ outbox' = [outbox EXCEPT ![Cur.id] = IF @ = NoRow THEN NoRow ELSE Retried(@)]
    /\ Advance
    /\ UNCHANGED <<saved, published, redo, channel, svc>>

UpdateRetryFail ==
    /\ svc # "down"
    /\ wpc = "update"
    /\ Advance
    /\ UNCHANGED <<outbox, saved, published, redo, channel, svc>>

-----------------------------------------------------------------------------
(* The connection and the process *)

\* The connection fails, or gracefulShutdown closes it.  Nothing reopens it.
ConnectionLost ==
    /\ svc # "down"
    /\ channel = "open"
    /\ channel' = "closed"
    /\ UNCHANGED <<outbox, saved, published, redo, svc, wpc, batch>>

\* gracefulShutdown: workerCancel(), which nobody waits for.
Stop ==
    /\ svc = "up"
    /\ wpc = "delete" => CanLeaveBehind
    /\ svc' = "stopping"
    /\ UNCHANGED <<outbox, saved, published, redo, channel, wpc, batch>>

\* The process ends, at any step of the worker.
Die ==
    /\ wpc = "delete" => CanLeaveBehind
    /\ svc' = "down"
    /\ channel' = "closed"
    /\ redo' = IF wpc = "delete" THEN [redo EXCEPT ![Cur.id] = @ + 1] ELSE redo
    /\ wpc' = "idle"
    /\ batch' = <<>>
    /\ UNCHANGED <<outbox, saved, published>>

Crash == svc = "up" /\ Die

Exit == svc = "stopping" /\ Die

Restart ==
    /\ svc = "down"
    /\ svc' = "up"
    /\ channel' = "open"
    /\ UNCHANGED <<outbox, saved, published, redo, wpc, batch>>

Next ==
    \/ \E m \in Messages : Save(m)
    \/ Tick
    \/ Poll \/ PublishOk \/ PublishFail
    \/ Delete \/ DeleteFail \/ UpdateRetry \/ UpdateRetryFail
    \/ ConnectionLost \/ Stop \/ Crash \/ Exit \/ Restart

Spec == Init /\ [][Next]_vars

\* Time passes, a process told to stop ends and a dead one is restarted.  The
\* service is not stopped or cut off from the database at the same step of
\* the worker for ever: a step the worker could take again and again while
\* the service is up is taken.
Fairness ==
    /\ WF_vars(Tick) /\ WF_vars(Exit) /\ WF_vars(Restart)
    /\ SF_vars(Poll)
    /\ SF_vars(svc = "up" /\ (PublishOk \/ PublishFail))
    /\ SF_vars(Delete) /\ SF_vars(UpdateRetry)

FairSpec == Spec /\ Fairness

-----------------------------------------------------------------------------
(* Properties *)

TypeOK ==
    /\ outbox \in [Messages -> Row \cup {NoRow}]
    /\ saved \in SUBSET Messages
    /\ published \in [Messages -> Nat]
    /\ redo \in [Messages -> 0 .. MaxRedo]
    /\ channel \in {"open", "closed"}
    /\ svc \in {"up", "stopping", "down"}
    /\ wpc \in {"idle", "publish", "delete", "update"}
    /\ batch \in Seq(Snapshot)
    /\ (wpc = "idle") <=> (batch = <<>>)

Abandoned(m) == outbox[m] # NoRow /\ outbox[m].retry >= MaxRetries

\* A row leaves the table only after its message went out: no failure of the
\* publish, the delete or the process loses a saved message.
RemovedOnlyAfterPublish ==
    \A m \in saved : outbox[m] = NoRow => published[m] > 0

\* The worker publishes a message more than once only if an earlier publish
\* survived without its delete, once for each such time.
DuplicatesExplained ==
    \A m \in Messages : published[m] <= redo[m] + 1

\* What the worker read before it published still holds when it writes the
\* outcome: each row of the batch is there, unchanged, and there only once.
SnapshotFresh ==
    /\ \A i \in 1 .. Len(batch) :
          /\ outbox[batch[i].id] # NoRow
          /\ outbox[batch[i].id].retry = batch[i].retry
          /\ outbox[batch[i].id].wait = 0
    /\ \A i, j \in 1 .. Len(batch) : batch[i].id = batch[j].id => i = j

\* A row runs out of retries no sooner than all the backoff intervals together
\* allow: 1 + 2 + ... + Backoff[MaxRetries - 1] units after it was created.
AbandonedOnlyAfterWindow ==
    \A m \in Messages : Abandoned(m) => outbox[m].age >= Backoff[MaxRetries] - 1

\* A row out of retries is never published again.
AbandonedStaysSilent ==
    [][\A m \in Messages : Abandoned(m) => published'[m] = published[m]]_vars

\* The worker finishes with every row: it is published and deleted, or it runs
\* out of retries, whatever fails in between.
EveryRowSettles ==
    \A m \in Messages : outbox[m] # NoRow ~> (outbox[m] = NoRow \/ Abandoned(m))

-----------------------------------------------------------------------------
(* What the table promises: see RetryTable *)

Status == [m \in Messages |-> IF outbox[m] = NoRow THEN "absent"
                              ELSE IF Abandoned(m) THEN "dead" ELSE "pending"]

Handed == {m \in Messages : published[m] > 0}

Tries == [m \in Messages |-> IF outbox[m] = NoRow THEN 0 ELSE outbox[m].retry]

Table == INSTANCE RetryTable WITH status <- Status, handed <- Handed, tries <- Tries

\* The outbox and its worker implement RetryTable: whatever fails, a step of
\* theirs enters, hands over, removes or misses one message, or changes nothing
\* a user of the table can tell.
ImplementsTable == Table!Spec

=============================================================================
