------------------------- MODULE AuditConsumerProofs -------------------------
(***************************************************************************)
(* The safety of the consumer, for any number of messages, items, copies   *)
(* and handlers.                                                           *)
(***************************************************************************)
EXTENDS AuditConsumer, FiniteSetTheorems, TLAPS

\* TypeOK without the bounds on the counters, which follow from
\* CopiesConserved.
Types ==
    /\ copies \in [Messages -> 0 .. MaxCopies]
    /\ queue \in [Messages -> Nat]
    /\ acked \in [Messages -> Nat]
    /\ dropped \in [Messages -> Nat]
    /\ redone \in [Messages -> 0 .. MaxAudits]
    /\ hpc \in [Handlers -> {"free", "save", "inbox", "ack", "requeue", "reject"}]
    /\ hmsg \in [Handlers -> Messages \cup {NoMessage}]
    /\ hitem \in [Handlers -> Nat]
    /\ gctx \in {"live", "cancelled"}
    /\ reader \in {"running", "done"}
    /\ channel \in {"open", "closed"}
    /\ svc \in {"up", "stopping", "closing", "down"}
    /\ inbox \in [Messages -> Nat \cup {NoRow}]
    /\ DOMAIN audits = Messages
    /\ \A m \in Messages : audits[m] \in [1 .. Items[m] -> 0 .. MaxAudits]

\* A handler that runs has a message, has written its first items, rejects
\* what cannot be decoded, and acknowledges what is kept.
HandlersOK ==
    \A h \in Handlers : hpc[h] # "free" =>
        /\ hmsg[h] \in Messages /\ hitem[h] <= Items[hmsg[h]]
        /\ hpc[h] = "reject" <=> hmsg[h] \in Malformed
        /\ \A i \in 1 .. hitem[h] : audits[hmsg[h]][i] > 0
        /\ hpc[h] = "ack" => FullyAudited(hmsg[h]) \/ inbox[hmsg[h]] # NoRow

DownIsIdle ==
    svc = "down" =>
        channel = "closed" /\ reader = "done" /\ \A h \in Handlers : hpc[h] = "free"

IInv ==
    /\ Types /\ HandlersOK /\ DownIsIdle /\ CopiesConserved
    /\ AckedIsKept /\ OnlyMalformedDropped /\ AuditedInOrder

-----------------------------------------------------------------------------
(* The deliveries the broker waits for *)

\* What handlers hold can be counted.
LEMMA HoldingFinite ==
    \A m : /\ IsFiniteSet(Holding(m)) /\ Cardinality(Holding(m)) \in Nat
           /\ Unacked(m) \in Nat
<1> SUFFICES ASSUME NEW m
             PROVE  /\ IsFiniteSet(Holding(m)) /\ Cardinality(Holding(m)) \in Nat
                    /\ Unacked(m) \in Nat
  OBVIOUS
<1>1. Holding(m) \in SUBSET Handlers
  BY DEF Holding, Busy
<1>2. IsFiniteSet(Holding(m))
  BY <1>1, HandlersAssumption, FS_Subset
<1> QED
  BY <1>2, FS_CardinalityType DEF Unacked

\* A delivery adds its handler to those that hold the message.
LEMMA ReceiveCounts ==
    ASSUME Types, NEW h \in Handlers, NEW m \in Messages, Receive(h, m)
    PROVE  \A k \in Messages : Unacked(k)' = Unacked(k) + (IF k = m THEN 1 ELSE 0)
<1>1. Holding(m)' = Holding(m) \cup {h} /\ h \notin Holding(m)
  BY DEF Types, Receive, Holding, Busy
<1>2. \A k \in Messages \ {m} : Holding(k)' = Holding(k)
  BY DEF Types, Receive, Holding, Busy
<1>3. Cardinality(Holding(m)') = Cardinality(Holding(m)) + 1
  BY <1>1, HoldingFinite, FS_AddElement
<1>4. \A k \in Messages : Unacked(k) \in Nat
  BY HoldingFinite
<1>5. channel = "open" /\ channel' = "open"
  BY DEF Receive
<1>6. Unacked(m) = Cardinality(Holding(m)) /\ Unacked(m)' = Cardinality(Holding(m)')
  BY <1>5 DEF Unacked
<1>7. \A k \in Messages \ {m} : Unacked(k)' = Unacked(k)
  BY <1>2, <1>5 DEF Unacked
<1> QED
  BY <1>3, <1>4, <1>6, <1>7

\* A handler that goes on holds what it held.
LEMMA GotoCounts ==
    ASSUME Types, NEW h \in Handlers, hpc[h] # "free",
           NEW to \in {"save", "inbox", "ack", "requeue"}, hpc' = [hpc EXCEPT ![h] = to],
           UNCHANGED <<hmsg, channel>>
    PROVE  \A k \in Messages : Unacked(k)' = Unacked(k)
<1>1. \A k \in Messages : Holding(k)' = Holding(k)
  BY DEF Types, Holding, Busy
<1> QED
  BY <1>1 DEF Unacked

\* A handler that returns gives up what it held.
LEMMA ReturnCounts ==
    ASSUME Types, HandlersOK, NEW h \in Handlers, NEW from, NEW ctx, from # "free",
           Return(h, from, ctx), UNCHANGED channel
    PROVE  \A k \in Messages :
              Unacked(k)' = IF channel = "open" /\ k = hmsg[h] THEN Unacked(k) - 1 ELSE Unacked(k)
<1> PICK m \in Messages : m = hmsg[h]
  BY DEF HandlersOK, Return
<1>1. h \in Holding(m) /\ Holding(m)' = Holding(m) \ {h}
  BY NoMessageAssumption DEF Types, Return, Holding, Busy
<1>2. \A k \in Messages \ {m} : Holding(k)' = Holding(k)
  BY DEF Types, Return, Holding, Busy
<1>3. Cardinality(Holding(m)') = Cardinality(Holding(m)) - 1
  <2>1. IsFiniteSet(Holding(m))
    BY HoldingFinite
  <2> QED
    BY <1>1, <2>1, FS_RemoveElement
<1>4. CASE channel = "open"
  <2>1. \A k \in Messages : Unacked(k) = Cardinality(Holding(k))
    BY <1>4 DEF Unacked
  <2>2. \A k \in Messages : Unacked(k)' = Cardinality(Holding(k)')
    BY <1>4 DEF Unacked
  <2> QED
    BY <1>1, <1>2, <1>3, <1>4, <2>1, <2>2
<1>5. CASE channel # "open"
  BY <1>5 DEF Unacked
<1> QED
  BY <1>4, <1>5

\* When the channel closes the broker takes back what it waits for.
LEMMA GiveBackCounts ==
    ASSUME Types, GiveBack, channel' = "closed"
    PROVE  /\ queue' \in [Messages -> Nat] /\ redone' \in [Messages -> 0 .. MaxAudits]
           /\ \A k \in Messages : Unacked(k)' = 0 /\ queue'[k] = queue[k] + Unacked(k)
<1>1. \A k \in Messages : Cardinality(Holding(k)) \in Nat
  BY HoldingFinite
<1>2. \A k \in Messages : Unacked(k)' = 0
  BY DEF Unacked
<1>3. CASE channel = "open"
  <2>1. \A k \in Messages : Unacked(k) = Cardinality(Holding(k))
    BY <1>3 DEF Unacked
  <2>2. \A n \in Nat : AtMost(n) \in 0 .. MaxAudits
    BY BoundsAssumption DEF AtMost
  <2>3. redone' \in [Messages -> 0 .. MaxAudits]
    <3>1. redone' = [k \in Messages |-> AtMost(redone[k] + Cardinality(Holding(k)))]
      BY <1>3 DEF GiveBack
    <3>2. \A k \in Messages : redone[k] + Cardinality(Holding(k)) \in Nat
      BY <1>1, BoundsAssumption DEF Types
    <3> QED
      BY <2>2, <3>1, <3>2
  <2> QED
    BY <1>1, <1>2, <1>3, <2>1, <2>3 DEF Types, GiveBack
<1>4. CASE channel # "open"
  BY <1>2, <1>4 DEF Types, GiveBack, Unacked
<1> QED
  BY <1>3, <1>4

\* A row that is written adds to the audit log and takes nothing away.
LEMMA AuditedGrows ==
    ASSUME Types, NEW m \in Messages, NEW i \in 1 .. Items[m], audits' = Audited(audits, m, i)
    PROVE  /\ DOMAIN audits' = Messages
           /\ \A k \in Messages : audits'[k] \in [1 .. Items[k] -> 0 .. MaxAudits]
           /\ audits'[m][i] > 0
           /\ \A k \in Messages : \A j \in 1 .. Items[k] :
                 /\ audits[k][j] > 0 => audits'[k][j] > 0
                 /\ audits'[k][j] > 0 => audits[k][j] > 0 \/ (k = m /\ j = i)
<1>1. /\ audits'[m] = [audits[m] EXCEPT ![i] = AtMost(@ + 1)]
      /\ DOMAIN audits' = Messages
      /\ \A k \in Messages \ {m} : audits'[k] = audits[k]
  BY DEF Types, Audited
<1>2. audits[m] \in [1 .. Items[m] -> 0 .. MaxAudits]
  BY DEF Types
<1>3. /\ AtMost(audits[m][i] + 1) \in 0 .. MaxAudits
      /\ AtMost(audits[m][i] + 1) > 0
  <2>1. audits[m][i] \in 0 .. MaxAudits
    BY <1>2
  <2> QED
    BY <2>1, BoundsAssumption DEF AtMost
<1>4. audits'[m] \in [1 .. Items[m] -> 0 .. MaxAudits] /\ audits'[m][i] > 0
  BY <1>1, <1>2, <1>3
<1>5. \A j \in 1 .. Items[m] : j # i => audits'[m][j] = audits[m][j]
  BY <1>1, <1>2
<1> QED
  BY <1>1, <1>3, <1>4, <1>5 DEF Types

-----------------------------------------------------------------------------
(* The invariant *)

\* Initially nothing is sent and no handler runs.
LEMMA InitIInv == Init => IInv
<1> SUFFICES ASSUME Init PROVE IInv
  OBVIOUS
<1>1. Types
  BY BoundsAssumption, NoRowAssumption DEF Init, Types
<1>2. HandlersOK /\ DownIsIdle /\ AckedIsKept /\ OnlyMalformedDropped /\ AuditedInOrder
  BY DEF Init, HandlersOK, DownIsIdle, AckedIsKept, OnlyMalformedDropped, AuditedInOrder
<1>3. \A m : Holding(m) = {}
  BY DEF Init, Holding, Busy
<1>4. \A m : Unacked(m) = 0
  BY <1>3, FS_EmptySet DEF Unacked
<1>5. CopiesConserved
  BY <1>4 DEF Init, CopiesConserved
<1> QED
  BY <1>1, <1>2, <1>5 DEF IInv

\* A copy that arrives waits; the reader gives it to a free handler.
LEMMA QueueStep ==
    ASSUME IInv, NEW m \in Messages, Arrive(m) \/ \E h \in Handlers : Receive(h, m)
    PROVE  IInv'
<1> USE DEF IInv
<1>0. \A k \in Messages : Unacked(k) \in Nat
  BY HoldingFinite
<1>1. CASE Arrive(m)
  <2>1. \A k : Unacked(k)' = Unacked(k)
    BY <1>1 DEF Arrive, Unacked, Holding, Busy
  <2>2. Types'
    BY <1>1, BoundsAssumption DEF Arrive, Types
  <2>3. CopiesConserved'
    BY <1>0, <1>1, <2>1 DEF Arrive, Types, CopiesConserved
  <2>4. (HandlersOK /\ DownIsIdle /\ AckedIsKept /\ OnlyMalformedDropped /\ AuditedInOrder)'
    BY <1>1 DEF Arrive, HandlersOK, DownIsIdle, AckedIsKept, OnlyMalformedDropped,
       AuditedInOrder, FullyAudited
  <2> QED
    BY <2>2, <2>3, <2>4
<1>2. ASSUME NEW h \in Handlers, Receive(h, m) PROVE IInv'
  <2>1. \A k \in Messages : Unacked(k)' = Unacked(k) + (IF k = m THEN 1 ELSE 0)
    BY <1>2, ReceiveCounts
  <2>2. Types'
    BY <1>2, MalformedAssumption DEF Receive, Types
  <2>3. CopiesConserved'
    <3> SUFFICES ASSUME NEW k \in Messages
                 PROVE  copies'[k] = queue'[k] + Unacked(k)' + acked'[k] + dropped'[k]
      BY DEF CopiesConserved
    <3>1. /\ queue[m] > 0 /\ queue' = [queue EXCEPT ![m] = @ - 1]
          /\ UNCHANGED <<copies, acked, dropped>>
      BY <1>2 DEF Receive
    <3>2. copies[k] = queue[k] + Unacked(k) + acked[k] + dropped[k]
      BY DEF CopiesConserved
    <3>3. queue'[k] = queue[k] - (IF k = m THEN 1 ELSE 0)
      BY <3>1 DEF Types
    <3>4. /\ copies[k] \in Nat /\ queue[k] \in Nat /\ acked[k] \in Nat /\ dropped[k] \in Nat
          /\ Unacked(k) \in Nat
      BY <1>0, BoundsAssumption DEF Types
    <3>5. CASE k = m
      BY <2>1, <3>1, <3>2, <3>3, <3>4, <3>5
    <3>6. CASE k # m
      BY <2>1, <3>1, <3>2, <3>3, <3>4, <3>6
    <3> QED
      BY <3>5, <3>6
  <2>4. HandlersOK'
    <3>1. \A g \in Handlers : g # h => /\ hpc'[g] = hpc[g] /\ hmsg'[g] = hmsg[g]
                                       /\ hitem'[g] = hitem[g]
      BY <1>2 DEF Receive, Types
    <3>2. /\ hmsg'[h] = m /\ hitem'[h] = 0
          /\ hpc'[h] = IF m \in Malformed THEN "reject" ELSE "save"
      BY <1>2 DEF Receive, Types
    <3>3. Items[m] \in Nat
      BY ItemsAssumption
    <3>4. UNCHANGED <<audits, inbox>>
      BY <1>2 DEF Receive
    <3> QED
      BY <3>1, <3>2, <3>3, <3>4 DEF HandlersOK, FullyAudited
  <2>5. (DownIsIdle /\ AckedIsKept /\ OnlyMalformedDropped /\ AuditedInOrder)'
    BY <1>2 DEF Receive, DownIsIdle, AckedIsKept, OnlyMalformedDropped, AuditedInOrder, FullyAudited
  <2> QED
    BY <2>2, <2>3, <2>4, <2>5
<1> QED
  BY <1>1, <1>2

\* A handler goes on to a step that is neither its first nor its last: what is
\* left to show is what becomes of the audit log and of the inbox.
LEMMA GotoStep ==
    ASSUME IInv, NEW h \in Handlers,
           hpc[h] # "free", hpc[h] # "reject", NEW to \in {"save", "inbox", "ack", "requeue"},
           hpc' = [hpc EXCEPT ![h] = to],
           UNCHANGED <<copies, queue, acked, dropped, redone, hmsg, gctx, reader, channel, svc>>,
           \/ UNCHANGED hitem
           \/ /\ hitem[h] < Items[hmsg[h]]
              /\ hitem' = [hitem EXCEPT ![h] = @ + 1]
              /\ audits'[hmsg[h]][hitem[h] + 1] > 0,
           \/ UNCHANGED audits
           \/ hitem[h] < Items[hmsg[h]] /\ audits' = Audited(audits, hmsg[h], hitem[h] + 1),
           \/ UNCHANGED inbox
           \/ inbox' = [inbox EXCEPT ![hmsg[h]] = 0],
           to = "ack" => (hitem[h] = Items[hmsg[h]] /\ UNCHANGED hitem) \/ inbox'[hmsg[h]] # NoRow
    PROVE  IInv'
<1> USE DEF IInv
<1> PICK m \in Messages : m = hmsg[h]
  BY DEF HandlersOK
<1>1. hitem[h] \in Nat /\ hitem[h] <= Items[m] /\ Items[m] \in Nat
  BY ItemsAssumption DEF Types, HandlersOK
<1>2. \A i \in 1 .. hitem[h] : audits[m][i] > 0
  BY DEF HandlersOK
<1>3. /\ DOMAIN audits' = Messages
      /\ \A k \in Messages : audits'[k] \in [1 .. Items[k] -> 0 .. MaxAudits]
      /\ \A k \in Messages : \A j \in 1 .. Items[k] :
            /\ audits[k][j] > 0 => audits'[k][j] > 0
            /\ audits'[k][j] > 0 => audits[k][j] > 0 \/ (k = m /\ j = hitem[h] + 1)
  <2>1. CASE UNCHANGED audits
    BY <2>1 DEF Types
  <2>2. CASE hitem[h] < Items[m] /\ audits' = Audited(audits, m, hitem[h] + 1)
    <3>1. hitem[h] + 1 \in 1 .. Items[m]
      BY <1>1, <2>2
    <3> QED
      BY <2>2, <3>1, AuditedGrows
  <2> QED
    BY <2>1, <2>2
<1>4. Types'
  <2>1. hitem' \in [Handlers -> Nat]
    BY <1>1 DEF Types
  <2>2. inbox' \in [Messages -> Nat \cup {NoRow}]
    <3>1. CASE UNCHANGED inbox
      BY <3>1 DEF Types
    <3>2. CASE inbox' = [inbox EXCEPT ![m] = 0]
      BY <3>2 DEF Types
    <3> QED
      BY <3>1, <3>2
  <2>3. hpc' \in [Handlers -> {"free", "save", "inbox", "ack", "requeue", "reject"}]
    BY DEF Types
  <2> QED
    BY <1>3, <2>1, <2>2, <2>3 DEF Types
<1>5. CopiesConserved'
  <2>1. \A k \in Messages : Unacked(k)' = Unacked(k)
    BY GotoCounts
  <2> QED
    BY <2>1 DEF CopiesConserved
<1>6. AuditedInOrder'
  <2> SUFFICES ASSUME NEW k \in Messages, NEW i \in 1 .. Items[k], audits'[k][i] > 0,
                      NEW j \in 1 .. i
               PROVE  audits'[k][j] > 0
    BY DEF AuditedInOrder
  <2>1. Items[k] \in Nat /\ j \in 1 .. Items[k]
    BY ItemsAssumption
  <2>2. CASE audits[k][i] > 0
    BY <1>3, <2>1, <2>2 DEF AuditedInOrder
  <2>3. CASE k = m /\ i = hitem[h] + 1
    <3>1. CASE j = i
      BY <3>1
    <3>2. CASE j # i
      BY <1>1, <1>2, <1>3, <2>1, <2>3, <3>2
    <3> QED
      BY <3>1, <3>2
  <2> QED
    BY <1>3, <2>2, <2>3
<1>7. \A k \in Messages : /\ FullyAudited(k) => FullyAudited(k)'
                          /\ inbox[k] # NoRow => inbox'[k] # NoRow
                          /\ inbox'[k] # NoRow => inbox[k] # NoRow \/ k = m
  BY <1>3, NoRowAssumption DEF Types, FullyAudited
<1>8. (AckedIsKept /\ OnlyMalformedDropped /\ DownIsIdle)'
  <2>1. m \notin Malformed
    BY DEF HandlersOK
  <2>2. DownIsIdle'
    BY DEF Types, DownIsIdle
  <2>3. (AckedIsKept /\ OnlyMalformedDropped)'
    BY <1>7, <2>1 DEF AckedIsKept, OnlyMalformedDropped
  <2> QED
    BY <2>2, <2>3
<1>9. HandlersOK'
  <2> SUFFICES ASSUME NEW g \in Handlers, hpc'[g] # "free"
               PROVE  /\ hmsg[g] \in Messages /\ hitem'[g] <= Items[hmsg[g]]
                      /\ hpc'[g] = "reject" <=> hmsg[g] \in Malformed
                      /\ \A i \in 1 .. hitem'[g] : audits'[hmsg[g]][i] > 0
                      /\ hpc'[g] = "ack" => FullyAudited(hmsg[g])' \/ inbox'[hmsg[g]] # NoRow
    BY DEF HandlersOK
  <2>1. CASE g # h
    <3> PICK k \in Messages : k = hmsg[g]
      BY <2>1 DEF Types, HandlersOK
    <3>1. hpc'[g] = hpc[g] /\ hitem'[g] = hitem[g] /\ hitem[g] \in Nat
      BY <2>1 DEF Types
    <3>2. \A i \in 1 .. hitem[g] : i \in 1 .. Items[k] /\ audits[k][i] > 0
      BY <3>1, ItemsAssumption DEF HandlersOK
    <3>3. hpc[g] = "ack" => FullyAudited(k)' \/ inbox'[k] # NoRow
      BY <1>7 DEF HandlersOK
    <3>4. FullyAudited(hmsg[g])' <=> FullyAudited(k)'
      BY DEF FullyAudited
    <3> QED
      BY <1>3, <3>1, <3>2, <3>3, <3>4 DEF HandlersOK
  <2>2. CASE g = h
    <3>1. hpc'[h] = to /\ hitem'[h] \in Nat /\ hitem'[h] <= Items[m]
      BY <1>1 DEF Types
    <3>2. \A i \in 1 .. hitem'[h] : audits'[m][i] > 0
      BY <1>1, <1>2, <1>3 DEF Types
    <3>3. to = "ack" => FullyAudited(m)' \/ inbox'[m] # NoRow
      BY <1>1, <3>2 DEF FullyAudited
    <3>4. FullyAudited(hmsg[h])' <=> FullyAudited(m)'
      BY DEF FullyAudited
    <3>5. m \notin Malformed
      BY DEF HandlersOK
    <3> QED
      BY <2>2, <3>1, <3>2, <3>3, <3>4, <3>5
  <2> QED
    BY <2>1, <2>2
<1> QED
  BY <1>4, <1>5, <1>6, <1>8, <1>9

\* A handler that returns leaves the audit log and the inbox alone.  What is
\* left to show is what becomes of its message.
LEMMA ReturnStep ==
    ASSUME IInv, NEW h \in Handlers,
           Ack(h) \/ AckFail(h) \/ Requeue(h) \/ Reject(h)
    PROVE  IInv'
<1> USE DEF IInv
<1> PICK m \in Messages : m = hmsg[h]
  BY DEF HandlersOK, Ack, AckFail, Requeue, Reject, Return
<1>1. /\ UNCHANGED <<copies, reader, channel, svc, inbox, audits>>
      /\ hpc' = [hpc EXCEPT ![h] = "free"]
      /\ hmsg' = [hmsg EXCEPT ![h] = NoMessage]
      /\ hitem' = [hitem EXCEPT ![h] = 0]
      /\ gctx' \in {"live", "cancelled"}
  BY DEF Types, Ack, AckFail, Requeue, Reject, Return
<1>2. \A k \in Messages :
         /\ copies[k] \in Nat /\ queue[k] \in Nat /\ acked[k] \in Nat /\ dropped[k] \in Nat
         /\ Unacked(k) \in Nat
         /\ Unacked(k)' = IF channel = "open" /\ k = m THEN Unacked(k) - 1 ELSE Unacked(k)
  <2>1. \A k \in Messages :
           Unacked(k)' = IF channel = "open" /\ k = m THEN Unacked(k) - 1 ELSE Unacked(k)
    BY <1>1, ReturnCounts DEF Ack, AckFail, Requeue, Reject
  <2> QED
    BY <2>1, HoldingFinite, BoundsAssumption DEF Types
<1>3. (HandlersOK /\ DownIsIdle /\ AuditedInOrder)'
  <2>1. HandlersOK'
    BY <1>1 DEF Types, HandlersOK, FullyAudited
  <2> QED
    BY <1>1, <2>1 DEF Types, DownIsIdle, AuditedInOrder
<1>4. /\ hpc' \in [Handlers -> {"free", "save", "inbox", "ack", "requeue", "reject"}]
      /\ hmsg' \in [Handlers -> Messages \cup {NoMessage}]
      /\ hitem' \in [Handlers -> Nat]
  BY <1>1 DEF Types
<1>5. CASE channel = "closed"
  <2>1. UNCHANGED <<queue, acked, dropped, redone>>
    BY <1>5 DEF Ack, AckFail, Requeue, Reject
  <2>2. Types'
    BY <1>1, <1>4, <2>1 DEF Types
  <2>3. CopiesConserved'
    BY <1>1, <1>2, <1>5, <2>1 DEF CopiesConserved
  <2>4. (AckedIsKept /\ OnlyMalformedDropped)'
    BY <1>1, <2>1 DEF AckedIsKept, OnlyMalformedDropped, FullyAudited
  <2> QED
    BY <1>3, <2>2, <2>3, <2>4
<1>6. CASE channel = "open" /\ Ack(h)
  <2>1. acked' = [acked EXCEPT ![m] = @ + 1] /\ UNCHANGED <<queue, dropped, redone>>
    BY <1>6 DEF Ack
  <2>2. Types'
    BY <1>1, <1>4, <2>1 DEF Types
  <2>3. CopiesConserved'
    <3> SUFFICES ASSUME NEW k \in Messages
                 PROVE  copies'[k] = queue'[k] + Unacked(k)' + acked'[k] + dropped'[k]
      BY DEF CopiesConserved
    <3>1. copies[k] = queue[k] + Unacked(k) + acked[k] + dropped[k]
      BY DEF CopiesConserved
    <3>2. CASE k = m
      <4>1. acked'[m] = acked[m] + 1 /\ Unacked(m)' = Unacked(m) - 1
        BY <1>2, <1>6, <2>1 DEF Types
      <4> QED
        BY <1>1, <1>2, <2>1, <3>1, <3>2, <4>1
    <3>3. CASE k # m
      BY <1>1, <1>2, <2>1, <3>1, <3>3 DEF Types
    <3> QED
      BY <3>2, <3>3
  <2>4. FullyAudited(m) \/ inbox[m] # NoRow
    BY <1>6 DEF Ack, Return, HandlersOK
  <2>5. (AckedIsKept /\ OnlyMalformedDropped)'
    BY <1>1, <2>1, <2>4 DEF Types, AckedIsKept, OnlyMalformedDropped, FullyAudited
  <2> QED
    BY <1>3, <2>2, <2>3, <2>5
<1>7. CASE channel = "open" /\ Requeue(h)
  <2>1. /\ queue' = [queue EXCEPT ![m] = @ + 1] /\ UNCHANGED <<acked, dropped>>
        /\ redone' = [redone EXCEPT ![m] = AtMost(@ + 1)]
    BY <1>7 DEF Requeue
  <2>2. AtMost(redone[m] + 1) \in 0 .. MaxAudits
    BY BoundsAssumption DEF Types, AtMost
  <2>3. Types'
    BY <1>1, <1>4, <2>1, <2>2 DEF Types
  <2>4. CopiesConserved'
    <3> SUFFICES ASSUME NEW k \in Messages
                 PROVE  copies'[k] = queue'[k] + Unacked(k)' + acked'[k] + dropped'[k]
      BY DEF CopiesConserved
    <3>1. copies[k] = queue[k] + Unacked(k) + acked[k] + dropped[k]
      BY DEF CopiesConserved
    <3>2. CASE k = m
      <4>1. queue'[m] = queue[m] + 1 /\ Unacked(m)' = Unacked(m) - 1
        BY <1>2, <1>7, <2>1 DEF Types
      <4> QED
        BY <1>1, <1>2, <2>1, <3>1, <3>2, <4>1
    <3>3. CASE k # m
      BY <1>1, <1>2, <2>1, <3>1, <3>3 DEF Types
    <3> QED
      BY <3>2, <3>3
  <2>5. (AckedIsKept /\ OnlyMalformedDropped)'
    BY <1>1, <2>1 DEF AckedIsKept, OnlyMalformedDropped, FullyAudited
  <2> QED
    BY <1>3, <2>3, <2>4, <2>5
<1>8. CASE channel = "open" /\ Reject(h)
  <2>1. dropped' = [dropped EXCEPT ![m] = @ + 1] /\ UNCHANGED <<queue, acked, redone>>
    BY <1>8 DEF Reject
  <2>2. Types'
    BY <1>1, <1>4, <2>1 DEF Types
  <2>3. CopiesConserved'
    <3> SUFFICES ASSUME NEW k \in Messages
                 PROVE  copies'[k] = queue'[k] + Unacked(k)' + acked'[k] + dropped'[k]
      BY DEF CopiesConserved
    <3>1. copies[k] = queue[k] + Unacked(k) + acked[k] + dropped[k]
      BY DEF CopiesConserved
    <3>2. CASE k = m
      <4>1. dropped'[m] = dropped[m] + 1 /\ Unacked(m)' = Unacked(m) - 1
        BY <1>2, <1>8, <2>1 DEF Types
      <4> QED
        BY <1>1, <1>2, <2>1, <3>1, <3>2, <4>1
    <3>3. CASE k # m
      BY <1>1, <1>2, <2>1, <3>1, <3>3 DEF Types
    <3> QED
      BY <3>2, <3>3
  <2>4. m \in Malformed
    BY <1>8 DEF Reject, Return, HandlersOK
  <2>5. (AckedIsKept /\ OnlyMalformedDropped)'
    BY <1>1, <2>1, <2>4 DEF Types, AckedIsKept, OnlyMalformedDropped, FullyAudited
  <2> QED
    BY <1>3, <2>2, <2>3, <2>5
<1> QED
  BY <1>5, <1>6, <1>7, <1>8 DEF Types, AckFail

\* A handler keeps the invariant, whatever its statements do.
LEMMA HandlerStep ==
    ASSUME IInv, NEW h \in Handlers, Work(h) \/ Fail(h)
    PROVE  IInv'
<1> HIDE DEF IInv
<1>0. hpc[h] # "free" => hmsg[h] \in Messages /\ hitem[h] \in Nat /\ Items[hmsg[h]] \in Nat
  BY ItemsAssumption DEF IInv, Types, HandlersOK
<1>1. CASE SaveItem(h)
  <2>1. hitem[h] + 1 \in 1 .. Items[hmsg[h]] /\ hmsg[h] \in Messages
    BY <1>0, <1>1 DEF SaveItem, Goto
  <2>2. audits'[hmsg[h]][hitem[h] + 1] > 0
    BY <1>1, <2>1, AuditedGrows DEF SaveItem, IInv
  <2> QED
    BY <1>1, <2>2, GotoStep DEF SaveItem, Goto
<1>2. CASE SaveDone(h)
  BY <1>2, GotoStep DEF SaveDone, Goto
<1>3. CASE InboxInsert(h)
  <2>1. inbox'[hmsg[h]] # NoRow
    BY <1>0, <1>3, NoRowAssumption DEF InboxInsert, Goto, IInv, Types
  <2> QED
    BY <1>3, <2>1, GotoStep DEF InboxInsert, Goto
<1>4. CASE Ack(h) \/ AckFail(h) \/ Requeue(h) \/ Reject(h)
  BY <1>4, ReturnStep
<1>5. ASSUME NEW landed \in BOOLEAN, SaveItemFail(h, landed) PROVE IInv'
  <2>1. UNCHANGED audits \/ audits' = Audited(audits, hmsg[h], hitem[h] + 1)
    BY <1>5 DEF SaveItemFail
  <2> QED
    BY <1>5, <2>1, GotoStep DEF SaveItemFail, Goto
<1>6. ASSUME NEW landed \in BOOLEAN, InboxInsertFail(h, landed) PROVE IInv'
  <2>1. UNCHANGED inbox \/ inbox' = [inbox EXCEPT ![hmsg[h]] = 0]
    BY <1>6 DEF InboxInsertFail
  <2> QED
    BY <1>6, <2>1, GotoStep DEF InboxInsertFail, Goto
<1> QED
  BY <1>1, <1>2, <1>3, <1>4, <1>5, <1>6 DEF Work, Fail

\* When the channel closes the broker has every copy again that it waited for.
LEMMA CloseStep ==
    ASSUME IInv, ConnectionLost \/ Close \/ Exit \/ Crash
    PROVE  IInv'
<1> USE DEF IInv
<1>1. /\ channel' = "closed" /\ GiveBack
      /\ UNCHANGED <<copies, acked, dropped, inbox, audits>>
      /\ \/ UNCHANGED <<hpc, hmsg, hitem, gctx, reader>> /\ svc # "down" /\ svc' # "down"
         \/ /\ hpc' = [h \in Handlers |-> "free"]
            /\ hmsg' = [h \in Handlers |-> NoMessage]
            /\ hitem' = [h \in Handlers |-> 0]
            /\ reader' = "done" /\ gctx' = "cancelled"
      /\ svc' \in {"up", "stopping", "closing", "down"}
  BY DEF Types, ConnectionLost, Close, Exit, Crash, Die
<1>2. /\ queue' \in [Messages -> Nat] /\ redone' \in [Messages -> 0 .. MaxAudits]
      /\ \A k \in Messages : Unacked(k)' = 0 /\ queue'[k] = queue[k] + Unacked(k)
  BY <1>1, GiveBackCounts
<1>3. Types'
  BY <1>1, <1>2 DEF Types
<1>4. CopiesConserved'
  <2>1. \A k \in Messages : Unacked(k) \in Nat
    BY HoldingFinite
  <2> QED
    BY <1>1, <1>2, <2>1 DEF Types, CopiesConserved
<1>5. (HandlersOK /\ DownIsIdle)'
  BY <1>1 DEF HandlersOK, DownIsIdle, FullyAudited
<1>6. (AckedIsKept /\ OnlyMalformedDropped /\ AuditedInOrder)'
  BY <1>1 DEF AckedIsKept, OnlyMalformedDropped, AuditedInOrder, FullyAudited
<1> QED
  BY <1>3, <1>4, <1>5, <1>6

\* The other steps of the process, and steps of others, touch no copy.
LEMMA ProcessStep ==
    ASSUME IInv, ReaderDone \/ Stop \/ Restart \/ UNCHANGED cvars
    PROVE  IInv'
<1> USE DEF IInv
<1>1. /\ UNCHANGED <<copies, queue, acked, dropped, redone, hpc, hmsg, hitem, inbox, audits>>
      /\ gctx' \in {"live", "cancelled"} /\ reader' \in {"running", "done"}
      /\ channel' \in {"open", "closed"} /\ svc' \in {"up", "stopping", "closing", "down"}
      /\ svc' = "down" => UNCHANGED <<svc, channel>> /\ reader' \in {reader, "done"}
      /\ UNCHANGED channel \/ svc = "down"
  BY DEF Types, ReaderDone, Stop, Restart, cvars
<1>2. \A k \in Messages : Unacked(k)' = Unacked(k)
  <2>1. \A k \in Messages : Holding(k)' = Holding(k)
    BY <1>1 DEF Holding, Busy
  <2>2. svc = "down" => \A k \in Messages : Holding(k) = {}
    BY DEF DownIsIdle, Holding, Busy
  <2> QED
    BY <1>1, <2>1, <2>2, FS_EmptySet DEF Unacked
<1>3. (Types /\ CopiesConserved)'
  BY <1>1, <1>2 DEF Types, CopiesConserved
<1>4. (HandlersOK /\ DownIsIdle /\ AckedIsKept /\ OnlyMalformedDropped /\ AuditedInOrder)'
  BY <1>1 DEF HandlersOK, DownIsIdle, AckedIsKept, OnlyMalformedDropped, AuditedInOrder, FullyAudited
<1> QED
  BY <1>3, <1>4

-----------------------------------------------------------------------------

\* Every step keeps the invariant.
LEMMA Inductive == IInv /\ [Next]_cvars => IInv'
  BY QueueStep, HandlerStep, CloseStep, ProcessStep DEF Next

\* The invariant of the broker's counts and the handlers' progress.
THEOREM Invariant == Spec => []IInv
<1>1. Init => IInv
  BY InitIInv
<1> QED
  BY <1>1, Inductive, PTL DEF Spec

\* No counter of the broker passes the number of copies sent.
THEOREM TypeCorrect == Spec => []TypeOK
<1>1. IInv => TypeOK
  <2> SUFFICES ASSUME IInv PROVE TypeOK
    OBVIOUS
  <2>1. \A m \in Messages : /\ Unacked(m) \in Nat
                            /\ copies[m] = queue[m] + Unacked(m) + acked[m] + dropped[m]
    BY HoldingFinite DEF IInv, CopiesConserved
  <2>2. \A m \in Messages : /\ queue[m] \in 0 .. MaxCopies
                            /\ acked[m] \in 0 .. MaxCopies /\ dropped[m] \in 0 .. MaxCopies
    BY <2>1, BoundsAssumption DEF IInv, Types
  <2>3. queue \in [Messages -> 0 .. MaxCopies] /\ acked \in [Messages -> 0 .. MaxCopies]
        /\ dropped \in [Messages -> 0 .. MaxCopies]
    BY <2>2 DEF IInv, Types
  <2> QED
    BY <2>3 DEF IInv, Types, TypeOK
<1> QED
  BY <1>1, Invariant, PTL

\* Every copy of a message waits, is held, was acknowledged or was rejected:
\* none is lost or acknowledged twice, whatever closes the channel.
THEOREM NoCopyLost == Spec => []CopiesConserved
<1>1. IInv => CopiesConserved
  BY DEF IInv
<1> QED
  BY <1>1, Invariant, PTL

\* What is acknowledged is audited in full or in the inbox.
THEOREM AckedMessagesKept == Spec => []AckedIsKept
<1>1. IInv => AckedIsKept
  BY DEF IInv
<1> QED
  BY <1>1, Invariant, PTL

\* Only what cannot be decoded is rejected, and none of it is saved.
THEOREM DroppedAreMalformed == Spec => []OnlyMalformedDropped
<1>1. IInv => OnlyMalformedDropped
  BY DEF IInv
<1> QED
  BY <1>1, Invariant, PTL

\* The audit log of an order has no gap, however many handlers work on copies
\* of its message.
THEOREM NoGaps == Spec => []AuditedInOrder
<1>1. IInv => AuditedInOrder
  BY DEF IInv
<1> QED
  BY <1>1, Invariant, PTL

-----------------------------------------------------------------------------
(***************************************************************************)
(* Duplicates in the audit log.  A handler writes an item at most once: a  *)
(* delivery that is or was being handled pays for a row that is there, or  *)
(* for the one its handler may still write.                                *)
(***************************************************************************)

\* Handlers that have yet to come to item i of message m, on whatever delivery,
\* one that the broker took back included.
MayWrite(m, i) == {h \in Holding(m) : hpc[h] = "save" /\ hitem[h] < i}

Counted(m, i) ==
    \/ redone[m] = MaxAudits
    \/ audits[m][i] + Cardinality(MayWrite(m, i)) <= acked[m] + Unacked(m) + redone[m]

WritesCounted ==
    /\ \A m \in Messages : \A i \in 1 .. Items[m] : Counted(m, i)
    /\ \A m \in Malformed : \A i \in 1 .. Items[m] : audits[m][i] = 0

\* The handlers that may write can be counted, and fewer are fewer.
LEMMA MayWriteFinite ==
    \A m, i : /\ IsFiniteSet(MayWrite(m, i)) /\ Cardinality(MayWrite(m, i)) \in Nat
              /\ MayWrite(m, i)' \subseteq MayWrite(m, i) =>
                    /\ Cardinality(MayWrite(m, i)') \in Nat
                    /\ Cardinality(MayWrite(m, i)') <= Cardinality(MayWrite(m, i))
<1> SUFFICES ASSUME NEW m, NEW i
             PROVE  /\ IsFiniteSet(MayWrite(m, i)) /\ Cardinality(MayWrite(m, i)) \in Nat
                    /\ MayWrite(m, i)' \subseteq MayWrite(m, i) =>
                          /\ Cardinality(MayWrite(m, i)') \in Nat
                          /\ Cardinality(MayWrite(m, i)') <= Cardinality(MayWrite(m, i))
  OBVIOUS
<1>1. MayWrite(m, i) \in SUBSET Handlers
  BY DEF MayWrite, Holding, Busy
<1>2. IsFiniteSet(MayWrite(m, i))
  BY <1>1, HandlersAssumption, FS_Subset
<1>3. ASSUME MayWrite(m, i)' \subseteq MayWrite(m, i)
      PROVE  /\ IsFiniteSet(MayWrite(m, i)')
             /\ Cardinality(MayWrite(m, i)') <= Cardinality(MayWrite(m, i))
  BY <1>2, <1>3, FS_Subset
<1> QED
  BY <1>2, <1>3, FS_CardinalityType

\* So can what the broker waits for after a step.
LEMMA UnackedNext == \A m : Unacked(m)' \in Nat
<1> SUFFICES ASSUME NEW m PROVE Unacked(m)' \in Nat
  OBVIOUS
<1>1. Holding(m)' \in SUBSET Handlers
  BY DEF Holding, Busy
<1>2. IsFiniteSet(Holding(m)')
  BY <1>1, HandlersAssumption, FS_Subset
<1> QED
  BY <1>2, FS_CardinalityType DEF Unacked

\* What is counted are numbers.
LEMMA CountTypes ==
    ASSUME Types, NEW m \in Messages, NEW i \in 1 .. Items[m]
    PROVE  acked[m] \in Nat /\ redone[m] \in Nat /\ audits[m][i] \in Nat
<1>1. acked[m] \in Nat /\ redone[m] \in Nat
  BY BoundsAssumption DEF Types
<1>2. audits[m] \in [1 .. Items[m] -> 0 .. MaxAudits]
  BY DEF Types
<1>3. audits[m][i] \in 0 .. MaxAudits
  BY <1>2
<1> QED
  BY <1>1, <1>3, BoundsAssumption

\* A step that writes no row of the item and gives the message as many
\* deliveries as it takes away keeps the count.
LEMMA CountedCarry ==
    ASSUME IInv, Types', NEW k \in Messages, NEW i \in 1 .. Items[k], Counted(k, i),
           audits'[k][i] = audits[k][i], MayWrite(k, i)' \subseteq MayWrite(k, i),
           redone[k] = MaxAudits => redone'[k] = MaxAudits,
           \/ redone'[k] = MaxAudits
           \/ acked[k] + Unacked(k) + redone[k] <= acked'[k] + Unacked(k)' + redone'[k],
           Unacked(k)' \in Nat
    PROVE  Counted(k, i)'
<1>1. /\ Cardinality(MayWrite(k, i)) \in Nat /\ Cardinality(MayWrite(k, i)') \in Nat
      /\ Cardinality(MayWrite(k, i)') <= Cardinality(MayWrite(k, i))
  BY MayWriteFinite
<1>2. acked[k] \in Nat /\ redone[k] \in Nat /\ audits[k][i] \in Nat
  BY CountTypes DEF IInv
<1>3. acked'[k] \in Nat /\ redone'[k] \in Nat
  BY BoundsAssumption DEF Types
<1>4. Unacked(k) \in Nat
  BY HoldingFinite
<1>5. CASE redone'[k] = MaxAudits
  BY <1>5 DEF Counted
<1>6. CASE redone'[k] # MaxAudits
  <2> DEFINE c == Cardinality(MayWrite(k, i))
             cn == Cardinality(MayWrite(k, i)')
             u == Unacked(k)
             un == Unacked(k)'
  <2>1. /\ audits[k][i] + c <= acked[k] + u + redone[k]
        /\ acked[k] + u + redone[k] <= acked'[k] + un + redone'[k]
    BY <1>6 DEF Counted
  <2>2. c \in Nat /\ cn \in Nat /\ cn <= c /\ u \in Nat /\ un \in Nat
    BY <1>1, <1>4
  <2> HIDE DEF c, cn, u, un
  <2>3. audits'[k][i] + cn <= acked'[k] + un + redone'[k]
    <3>1. audits'[k][i] = audits[k][i]
      OBVIOUS
    <3> QED
      BY <1>2, <1>3, <2>1, <2>2, <3>1
  <2> QED
    BY <2>3 DEF Counted, c, cn, u, un
<1> QED
  BY <1>5, <1>6

\* A delivery may lead to one more row of every item.
LEMMA CountedReceive ==
    ASSUME IInv, WritesCounted, NEW h \in Handlers, NEW m \in Messages, Receive(h, m)
    PROVE  WritesCounted'
<1>1. \A k \in Messages : Unacked(k)' = Unacked(k) + (IF k = m THEN 1 ELSE 0)
  BY ReceiveCounts DEF IInv
<1>2. UNCHANGED <<acked, redone, audits>>
  BY DEF Receive
<1>3. ASSUME NEW k \in Messages, NEW i \in 1 .. Items[k] PROVE Counted(k, i)'
  <2>1. acked[k] \in Nat /\ redone[k] \in Nat /\ audits[k][i] \in Nat
    BY CountTypes DEF IInv
  <2>4. Unacked(k) \in Nat /\ Counted(k, i)
    BY HoldingFinite DEF WritesCounted
  <2>2. /\ Cardinality(MayWrite(k, i)') \in Nat
        /\ Cardinality(MayWrite(k, i)') <= Cardinality(MayWrite(k, i)) + (IF k = m THEN 1 ELSE 0)
    <3>1. CASE k = m
      <4>1. MayWrite(k, i)' \subseteq MayWrite(k, i) \cup {h}
        BY <3>1 DEF Receive, IInv, Types, MayWrite, Holding, Busy
      <4>2. h \notin MayWrite(k, i)
        BY DEF Receive, MayWrite, Holding, Busy
      <4>3. /\ IsFiniteSet(MayWrite(k, i) \cup {h})
            /\ Cardinality(MayWrite(k, i) \cup {h}) = Cardinality(MayWrite(k, i)) + 1
        BY <4>2, MayWriteFinite, FS_AddElement
      <4>4. /\ IsFiniteSet(MayWrite(k, i)')
            /\ Cardinality(MayWrite(k, i)') <= Cardinality(MayWrite(k, i) \cup {h})
        BY <4>1, <4>3, FS_Subset
      <4> QED
        BY <3>1, <4>3, <4>4, FS_CardinalityType
    <3>2. CASE k # m
      <4>1. MayWrite(k, i)' \subseteq MayWrite(k, i)
        BY <3>2 DEF Receive, IInv, Types, MayWrite, Holding, Busy
      <4> QED
        BY <3>2, <4>1, MayWriteFinite
    <3> QED
      BY <3>1, <3>2
  <2>3. Cardinality(MayWrite(k, i)) \in Nat
    BY MayWriteFinite
  <2> QED
    BY <1>1, <1>2, <2>1, <2>2, <2>3, <2>4 DEF Counted
<1> QED
  BY <1>2, <1>3 DEF WritesCounted

\* The handler that writes an item was one that might, and is none any more.
LEMMA CountedWrite ==
    ASSUME IInv, IInv', WritesCounted, NEW h \in Handlers, hpc[h] = "save",
           hitem[h] < Items[hmsg[h]], audits' = Audited(audits, hmsg[h], hitem[h] + 1),
           \/ hpc' = hpc /\ hitem' = [hitem EXCEPT ![h] = @ + 1]
           \/ hpc' = [hpc EXCEPT ![h] = "inbox"] /\ hitem' = hitem,
           UNCHANGED <<acked, redone, hmsg, channel>>
    PROVE  WritesCounted'
<1> PICK m \in Messages : m = hmsg[h]
  BY DEF IInv, HandlersOK
<1> PICK n \in Nat : n = hitem[h] + 1
  BY DEF IInv, Types
<1>1. m \notin Malformed /\ n \in 1 .. Items[m] /\ hitem[h] < n
  <2>1. Items[m] \in Nat /\ hitem[h] \in Nat
    BY ItemsAssumption DEF IInv, Types
  <2> QED
    BY <2>1 DEF IInv, HandlersOK
<1>2. \A k \in Messages : Holding(k)' = Holding(k) /\ Unacked(k)' = Unacked(k)
  <2>1. \A k \in Messages : Holding(k)' = Holding(k)
    BY DEF IInv, Types, Holding, Busy
  <2> QED
    BY <2>1 DEF Unacked
<1>3. /\ audits'[m] = [audits[m] EXCEPT ![n] = AtMost(@ + 1)]
      /\ \A k \in Messages \ {m} : audits'[k] = audits[k]
      /\ audits[m] \in [1 .. Items[m] -> 0 .. MaxAudits]
  <2>1. audits' = Audited(audits, m, n) /\ DOMAIN audits = Messages
    BY DEF IInv, Types
  <2>2. audits[m] \in [1 .. Items[m] -> 0 .. MaxAudits]
    BY DEF IInv, Types
  <2> QED
    BY <2>1, <2>2 DEF Audited
<1>4. /\ \A k \in Messages : \A i \in Nat : MayWrite(k, i)' \subseteq MayWrite(k, i)
      /\ h \notin MayWrite(m, n)'
  <2>1. \A g \in Handlers \ {h} : hpc'[g] = hpc[g] /\ hitem'[g] = hitem[g]
    BY DEF IInv, Types
  <2>2. hpc'[h] # "save" \/ hitem'[h] = n
    BY DEF IInv, Types
  <2>3. ASSUME NEW k \in Messages, NEW i \in Nat, h \in MayWrite(k, i)'
        PROVE  h \in MayWrite(k, i) /\ i # n
    <3>1. hpc'[h] = "save" /\ hitem'[h] = n /\ n < i /\ h \in Holding(k)
      BY <1>2, <2>2, <2>3 DEF MayWrite
    <3>2. i # n
      BY <3>1
    <3>3. hitem[h] < i
      BY <1>1, <3>1 DEF IInv, Types
    <3> QED
      BY <3>1, <3>2, <3>3 DEF MayWrite
  <2>4. ASSUME NEW k \in Messages, NEW i \in Nat, NEW g \in MayWrite(k, i)' PROVE g \in MayWrite(k, i)
    BY <1>2, <2>1, <2>3, <2>4 DEF MayWrite, Holding, Busy
  <2> QED
    BY <2>3, <2>4
<1>5. ASSUME NEW k \in Messages, NEW i \in 1 .. Items[k], k # m \/ i # n
      PROVE  Counted(k, i)'
  <2>1. audits'[k][i] = audits[k][i]
    BY <1>3, <1>5
  <2>2. /\ acked[k] + Unacked(k) + redone[k] <= acked'[k] + Unacked(k)' + redone'[k]
        /\ Unacked(k)' \in Nat
    BY <1>2, CountTypes, HoldingFinite DEF IInv
  <2>3. i \in Nat /\ Counted(k, i) /\ Types'
    BY DEF IInv, WritesCounted
  <2>4. MayWrite(k, i)' \subseteq MayWrite(k, i)
    BY <1>4, <2>3
  <2>5. redone'[k] = redone[k]
    OBVIOUS
  <2> QED
    BY <2>1, <2>2, <2>3, <2>4, <2>5, CountedCarry
<1>6. Counted(m, n)'
  <2>1. h \in MayWrite(m, n)
    BY <1>1 DEF MayWrite, Holding, Busy
  <2>2. MayWrite(m, n)' \subseteq MayWrite(m, n) \ {h}
    BY <1>4
  <2>3. /\ IsFiniteSet(MayWrite(m, n) \ {h})
        /\ Cardinality(MayWrite(m, n) \ {h}) = Cardinality(MayWrite(m, n)) - 1
    BY <2>1, MayWriteFinite, FS_RemoveElement
  <2>4. /\ IsFiniteSet(MayWrite(m, n)')
        /\ Cardinality(MayWrite(m, n)') <= Cardinality(MayWrite(m, n) \ {h})
    BY <2>2, <2>3, FS_Subset
  <2>5. Cardinality(MayWrite(m, n)') \in Nat /\ Cardinality(MayWrite(m, n)) \in Nat
    BY <2>4, FS_CardinalityType, MayWriteFinite
  <2>6. Cardinality(MayWrite(m, n)') + 1 <= Cardinality(MayWrite(m, n))
    BY <2>3, <2>4, <2>5
  <2>7. audits'[m][n] \in Nat /\ audits'[m][n] <= audits[m][n] + 1
    <3>1. audits'[m][n] = AtMost(audits[m][n] + 1) /\ audits[m][n] \in 0 .. MaxAudits
      BY <1>1, <1>3
    <3> QED
      BY <3>1, BoundsAssumption DEF AtMost
  <2>8. acked[m] \in Nat /\ redone[m] \in Nat /\ audits[m][n] \in Nat
    BY <1>1, CountTypes DEF IInv
  <2>9. Unacked(m) \in Nat /\ Counted(m, n)
    BY <1>1, HoldingFinite DEF WritesCounted
  <2>10. redone'[m] = redone[m] /\ acked'[m] = acked[m] /\ Unacked(m)' = Unacked(m)
    BY <1>2
  <2>11. CASE redone[m] = MaxAudits
    BY <2>10, <2>11 DEF Counted
  <2>12. CASE redone[m] # MaxAudits
    <3>1. audits[m][n] + Cardinality(MayWrite(m, n)) <= acked[m] + Unacked(m) + redone[m]
      BY <2>9, <2>12 DEF Counted
    <3>2. audits'[m][n] + Cardinality(MayWrite(m, n)')
            <= acked[m] + Unacked(m) + redone[m]
      BY <2>5, <2>6, <2>7, <2>8, <2>9, <3>1
    <3> QED
      BY <2>10, <3>2 DEF Counted
  <2> QED
    BY <2>11, <2>12
<1>7. \A k \in Malformed : audits'[k] = audits[k]
  BY <1>1, <1>3, MalformedAssumption
<1> QED
  BY <1>5, <1>6, <1>7 DEF WritesCounted

\* The other steps of a handler write nothing; what it gives up is acknowledged,
\* given back, or was never written.
LEMMA CountedHandler ==
    ASSUME IInv, IInv', WritesCounted, NEW h \in Handlers, hpc[h] # "free",
           hpc'[h] \in {"free", "inbox", "ack", "requeue"},
           \A g \in Handlers \ {h} : hpc'[g] = hpc[g] /\ hmsg'[g] = hmsg[g] /\ hitem'[g] = hitem[g],
           audits' = audits,
           \A k \in Messages :
              /\ redone[k] = MaxAudits => redone'[k] = MaxAudits
              /\ \/ k \in Malformed \/ redone'[k] = MaxAudits
                 \/ acked[k] + Unacked(k) + redone[k] <= acked'[k] + Unacked(k)' + redone'[k]
    PROVE  WritesCounted'
<1>1. \A k \in Messages : \A i : MayWrite(k, i)' \subseteq MayWrite(k, i)
  BY DEF MayWrite, Holding, Busy
<1>2. ASSUME NEW k \in Messages \ Malformed, NEW i \in 1 .. Items[k] PROVE Counted(k, i)'
  BY <1>1, UnackedNext, CountedCarry DEF IInv, WritesCounted
<1>3. ASSUME NEW k \in Malformed, NEW i \in 1 .. Items[k] PROVE Counted(k, i)'
  <2>1. k \in Messages /\ audits'[k][i] = 0
    BY MalformedAssumption DEF WritesCounted
  <2>2. MayWrite(k, i)' = {}
    BY DEF IInv, HandlersOK, MayWrite, Holding, Busy
  <2>3. acked'[k] \in Nat /\ redone'[k] \in Nat /\ Unacked(k)' \in Nat
    BY <2>1, UnackedNext, BoundsAssumption DEF IInv, Types
  <2> QED
    BY <2>1, <2>2, <2>3, FS_EmptySet DEF Counted
<1> QED
  BY <1>2, <1>3 DEF WritesCounted

\* A handler that returns gives up its delivery: it is acknowledged, given back,
\* or cannot be decoded.
LEMMA CountedReturn ==
    ASSUME IInv, IInv', WritesCounted, NEW h \in Handlers,
           Ack(h) \/ AckFail(h) \/ Requeue(h) \/ Reject(h)
    PROVE  WritesCounted'
<1> PICK m \in Messages : m = hmsg[h]
  BY DEF IInv, HandlersOK, Ack, AckFail, Requeue, Reject, Return
<1>1. /\ hpc[h] # "free" /\ hpc'[h] = "free" /\ audits' = audits
      /\ \A g \in Handlers \ {h} : hpc'[g] = hpc[g] /\ hmsg'[g] = hmsg[g] /\ hitem'[g] = hitem[g]
  BY DEF IInv, Types, Ack, AckFail, Requeue, Reject, Return
<1>2. \A k \in Messages : Unacked(k)' = IF channel = "open" /\ k = m THEN Unacked(k) - 1
                                                                     ELSE Unacked(k)
  BY ReturnCounts DEF IInv, Ack, AckFail, Requeue, Reject
<1>3. ASSUME NEW k \in Messages
      PROVE  /\ redone[k] = MaxAudits => redone'[k] = MaxAudits
             /\ \/ k \in Malformed \/ redone'[k] = MaxAudits
                \/ acked[k] + Unacked(k) + redone[k] <= acked'[k] + Unacked(k)' + redone'[k]
  <2>1. /\ acked[k] \in Nat /\ redone[k] \in 0 .. MaxAudits /\ Unacked(k) \in Nat
        /\ MaxAudits \in Nat
    BY HoldingFinite, BoundsAssumption DEF IInv, Types
  <2>2. CASE acked'[k] = acked[k] /\ redone'[k] = redone[k] /\ Unacked(k)' = Unacked(k)
    BY <2>1, <2>2
  <2>3. CASE k = m /\ channel = "open"
    <3>1. Unacked(k)' = Unacked(k) - 1
      BY <1>2, <2>3
    <3>2. CASE Ack(h)
      <4>1. acked'[k] = acked[k] + 1 /\ redone'[k] = redone[k]
        BY <2>3, <3>2 DEF IInv, Types, Ack
      <4> QED
        BY <2>1, <3>1, <4>1
    <3>3. CASE Requeue(h)
      <4>1. acked'[k] = acked[k] /\ redone'[k] = AtMost(redone[k] + 1)
        BY <2>3, <3>3 DEF IInv, Types, Requeue
      <4> QED
        BY <2>1, <3>1, <4>1 DEF AtMost
    <3>4. CASE Reject(h)
      <4>1. k \in Malformed /\ redone' = redone
        BY <2>3, <3>4 DEF IInv, HandlersOK, Reject, Return
      <4> QED
        BY <4>1
    <3> QED
      BY <2>3, <3>2, <3>3, <3>4 DEF AckFail
  <2>4. CASE k # m \/ channel # "open"
    <3>1. Unacked(k)' = Unacked(k)
      BY <1>2, <2>4
    <3>2. acked'[k] = acked[k] /\ redone'[k] = redone[k]
      BY <2>4 DEF IInv, Types, Ack, AckFail, Requeue, Reject
    <3> QED
      BY <2>2, <3>1, <3>2
  <2> QED
    BY <2>3, <2>4
<1> QED
  BY <1>1, <1>3, CountedHandler

\* A handler that goes on without writing a row keeps its delivery.
LEMMA CountedGoto ==
    ASSUME IInv, IInv', WritesCounted, NEW h \in Handlers, hpc[h] # "free",
           NEW to \in {"inbox", "ack", "requeue"}, hpc' = [hpc EXCEPT ![h] = to],
           UNCHANGED <<acked, redone, hmsg, hitem, channel, audits>>
    PROVE  WritesCounted'
<1>1. \A k \in Messages : Unacked(k)' = Unacked(k)
  BY GotoCounts DEF IInv
<1>2. /\ hpc'[h] = to
      /\ \A g \in Handlers \ {h} : hpc'[g] = hpc[g] /\ hmsg'[g] = hmsg[g] /\ hitem'[g] = hitem[g]
  BY DEF IInv, Types
<1>3. \A k \in Messages :
         /\ redone[k] = MaxAudits => redone'[k] = MaxAudits
         /\ acked[k] + Unacked(k) + redone[k] <= acked'[k] + Unacked(k)' + redone'[k]
  BY <1>1, HoldingFinite, BoundsAssumption DEF IInv, Types
<1> QED
  BY <1>2, <1>3, CountedHandler

\* A handler keeps the count, whatever its statements do.
LEMMA CountedWork ==
    ASSUME IInv, IInv', WritesCounted, NEW h \in Handlers, Work(h) \/ Fail(h)
    PROVE  WritesCounted'
<1>1. CASE SaveItem(h)
  <2>1. hpc' = hpc
    BY <1>1 DEF SaveItem, Goto, IInv, Types
  <2> QED
    BY <1>1, <2>1, CountedWrite DEF SaveItem, Goto
<1>2. CASE SaveDone(h)
  BY <1>2, CountedGoto DEF SaveDone, Goto
<1>3. CASE InboxInsert(h)
  BY <1>3, CountedGoto DEF InboxInsert, Goto
<1>4. CASE Ack(h) \/ AckFail(h) \/ Requeue(h) \/ Reject(h)
  BY <1>4, CountedReturn
<1>5. ASSUME NEW landed \in BOOLEAN, SaveItemFail(h, landed) PROVE WritesCounted'
  <2>1. CASE landed
    BY <1>5, <2>1, CountedWrite DEF SaveItemFail, Goto
  <2>2. CASE ~landed
    BY <1>5, <2>2, CountedGoto DEF SaveItemFail, Goto
  <2> QED
    BY <2>1, <2>2
<1>6. ASSUME NEW landed \in BOOLEAN, InboxInsertFail(h, landed) PROVE WritesCounted'
  BY <1>6, CountedGoto DEF InboxInsertFail, Goto
<1> QED
  BY <1>1, <1>2, <1>3, <1>4, <1>5, <1>6 DEF Work, Fail

\* When the channel closes, what is held is given back: the handlers that still
\* write are paid for by that.
LEMMA CountedClose ==
    ASSUME IInv, IInv', WritesCounted, ConnectionLost \/ Close \/ Exit \/ Crash
    PROVE  WritesCounted'
<1>1. /\ channel' = "closed" /\ GiveBack /\ UNCHANGED <<acked, audits>>
      /\ \/ UNCHANGED <<hpc, hmsg, hitem>>
         \/ hpc' = [h \in Handlers |-> "free"]
  BY DEF ConnectionLost, Close, Exit, Crash, Die
<1>2. \A k \in Messages : \A i : MayWrite(k, i)' \subseteq MayWrite(k, i)
  BY <1>1 DEF MayWrite, Holding, Busy
<1>3. ASSUME NEW k \in Messages
      PROVE  /\ redone[k] = MaxAudits => redone'[k] = MaxAudits
             /\ \/ redone'[k] = MaxAudits
                \/ acked[k] + Unacked(k) + redone[k] <= acked'[k] + Unacked(k)' + redone'[k]
  <2>1. /\ acked[k] \in Nat /\ redone[k] \in 0 .. MaxAudits /\ Unacked(k) \in Nat
        /\ MaxAudits \in Nat
    BY HoldingFinite, BoundsAssumption DEF IInv, Types
  <2>2. Unacked(k)' = 0 /\ acked'[k] = acked[k]
    BY <1>1 DEF Unacked
  <2>3. CASE channel = "open"
    <3>1. redone'[k] = AtMost(redone[k] + Unacked(k))
      BY <1>1, <2>3 DEF GiveBack, Unacked
    <3> QED
      BY <2>1, <2>2, <3>1 DEF AtMost
  <2>4. CASE channel # "open"
    <3>1. redone'[k] = redone[k] /\ Unacked(k) = 0
      BY <1>1, <2>4 DEF GiveBack, Unacked
    <3> QED
      BY <2>1, <2>2, <3>1
  <2> QED
    BY <2>3, <2>4
<1>4. ASSUME NEW k \in Messages, NEW i \in 1 .. Items[k] PROVE Counted(k, i)'
  <2>1. Counted(k, i) /\ Types' /\ audits'[k][i] = audits[k][i]
    BY <1>1 DEF IInv, WritesCounted
  <2> QED
    BY <1>2, <1>3, <2>1, UnackedNext, CountedCarry
<1> QED
  BY <1>1, <1>4 DEF WritesCounted

\* The other steps touch nothing that is counted.
LEMMA CountedElse ==
    ASSUME IInv, IInv', WritesCounted,
           \/ \E m \in Messages : Arrive(m)
           \/ ReaderDone \/ Stop \/ Restart \/ UNCHANGED cvars
    PROVE  WritesCounted'
<1>1. /\ UNCHANGED <<acked, redone, hpc, hmsg, hitem, audits>>
      /\ UNCHANGED channel \/ svc = "down"
  BY DEF Arrive, ReaderDone, Stop, Restart, cvars
<1>2. \A k \in Messages : Unacked(k)' = Unacked(k)
  <2>1. \A k \in Messages : Holding(k)' = Holding(k)
    BY <1>1 DEF Holding, Busy
  <2>2. svc = "down" => \A k \in Messages : Holding(k) = {}
    BY DEF IInv, DownIsIdle, Holding, Busy
  <2> QED
    BY <1>1, <2>1, <2>2, FS_EmptySet DEF Unacked
<1>3. \A k \in Messages : \A i : MayWrite(k, i)' = MayWrite(k, i)
  BY <1>1 DEF MayWrite, Holding, Busy
<1> QED
  BY <1>1, <1>2, <1>3 DEF WritesCounted, Counted

\* Every item is audited at most once for each delivery of its message, for any
\* number of handlers, deliveries and failures: processMessage writes no row
\* twice, and what is written twice was delivered twice.
THEOREM DuplicatesAccounted == Spec => []DuplicatesExplained
<1>1. Init => WritesCounted
  <2> SUFFICES ASSUME Init PROVE WritesCounted
    OBVIOUS
  <2>1. \A m : Holding(m) = {}
    BY DEF Init, Holding, Busy
  <2>2. \A m, i : MayWrite(m, i) = {}
    BY <2>1 DEF MayWrite
  <2>3. \A m : Unacked(m) = 0
    BY <2>1, FS_EmptySet DEF Unacked
  <2>4. \A m \in Messages : \A i \in 1 .. Items[m] :
           audits[m][i] = 0 /\ acked[m] = 0 /\ redone[m] = 0
    BY DEF Init
  <2> QED
    BY <2>2, <2>3, <2>4, FS_EmptySet, MalformedAssumption DEF WritesCounted, Counted
<1>2. IInv /\ WritesCounted /\ [Next]_cvars => WritesCounted'
  <2> SUFFICES ASSUME IInv, WritesCounted, [Next]_cvars PROVE WritesCounted'
    OBVIOUS
  <2>1. IInv'
    BY Inductive
  <2> QED
    BY <2>1, CountedReceive, CountedWork, CountedClose, CountedElse DEF Next
<1>3. IInv /\ WritesCounted => DuplicatesExplained
  <2> SUFFICES ASSUME IInv, WritesCounted, NEW m \in Messages, NEW i \in 1 .. Items[m]
               PROVE  audits[m][i] <= acked[m] + Unacked(m) + redone[m]
    BY DEF DuplicatesExplained
  <2>1. /\ acked[m] \in Nat /\ redone[m] \in Nat /\ audits[m][i] \in Nat
        /\ Unacked(m) \in Nat /\ Cardinality(MayWrite(m, i)) \in Nat
    BY CountTypes, HoldingFinite, MayWriteFinite DEF IInv
  <2>2. audits[m][i] \in 0 .. MaxAudits /\ MaxAudits \in Nat
    BY BoundsAssumption DEF IInv, Types
  <2>3. Counted(m, i)
    BY DEF WritesCounted
  <2> QED
    BY <2>1, <2>2, <2>3 DEF Counted
<1>4. Init => IInv
  BY InitIInv
<1> QED
  BY <1>1, <1>2, <1>3, <1>4, Inductive, PTL DEF Spec

-----------------------------------------------------------------------------
(***************************************************************************)
(* What the consumer promises: every step is a step of AtLeastOnce, or     *)
(* none that it can tell.  What has to be known in addition is where the   *)
(* copy of a handler is whose channel was closed under it: in the queue.   *)
(***************************************************************************)

HeldIsQueued ==
    channel = "closed" => \A m \in Messages : Cardinality(Holding(m)) <= queue[m]

\* Handlers that leave a message to the others leave no more of them.
LEMMA HoldingShrinks ==
    ASSUME NEW m, Holding(m)' \subseteq Holding(m)
    PROVE  Cardinality(Holding(m)') <= Cardinality(Holding(m))
  BY HoldingFinite, FS_Subset

\* Every step keeps it: only a closing channel adds to what has to be queued,
\* and gives it back.
LEMMA HeldStep == IInv /\ HeldIsQueued /\ [Next]_cvars => HeldIsQueued'
<1> SUFFICES ASSUME IInv, HeldIsQueued, [Next]_cvars, channel' = "closed",
                    NEW m \in Messages
             PROVE  Cardinality(Holding(m)') <= queue'[m]
  BY DEF HeldIsQueued
<1> USE DEF IInv
<1>0. Cardinality(Holding(m)) \in Nat /\ queue[m] \in Nat
  BY HoldingFinite DEF Types
<1>1. CASE (\E k \in Messages : Arrive(k)) \/ ReaderDone \/ Stop \/ UNCHANGED cvars
  <2>1. Holding(m)' = Holding(m) /\ channel = "closed" /\ queue'[m] >= queue[m]
    BY <1>0, <1>1 DEF Arrive, ReaderDone, Stop, cvars, Types, Holding, Busy
  <2>2. queue'[m] \in Nat
    BY <1>0, <1>1 DEF Arrive, ReaderDone, Stop, cvars, Types
  <2> QED
    BY <1>0, <2>1, <2>2 DEF HeldIsQueued
<1>2. CASE (\E h \in Handlers, k \in Messages : Receive(h, k)) \/ Restart
  BY <1>2 DEF Receive, Restart
<1>3. ASSUME NEW h \in Handlers, Work(h) \/ Fail(h)
      PROVE  Cardinality(Holding(m)') <= queue'[m]
  <2>1. channel = "closed" /\ UNCHANGED queue
    BY <1>3
    DEF Work, Fail, SaveItem, SaveDone, InboxInsert, Ack, AckFail, Requeue, Reject,
        SaveItemFail, InboxInsertFail
  <2>2. /\ hpc[h] # "free"
        /\ \A g \in Handlers : hpc'[g] # "free" => hpc[g] # "free" /\ hmsg'[g] = hmsg[g]
    BY <1>3
    DEF Work, Fail, SaveItem, SaveDone, InboxInsert, Ack, AckFail, Requeue, Reject,
        SaveItemFail, InboxInsertFail, Goto, Return, Types
  <2>3. Holding(m)' \subseteq Holding(m)
    BY <2>2 DEF Holding, Busy
  <2>4. Cardinality(Holding(m)') <= Cardinality(Holding(m)) /\ Cardinality(Holding(m)') \in Nat
    BY <2>3, HoldingShrinks, HoldingFinite, FS_Subset, FS_CardinalityType
  <2> QED
    BY <1>0, <2>1, <2>4 DEF HeldIsQueued
<1>4. CASE ConnectionLost \/ Close \/ Exit \/ Crash
  <2>1. /\ GiveBack
        /\ UNCHANGED <<hpc, hmsg>> \/ \A h \in Handlers : hpc'[h] = "free"
    BY <1>4 DEF ConnectionLost, Close, Exit, Crash, Die
  <2>2. Holding(m)' \subseteq Holding(m)
    BY <2>1 DEF Holding, Busy
  <2>3. Cardinality(Holding(m)') <= Cardinality(Holding(m)) /\ Cardinality(Holding(m)') \in Nat
    BY <2>2, HoldingShrinks, HoldingFinite, FS_Subset, FS_CardinalityType
  <2>4. Cardinality(Holding(m)) <= queue'[m] /\ queue'[m] \in Nat
    <3>1. CASE channel = "open"
      <4>1. queue'[m] = queue[m] + Cardinality(Holding(m))
        BY <2>1, <3>1 DEF GiveBack
      <4> QED
        BY <1>0, <4>1
    <3>2. CASE channel # "open"
      <4>1. channel = "closed" /\ queue'[m] = queue[m]
        BY <2>1, <3>2 DEF GiveBack, Types
      <4> QED
        BY <1>0, <4>1 DEF HeldIsQueued
    <3> QED
      BY <3>1, <3>2
  <2> QED
    BY <1>0, <2>3, <2>4
<1> QED
  BY <1>1, <1>2, <1>3, <1>4 DEF Next

\* A handler at work never has the last of its message in its hands: the broker
\* owes a copy of it, unacknowledged or queued again.
LEMMA OwedInHand ==
    ASSUME IInv, HeldIsQueued, NEW h \in Handlers, hpc[h] # "free"
    PROVE  hmsg[h] \in Messages /\ Owed[hmsg[h]] > 0
<1>1. PICK m \in Messages : m = hmsg[h]
  BY DEF IInv, HandlersOK
<1>2. h \in Holding(m)
  BY <1>1 DEF Holding, Busy
<1>3. Cardinality(Holding(m)) \in Nat /\ Cardinality(Holding(m)) # 0
  BY <1>2, HoldingFinite, FS_EmptySet
<1>4. queue[m] \in Nat /\ Unacked(m) \in Nat
  BY HoldingFinite DEF IInv, Types
<1>5. Cardinality(Holding(m)) <= queue[m] \/ Unacked(m) = Cardinality(Holding(m))
  BY DEF IInv, Types, HeldIsQueued, Unacked
<1>6. queue[m] + Unacked(m) > 0
  BY <1>3, <1>4, <1>5
<1> QED
  BY <1>1, <1>6 DEF Owed

\* What is owed follows from the queue and the deliveries.
LEMMA OwedStays ==
    ASSUME IInv, \A k \in Messages : queue'[k] + Unacked(k)' = queue[k] + Unacked(k)
    PROVE  UNCHANGED Owed
  BY DEF Owed

\* A row of the audit log is a part that is written.
LEMMA WrittenGrows ==
    ASSUME IInv, NEW m \in Messages, NEW i \in 1 .. Items[m], audits' = Audited(audits, m, i)
    PROVE  Written' = [Written EXCEPT ![m] = @ \cup {i}]
<1>1. \A k \in Messages : \A j \in 1 .. Items[k] :
         audits'[k][j] > 0 <=> audits[k][j] > 0 \/ (k = m /\ j = i)
  BY AuditedGrows DEF IInv
<1>2. \A k \in Messages : k # m =>
         {j \in 1 .. Items[k] : audits'[k][j] > 0} = {j \in 1 .. Items[k] : audits[k][j] > 0}
  BY <1>1
<1>3. {j \in 1 .. Items[m] : audits'[m][j] > 0}
         = {j \in 1 .. Items[m] : audits[m][j] > 0} \cup {i}
  BY <1>1
<1> QED
  BY <1>2, <1>3 DEF Written

\* The broker and the reader: a copy that arrives is owed, and one that is
\* delivered still is.
LEMMA QueueDelivers ==
    ASSUME IInv, NEW m \in Messages, Arrive(m) \/ \E h \in Handlers : Receive(h, m)
    PROVE  Delivery!Send(m) \/ UNCHANGED Delivery!lvars
<1> USE DEF IInv
<1>0. \A k \in Messages : queue[k] \in Nat /\ Unacked(k) \in Nat
  BY HoldingFinite DEF Types
<1>1. UNCHANGED <<Kept, Written>>
  BY DEF Arrive, Receive, Kept, Written
<1>2. CASE Arrive(m)
  <2>1. \A k : Unacked(k)' = Unacked(k)
    BY <1>2 DEF Arrive, Unacked, Holding, Busy
  <2>2. queue' = [queue EXCEPT ![m] = @ + 1]
    BY <1>2 DEF Arrive
  <2>3. \A k \in Messages :
           queue'[k] + Unacked(k)' = IF k = m THEN (queue[k] + Unacked(k)) + 1
                                     ELSE queue[k] + Unacked(k)
    <3> SUFFICES ASSUME NEW k \in Messages
                 PROVE  queue'[k] + Unacked(k) = IF k = m THEN (queue[k] + Unacked(k)) + 1
                                                 ELSE queue[k] + Unacked(k)
      BY <2>1
    <3>1. queue'[k] = IF k = m THEN queue[k] + 1 ELSE queue[k]
      BY <2>2 DEF Types
    <3> QED
      BY <1>0, <3>1
  <2>4. Owed' = [Owed EXCEPT ![m] = @ + 1]
    BY <2>3 DEF Owed
  <2> QED
    BY <1>1, <2>4 DEF Delivery!Send
<1>3. ASSUME NEW h \in Handlers, Receive(h, m) PROVE UNCHANGED Delivery!lvars
  <2>1. \A k \in Messages : Unacked(k)' = Unacked(k) + (IF k = m THEN 1 ELSE 0)
    BY <1>3, ReceiveCounts
  <2>2. \A k \in Messages : queue'[k] = queue[k] - (IF k = m THEN 1 ELSE 0)
    BY <1>0, <1>3 DEF Receive, Types
  <2>3. \A k \in Messages : queue'[k] + Unacked(k)' = queue[k] + Unacked(k)
    BY <1>0, <2>1, <2>2
  <2> QED
    BY <1>1, <2>3, OwedStays DEF Delivery!lvars
<1> QED
  BY <1>2, <1>3

\* A handler on its way writes the next item, keeps the message for later, or
\* does neither.
LEMMA GotoDelivers ==
    ASSUME IInv, HeldIsQueued, NEW h \in Handlers,
           \/ SaveItem(h) \/ SaveDone(h) \/ InboxInsert(h) \/ Fail(h)
    PROVE  \/ \E m \in Messages : Delivery!Write(m) \/ Delivery!Keep(m)
           \/ UNCHANGED Delivery!lvars
<1>1. /\ hpc[h] \in {"save", "inbox"}
      /\ \E to \in {"save", "inbox", "ack", "requeue"} : hpc' = [hpc EXCEPT ![h] = to]
      /\ UNCHANGED <<queue, hmsg, channel>>
      /\ \/ UNCHANGED <<inbox, audits>>
         \/ /\ hitem[h] < Items[hmsg[h]]
            /\ audits' = Audited(audits, hmsg[h], hitem[h] + 1)
            /\ UNCHANGED inbox
         \/ /\ inbox[hmsg[h]] = NoRow
            /\ inbox' = [inbox EXCEPT ![hmsg[h]] = 0]
            /\ UNCHANGED audits
  BY DEF SaveItem, SaveDone, InboxInsert, Fail, SaveItemFail, InboxInsertFail, Goto
<1>2. PICK m \in Messages : m = hmsg[h] /\ m \notin Malformed /\ Owed[m] > 0
  BY <1>1, OwedInHand DEF IInv, HandlersOK
<1>3. UNCHANGED Owed
  <2>1. \A k \in Messages : Unacked(k)' = Unacked(k)
    BY <1>1, GotoCounts DEF IInv
  <2> QED
    BY <1>1, <2>1, OwedStays
<1>4. CASE UNCHANGED <<inbox, audits>>
  BY <1>3, <1>4 DEF Delivery!lvars, Kept, Written
<1>5. CASE /\ hitem[h] < Items[m] /\ audits' = Audited(audits, m, hitem[h] + 1)
           /\ UNCHANGED inbox
  <2>1. hitem[h] \in Nat /\ hitem[h] + 1 \in 1 .. Items[m]
    BY <1>5, ItemsAssumption DEF IInv, Types
  <2>2. Written' = [Written EXCEPT ![m] = @ \cup {hitem[h] + 1}]
    BY <1>5, <2>1, WrittenGrows
  <2>3. 1 .. (hitem[h] + 1) - 1 \subseteq Written[m]
    <3>1. \A i \in 1 .. hitem[h] : i \in 1 .. Items[m] /\ audits[m][i] > 0
      BY <1>1, <1>2, <2>1, ItemsAssumption DEF IInv, HandlersOK
    <3>2. (hitem[h] + 1) - 1 = hitem[h]
      BY <2>1
    <3> QED
      BY <3>1, <3>2 DEF Written
  <2>4. Delivery!Write(m)
    BY <1>2, <1>3, <1>5, <2>1, <2>2, <2>3 DEF Delivery!Write, Delivery!WritePart, Kept
  <2> QED
    BY <2>4
<1>6. CASE inbox[m] = NoRow /\ inbox' = [inbox EXCEPT ![m] = 0] /\ UNCHANGED audits
  <2>1. m \notin Kept /\ Kept' = Kept \cup {m}
    BY <1>6, NoRowAssumption DEF IInv, Types, Kept
  <2>2. Delivery!Keep(m)
    BY <1>2, <1>3, <1>6, <2>1 DEF Delivery!Keep, Written
  <2> QED
    BY <2>2
<1> QED
  BY <1>1, <1>2, <1>4, <1>5, <1>6

\* A handler that returns settles its copy, or leaves it owed.
LEMMA ReturnDelivers ==
    ASSUME IInv, HeldIsQueued, NEW h \in Handlers,
           Ack(h) \/ AckFail(h) \/ Requeue(h) \/ Reject(h)
    PROVE  (\E m \in Messages : Delivery!Settle(m)) \/ UNCHANGED Delivery!lvars
<1>0. \A k \in Messages : queue[k] \in Nat /\ Unacked(k) \in Nat
  BY HoldingFinite DEF IInv, Types
<1>1. UNCHANGED <<channel, inbox, audits>> /\ hpc[h] \in {"ack", "requeue", "reject"}
  BY DEF Ack, AckFail, Requeue, Reject, Return
<1>2. PICK m \in Messages : m = hmsg[h] /\ Owed[m] > 0
  BY <1>1, OwedInHand
<1>3. \A k \in Messages : Unacked(k)' = IF channel = "open" /\ k = m THEN Unacked(k) - 1
                                        ELSE Unacked(k)
  BY <1>2, ReturnCounts DEF Ack, AckFail, Requeue, Reject, IInv
<1>4. UNCHANGED <<Kept, Written>>
  BY <1>1 DEF Kept, Written
<1>5. CASE channel = "open" /\ (Ack(h) \/ Reject(h))
  <2>1. UNCHANGED queue
    BY <1>5 DEF Ack, Reject
  <2>2. \A k \in Messages :
           queue'[k] + Unacked(k)' = IF k = m THEN (queue[k] + Unacked(k)) - 1
                                     ELSE queue[k] + Unacked(k)
    BY <1>0, <1>3, <1>5, <2>1
  <2>3. Owed' = [Owed EXCEPT ![m] = @ - 1]
    BY <2>2 DEF Owed
  <2>4. m \in Malformed \/ m \in Kept \/ Written[m] = 1 .. Items[m]
    BY <1>2, <1>5 DEF IInv, HandlersOK, Ack, Reject, Return, Kept, Written, FullyAudited
  <2>5. Delivery!Settle(m)
    BY <1>2, <1>4, <2>3, <2>4 DEF Delivery!Settle
  <2> QED
    BY <2>5
<1>6. CASE channel = "open" /\ Requeue(h)
  <2>1. queue' = [queue EXCEPT ![m] = @ + 1]
    BY <1>2, <1>6 DEF Requeue
  <2>2. ASSUME NEW k \in Messages
        PROVE  queue'[k] + Unacked(k)' = queue[k] + Unacked(k)
    <3>1. queue'[k] = IF k = m THEN queue[k] + 1 ELSE queue[k]
      BY <2>1 DEF IInv, Types
    <3>2. Unacked(k)' = IF k = m THEN Unacked(k) - 1 ELSE Unacked(k)
      BY <1>3, <1>6
    <3> QED
      BY <1>0, <3>1, <3>2
  <2> QED
    BY <1>4, <2>2, OwedStays DEF Delivery!lvars
<1>7. CASE channel # "open"
  <2>1. UNCHANGED queue
    BY <1>7 DEF Ack, AckFail, Requeue, Reject
  <2>2. \A k \in Messages : queue'[k] + Unacked(k)' = queue[k] + Unacked(k)
    BY <1>3, <1>7, <2>1
  <2> QED
    BY <1>4, <2>2, OwedStays DEF Delivery!lvars
<1>8. channel = "open" => ~ AckFail(h)
  BY DEF AckFail
<1> QED
  BY <1>5, <1>6, <1>7, <1>8

\* What closes the channel moves copies, and settles none; the rest of the
\* process's life moves none.
LEMMA ProcessDelivers ==
    ASSUME IInv,
           \/ ConnectionLost \/ Close \/ Exit \/ Crash
           \/ ReaderDone \/ Stop \/ Restart \/ UNCHANGED cvars
    PROVE  UNCHANGED Delivery!lvars
<1>0. \A k \in Messages : queue[k] \in Nat /\ Unacked(k) \in Nat
  BY HoldingFinite DEF IInv, Types
<1>1. UNCHANGED <<Kept, Written>>
  BY DEF ConnectionLost, Close, Exit, Crash, Die, ReaderDone, Stop, Restart, cvars, Kept, Written
<1>2. CASE ConnectionLost \/ Close \/ Exit \/ Crash
  <2>1. channel' = "closed" /\ GiveBack
    BY <1>2 DEF ConnectionLost, Close, Exit, Crash, Die
  <2>2. \A k \in Messages : Unacked(k)' = 0 /\ queue'[k] = queue[k] + Unacked(k)
    BY <2>1, GiveBackCounts DEF IInv
  <2>3. \A k \in Messages : queue'[k] + Unacked(k)' = queue[k] + Unacked(k)
    BY <1>0, <2>2
  <2> QED
    BY <1>1, <2>3, OwedStays DEF Delivery!lvars
<1>3. CASE ReaderDone \/ Stop \/ Restart \/ UNCHANGED cvars
  <2>1. UNCHANGED <<queue, hpc, hmsg>> /\ (UNCHANGED channel \/ svc = "down")
    BY <1>3 DEF ReaderDone, Stop, Restart, cvars
  <2>2. \A k \in Messages : Holding(k)' = Holding(k)
    BY <2>1 DEF Holding, Busy
  <2>3. svc = "down" => \A k \in Messages : Holding(k) = {}
    BY DEF IInv, DownIsIdle, Holding, Busy
  <2>4. \A k \in Messages : Unacked(k)' = Unacked(k)
    BY <2>1, <2>2, <2>3, FS_EmptySet DEF Unacked
  <2> QED
    BY <1>1, <2>1, <2>4, OwedStays DEF Delivery!lvars
<1> QED
  BY <1>2, <1>3

LEMMA DeliveryStep ==
    IInv /\ HeldIsQueued /\ [Next]_cvars => [Delivery!Next]_(Delivery!lvars)
<1> SUFFICES ASSUME IInv, HeldIsQueued, [Next]_cvars
             PROVE  Delivery!Next \/ UNCHANGED Delivery!lvars
  OBVIOUS
<1>1. CASE \E m \in Messages : Arrive(m) \/ \E h \in Handlers : Receive(h, m)
  BY <1>1, QueueDelivers DEF Delivery!Next
<1>2. ASSUME NEW h \in Handlers, Work(h) \/ Fail(h)
      PROVE  Delivery!Next \/ UNCHANGED Delivery!lvars
  BY <1>2, GotoDelivers, ReturnDelivers DEF Work, Delivery!Next
<1>3. CASE \/ ConnectionLost \/ Close \/ Exit \/ Crash
           \/ ReaderDone \/ Stop \/ Restart \/ UNCHANGED cvars
  BY <1>3, ProcessDelivers
<1> QED
  BY <1>1, <1>2, <1>3 DEF Next

\* The consumer delivers at least once: a copy stays owed until its message is
\* in the audit log or in the inbox, items are written in order, and no handler
\* works on a message the broker does not still owe, for any number of
\* messages, handlers and copies, and whatever closes the channel or the
\* process.
THEOREM DeliveryImplemented == Spec => ImplementsDelivery
<1>1. Init => Delivery!Init
  <2> SUFFICES ASSUME Init PROVE Delivery!Init
    OBVIOUS
  <2>1. \A m : Holding(m) = {}
    BY DEF Init, Holding, Busy
  <2>2. \A m \in Messages : queue[m] = 0 /\ Unacked(m) = 0
    BY <2>1, FS_EmptySet DEF Init, Unacked
  <2>3. Owed = [m \in Messages |-> 0]
    BY <2>2 DEF Owed
  <2>4. Kept = {} /\ Written = [m \in Messages |-> {}]
    BY DEF Init, Kept, Written
  <2> QED
    BY <2>3, <2>4 DEF Delivery!Init
<1>2. Init => HeldIsQueued
  BY DEF Init, HeldIsQueued
<1> QED
  BY <1>1, <1>2, HeldStep, DeliveryStep, Invariant, PTL
  DEF Spec, ImplementsDelivery, Delivery!Spec

=============================================================================
