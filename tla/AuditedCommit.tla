---------------------------- MODULE AuditedCommit ----------------------------
(***************************************************************************)
(* What creating orders promises to the clients and to the audit log: the  *)
(* orders of a call are stored together, and only when each of them has    *)
(* been announced to the audit log; a call that was answered announces and *)
(* stores nothing more.  BatchInsert, with its transaction, its auditor    *)
(* and the failures of both, implements it.                                *)
(***************************************************************************)
CONSTANTS Calls, Orders

VARIABLES
    answer,     \* "none", "open", "ok" or "error", for each call
    batch,      \* the orders it creates
    announced,  \* orders the audit log will hear of
    stored      \* orders in the database

avars == <<answer, batch, announced, stored>>

Init ==
    /\ answer = [c \in Calls |-> "none"]
    /\ batch = [c \in Calls |-> {}]
    /\ announced = {}
    /\ stored = {}

\* A call creates orders nobody has heard of.
Submit(c) ==
    /\ answer[c] = "none"
    /\ answer' = [answer EXCEPT ![c] = "open"]
    /\ \E new \in SUBSET (Orders \ (announced \cup UNION {batch[d] : d \in Calls})) :
          batch' = [batch EXCEPT ![c] = new]
    /\ UNCHANGED <<announced, stored>>

Announce(c) ==
    /\ answer[c] = "open"
    /\ \E o \in batch[c] \ announced : announced' = announced \cup {o}
    /\ UNCHANGED <<answer, batch, stored>>

Store(c) ==
    /\ batch[c] \subseteq announced
    /\ stored' = stored \cup batch[c]

Accept(c) ==
    /\ answer[c] = "open"
    /\ answer' = [answer EXCEPT ![c] = "ok"]
    /\ Store(c)
    /\ UNCHANGED <<batch, announced>>

\* The call is answered with an error: its orders are stored, all or none.
Refuse(c) ==
    /\ answer[c] = "open"
    /\ answer' = [answer EXCEPT ![c] = "error"]
    /\ Store(c) \/ UNCHANGED stored
    /\ UNCHANGED <<batch, announced>>

\* Every open call ends with an error at once.
Interrupt ==
    /\ answer' = [c \in Calls |-> IF answer[c] = "open" THEN "error" ELSE answer[c]]
    /\ UNCHANGED <<batch, announced, stored>>

Next ==
    \/ \E c \in Calls : Submit(c) \/ Announce(c) \/ Accept(c) \/ Refuse(c)
    \/ Interrupt

Spec == Init /\ [][Next]_avars

=============================================================================
