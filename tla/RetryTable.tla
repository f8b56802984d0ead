----------------------------- MODULE RetryTable -----------------------------
(***************************************************************************)
(* What a table of messages that are retried promises to its users: an     *)
(* entry is handed over before it is removed, a failed attempt brings it   *)
(* one try closer to being given up, and it is given up after MaxRetries   *)
(* tries, for ever.  The outbox of order-svc and the inbox of the audit    *)
(* consumer implement it.                                                  *)
(***************************************************************************)
EXTENDS Naturals

CONSTANTS Messages, MaxRetries

VARIABLES
    status,  \* "absent", "pending" or "dead" (no tries left)
    handed,  \* messages handed over at least once
    tries    \* failed attempts recorded for a message that is still an entry

tvars == <<status, handed, tries>>

Init ==
    /\ status = [m \in Messages |-> "absent"]
    /\ handed = {}
    /\ tries = [m \in Messages |-> 0]

Enter(m) ==
    /\ status[m] = "absent"
    /\ status' = [status EXCEPT ![m] = "pending"]
    /\ UNCHANGED <<handed, tries>>

HandOver(m) ==
    /\ status[m] = "pending"
    /\ handed' = handed \cup {m}
    /\ UNCHANGED <<status, tries>>

Remove(m) ==
    /\ status[m] = "pending"
    /\ m \in handed
    /\ status' = [status EXCEPT ![m] = "absent"]
    /\ tries' = [tries EXCEPT ![m] = 0]
    /\ UNCHANGED handed

Miss(m) ==
    /\ status[m] = "pending"
    /\ tries' = [tries EXCEPT ![m] = @ + 1]
    /\ status' = [status EXCEPT ![m] = IF tries'[m] = MaxRetries THEN "dead" ELSE @]
    /\ UNCHANGED handed

Next == \E m \in Messages : Enter(m) \/ HandOver(m) \/ Remove(m) \/ Miss(m)

Spec == Init /\ [][Next]_tvars

=============================================================================
