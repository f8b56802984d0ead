----------------------------- MODULE AtLeastOnce -----------------------------
(***************************************************************************)
(* What a consumer that acknowledges after its work promises: a copy of a  *)
(* message is owed until the parts of the message are in the log or the    *)
(* message is kept for later; the parts are written in order, and only     *)
(* while a copy is owed, so that the broker still has one if the consumer  *)
(* dies.  AuditConsumer, with its handlers, its channel and the broker     *)
(* that gives copies back, implements it, and AuditSvc does with the       *)
(* worker that takes up what is kept.                                      *)
(***************************************************************************)
EXTENDS Naturals

CONSTANTS
    Messages,
    Malformed,  \* messages that cannot be worked on
    Parts       \* Parts[m]: how many parts message m has

VARIABLES
    owed,    \* copies of a message that were sent and are not settled
    kept,    \* messages kept for later
    written  \* written[m]: the parts of m in the log

lvars == <<owed, kept, written>>

Init ==
    /\ owed = [m \in Messages |-> 0]
    /\ kept = {}
    /\ written = [m \in Messages |-> {}]

Send(m) ==
    /\ owed' = [owed EXCEPT ![m] = @ + 1]
    /\ UNCHANGED <<kept, written>>

\* The next part, or one of the earlier ones again, which changes nothing.
WritePart(m) ==
    /\ m \notin Malformed
    /\ \E i \in 1 .. Parts[m] :
          /\ 1 .. i - 1 \subseteq written[m]
          /\ written' = [written EXCEPT ![m] = @ \cup {i}]
    /\ UNCHANGED <<owed, kept>>

Write(m) == owed[m] > 0 /\ WritePart(m)

Keep(m) ==
    /\ owed[m] > 0
    /\ m \notin Malformed \cup kept
    /\ kept' = kept \cup {m}
    /\ UNCHANGED <<owed, written>>

Settle(m) ==
    /\ owed[m] > 0
    /\ \/ m \in Malformed
       \/ m \in kept
       \/ written[m] = 1 .. Parts[m]
    /\ owed' = [owed EXCEPT ![m] = @ - 1]
    /\ UNCHANGED <<kept, written>>

Next == \E m \in Messages : Send(m) \/ Write(m) \/ Keep(m) \/ Settle(m)

Spec == Init /\ [][Next]_lvars

-----------------------------------------------------------------------------
(* With somebody who comes back to what is kept *)

WriteKept(m) == m \in kept /\ WritePart(m)

Remove(m) ==
    /\ m \in kept
    /\ written[m] = 1 .. Parts[m]
    /\ kept' = kept \ {m}
    /\ UNCHANGED <<owed, written>>

NextWithRetries == Next \/ \E m \in Messages : WriteKept(m) \/ Remove(m)

SpecWithRetries == Init /\ [][NextWithRetries]_lvars

=============================================================================
