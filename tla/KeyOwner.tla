------------------------------ MODULE KeyOwner ------------------------------
(***************************************************************************)
(* What broker election promises: a brokered process (one `broker_key`) is *)
(* owned by at most one broker, and ownership passes from one broker to    *)
(* another only through a moment in which nobody owns the key.             *)
(***************************************************************************)
CONSTANTS
    Brokers,    \* process ids a broker can have
    None        \* no process

VARIABLE holder

Init == holder = None

Acquire(b) == holder = None /\ holder' = b

Resign == holder # None /\ holder' = None

Next == Resign \/ \E b \in Brokers : Acquire(b)

Spec == Init /\ [][Next]_holder
=============================================================================
