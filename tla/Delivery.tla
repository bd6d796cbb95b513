------------------------------ MODULE Delivery ------------------------------
(***************************************************************************)
(* What the outbox promises for events enqueued once, without rows,        *)
(* workers, retries or time: an event is acknowledged only after it was    *)
(* sent at least once, an acknowledged event stays so, and an event given  *)
(* up on may only be queued again.                                         *)
(***************************************************************************)
CONSTANT Events

VARIABLES
    phase,   \* idle, queued, acked or dead
    sent     \* the events that reached their reader at least once

Init == phase = [e \in Events |-> "idle"] /\ sent = {}

Submit(e) == phase[e] = "idle" /\ phase' = [phase EXCEPT ![e] = "queued"] /\ UNCHANGED sent

Send(e) == phase[e] = "queued" /\ sent' = sent \cup {e} /\ UNCHANGED phase

Ack(e) ==
    /\ phase[e] = "queued" /\ e \in sent
    /\ phase' = [phase EXCEPT ![e] = "acked"]
    /\ UNCHANGED sent

Abandon(e) == phase[e] = "queued" /\ phase' = [phase EXCEPT ![e] = "dead"] /\ UNCHANGED sent

Revive ==
    \E some \in SUBSET {e \in Events : phase[e] = "dead"} :
        /\ phase' = [e \in Events |-> IF e \in some THEN "queued" ELSE phase[e]]
        /\ UNCHANGED sent

Next == Revive \/ \E e \in Events : Submit(e) \/ Send(e) \/ Ack(e) \/ Abandon(e)

Spec == Init /\ [][Next]_<<phase, sent>>
=============================================================================
