----------------------------- MODULE AtLeastOnce -----------------------------
(***************************************************************************)
(* What transaction-service promises of the events it writes to its        *)
(* outbox, with no poller, batch, retry or crash in sight: an event that   *)
(* is written is owed; while it is owed copies of it may be sent; it is    *)
(* settled, once and for all, as published (at least one copy was sent) or *)
(* as abandoned.                                                           *)
(***************************************************************************)
EXTENDS Naturals

CONSTANT Tx

VARIABLES
    stage,   \* "unwritten", "owed", "published" or "abandoned"
    copies   \* how many copies of the event have been sent

vars == <<stage, copies>>

Init ==
    /\ stage = [t \in Tx |-> "unwritten"]
    /\ copies = [t \in Tx |-> 0]

\* The database transaction that writes the event commits.
Write(t) ==
    /\ stage[t] = "unwritten"
    /\ stage' = [stage EXCEPT ![t] = "owed"]
    /\ UNCHANGED copies

Send(t) ==
    /\ stage[t] = "owed"
    /\ copies' = [copies EXCEPT ![t] = @ + 1]
    /\ UNCHANGED stage

Publish(t) ==
    /\ stage[t] = "owed"
    /\ copies[t] > 0
    /\ stage' = [stage EXCEPT ![t] = "published"]
    /\ UNCHANGED copies

Abandon(t) ==
    /\ stage[t] = "owed"
    /\ stage' = [stage EXCEPT ![t] = "abandoned"]
    /\ UNCHANGED copies

Next == \E t \in Tx : Write(t) \/ Send(t) \/ Publish(t) \/ Abandon(t)

Spec == Init /\ [][Next]_vars

=============================================================================
