------------------------------ MODULE Delivery ------------------------------
(***************************************************************************)
(* What the three RabbitMQ consumers share: the window of event ids a      *)
(* consumer remembers (a Set and a queue of at most maxTrackedEventIds     *)
(* ids, here one sequence, oldest first), and the broker's handling of     *)
(* deliveries that were never acknowledged.                                *)
(***************************************************************************)
EXTENDS Naturals, Sequences

\* processedEventIds.has(id)
Remembered(window, id) == \E i \in DOMAIN window : window[i] = id

\* Push an id that is not remembered yet, then evict the oldest id when more
\* than max are tracked.
Remember(window, id, max) ==
    LET pushed == Append(window, id)
    IN  IF Len(pushed) > max THEN Tail(pushed) ELSE pushed

\* The windows of at most max ids, each id once.
Window(ids, max) ==
    {w \in Seq(ids) : /\ Len(w) <= max
                      /\ \A i, j \in DOMAIN w : i < j => w[i] # w[j]}

\* The broker puts unacknowledged deliveries back where they were: in front of
\* the messages it has not delivered, in their order of delivery.
Requeue(inflight, queue) == [i \in DOMAIN inflight |-> inflight[i].msg] \o queue

=============================================================================
