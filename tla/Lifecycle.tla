------------------------------ MODULE Lifecycle ------------------------------
(***************************************************************************)
(* What the services together promise about the state of a transaction,    *)
(* with no queue, copy, retry or crash in sight: it is created, it is      *)
(* indexed at most once, and before any decision; every decision is one    *)
(* that ai-service reached about this very transaction; a decision may be  *)
(* replaced by another one and is never taken back.                        *)
(***************************************************************************)

CONSTANT Tx

VARIABLES
    life,     \* "absent", "INITIATED", "AI_PROCESSING" or a decision
    verdict   \* the decisions ai-service has reached so far

vars == <<life, verdict>>

Decisions == {"READY", "REJECTED_MODERATION"}

Init ==
    /\ life = [t \in Tx |-> "absent"]
    /\ verdict = [t \in Tx |-> {}]

Create(t) ==
    /\ life[t] = "absent"
    /\ life' = [life EXCEPT ![t] = "INITIATED"]
    /\ UNCHANGED verdict

Index(t) ==
    /\ life[t] = "INITIATED"
    /\ life' = [life EXCEPT ![t] = "AI_PROCESSING"]
    /\ UNCHANGED verdict

Judge(t, d) ==
    /\ life[t] # "absent"
    /\ verdict' = [verdict EXCEPT ![t] = @ \cup {d}]
    /\ UNCHANGED life

Decide(t, d) ==
    /\ life[t] # "absent"
    /\ d \in verdict[t]
    /\ life' = [life EXCEPT ![t] = d]
    /\ UNCHANGED verdict

Next == \E t \in Tx :
    \/ Create(t)
    \/ Index(t)
    \/ \E d \in Decisions : Judge(t, d) \/ Decide(t, d)

Spec == Init /\ [][Next]_vars

=============================================================================
