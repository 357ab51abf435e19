-------------------------- MODULE MCSearchConsumer --------------------------
(***************************************************************************)
(* Instances of SearchConsumer for TLC: one transaction (documents share   *)
(* nothing), and events whose timestamps disagree with every order in      *)
(* which they may arrive.                                                  *)
(***************************************************************************)
EXTENDS SearchConsumer

CONSTANTS t1, noTx

MCTx == {t1}

Event(id, type, at, moderation) ==
    [id |-> id, type |-> type, tx |-> t1, at |-> at, moderation |-> moderation]

Created  == Event(1, "transaction.created", 1, "none")
Enriched == Event(2, "ai.enriched", 2, "REVIEW")
Allowed  == Event(2, "ai.enriched", 2, "ALLOW")
Rejected == Event(3, "ai.rejected", 3, "none")
Updated  == Event(4, "transaction.updated", 2, "none")
Deleted  == Event(5, "transaction.deleted", 3, "none")
Foreign  == Event(6, "search.index.updated", 1, "none")
Nameless == [Event(7, "transaction.created", 1, "none") EXCEPT !.tx = noTx]

\* Created, its verdicts (ai-service may send both) and the rarer events.
AllEvents   == {Created, Enriched, Rejected, Updated, Deleted, Foreign, Nameless}
RaceEvents  == {Created, Rejected}
PlainEvents == {Created, Allowed}

=============================================================================
