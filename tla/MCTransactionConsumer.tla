----------------------- MODULE MCTransactionConsumer -----------------------
(***************************************************************************)
(* Instances of TransactionConsumer for TLC: every kind of outcome about   *)
(* one row, one about another row, one about no row, and messages that are *)
(* no outcome or have an unknown source.                                   *)
(***************************************************************************)
EXTENDS TransactionConsumer

CONSTANTS t1, t2, noTx

MCTx == {t1, t2}

Outcome(id, type, tx, source, moderation) ==
    [id |-> id, type |-> type, tx |-> tx, source |-> source, moderation |-> moderation]

Indexed  == Outcome(1, "search.index.updated", t1, "transaction.created", "none")
Review   == Outcome(2, "search.index.updated", t1, "ai.enriched", "REVIEW")
Plain    == Outcome(3, "search.index.updated", t1, "ai.enriched", "none")
Rejected == Outcome(4, "search.index.rejected", t1, "ai.rejected", "none")
Other    == Outcome(5, "search.index.updated", t2, "transaction.created", "none")
Orphan   == Outcome(6, "search.index.rejected", noTx, "ai.rejected", "none")
Unknown  == Outcome(7, "search.index.updated", t1, "transaction.deleted", "none")

MCOutcomes == {Indexed, Review, Plain, Rejected, Other, Orphan, Unknown}

=============================================================================
