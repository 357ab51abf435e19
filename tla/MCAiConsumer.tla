---------------------------- MODULE MCAiConsumer ----------------------------
(***************************************************************************)
(* Instances of AiConsumer for TLC: two events about one transaction, one  *)
(* without a transaction and one of a type the service does not handle.    *)
(***************************************************************************)
EXTENDS AiConsumer

CONSTANTS t1, noTx

MCTx == {t1}

Event(id, type, tx) == [id |-> id, type |-> type, tx |-> tx]

Created  == Event(1, "transaction.created", t1)
Updated  == Event(2, "transaction.updated", t1)
Nameless == Event(3, "transaction.created", noTx)
Foreign  == Event(4, "transaction.deleted", t1)

AllEvents == {Created, Updated, Nameless, Foreign}

=============================================================================
