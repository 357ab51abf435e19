------------------------------ MODULE MCOutbox ------------------------------
(***************************************************************************)
(* Instances of Outbox for TLC.                                            *)
(***************************************************************************)
EXTENDS Outbox

CONSTANTS t1, t2, t3, s1, s2

MCTx    == {t1, t2, t3}
MCSlots == {s1, s2}

=============================================================================
