------------------------------ MODULE MCStartup ------------------------------
(***************************************************************************)
(* Instances of Startup for TLC.                                           *)
(***************************************************************************)
EXTENDS Startup

CONSTANTS tx, search1, search2, missing

\* Two processes of search-service race; the queue of ai-service is that of a
\* service that never runs.
MCApp == [p \in {tx, search1, search2} |->
    IF p = tx THEN "transactionService" ELSE "searchService"]

\* A setting that is not there and one that is refused.
MCSettings == {missing, 501}
MCKeys     == {"transaction.created", "search.index.updated"}

=============================================================================
