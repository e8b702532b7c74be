------------------------------ MODULE TxSearch ------------------------------
(***************************************************************************)
(* tx_search of a Tendermint node: the results, in the node's own order,   *)
(* are cut into pages.                                                     *)
(***************************************************************************)
EXTENDS Naturals, Sequences

CONSTANT PerPage    \* page size of tx_search

ASSUME PageAssumption == PerPage \in Nat \ {0}

(* Where page p of n results ends. *)
PageEnd(p, n) == IF p * PerPage < n THEN p * PerPage ELSE n

PageOf(results, p) == SubSeq(results, (p - 1) * PerPage + 1, PageEnd(p, Len(results)))
=============================================================================
