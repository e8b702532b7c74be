------------------------------ MODULE Sublists ------------------------------
(***************************************************************************)
(* Array.filter, and what a search finds: the elements of a list that      *)
(* belong to a set.  A recursive function, about which the provers reason, *)
(* in place of SelectSeq and its operator argument.                        *)
(***************************************************************************)
EXTENDS Naturals, Sequences

(* The elements of s that are in S, in the order of s. *)
Those(s, S) ==
  LET upTo[n \in 0 .. Len(s)] ==
        IF n = 0 THEN <<>> ELSE IF s[n] \in S THEN Append(upTo[n - 1], s[n]) ELSE upTo[n - 1]
  IN upTo[Len(s)]
=============================================================================
