--------------------------- MODULE MCUserProfile ---------------------------
(* One HD wallet with one identity and two calls of storeIn at a time. *)
EXTENDS UserProfile, TLC

CONSTANTS hd, path, none, s1, s2

MCWallets == {hd}
MCIdentity == {path}
MCReach == [w \in MCWallets |-> MCIdentity]
MCStores == {s1, s2}
Symmetry == Permutations(MCStores)
=============================================================================
