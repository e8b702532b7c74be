-------------------------- MODULE MCSigningServer --------------------------
(* Two chains with an identity each; the requests are given in the configuration. *)
EXTENDS SigningServer

CONSTANTS c1, c2, i1, i2

MCChainId == {c1, c2}
MCIdentity == {i1, i2}
MCChainOf == [i \in MCIdentity |-> IF i = i1 THEN c1 ELSE c2]
=============================================================================
