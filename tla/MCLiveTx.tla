------------------------------ MODULE MCLiveTx ------------------------------
(* The node orders results by height, or by the digits of the height: the   *)
(* transactions are at heights 8, 9, 10 and 11.                             *)
EXTENDS LiveTx

ByHeight == [t \in 1 .. MaxChain |-> t]
ByDigits == [t \in 1 .. MaxChain |-> CASE t = 1 -> 3 [] t = 2 -> 4 [] t = 3 -> 1 [] OTHER -> 2]
BothOrders == {ByHeight, ByDigits}
=============================================================================
