-------------------------- MODULE MCTransactionPool --------------------------
(* Instances of TransactionPool: transaction 1 funds transaction 2, which    *)
(* comes first by digest and by fee; transactions 1 and 3 compete for the    *)
(* same balance.                                                             *)
EXTENDS TransactionPool

MCTrx    == 1..3
MCDigest == <<2, 1, 3>>
MCFrom   == <<"alice", "bob", "alice">>
MCTo     == <<"bob", "carol", "carol">>
MCAmount == <<3, 1, 3>>
MCFee    == <<1, 2, 2>>
MCSize   == <<1, 1, 2>>

MCAccount == {"alice", "bob", "carol"}
MCFunds   == [a \in MCAccount |-> IF a = "alice" THEN 8 ELSE 0]

\* Expirations that come while the chain grows.
Soon == <<3, 4, 3>>
=============================================================================
