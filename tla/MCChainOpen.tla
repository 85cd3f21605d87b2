------------------------------ MODULE MCChainOpen ------------------------------
(***************************************************************************)
(* Four blocks, flushed after every second while re-indexing, and three    *)
(* kills: enough for a kill in normal operation, one in the re-indexing    *)
(* that follows and one in the attempt after that.                         *)
(***************************************************************************)
EXTENDS ChainOpen

\* The ids of the blocks 3, 1, 4, 2 are in this order.
Order == <<3, 1, 4, 2>>
===============================================================================
