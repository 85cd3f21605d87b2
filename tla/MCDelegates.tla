----------------------------- MODULE MCDelegates -----------------------------
(* Instances of Delegates: three delegates at genesis of which two are active *)
(* at a time, and one more account that can be registered.                    *)
EXTENDS Delegates, TLC

CONSTANTS k1, k2, k3, k4, k5

MCIds        == 1..4
MCKeys       == {k1, k2, k3, k4, k5}
MCGenesisKey == <<k1, k2, k3>>

\* The keys that nobody uses at genesis.
SpareKeys == Permutations({k4, k5})
=============================================================================
