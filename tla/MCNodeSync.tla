----------------------------- MODULE MCNodeSync -----------------------------
(***************************************************************************)
(* Instances of NodeSync: blocks 1 - 2 - 3 - 4 - 7 - 8 - 9 - 10, and 5 - 6 *)
(* on top of 1.                                                            *)
(***************************************************************************)
EXTENDS NodeSync

CONSTANTS p1, p2

MCBlock  == 1..10
MCParent == <<0, 1, 2, 3, 1, 5, 4, 7, 8, 9>>

LongChain == (p1 :> <<10>>) @@ (p2 :> <<10>>)
OneChain  == (p1 :> <<4>>) @@ (p2 :> <<4>>)
TwoForks  == (p1 :> <<4>>) @@ (p2 :> <<6>>)

\* A peer whose main chain grows on one fork and then switches to the other.
ForkSwitch == (p1 :> <<1, 6, 4>>) @@ (p2 :> <<4>>)

NoneMissing  == [p \in Peer |-> {}]
OneMissing   == (p1 :> {3}) @@ (p2 :> {})
FirstMissing == (p1 :> {2}) @@ (p2 :> {})
=============================================================================
