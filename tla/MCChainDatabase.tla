--------------------------- MODULE MCChainDatabase ---------------------------
(* Block trees on which TLC checks ChainDatabase. *)
EXTENDS ChainDatabase, TLC

CONSTANTS g, a1, a2, a3, a4, a5, b2, b3, b4, b5, b6, c3, c4, d1, d2, d3

\* g - a1 - a2 - a3 - a4   Two forks above a1 that overtake each other as deep as
\*       \ b2 - b3 - b4     the undo history goes with MaxUndo = 2, the second one
\*            \ c3 - c4      with blocks of delegates whose clocks are ahead, and
\*                           a third one below the rejected c3.
ForksBlock == {a1, a2, a3, a4, b2, b3, b4, c3, c4}
ForksPrev  == a1 :> g @@ a2 :> a1 @@ a3 :> a2 @@ a4 :> a3
              @@ b2 :> a1 @@ b3 :> b2 @@ b4 :> b3 @@ c3 :> b2 @@ c4 :> c3
ForksNum   == g :> 0 @@ a1 :> 1 @@ a2 :> 2 @@ a3 :> 3 @@ a4 :> 4
              @@ b2 :> 2 @@ b3 :> 3 @@ b4 :> 4 @@ c3 :> 3 @@ c4 :> 4
ForksTime  == g :> 0 @@ a1 :> 1 @@ a2 :> 2 @@ a3 :> 3 @@ a4 :> 4
              @@ b2 :> 2 @@ b3 :> 5 @@ b4 :> 6 @@ c3 :> 3 @@ c4 :> 4

\* g - a1 - a2 - a3 - a4 - a5        With MaxUndo = 2 the second fork leaves the
\*       \ b2 - b3 - b4 - b5 - b6     first one block deeper than the undo history,
\*                                   and grows just below its head.
DeepBlock == {a1, a2, a3, a4, a5, b2, b3, b4, b5, b6}
DeepPrev  == a1 :> g @@ a2 :> a1 @@ a3 :> a2 @@ a4 :> a3 @@ a5 :> a4
             @@ b2 :> a1 @@ b3 :> b2 @@ b4 :> b3 @@ b5 :> b4 @@ b6 :> b5
DeepNum   == g :> 0 @@ a1 :> 1 @@ a2 :> 2 @@ a3 :> 3 @@ a4 :> 4 @@ a5 :> 5
             @@ b2 :> 2 @@ b3 :> 3 @@ b4 :> 4 @@ b5 :> 5 @@ b6 :> 6

\* g - a1 - a2        Two delegates produce block 1 on the genesis state.
\*   \ d1 - d2 - d3
GenesisBlock == {a1, a2, d1, d2, d3}
GenesisPrev  == a1 :> g @@ a2 :> a1 @@ d1 :> g @@ d2 :> d1 @@ d3 :> d2
GenesisNum   == g :> 0 @@ a1 :> 1 @@ a2 :> 2 @@ d1 :> 1 @@ d2 :> 2 @@ d3 :> 3

\* g - a1 - a2 - a3   a1 is rejected; its descendants arrive in any order.
LinkBlock == {a1, a2, a3}
LinkPrev  == a1 :> g @@ a2 :> a1 @@ a3 :> a2
LinkNum   == g :> 0 @@ a1 :> 1 @@ a2 :> 2 @@ a3 :> 3
=============================================================================
