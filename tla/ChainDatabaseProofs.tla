------------------------- MODULE ChainDatabaseProofs -------------------------
(* Theorems about ChainDatabase, for every block tree and every bound. *)
EXTENDS ChainDatabase, TLAPS

-----------------------------------------------------------------------------
(* The constant block tree. *)

\* An id is on its own path, and a path is closed under the previous links.
LEMMA PathClosed ==
  \A b \in Id : /\ Path[b] \subseteq Id
                /\ b \in Path[b]
                /\ \A x \in Path[b] \ {Genesis} : Prev[x] \in Path[b]
BY TreeAssumption DEF Path, Id

\* A path is contained in every set that holds its id and is closed under the
\* previous links.
LEMMA PathLeast ==
  \A b \in Id : \A T \in SUBSET Id :
    (b \in T /\ \A y \in T \ {Genesis} : Prev[y] \in T) => Path[b] \subseteq T
BY DEF Path

\* The path of a block is the block followed by the path of its parent.
LEMMA PathStep ==
  \A b \in Block : Path[b] = {b} \cup Path[Prev[b]]
<1> SUFFICES ASSUME NEW b \in Block PROVE Path[b] = {b} \cup Path[Prev[b]]
  OBVIOUS
<1>1. Prev[b] \in Id /\ b \in Id /\ b # Genesis
  BY TreeAssumption DEF Id
<1>2. Path[b] \subseteq {b} \cup Path[Prev[b]]
  <2> DEFINE T == {b} \cup Path[Prev[b]]
  <2>1. T \in SUBSET Id /\ b \in T /\ \A y \in T \ {Genesis} : Prev[y] \in T
    BY <1>1, PathClosed
  <2>. QED BY <2>1, <1>1, PathLeast
<1>3. Path[Prev[b]] \subseteq Path[b]
  BY <1>1, PathClosed, PathLeast
<1>. QED BY <1>1, <1>2, <1>3, PathClosed

\* Genesis ends every path.
LEMMA PathGenesis == Path[Genesis] = {Genesis}
BY PathClosed, PathLeast DEF Id

\* The numbers fall along a path.
LEMMA PathNum ==
  \A b \in Id : \A x \in Path[b] : x = b \/ Num[x] < Num[b]
<1> SUFFICES ASSUME NEW b \in Id PROVE \A x \in Path[b] : x = b \/ Num[x] < Num[b]
  OBVIOUS
<1> DEFINE T == {x \in Id : x = b \/ Num[x] < Num[b]}
<1>1. \A y \in T \ {Genesis} : Prev[y] \in T
  BY TreeAssumption DEF Id
<1>. QED BY <1>1, PathLeast

\* Below every number of a block, down to 1, there is a block.
LEMMA HeightBelow ==
  \A n \in Height : n \in Nat /\ n # 0 /\ (n # 1 => n - 1 \in Height)
BY TreeAssumption DEF Height, Id

-----------------------------------------------------------------------------
(* Type correctness. *)

\* The operations on the block tree return block trees.
LEMMA ForkOperationsType ==
  ASSUME fork \in [Id -> ForkData]
  PROVE  /\ \A b \in Block : store_and_index(b) \in [Id -> ForkData]
         /\ \A b \in Block, why \in {"future", "permanent"} :
              mark_invalid(b, why) \in [Id -> ForkData]
         /\ \A S : mark_as_unchecked(S) \in [Id -> ForkData]
         /\ \A b \in Id, i \in BOOLEAN : mark_included(fork, b, i) \in [Id -> ForkData]
<1>1. \A b \in Block : Prev[b] \in Id
  BY TreeAssumption DEF Id
<1>2. ASSUME NEW b \in Block PROVE store_and_index(b) \in [Id -> ForkData]
  <2>1. ASSUME NEW x \in Id PROVE links(b, x) \in BOOLEAN /\ inherits_invalid(b, x) \in BOOLEAN
    BY DEF links, inherits_invalid
  <2>. QED BY <1>1, <2>1 DEF store_and_index, ForkData
<1>3. ASSUME NEW b \in Block, NEW why \in {"future", "permanent"}
      PROVE  mark_invalid(b, why) \in [Id -> ForkData]
  BY DEF mark_invalid, ForkData
<1>4. ASSUME NEW S PROVE mark_as_unchecked(S) \in [Id -> ForkData]
  BY DEF mark_as_unchecked, ForkData
<1>5. ASSUME NEW b \in Id, NEW i \in BOOLEAN
      PROVE  mark_included(fork, b, i) \in [Id -> ForkData]
  <2> DEFINE d == [fork[b] EXCEPT !.included = i,
                                 !.valid = IF i THEN "valid" ELSE fork[b].valid]
  <2>1. fork[b] \in ForkData
    OBVIOUS
  <2>2. (IF i THEN "valid" ELSE fork[b].valid) \in {"unchecked", "valid", "invalid"}
    BY <2>1 DEF ForkData
  <2>3. d \in ForkData
    BY <2>1, <2>2 DEF ForkData
  <2>4. mark_included(fork, b, i) = [fork EXCEPT ![b] = d]
    BY DEF mark_included
  <2> HIDE DEF d
  <2>. QED BY <2>3, <2>4
<1>. QED BY <1>2, <1>3, <1>4, <1>5

\* get_fork_history collects stored ids of the constant tree only.
LEMMA ForkHistoryType == \A id \in Id : fork_history(id) \subseteq Block
BY PathClosed DEF fork_history, Id

\* Every step keeps the types (TypeOK), for every block tree.
LEMMA TypeOKStep == TypeOK /\ [Next]_vars => TypeOK'
<1> SUFFICES ASSUME TypeOK, [Next]_vars PROVE TypeOK'
  OBVIOUS
<1> USE DEF TypeOK
<1>0. /\ Genesis \in Id /\ Block \subseteq Id
      /\ \A b \in Block : Prev[b] \in Id /\ Num[b] \in Height
      /\ Height \subseteq Nat
  BY TreeAssumption DEF Id, Height
<1>1. ASSUME NEW b \in Block, PushBlock(b) PROVE TypeOK'
  <2>1. fork' \in [Id -> ForkData]
    BY <1>1, ForkOperationsType DEF PushBlock
  <2>2. \A top \in longest_fork(b) : top \in Block
    BY DEF longest_fork, Descendants
  <2>3. parallel' \in [Height -> Seq(Block)]
    <3>0. parallel[Num[b]] \in Seq(Block)
      BY <1>0
    <3>1. Append(parallel[Num[b]], b) \in Seq(Block)
      BY <3>0
    <3>. QED BY <1>1, <3>1 DEF PushBlock
  <2>4. PICK top \in longest_fork(b) :
          IF can_link(fork'[top]) /\ Num[top] > Num[header]
          THEN pc' = "try" /\ tryNum' = Num[top] /\ tryIdx' = 1
          ELSE UNCHANGED <<pc, tryNum, tryIdx>>
    BY <1>1 DEF PushBlock
  <2>5. /\ pc' \in {"idle", "try"} /\ tryNum' \in Nat
        /\ tryIdx' \in Nat \ {0} /\ (pc' # "idle" => tryNum' \in Height)
    <3>1. Num[top] \in Height /\ Num[top] \in Nat /\ pc = "idle"
      BY <1>0, <1>1, <2>2 DEF PushBlock
    <3>. QED BY <2>4, <3>1
  <2>. QED BY <1>0, <1>1, <2>1, <2>3, <2>5 DEF PushBlock, chain
<1>2. CASE NextNumber
  <2>1. tryNum \in Height /\ tryNum - 1 \in Nat /\ (tryNum # 1 => tryNum - 1 \in Height)
    <3>1. tryNum \in Height
      BY <1>2 DEF NextNumber
    <3>2. tryNum \in Nat /\ tryNum # 0 /\ (tryNum # 1 => tryNum - 1 \in Height)
      BY <3>1, HeightBelow
    <3>. QED BY <3>1, <3>2
  <2>2. /\ pc' \in {"idle", "try"} /\ tryNum' \in Nat /\ tryIdx' \in Nat \ {0}
        /\ pc' # "idle" => tryNum' \in Height
    BY <1>2, <2>1 DEF NextNumber
  <2>. QED BY <1>2, <2>2 DEF NextNumber, store, chain
<1>3. CASE TryFork
  <2>1. candidate \in Block
    BY <1>3 DEF TryFork, candidate
  <2>2. fork_history(candidate) \subseteq Block
    BY <1>0, <2>1, ForkHistoryType
  <2>3. /\ pc' \in {"try", "idle", "switch"} /\ tryIdx' \in Nat \ {0}
        /\ branch' \subseteq Block /\ base' \in Id
    BY <1>0, <1>3, <2>2 DEF TryFork
  <2>. QED BY <1>3, <2>3 DEF TryFork, store, chain
<1>4. CASE PopBlock
  <2>1. header \in Block
    BY <1>4, TreeAssumption DEF PopBlock, Id
  <2>2. fork' \in [Id -> ForkData]
    BY <1>4, ForkOperationsType DEF PopBlock, pop_block
  <2>3. numToId' \in [Height -> Id]
    BY <1>0, <1>4 DEF PopBlock, pop_block
  <2>4. applied' \in Seq(Block)
    <3>1. Len(applied) \in Nat
      OBVIOUS
    <3>2. SubSeq(applied, 1, Len(applied) - 1) \in Seq(Block)
      BY <3>1
    <3>. QED BY <1>4, <3>2 DEF PopBlock, pop_block
  <2>5. headId' \in Id /\ header' \in Id /\ pc' \in {"switch", "try"} /\ tryIdx' \in Nat \ {0}
    BY <1>0, <1>4, <2>1 DEF PopBlock, Popping, pop_block, GiveUpFork
  <2>. QED BY <1>4, <2>2, <2>3, <2>4, <2>5 DEF PopBlock, Popping
<1>5. CASE ExtendChain
  <2>1. PICK b \in branch : IF verdict(b) = "accepted" THEN apply_block(b) ELSE reject_block(b)
    BY <1>5 DEF ExtendChain
  <2>2. b \in Block
    BY <2>1
  <2>3. CASE verdict(b) = "accepted" /\ apply_block(b)
    <3>1. fork' \in [Id -> ForkData]
      BY <1>0, <2>2, <2>3, ForkOperationsType DEF apply_block
    <3>2. undo' \subseteq Block /\ applied' \in Seq(Block) /\ numToId' \in [Height -> Id]
      BY <1>0, <2>2, <2>3 DEF apply_block, save_undo_state
    <3>. QED BY <1>0, <1>5, <2>2, <2>3, <3>1, <3>2 DEF apply_block, ExtendChain
  <2>4. CASE verdict(b) # "accepted" /\ reject_block(b)
    <3>1. verdict(b) \in {"future", "permanent"}
      BY <2>4 DEF verdict
    <3>2. fork' \in [Id -> ForkData]
      BY <2>2, <2>4, <3>1, ForkOperationsType DEF reject_block
    <3>3. future' \subseteq Block
      BY <2>4, <1>5 DEF reject_block, ExtendChain
    <3>. QED BY <1>5, <2>4, <3>2, <3>3 DEF reject_block, ExtendChain, GiveUpFork
  <2>. QED BY <2>1, <2>3, <2>4
<1>6. CASE Tick
  BY <1>6 DEF Tick, store, chain, local
<1>7. CASE Restart
  <2>1. fork' \in [Id -> ForkData]
    BY <1>7, ForkOperationsType DEF Restart
  <2>. QED BY <1>7, <2>1 DEF Restart, local
<1>8. CASE UNCHANGED vars
  BY <1>8 DEF vars, store, chain, local
<1>. QED BY <1>1, <1>2, <1>3, <1>4, <1>5, <1>6, <1>7, <1>8 DEF Next, Step

\* The variables of the block tree and of push_block keep their types in every
\* behaviour, whatever the tree, the rejected blocks, the clock and the bounds.
THEOREM TypeCorrect == Spec => []TypeOK
<1>1. Init => TypeOK
  <2> SUFFICES ASSUME Init PROVE TypeOK
    OBVIOUS
  <2>1. fork \in [Id -> ForkData]
    BY DEF Init, ForkData, absent
  <2>2. parallel \in [Height -> Seq(Block)] /\ numToId \in [Height -> Id] /\ applied \in Seq(Block)
    BY DEF Init, Id
  <2>. QED BY <2>1, <2>2, BoundAssumption DEF Init, TypeOK, Id
<1>. QED BY <1>1, TypeOKStep, PTL DEF Spec

-----------------------------------------------------------------------------
(* The links of the block tree. *)

\* The inductive strengthening of LinkedToGenesis: next_blocks lists exactly the
\* stored children of an id, genesis is linked, and links reach genesis.
LinkInv ==
  /\ fork[Genesis].linked
  /\ \A b \in Block : fork[b].known <=> b \in fork[Prev[b]].next
  /\ \A x \in Id : \A b \in fork[x].next : Prev[b] = x
  /\ \A b \in Block : fork[b].linked => fork[b].known /\ fork[Prev[b]].linked

\* A block that recursive_mark_as_linked reaches from the next blocks of an id b
\* is stored, and it follows b or another block that is reached.
LEMMA DescendantsStep ==
  ASSUME TypeOK, LinkInv, NEW b \in Id, NEW x \in Descendants(fork[b].next)
  PROVE  /\ x \in Block
         /\ fork[x].known
         /\ Prev[x] = b \/ Prev[x] \in Descendants(fork[b].next)
<1>1. x \in Block /\ x \in Id /\ x # Genesis /\ Prev[x] \in Id
  BY TreeAssumption DEF Descendants, Id
<1>2. PICK y \in fork[b].next \cap Path[x] :
        \A z \in Path[x] : Num[z] > Num[y] => z \in fork[Prev[z]].next
  BY DEF Descendants
<1>3. y \in Block /\ Prev[y] = b /\ y # Genesis
  BY <1>2, TreeAssumption DEF TypeOK, ForkData, LinkInv
<1>4. CASE x = y
  BY <1>1, <1>2, <1>3, <1>4 DEF LinkInv
<1>5. CASE x # y
  <2>1. Num[x] > Num[y]
    <3>1. Num[y] < Num[x]
      BY <1>1, <1>2, <1>5, PathNum
    <3>. QED BY <1>1, <1>3, <3>1, TreeAssumption DEF Id
  <2>2. fork[x].known
    BY <1>1, <1>2, <2>1, PathClosed DEF LinkInv
  <2>3. y \in Path[Prev[x]] /\ Path[Prev[x]] \subseteq Path[x]
    BY <1>1, <1>2, <1>5, PathStep
  <2>4. Prev[x] \in Block
    BY <1>1, <1>3, <2>3, PathGenesis DEF Id
  <2>5. Prev[x] \in Descendants(fork[b].next)
    BY <1>2, <2>3, <2>4 DEF Descendants
  <2>. QED BY <1>1, <2>2, <2>5
<1>. QED BY <1>4, <1>5

\* store_and_index keeps the links, whether the block is new or fills a
\* placeholder.
LEMMA StoreKeepsLinks ==
  ASSUME TypeOK, LinkInv, NEW b \in Block, PushBlock(b)
  PROVE  LinkInv'
<1>1. /\ Prev[b] \in Id /\ b \in Id /\ Genesis \in Id /\ b # Genesis /\ Prev[b] # b
      /\ \A x \in Block : x \in Id /\ Prev[x] \in Id
  BY TreeAssumption DEF Id
<1>2. ASSUME NEW x \in Id
      PROVE  /\ fork'[x].known = (fork[x].known \/ x = b)
             /\ fork'[x].linked = (fork[x].linked \/ links(b, x))
             /\ fork'[x].next = IF x = Prev[b] THEN fork[x].next \cup {b} ELSE fork[x].next
  BY DEF PushBlock, store_and_index
<1>3. fork'[Genesis].linked
  BY <1>1, <1>2 DEF LinkInv
<1>4. ASSUME NEW x \in Block PROVE fork'[x].known <=> x \in fork'[Prev[x]].next
  <2>1. x \in Id /\ Prev[x] \in Id
    BY <1>1
  <2>2. fork'[x].known <=> fork[x].known \/ x = b
    BY <1>2, <2>1
  <2>3. x \in fork'[Prev[x]].next <=> x \in fork[Prev[x]].next \/ (x = b /\ Prev[x] = Prev[b])
    BY <1>2, <2>1
  <2>4. fork[x].known <=> x \in fork[Prev[x]].next
    BY DEF LinkInv
  <2>. QED BY <2>2, <2>3, <2>4
<1>5. ASSUME NEW x \in Id, NEW y \in fork'[x].next PROVE Prev[y] = x
  <2>1. y \in fork[x].next \/ (y = b /\ x = Prev[b])
    BY <1>2, <1>5
  <2>. QED BY <2>1 DEF LinkInv
<1>6. ASSUME NEW x \in Block, fork'[x].linked
      PROVE  fork'[x].known /\ fork'[Prev[x]].linked
  <2>1. CASE fork[x].linked
    BY <1>1, <1>2, <2>1 DEF LinkInv
  <2>2. CASE links(b, x) /\ x = b
    BY <1>1, <1>2, <2>2 DEF links
  <2>3. CASE links(b, x) /\ x # b
    <3>1. x \in Descendants(fork[b].next) /\ fork[Prev[b]].linked /\ fork[Prev[b]].valid # "invalid"
      BY <2>3 DEF links
    <3>2. fork[x].known /\ (Prev[x] = b \/ Prev[x] \in Descendants(fork[b].next))
      BY <1>1, <3>1, DescendantsStep
    <3>3. links(b, Prev[x])
      BY <3>1, <3>2 DEF links
    <3>. QED BY <1>1, <1>2, <3>2, <3>3
  <2>. QED BY <1>1, <1>2, <1>6, <2>1, <2>2, <2>3
<1>. QED BY <1>3, <1>4, <1>5, <1>6 DEF LinkInv

\* The other operations on the block tree leave known, linked and next alone.
LEMMA MarksKeepLinks ==
  ASSUME TypeOK, LinkInv, fork' \in [Id -> ForkData],
         \A x \in Id : /\ fork'[x].known = fork[x].known
                       /\ fork'[x].linked = fork[x].linked
                       /\ fork'[x].next = fork[x].next
  PROVE  LinkInv'
BY TreeAssumption DEF LinkInv, Id

\* Only genesis is linked at first.
LEMMA LinkInvInit == Init => LinkInv
<1> SUFFICES ASSUME Init PROVE LinkInv
  OBVIOUS
<1>1. \A x \in Id : fork[x].next = {}
  BY DEF Init, absent
<1>2. \A b \in Block : ~fork[b].known /\ ~fork[b].linked
  BY TreeAssumption DEF Init, absent, Id
<1>3. fork[Genesis].linked
  BY DEF Init, absent, Id
<1>4. \A b \in Block : Prev[b] \in Id
  BY TreeAssumption
<1>. QED BY <1>1, <1>2, <1>3, <1>4 DEF LinkInv

\* Every step keeps LinkInv.
LEMMA LinkInvStep == TypeOK /\ LinkInv /\ [Next]_vars => LinkInv'
<1> SUFFICES ASSUME TypeOK, LinkInv, [Next]_vars PROVE LinkInv'
  OBVIOUS
<1>0. fork \in [Id -> ForkData] /\ fork' \in [Id -> ForkData]
  BY TypeOKStep DEF TypeOK
<1>1. ASSUME NEW b \in Block, PushBlock(b) PROVE LinkInv'
  BY <1>1, StoreKeepsLinks
<1>2. CASE PopBlock
  BY <1>0, <1>2, MarksKeepLinks DEF PopBlock, pop_block, mark_included, ForkData
<1>3. CASE ExtendChain
  <2>1. PICK b \in branch : apply_block(b) \/ reject_block(b)
    BY <1>3 DEF ExtendChain
  <2>2. CASE apply_block(b)
    BY <1>0, <2>2, MarksKeepLinks DEF apply_block, mark_included, ForkData
  <2>3. CASE reject_block(b)
    BY <1>0, <2>3, MarksKeepLinks DEF reject_block, mark_invalid, ForkData
  <2>. QED BY <2>1, <2>2, <2>3
<1>4. CASE Restart
  <2>1. fork' = mark_as_unchecked(future)
    BY <1>4 DEF Restart
  <2>2. ASSUME NEW x \in Id
        PROVE  /\ fork'[x].known = fork[x].known
               /\ fork'[x].linked = fork[x].linked
               /\ fork'[x].next = fork[x].next
    BY <1>0, <2>1 DEF mark_as_unchecked, ForkData
  <2>. QED BY <1>0, <2>2, MarksKeepLinks
<1>5. CASE NextNumber \/ TryFork \/ Tick \/ UNCHANGED vars
  <2>1. fork' = fork
    BY <1>5 DEF NextNumber, TryFork, Tick, vars, store
  <2>. QED BY <2>1 DEF LinkInv
<1>. QED BY <1>1, <1>2, <1>3, <1>4, <1>5 DEF Next, Step

\* The "database invariants" get_fork_history relies on hold for every block
\* tree and every order of arrival: what is linked is stored, and its parent is
\* linked and lists it.
THEOREM AlwaysLinkedToGenesis == Spec => []LinkedToGenesis
<1>2. LinkInv => LinkedToGenesis
  BY DEF LinkInv, LinkedToGenesis
<1>. QED BY <1>2, LinkInvInit, LinkInvStep, TypeCorrect, PTL DEF Spec

\* Hence the assertion "we hit a dead end, this fork isn't really linked!" of
\* get_fork_history never fails for a fork that push_block tries.
NoDeadEnd == \A id \in Block : fork[id].linked => ~dead_end(fork_history(id))

\* NoDeadEnd holds in every reachable state.
THEOREM ForkHistoryHasNoDeadEnd == Spec => []NoDeadEnd
<1>1. LinkedToGenesis /\ LinkInv => NoDeadEnd
  <2> SUFFICES ASSUME LinkInv, NEW id \in Block, fork[id].linked,
                      NEW y \in fork_history(id)
               PROVE  fork[Prev[y]].linked
    BY DEF NoDeadEnd, dead_end
  <2> DEFINE T == {x \in Id : fork[x].linked}
  <2>1. id \in T /\ \A x \in T \ {Genesis} : Prev[x] \in T
    BY TreeAssumption DEF LinkInv, Id
  <2>2. Path[id] \subseteq T
    BY <2>1, PathLeast
  <2>3. y \in Block /\ y \in Path[id]
    BY ForkHistoryType DEF fork_history, Id
  <2>. QED BY <2>2, <2>3 DEF LinkInv
<1>. QED BY <1>1, LinkInvInit, LinkInvStep, TypeCorrect, AlwaysLinkedToGenesis, PTL DEF Spec

=============================================================================
