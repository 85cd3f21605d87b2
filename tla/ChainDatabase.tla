---------------------------- MODULE ChainDatabase ----------------------------
(***************************************************************************)
(* The block tree of bts::blockchain::chain_database and the main chain    *)
(* chosen in it.  push_block stores a block in the tree, then walks down   *)
(* the block numbers trying one fork after the other until one of them can *)
(* be applied.  The database writes of one pop or of one extension are a   *)
(* step here, so that a reader sees the states between two of them;        *)
(* push_block itself holds _push_block_mutex from PushBlock until pc is    *)
(* "idle" again, and asserts that it is never preempted.                   *)
(***************************************************************************)
EXTENDS Naturals, Sequences

CONSTANTS
  Block,           \* the ids of the blocks that delegates ever produce
  Genesis,         \* block_id_type(), the id of the genesis state
  Prev,            \* signed_block_header::previous
  Num,             \* block_num
  Time,            \* timestamp, counted in block intervals
  Bad,             \* blocks whose digest, signee or content is rejected
  MaxUndo,         \* BTS_BLOCKCHAIN_MAX_UNDO_HISTORY
  LastCheckpoint,  \* number of the last of CHECKPOINT_BLOCKS, 0 if none
  StartClock,      \* the wall clock when the node starts
  MaxClock         \* bound on the wall clock

Id == Block \cup {Genesis}

Height == {Num[b] : b \in Block}

\* The blocks from an id to genesis, along the previous links.
Path == [b \in Id |-> {x \in Id : \A T \in SUBSET Id :
           (b \in T /\ \A y \in T \ {Genesis} : Prev[y] \in T) => x \in T}]

ASSUME TreeAssumption ==
  /\ Genesis \notin Block
  /\ Prev \in [Block -> Id]
  /\ Num \in [Id -> Nat]
  /\ Num[Genesis] = 0
  /\ \A b \in Block : Num[b] = Num[Prev[b]] + 1
  /\ Bad \subseteq Block

ASSUME BoundAssumption ==
  /\ Time \in [Id -> Nat]
  /\ MaxUndo \in Nat
  /\ LastCheckpoint \in Nat
  /\ StartClock \in Nat /\ MaxClock \in Nat

VARIABLES
  fork,          \* _fork_db; an id without known and without next is absent
  parallel,      \* _fork_number_db: blocks at a number, in order of arrival
  numToId,       \* _block_num_to_id_db; Genesis stands for a missing key
  undo,          \* the keys of _undo_state_db
  future,        \* _revalidatable_future_blocks_db
  applied,       \* the blocks whose changes the state databases hold
  headId,        \* _head_block_id
  header,        \* the block whose header is in _head_block_header
  clock,         \* bts::blockchain::now()
  pc,            \* where the running push_block is
  pushed,        \* its block_id
  tryNum,        \* its highest_unchecked_block_number
  tryIdx,        \* position in its parallel_blocks
  branch,        \* get_fork_history: the blocks to extend the chain by
  base           \* its last item, the fork point; then the last block extended

store == <<fork, parallel, numToId, undo, future, applied>>
chain == <<headId, header>>
local == <<pc, pushed, tryNum, tryIdx, branch, base>>
vars  == <<store, chain, clock, local>>

ForkData == [known : BOOLEAN, linked : BOOLEAN, included : BOOLEAN,
             valid : {"unchecked", "valid", "invalid"},
             reason : {"none", "future", "permanent"},
             next : SUBSET Block]

absent == [known |-> FALSE, linked |-> FALSE, included |-> FALSE,
           valid |-> "unchecked", reason |-> "none", next |-> {}]

Init ==
  /\ fork = [x \in Id |-> IF x = Genesis
                          THEN [absent EXCEPT !.known = TRUE, !.linked = TRUE,
                                              !.included = TRUE, !.valid = "valid"]
                          ELSE absent]
  /\ parallel = [n \in Height |-> <<>>]
  /\ numToId = [n \in Height |-> Genesis]
  /\ undo = {} /\ future = {} /\ applied = <<>>
  /\ headId = Genesis /\ header = Genesis
  /\ clock = StartClock
  /\ pc = "idle" /\ pushed = Genesis /\ tryNum = 0 /\ tryIdx = 1
  /\ branch = {} /\ base = Genesis

-----------------------------------------------------------------------------
(* The block tree. *)

can_link(d) == d.linked /\ d.valid # "invalid"

\* Mutant: only the direct next blocks are visited.
DescendantsOneLevel(S) == S

\* The blocks reached from S through next_blocks: what the while loops of
\* recursive_mark_as_linked, recursive_mark_as_invalid and mark_as_unchecked
\* visit.
Descendants(S) ==
  {x \in Block : \E y \in S \cap Path[x] :
     \A z \in Path[x] : Num[z] > Num[y] => z \in fork[Prev[z]].next}

WithDescendants(S) == S \cup Descendants(UNION {fork[y].next : y \in S})

mark_invalid(b, why) ==
  LET S == WithDescendants({b})
  IN  [x \in Id |-> IF x \in S
                    THEN [fork[x] EXCEPT !.valid = "invalid", !.reason = why]
                    ELSE fork[x]]

mark_as_unchecked(S) ==
  LET U == WithDescendants(S)
  IN  [x \in Id |-> IF x \in U
                    THEN [fork[x] EXCEPT !.valid = "unchecked", !.reason = "none"]
                    ELSE fork[x]]

\* Mutant: popping a block leaves its is_included flag set.
mark_included_sticky(f, b, included) ==
  [f EXCEPT ![b] = [f[b] EXCEPT !.included = TRUE,
                                !.valid = IF included THEN "valid" ELSE f[b].valid]]

mark_included(f, b, included) ==
  [f EXCEPT ![b] = [f[b] EXCEPT !.included = included,
                                !.valid = IF included THEN "valid" ELSE f[b].valid]]

\* Mutant: the next blocks of a filled placeholder are linked even when the
\* block that filled it is not.
links_unconditionally(b, x) ==
  IF x = b THEN fork[Prev[b]].linked ELSE x \in Descendants(fork[b].next)

\* A block is linked when its parent is, and so are the known descendants of a
\* filled placeholder, but not those below an invalid parent.
links(b, x) ==
  /\ fork[Prev[b]].linked
  /\ \/ x = b
     \/ fork[Prev[b]].valid # "invalid" /\ x \in Descendants(fork[b].next)

\* A block below an invalid parent is invalid, and so are the known descendants
\* of a filled placeholder, but only when the parent is linked.
inherits_invalid(b, x) ==
  /\ fork[Prev[b]].valid = "invalid"
  /\ \/ x = b /\ (fork[Prev[b]].linked \/ fork[b].next = {})
     \/ x \in Descendants(fork[b].next) /\ fork[Prev[b]].linked

\* The block is new, or known only as the missing parent of other blocks: a
\* placeholder, whose entry has next blocks.
store_and_index(b) ==
  [x \in Id |->
     [known    |-> fork[x].known \/ x = b,
      linked   |-> fork[x].linked \/ links(b, x),
      included |-> fork[x].included,
      valid    |-> IF inherits_invalid(b, x) THEN "invalid" ELSE fork[x].valid,
      reason   |-> IF inherits_invalid(b, x) THEN fork[Prev[b]].reason ELSE fork[x].reason,
      next     |-> IF x = Prev[b] THEN fork[x].next \cup {b} ELSE fork[x].next]]

\* Mutant: the descendants of a filled placeholder are not looked at.
longest_fork_self(b) == {b}

\* What store_and_index may return: the highest descendants of a filled
\* placeholder (the set it iterates over is unordered), else the block itself.
longest_fork(b) ==
  LET below == Descendants(fork[b].next)
  IN  IF fork[b].next # {} /\ fork[Prev[b]].linked /\ fork[Prev[b]].valid # "invalid"
      THEN {x \in below : \A y \in below : Num[y] <= Num[x]}
      ELSE {b}

-----------------------------------------------------------------------------
(* push_block: entry, and the loop over the candidate forks. *)

TooOld(b) == Num[header] > MaxUndo /\ Num[b] <= Num[header] - MaxUndo

PushBlock(b) ==
  /\ pc = "idle"
  /\ ~fork[b].known
  /\ ~TooOld(b)
  /\ fork' = store_and_index(b)
  /\ parallel' = [parallel EXCEPT ![Num[b]] = Append(@, b)]
  /\ pushed' = b
  /\ \E top \in longest_fork(b) :
       IF can_link(fork'[top]) /\ Num[top] > Num[header]
       THEN pc' = "try" /\ tryNum' = Num[top] /\ tryIdx' = 1
       ELSE UNCHANGED <<pc, tryNum, tryIdx>>
  /\ UNCHANGED <<numToId, undo, future, applied, chain, clock, branch, base>>

\* Mutant: the number is not decremented.
NextNumberSame ==
  /\ pc = "try"
  /\ tryIdx > Len(parallel[tryNum])
  /\ tryIdx' = 1
  /\ UNCHANGED <<store, chain, clock, pushed, tryNum, pc, branch, base>>

\* All parallel blocks at this number were tried: go one number down, or give up.
NextNumber ==
  /\ pc = "try"
  /\ tryIdx > Len(parallel[tryNum])
  /\ tryNum' = tryNum - 1
  /\ tryIdx' = 1
  /\ pc' = IF tryNum = 1 THEN "idle" ELSE "try"
  /\ UNCHANGED <<store, chain, clock, pushed, branch, base>>

candidate == parallel[tryNum][tryIdx]

\* get_fork_history: from id towards genesis, up to the first included block.
fork_history(id) ==
  {x \in Path[id] \ {Genesis} :
     \A y \in Path[id] : (Num[x] <= Num[y] /\ Num[y] < Num[id]) => ~fork[y].included}

\* "we hit a dead end, this fork isn't really linked!"
dead_end(hist) == \E y \in hist : ~fork[Prev[y]].linked

\* The candidate cannot be linked, is the head already, or is switched to.
TryFork ==
  /\ pc = "try"
  /\ tryIdx <= Len(parallel[tryNum])
  /\ \/ /\ ~can_link(fork[candidate])
        /\ tryIdx' = tryIdx + 1
        /\ UNCHANGED <<pc, branch, base>>
     \/ /\ can_link(fork[candidate])
        /\ candidate = headId
        /\ pc' = "idle"
        /\ UNCHANGED <<tryIdx, branch, base>>
     \/ /\ can_link(fork[candidate])
        /\ candidate # headId
        /\ LET hist == fork_history(candidate)
           IN  IF dead_end(hist)
               THEN tryIdx' = tryIdx + 1 /\ UNCHANGED <<pc, branch, base>>
               ELSE /\ pc' = "switch"
                    /\ branch' = hist
                    /\ \E y \in hist : Prev[y] \notin hist /\ base' = Prev[y]
                    /\ UNCHANGED tryIdx
  /\ UNCHANGED <<store, chain, clock, pushed, tryNum>>

-----------------------------------------------------------------------------
(* switch_to_fork: pop blocks down to the fork point, then extend. *)

Popping == pc = "switch" /\ headId # base

\* Mutant: push_block returns after the first fork that fails.
GiveUpPush == pc' = "idle" /\ UNCHANGED tryIdx

\* The exception leaves switch_to_fork; push_block swallows it and goes on
\* with the next parallel block.
GiveUpFork == pc' = "try" /\ tryIdx' = tryIdx + 1

\* Mutant: _head_block_header is not set back.
pop_block_stale_header ==
  /\ fork' = mark_included(fork, headId, FALSE)
  /\ numToId' = [numToId EXCEPT ![Num[header]] = Genesis]
  /\ applied' = SubSeq(applied, 1, Len(applied) - 1)
  /\ headId' = Prev[header]
  /\ UNCHANGED <<header, pc, tryIdx>>

\* is_included and the number index are updated before the undo state is
\* fetched.  The genesis state has no block record, so that popping block 1
\* moves _head_block_id, then throws and leaves the old _head_block_header.
pop_block ==
  /\ fork' = mark_included(fork, headId, FALSE)
  /\ numToId' = [numToId EXCEPT ![Num[header]] = Genesis]
  /\ IF headId \notin undo
     THEN GiveUpFork /\ UNCHANGED <<applied, headId, header>>
     ELSE /\ applied' = SubSeq(applied, 1, Len(applied) - 1)
          /\ headId' = Prev[header]
          /\ IF Prev[header] = Genesis
             THEN GiveUpFork /\ UNCHANGED header
             ELSE header' = Prev[header] /\ UNCHANGED <<pc, tryIdx>>

PopBlock ==
  /\ Popping
  /\ Num[header] # 0
  /\ pop_block
  /\ UNCHANGED <<parallel, undo, future, clock, pushed, tryNum, branch, base>>

time_in_future(b) == Time[b] > clock + 2

\* The checks verify_header makes before it looks at the clock.
header_fault(b) ==
  \/ Num[b] > 1 /\ Num[b] # Num[header] + 1
  \/ Prev[b] # headId
  \/ Num[b] > 1 /\ Time[b] <= Time[header]

\* save_undo_state drops the undo state that falls out of the history; the
\* number index must know the block it belongs to.
PrunesUndo == Num[header] >= LastCheckpoint /\ Num[header] > MaxUndo
undo_key_missing == PrunesUndo /\ numToId[Num[header] - MaxUndo] = Genesis

save_undo_state(b) ==
  IF Num[header] < LastCheckpoint THEN undo
  ELSE (undo \cup {b}) \ (IF PrunesUndo THEN {numToId[Num[header] - MaxUndo]} ELSE {})

verdict(b) == IF header_fault(b) THEN "permanent"
              ELSE IF time_in_future(b) THEN "future"
              ELSE IF b \in Bad \/ undo_key_missing THEN "permanent"
              ELSE "accepted"

\* extend_chain of an accepted block.
apply_block(b) ==
  /\ undo' = save_undo_state(b)
  /\ applied' = Append(applied, b)
  /\ fork' = mark_included(fork, b, TRUE)
  /\ headId' = b
  /\ header' = b
  /\ numToId' = [numToId EXCEPT ![Num[b]] = b]
  /\ pc' = IF b = candidate THEN "idle" ELSE "switch"
  /\ base' = b
  /\ UNCHANGED <<future, tryIdx>>

\* extend_chain of a rejected block: it and what follows it become invalid.
\* For a block from the future, push_block notes the block it was called with.
reject_block(b) ==
  /\ fork' = mark_invalid(b, verdict(b))
  /\ future' = IF verdict(b) = "future" THEN future \cup {pushed} ELSE future
  /\ GiveUpFork
  /\ UNCHANGED <<undo, applied, headId, header, numToId, base>>

ExtendChain ==
  /\ pc = "switch"
  /\ headId = base
  /\ \E b \in branch :
       /\ Prev[b] = base
       /\ IF verdict(b) = "accepted" THEN apply_block(b) ELSE reject_block(b)
  /\ UNCHANGED <<parallel, clock, pushed, tryNum, branch>>

-----------------------------------------------------------------------------
(* The clock, and a clean shutdown followed by open. *)

Tick ==
  /\ clock < MaxClock
  /\ clock' = clock + 1
  /\ UNCHANGED <<store, chain, local>>

\* open_database makes the noted future blocks, and what follows them,
\* unchecked; open takes the block with the highest number for the head.
Restart ==
  /\ pc = "idle"
  /\ fork' = mark_as_unchecked(future)
  /\ \E n \in Height :
       /\ numToId[n] # Genesis
       /\ \A m \in Height : m > n => numToId[m] = Genesis
       /\ headId' = numToId[n]
       /\ header' = numToId[n]
  /\ UNCHANGED <<parallel, numToId, undo, future, applied, clock, local>>

Step == NextNumber \/ TryFork \/ PopBlock \/ ExtendChain

Next == (\E b \in Block : PushBlock(b)) \/ Step \/ Tick \/ Restart

Spec == Init /\ [][Next]_vars

\* A running push_block does not wait for anything: its next step is taken.
FairSpec == Spec /\ WF_vars(Step)

-----------------------------------------------------------------------------
(* Properties. *)

Range(s) == {s[i] : i \in 1..Len(s)}

\* The variables keep their types; the running push_block only tries numbers
\* and positions that exist.
TypeOK ==
  /\ fork \in [Id -> ForkData]
  /\ parallel \in [Height -> Seq(Block)]
  /\ numToId \in [Height -> Id]
  /\ undo \subseteq Block /\ future \subseteq Block
  /\ applied \in Seq(Block)
  /\ headId \in Id /\ header \in Id
  /\ clock \in Nat
  /\ pc \in {"idle", "try", "switch"}
  /\ pushed \in Id
  /\ tryNum \in Nat /\ tryIdx \in Nat \ {0}
  /\ pc # "idle" => tryNum \in Height /\ pushed \in Block
  /\ branch \subseteq Block /\ base \in Id

\* Between any two steps of any interleaving of pushes, pops, extensions and
\* restarts, the four places that record the main chain agree: the number
\* index, the is_included flags, the head, and the blocks whose changes the
\* state databases hold are all the one path from genesis to the head.
MainChainConsistent ==
  /\ header = headId
  /\ Len(applied) = Num[headId]
  /\ applied # <<>> => headId = applied[Len(applied)]
  /\ \A i \in 1..Len(applied) :
       Prev[applied[i]] = IF i = 1 THEN Genesis ELSE applied[i - 1]
  /\ \A b \in Block : fork[b].included <=> b \in Range(applied)
  /\ \A n \in Height :
       numToId[n] = IF n <= Len(applied) THEN applied[n] ELSE Genesis

\* The blocks that were rejected because a block was from the future, and what
\* opening the database makes unchecked again without trying it.
Deferred ==
  {b \in Block : fork[b].reason = "future"} \cup WithDescendants(future)

\* When push_block returns, no fork that is linked and not known to be invalid
\* is higher than the head: no reachable chain is left untried, except what
\* open has put back for a later push_block.
NoHigherForkLeft ==
  pc = "idle" =>
    \A b \in Block \ Deferred : can_link(fork[b]) => Num[b] <= Num[headId]

\* A failed switch never leaves the node lower than a block it had already
\* applied and found valid, whatever blocks the retries went through.
NeverBelowValidated ==
  pc = "idle" => \A b \in Block : fork[b].valid = "valid" => Num[b] <= Num[headId]

SoundBlocks == {b \in Block : Path[b] \cap (Bad \cup Deferred) = {}}

\* In whatever order the blocks arrive, orphans, forks and rejected switches
\* included, once push_block has returned for all of them the head is as high
\* as the highest block with no rejected block, and none that came before its
\* time, on its path from genesis.
ArrivalOrderIrrelevant ==
  (pc = "idle" /\ \A b \in Block : fork[b].known)
    => \A b \in SoundBlocks : Num[b] <= Num[headId]

\* get_fork_history: "this shouldn't happen if the database invariants are
\* properly maintained".  Every linked block is stored and its parent is
\* linked and lists it, so the walk towards the chain never hits a dead end.
LinkedToGenesis ==
  \A b \in Block : fork[b].linked =>
    /\ fork[b].known
    /\ fork[Prev[b]].linked
    /\ b \in fork[Prev[b]].next

\* switch_to_fork never pops a block whose undo state has been dropped.
UndoStateKept == Popping => headId \in undo

\* push_block: "this throws if block in fork is invalid, then we'll try another
\* fork".  A switch is abandoned only when it has found an invalid block, not
\* because pop_block throws: the age check refuses every "fork older than our undo
\* history would allow us to switch to".
SwitchFailsOnlyIfInvalid ==
  [][(pc = "switch" /\ pc' = "try") => fork'[candidate].valid = "invalid"]_vars

\* The asserts of mark_invalid and recursive_mark_as_invalid: a block that was
\* validated is never invalidated.
ValidatedNeverInvalidated ==
  [][\A b \in Block : fork[b].valid = "valid" => fork'[b].valid # "invalid"]_vars

\* The assert of mark_as_unchecked: opening the database never unchecks a
\* block that was validated.
ValidatedNeverUnchecked ==
  [][\A b \in Block : fork[b].valid = "valid" => fork'[b].valid # "unchecked"]_vars

\* A block from the future "can become valid later": opening the database
\* again makes every block rejected for that reason unchecked.
FutureBlocksRevalidated ==
  \A b \in Block : (fork[b].valid = "invalid" /\ fork[b].reason = "future")
    => b \in WithDescendants(future)

\* "all next blocks need to be updated to change state to 'linked'": a stored
\* block whose parent is linked is linked.
MissingLinkLinks ==
  \A b \in Block : (fork[b].known /\ fork[Prev[b]].linked) => fork[b].linked

\* push_block's loop over numbers and forks ends: the mutex is released.
PushBlockReturns == (pc # "idle") ~> (pc = "idle")

=============================================================================
