--------------------------- MODULE TransactionPool ---------------------------
(***************************************************************************)
(* Transactions of bts::blockchain::chain_database: the pending queue and  *)
(* its fee index, the evaluation of a transaction against an overlay of    *)
(* the state databases, the blocks built from the queue, and the index of  *)
(* known transactions, while the main chain is extended and popped.        *)
(*                                                                         *)
(* The databases of the code are reduced to what one transfer reads and    *)
(* writes: the balances and the collected fees.  The id and the digest of  *)
(* a transaction are one value, since every transaction here has a single  *)
(* signed form.  The hardforks up to BTS_V0_4_26 are in the past.          *)
(***************************************************************************)
EXTENDS Integers, SequencesExt

CONSTANTS
  Trx,             \* transactions, as numbers in the order of their ids
  Digest,          \* order of the keys of _pending_transaction_db
  From, To,        \* the two balances a transaction changes
  Amount, Fee,     \* what it moves and what it pays
  Size,            \* data_size()
  Exp,             \* expiration
  Account, Funds,  \* the balances at genesis
  RelayFee,        \* _relay_fee
  MaxQueue,        \* BTS_BLOCKCHAIN_MAX_PENDING_QUEUE_SIZE
  LastCheckpoint,  \* number of the last of CHECKPOINT_BLOCKS, 0 if none
  MaxExpiration,   \* BTS_BLOCKCHAIN_MAX_TRANSACTION_EXPIRATION_SEC
  MaxTrxCount, MaxBlockSize, MaxTrxSize, MinFee,  \* limits of the producer
  MaxClock, MaxBody, MaxPops, MaxRestarts         \* bounds of the model

VARIABLES
  chain,      \* the main chain: blocks [time, trxs]
  undoState,  \* per block of the chain, the values it overwrote
  bal,        \* _balance_db
  fees,       \* collected_fees of the base asset
  records,    \* the keys of _id_to_transaction_record_db
  unique,     \* the digests in _unique_transactions that a transaction can have
  pendingDb,  \* _pending_transaction_db
  feeIndex,   \* _pending_fee_index
  overlay,    \* the balances seen through _pending_trx_state
  scheduled,  \* the _revalidate_pending task has not run yet
  switching,  \* height that the running switch_to_fork started from, or 0
  clock,      \* bts::blockchain::now(), in block intervals
  pops, restarts  \* how often the chain was popped and the node restarted

state == <<chain, undoState, bal, fees, records, unique>>
pool  == <<pendingDb, feeIndex, overlay, scheduled>>
vars  == <<state, pool, switching, clock, pops, restarts>>

Bodies == UNION {[1..n -> Trx] : n \in 0..MaxBody}

Init ==
  /\ chain = <<>> /\ undoState = <<>>
  /\ bal = Funds /\ fees = 0
  /\ records = {} /\ unique = {}
  /\ pendingDb = {} /\ feeIndex = {} /\ overlay = Funds
  /\ scheduled = FALSE /\ switching = 0
  /\ clock = 1 /\ pops = 0 /\ restarts = 0

\* Time of the head block, or of the slot before the current one at genesis.
now == IF chain = <<>> THEN clock - 1 ELSE chain[Len(chain)].time

-----------------------------------------------------------------------------
(* Evaluation of a transaction. *)

\* transaction_evaluation_state::evaluate does not throw.
evaluates(t, b, dup) ==
  /\ now < Exp[t]
  /\ Exp[t] <= now + MaxExpiration
  /\ ~dup
  /\ b[From[t]] >= Amount[t] + Fee[t]

transfer(b, t) == [b EXCEPT ![From[t]] = @ - (Amount[t] + Fee[t]), ![To[t]] = @ + Amount[t]]

\* A digest found in _unique_transactions without a record of the transaction
\* is a false positive: its block was popped.
is_duplicate(t) == t \in unique /\ t \in records

\* evaluate_transaction on top of the transactions evaluated before it.
evaluate_pending(p, t) ==
  IF evaluates(t, p.bal, t \in p.known) /\ Fee[t] >= RelayFee
  THEN [p EXCEPT !.bal = transfer(p.bal, t), !.kept = @ \cup {t}] ELSE p

\* The pending transactions in the order of their digests, on a fresh overlay.
evaluate_all(known) ==
  FoldLeft(evaluate_pending, [bal |-> bal, kept |-> {}, known |-> known \cap records],
           SetToSortSeq(pendingDb, LAMBDA s, t : Digest[s] < Digest[t]))

-----------------------------------------------------------------------------
(* The pending queue. *)

\* The more the queue exceeds its limit the higher the fee it asks for, except
\* from the node's own transactions.
relay_fee(override) ==
  LET overage == Cardinality(feeIndex) - MaxQueue
  IN  IF ~override /\ overage > 0 THEN RelayFee * overage * overage ELSE RelayFee

StorePendingTransaction(t, override) ==
  /\ switching = 0
  /\ t \notin pendingDb
  /\ evaluates(t, overlay, is_duplicate(t))
  /\ Fee[t] >= relay_fee(override)
  /\ overlay' = transfer(overlay, t)
  /\ feeIndex' = feeIndex \cup {t}
  /\ pendingDb' = pendingDb \cup {t}
  /\ UNCHANGED <<state, scheduled, switching, clock, pops, restarts>>

\* Mutant: the discarded transactions stay in the database.
RevalidatePendingKeep ==
  /\ switching = 0 /\ scheduled
  /\ scheduled' = FALSE
  /\ feeIndex' = evaluate_all(unique).kept
  /\ overlay' = evaluate_all(unique).bal
  /\ UNCHANGED <<pendingDb, state, switching, clock, pops, restarts>>

\* The task that clear_pending left behind, once push_block has returned.
RevalidatePending ==
  /\ switching = 0 /\ scheduled
  /\ scheduled' = FALSE
  /\ feeIndex' = evaluate_all(unique).kept
  /\ pendingDb' = evaluate_all(unique).kept
  /\ overlay' = evaluate_all(unique).bal
  /\ UNCHANGED <<state, switching, clock, pops, restarts>>

-----------------------------------------------------------------------------
(* Blocks. *)

apply_transaction(s, t) ==
  [ok   |-> s.ok /\ evaluates(t, s.bal, is_duplicate(t) \/ t \in s.seen),
   bal  |-> transfer(s.bal, t),
   fees |-> s.fees + Fee[t],
   seen |-> s.seen \cup {t}]

apply_transactions(trxs) ==
  FoldLeft(apply_transaction, [ok |-> TRUE, bal |-> bal, fees |-> fees, seen |-> {}], trxs)

\* Mutant: the values of the balances after the block are saved.
get_undo_state_after(trxs) ==
  [bal  |-> [a \in {From[trxs[i]] : i \in DOMAIN trxs} |-> apply_transactions(trxs).bal[a]],
   fees |-> fees, new |-> ToSet(trxs) \ records, again |-> ToSet(trxs) \cap records]

\* The values the block overwrites, the records it creates and those it replaces.
get_undo_state(trxs) ==
  [bal  |-> [a \in {From[trxs[i]] : i \in DOMAIN trxs} \cup {To[trxs[i]] : i \in DOMAIN trxs}
              |-> bal[a]],
   fees |-> fees,
   new |-> ToSet(trxs) \ records,
   again |-> ToSet(trxs) \cap records]

\* "purge the expired known transactions database": all that expired before
\* the new head block.
purge(known, time) == {t \in known : Exp[t] >= time}

\* Below the last checkpoint the task is not started, and what is pending stays
\* in the database only.
clear_pending(trxs) ==
  /\ pendingDb' = pendingDb \ ToSet(trxs)
  /\ feeIndex' = {}
  /\ overlay' = bal'
  /\ scheduled' = (scheduled \/ Len(chain') >= LastCheckpoint)

\* extend_chain of a block that is accepted.  A switch is over when the chain
\* is as high as it was.
extend_chain(time, trxs) ==
  /\ chain # <<>> => time > now
  /\ apply_transactions(trxs).ok
  /\ chain' = Append(chain, [time |-> time, trxs |-> trxs])
  /\ undoState' = Append(undoState, get_undo_state(trxs))
  /\ bal' = apply_transactions(trxs).bal
  /\ fees' = apply_transactions(trxs).fees
  /\ records' = records \cup ToSet(trxs)
  /\ unique' = purge(unique \cup ToSet(trxs), time)
  /\ clear_pending(trxs)
  /\ switching' = IF Len(chain') >= switching THEN 0 ELSE switching
  /\ UNCHANGED <<clock, pops, restarts>>

PushBlock == \E time \in 1..clock, trxs \in Bodies : extend_chain(time, trxs)

\* Mutant: a pending transaction is trusted to be valid in the block.
consider_unevaluated(s, t) ==
  [bal |-> s.bal, size |-> s.size + Size[t], trxs |-> Append(s.trxs, t)]

\* One turn of the loop of generate_block; a transaction counts towards the
\* size of the block before it is known to be part of it.
consider(s, t) ==
  IF \/ Size[t] > MaxTrxSize
     \/ s.size + Size[t] > MaxBlockSize
     \/ Len(s.trxs) >= MaxTrxCount
  THEN s
  ELSE IF evaluates(t, s.bal, is_duplicate(t)) /\ Fee[t] >= MinFee
  THEN [bal |-> transfer(s.bal, t), size |-> s.size + Size[t], trxs |-> Append(s.trxs, t)]
  ELSE [s EXCEPT !.size = @ + Size[t]]

\* get_pending_transactions: highest fee first, lowest id in ties.
pending_by_fee ==
  SetToSortSeq(feeIndex, LAMBDA s, t : Fee[s] > Fee[t] \/ (Fee[s] = Fee[t] /\ s < t))

\* The block built when the production time runs out after k transactions.
generated(k) ==
  FoldLeft(consider, [bal |-> bal, size |-> 0, trxs |-> <<>>],
           SubSeq(pending_by_fee, 1, k)).trxs

\* delegate_loop: generate a block for the current slot and push it, without
\* giving another task the chance to run in between.
GenerateBlock ==
  /\ switching = 0
  /\ \E k \in 0..Cardinality(feeIndex) : extend_chain(clock, generated(k))

\* store_transaction of the record that was there before: the digest is still
\* known, and the record of the popped block exists.
is_restored_twice(u, t) == t \in u.again /\ Exp[t] > now /\ is_duplicate(t)

\* The records in `done' are put back, in whatever order the unordered map has.
restore_transactions(u, done) ==
  /\ records' = records \ (u.new \cap done)
  /\ unique' = unique \cup {t \in u.again \cap done : Exp[t] > now}

\* One block of switch_to_fork; the first block, and those below the last
\* checkpoint, have no state to go back to.  Balances and fees are restored
\* before the transactions.  A transaction that was in the chain before this
\* block throws duplicate_transaction; the head stays, the switch is given up.
\* The pending queue is not touched.
PopBlock ==
  /\ Len(chain) > 1 /\ Len(chain) > LastCheckpoint
  /\ pops < MaxPops
  /\ pops' = pops + 1
  /\ LET u == Last(undoState)
         throws == {t \in u.again : is_restored_twice(u, t)}
     IN  /\ bal' = [a \in Account |-> IF a \in DOMAIN u.bal THEN u.bal[a] ELSE bal[a]]
         /\ fees' = u.fees
         /\ \/ /\ throws = {}
               /\ restore_transactions(u, u.new \cup u.again)
               /\ chain' = Front(chain)
               /\ undoState' = Front(undoState)
               /\ switching' = IF switching = 0 THEN Len(chain) ELSE switching
            \/ /\ throws # {}
               /\ \E done \in SUBSET ((u.new \cup u.again) \ throws) : restore_transactions(u, done)
               /\ UNCHANGED <<chain, undoState, switching>>
  /\ UNCHANGED <<pool, clock, restarts>>

Tick ==
  /\ clock < MaxClock
  /\ clock' = clock + 1
  /\ UNCHANGED <<state, pool, switching, pops, restarts>>

\* open_database collects the digests of the transactions that have not expired,
\* but computes them before _chain_id is set: evaluate looks for none of them.
collected_digests == {}

\* open.  The pending transactions are evaluated again, none is discarded.  (Without
\* a block the index directory is rebuilt instead.)
Restart ==
  /\ switching = 0 /\ chain # <<>>
  /\ restarts < MaxRestarts
  /\ restarts' = restarts + 1
  /\ unique' = collected_digests
  /\ feeIndex' = evaluate_all(unique').kept
  /\ overlay' = evaluate_all(unique').bal
  /\ scheduled' = FALSE
  /\ UNCHANGED <<chain, undoState, bal, fees, records, pendingDb, switching, clock, pops>>

Next ==
  \/ \E t \in Trx, override \in BOOLEAN : StorePendingTransaction(t, override)
  \/ RevalidatePending
  \/ PushBlock
  \/ GenerateBlock
  \/ PopBlock
  \/ Tick
  \/ Restart

Spec == Init /\ [][Next]_vars

\* The fc scheduler runs the revalidation task, the clock advances, and some
\* delegate produces a block in the last slot of the model.
FairSpec ==
  /\ Spec
  /\ WF_vars(RevalidatePending)
  /\ WF_vars(Tick)
  /\ WF_vars(GenerateBlock)

-----------------------------------------------------------------------------
(* Properties. *)

\* The variables keep their types: no balance of the databases or of the overlay
\* is ever overdrawn, and every block of the chain has its undo state.
TypeOK ==
  /\ \A i \in 1..Len(chain) : chain[i].time \in 1..MaxClock /\ chain[i].trxs \in Seq(Trx)
  /\ Len(undoState) = Len(chain)
  /\ bal \in [Account -> Nat] /\ overlay \in [Account -> Nat] /\ fees \in Nat
  /\ records \subseteq Trx /\ unique \subseteq Trx
  /\ pendingDb \subseteq Trx /\ feeIndex \subseteq Trx
  /\ scheduled \in BOOLEAN
  /\ switching \in 0..MaxClock /\ clock \in 1..MaxClock

AllTrxs == FlattenSeq([i \in 1..Len(chain) |-> chain[i].trxs])

\* No transaction is in the main chain twice: "purge the expired known
\* transactions database, they cannot no longer fork us".
TransactionOnce ==
  \A i, j \in 1..Len(AllTrxs) : AllTrxs[i] = AllTrxs[j] => i = j

\* The state databases are a function of the main chain: whatever blocks were
\* applied, popped, half popped and applied again, balances, collected fees and
\* transaction records are those of replaying the blocks of the chain from
\* genesis, as long as the chain holds no transaction twice.
StateIsReplayOfChain ==
  TransactionOnce =>
  /\ bal = FoldLeft(transfer, Funds, AllTrxs)
  /\ fees = FoldLeft(LAMBDA f, t : f + Fee[t], 0, AllTrxs)
  /\ records = ToSet(AllTrxs)

\* The overlay that new transactions are evaluated against is the chain state
\* with exactly the transactions of the fee index applied, and these are the
\* pending ones unless a revalidation is due or the node was restarted, or the
\* chain is below the last checkpoint.  (A chain with a transaction in it twice
\* may have been popped half-way.)
OverlayMatchesIndex ==
  switching = 0 /\ TransactionOnce =>
    /\ overlay = FoldLeft(transfer, bal, SetToSeq(feeIndex))
    /\ feeIndex \subseteq pendingDb
    /\ (~scheduled /\ restarts = 0 /\ Len(chain) >= LastCheckpoint) => feeIndex = pendingDb

\* Whatever is pending, and wherever the production time runs out, the block
\* that generate_block builds is one that extend_chain accepts.
GeneratedBlockApplies ==
  switching = 0 => \A k \in 0..Cardinality(feeIndex) : apply_transactions(generated(k)).ok

\* "returns all transactions that are valid (independent of each other)": each
\* one evaluates on the state of the chain, without the others.
PendingIndependent ==
  switching = 0 => \A t \in feeIndex : evaluates(t, bal, is_duplicate(t))

\* No transaction is pending for ever: it is included, or discarded when it
\* has expired or can no longer be applied.  Left out: a chain below the last
\* checkpoint, where nothing is revalidated, and behaviours with a fork switch
\* or a restart, after which the slots of the model may be used up.
PendingSettles ==
  \A t \in Trx : (t \in pendingDb) ~>
    \/ t \notin pendingDb
    \/ Len(chain) < LastCheckpoint
    \/ pops > 0 \/ restarts > 0

=============================================================================
