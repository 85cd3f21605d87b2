# A verification project for BitShares

TLA+ models of the parts of this repository where replicas can diverge, stall or
lose state: the block tree and the choice of the main chain, the databases below
it with crashes and re-indexing, the transactions and the pending queue, the
accounts and the delegate schedule, the market of a BitAsset, the
synchronisation of the chain between nodes and the exchange of new items. TLC
checks them on small instances; TLAPS proves the theorems of
`ChainDatabaseProofs`, `CachedLevelMapProofs` and `ChainOpenProofs` for every
instance.
`PROJECT.json` maps every definition to the lines of `src/` it stands for and
lists the hazards behind the properties.

## The system and its parts

A client (`libraries/client`) owns a chain database (`libraries/blockchain`), a
p2p node (`libraries/net`), a wallet (`libraries/wallet`) and a mail client
(`libraries/mail`), and serves them by rpc and by a command line. Time is cut
into slots of ten seconds; 101 delegates, elected by the votes that go with
every balance, take turns in producing a block per slot.

| part | state | operations | what makes it hard |
|---|---|---|---|
| block tree, main chain (`chain_database.cpp`) | `_fork_db`, `_fork_number_db`, `_block_num_to_id_db`, `_undo_state_db`, `_revalidatable_future_blocks_db`, head | `push_block`, `store_and_index`, `get_fork_history`, `switch_to_fork`, `pop_block`, `extend_chain`, `open` | blocks in any order, placeholders for missing parents, switches that fail half-way, undo history of limited depth, blocks from the future |
| transactions, pending queue (`chain_database.cpp`, `transaction_evaluation_state.cpp`, `pending_chain_state.cpp`) | `_pending_transaction_db`, `_pending_fee_index`, `_pending_trx_state`, `_unique_transactions`, records, balances | `store_pending_transaction`, `revalidate_pending`, `clear_pending`, `generate_block`, `apply_transactions`, undo | an asynchronous revalidation, dependent transactions, expiry against two clocks, pops |
| summary of a chain (`client.cpp`, `node.cpp`) | none | `get_blockchain_synopsis`, `create_blockchain_synopsis_for_peer`, `get_item_ids` | two halves of one sequence computed by two parts, integer division |
| synchronisation (`node.cpp`, `peer_connection.cpp`) | per peer the ids to get, being processed and requested; requests, received blocks, calls of the client | list of ids, fetch loop, arrival, backlog, end of a call, closing, fork switch of a peer | the same block from several peers, reordering, disconnects, a bounded number of calls |
| inventory of normal operation, connections (`node.cpp`, `peer_connection.cpp`) | lists of connections, items to fetch, items offered and advertised, message cache | advertise, fetch, arrival, throttling, timeouts, closing | loops that sleep until triggered, requests on connections that end |
| accounts, delegate schedule (`chain_database.cpp`, `account_operations.cpp`, `wallet.cpp`) | account records, indexes by key and by votes, active delegates, slot records, production statistics | register, update, retract, change keys, vote, withdraw pay, missed slots, shuffle, undo, signing | indexes updated from two versions of a record, one index for keys of three roles, empty slots at a round boundary |
| market (`market_operations.cpp`, `market_engine_v7.cpp`) | orders, margin positions, fees, supply | bid, ask, short, cover, add collateral, execute | rounding, iterators over records that change, positions that merge, expire or run dry |
| operations and ledger (`*_operations.cpp`) | balances, assets, votes | evaluate each operation | conservation, hard forks |
| databases (`libraries/db`), opening (`chain_database.cpp`) | cached level maps, index and raw directories | store, remove, flush, write-through, open, re-index | kills between writes, postponed writes, refused writes |
| wallet, mail, rpc, cli, light wallet | keys, records, queues | scan, sign, send, login | reorganisations under the wallet, retries |

The node calls the client (`handle_message`, `has_item`, `get_item_ids`), the
client pushes blocks and transactions into the chain database and produces
blocks from its pending queue, and the wallet follows the chain as an observer.

## Modules

### `ChainDatabase`: block tree and main chain

The tree of all blocks that are ever produced is a constant (`Block`, `Prev`,
`Num`, `Time`, `Bad`); a block's content is reduced to whether evaluation
accepts it. `fork` is `_fork_db`, an entry without `known` and with `next` blocks
is the placeholder of a missing parent. `push_block` is a small-step program:
`PushBlock` (age check, `store_and_index`), then `NextNumber` and `TryFork` for
the loop over block numbers and parallel blocks, `PopBlock` and `ExtendChain` for
`switch_to_fork`. It holds its mutex all the time, which is why no second push
interleaves; the steps show the states in between. `pop_block` keeps the order of
the writes: flags and number index first, then the undo state, then the head,
then the header, with the two places where it throws. `Restart` is a clean
shutdown and `open`. Asserts are taken as absent, as in a release build, and
checked as properties.

### `CachedLevelMap` and `DurableMap`: one cached database

`CachedLevelMap` is `bts::db::cached_level_map` operation by operation. A read is
answered from `cache`; a write goes to the database at once or leaves its key in
`dirty_store` or `dirty_remove`. LevelDB may refuse a write (`refused` remembers
the key), and the process may be killed (`Crash`). `DurableMap` is what its users
rely on: a map, the copy that a crash falls back to, and the keys on which the two
may differ. `Abs` in `CachedLevelMap` is the refinement mapping.

### `ChainOpen`: opening, crashes and re-indexing

The directories `index` and `raw_chain` are on disk, `mem` is the
`chain_database` object, and `pc` runs through `open_database`, `open`, the loop
over the raw blocks (stop-and-copy from `id_to_data_orig`), and the writes of
`push_block`. `Crash` may come between any two writes; the environment closes the
node, and starts it with `--rebuild-index`, `--resync-blockchain` or a newer
database version. The cached databases are two: the first that is written, and
all the others. The chain has no forks, as `ChainDatabase` has them. Assumed: one
write, removal or renaming is atomic, and what was written survives, as it does
when a process is killed and not when power fails. `torn` records the kills that
leave state behind by design of the code (the TODO at `chain_database.cpp:1254`).

### `TransactionPool`: transactions and block production

Balances and fees are all the state a transfer reads or writes. `overlay` is what
is seen through `_pending_trx_state`, `scheduled` the revalidation task that
`clear_pending` leaves behind. Blocks are pushed with any body that evaluates
(`PushBlock`), or built from the fee index (`GenerateBlock`, with production
ending after any number of transactions). `PopBlock` restores what
`get_undo_state` saved, or throws half-way when `store_transaction` finds the
transaction of an earlier block in the chain again; `switching` is the height to
be overtaken again, so that the pool is only looked at when no switch is running.
`Restart` loses the known transactions: `open_database` computes their digests
(`chain_database.cpp:152-157`) before `_chain_id` is set (`:1399`), so that none of
them is one that `evaluate` looks for. Id and digest of a transaction are one
value: malleability of signatures is not modelled.

### `Delegates`: accounts, schedule and production

`db` is the account records with `_address_to_account_db` and
`_delegate_vote_index_db`; `store_account_record` updates the three as the code
does, from the previous and the new record. A block (`ExtendChain`) comes from
the scheduled delegate in any later slot: `sign_block`, the checks of the header,
production info and pay, up to `MaxOps` operations evaluated through the overlay,
the active list at the end of a round (from the ranking before the block, with
every outcome of the shuffle), the undo state and `apply_changes`, which stores
the accounts of an unordered map in any order. A block whose operations or header would be refused is not applied, so
there is no action for it. `PopBlock` applies the undo state with the same
`store_account_record`. `before` is a history variable. Simplified: pay is a
constant per block and is withdrawn as a whole, a vote moves one unit, an account
is not retracted and made a delegate in one operation.

### `MarketEngine`: one BitAsset market

The order operations of a block, and the execution at the start of the next one
by `market_engine_v7`. `market_engine.cpp` takes over at hard fork 0.4.29, which is
block 9999999. `db` is what the iterators see, `eng` the engine, and `eng.pend` the
pending state it writes, dropped when `execute` throws. One action is one round
of the matching loop, with `get_next_bid` and `get_next_ask`; `pay_current_*` and
the operations are operators. Prices are integers over `Precision`, and products
and quotients truncate where the code does. `leak` is a history variable: it
counts the shares that the code itself drops (below), so that `XTSAccountedFor`
and `USDBacked` hold to the last share. Simplified: no transaction fees; the
median feed is any of `Prices` or absent, and changes with a feed (`update_feed`,
which makes the next block execute the market) or without one (`FeedExpires`);
interest is the exact quotient rounded
down; prices are positive; relative orders and price history are out.

Where the code loses shares, as counted in `leak` or visible in the model:

* what is left of an ask is collected in the record of the other asset
  (`market_engine_v7.cpp:241`), see `DustGoesToFees`;
* a short that pays 0 returns early, and what the ask paid is gone (`:378`);
* a cover or added collateral that moves a position to the call price of another
  position of the owner replaces it (`market_operations.cpp:381`, `:424`);
* a position whose collateral runs out takes the rest of its debt from the
  collected fees, which may become negative;
* a short that merges into the expired position it is matched with is lost when
  the engine stores that position again;
* collateral added to a position that was removed in the same block makes a
  position without debt that nobody can cover;
* an execution that throws is not repeated until an order or a feed touches the
  market.

Read in `market_engine.cpp` and not modelled: positions are called when they
expire (`market_records.hpp:227`, "after expiration the collateral is forced to
be called"), but `store_collateral_record` never enters a new position in
`_collateral_expiration_index`.

### `Synopsis`: summary of a chain and answer

Operators only. `MCSynopsis` makes one request and one answer of every pair of
chains up to a height. Left out is the exception of `get_item_ids` for a summary
of more than `_blockchain_synopsis_size_limit` ids (`client.cpp:943`), the
logarithm of 20 years of blocks: `SynopsisLogarithmic` bounds the summary of a
chain that is not that long.

### `NodeSync`: synchronisation of one node with its peers

Each peer is a record with the sync fields of `peer_connection` and two queues of
messages; a connection delivers in order until it closes. The node is a set of
fibers on one thread, so a handler is one action. The calls of the client are
where fibers change: `ProcessBacklog` starts a call, `HandleMessage` is the
client's work, `FinishCall` what `send_sync_block_to_node_delegate` does after
it; a block of normal operation is handed over by
`ProcessBlockDuringNormalOperation`, and `FinishNormalBlock` is what follows the
call, while the connection reads no other message. `fetchDue` and `backlogDue` are the scheduled tasks. Peers run the same
program and are honest: they answer from their main chain (`PeerAnswers`), which
may switch to another fork (`PeerSwitches`), may lack blocks (`Missing`), may ask
back (`OnFetchBlockchainItemIds`) and may go away. The client is reduced to
which blocks it has, its head, and its verdict.

Simplified: `_most_recent_blocks_accepted` is a set without the limit of 200;
`has_item` does not yield; hard forks and the check of an implausible number of
blocks are out.

### `NodeInventory`: blocks and transactions in normal operation

Again a handler, and an iteration of `fetch_items_loop` or
`advertise_inventory_loop`, is one action, and fibers change in the call of the
client only (`handling`). Per peer: what it offered and was told, what was asked
of it, whether it is busy with synchronisation, throttled, closing or
terminating. `old` is the inventory past its two minutes. Connections time out,
are closed from either side, and their requests go back to `toFetch`. A rejected
block disconnects any of the peers, since `ids_of_items_to_get` is not part of
this model. Simplified: the hash of a message is the id of the block in it;
`recent` has no limit; a renewed penalty moves the running timer; a connection
that was closed does not come back; handshake, keepalives and hard forks are out.

## Runs

| run | instance | shows |
|---|---|---|
| `forks` | 9 blocks, 3 forks, one block rejected, two early ones, in every order, with clock and restarts | the records of the main chain agree in every intermediate state; no linked fork higher than the head is left, but for blocks that wait for their time; the order of arrival does not matter; a failed switch never leaves the node below a block it had validated, no validated block is invalidated; the loop ends |
| `deep` | a fork that starts below the undo history | counterexample: a switch is abandoned although no block is invalid |
| `pool` | 3 transactions, one depending on another, expiring, with pops, a restart and a checkpoint | the overlay is the chain with exactly the index applied; the databases are those of replaying the chain; a produced block is always accepted; nothing stays pending for ever |
| `purge` | the same without restart and checkpoint | counterexample: a transaction is in the chain twice |
| `delegates` | 2 active delegates of 3, a fourth account, 2 spare keys, 3 blocks in 5 slots with 3 operations | the ranking holds the current votes, the schedule is complete, every slot is counted once, no address leads to the wrong account, and a pop brings back records, ranking, list and confirmations |
| `synopsis` | all chains up to 12 blocks | the summary ends in the last block known, is logarithmic, and the answer continues the chain without a gap |
| `fork_sync` | two peers, fork switch, a missing block, one disconnect, one question, one block by inventory | no block is requested twice at a time, blocks reach the client in order, a peer whose list is done is asked for more |
| `stall` | two peers with the same 4 blocks | counterexample: blocks that have arrived are never handed to the client |
| `level_map` | 3 keys, 2 values | cache and database differ in accounted keys only; the cached map implements `DurableMap` |
| `open` | 4 blocks, flush after 2, 3 kills | the state is that of the head after every kill outside the named windows; no block is lost; the node always gets up again |
| `market` | 2 owners, 3 books, 3 operations, 3 blocks | XTS and USD are accounted for to the last share, limits are respected, the book is not crossed after an execution, the engine is never caught in its loop, no position opens under water |
| `inventory` | 2 peers, two blocks and a transaction | a wanted item is on the list, requested or in the client's hands as long as a peer offers it; blocks go before transactions, and both in the order they were heard of; what was asked for is fetched in the end, from whoever offers it |

`OverlayMatchesIndex` and `StateIsReplayOfChain` are stated for chains that hold no
transaction twice, which `TransactionOnce` shows to be a condition: with a
transaction in the chain twice the undo of a block fails half-way. `PendingSettles`
leaves out chains below the last checkpoint, where nothing is revalidated, and
behaviours with a pop or a restart, after which the slots of the model may be used
up. `NoHigherForkLeft` and `ArrivalOrderIrrelevant` leave
out blocks that were refused because of their time and those noted for the next
start, with their descendants; what becomes of these is `FutureBlocksRevalidated`
below.

These properties hold on the same instances and are not listed in a
configuration: `TypeOK` of every module that has one, `UndoStateKept` and
`SwitchFailsOnlyIfInvalid` in `MCForks.cfg`, whose forks all start within the undo
history, `OnlyRequestedBlocks` in `MCForkSync.cfg`, `CommitmentOnChain` in
`MCDelegates.cfg`, `WriteThroughSaved` in `MCLevelMap.cfg`, `MainChainReadable` in
`MCOpen.cfg`. With one peer every block arrives and the node finds out that it is
in sync (`BlocksArrive` and `SyncEnds` in `MCSync.cfg`).

### Disagreements

Comments, messages and asserts of the code that the model refutes. The first three
are runs, the next three have a configuration that ends in a counterexample; the
property of each other row fails when it is added to a configuration with the
instance named.

| property | instance | statement | what the code does |
|---|---|---|---|
| `SwitchFailsOnlyIfInvalid` | `MCDeep.cfg` | `chain_database.cpp:1703`, "this throws if block in fork is invalid"; message at `:1665`, "on a fork older than our undo history would allow us to switch to" | the age check looks at the number of the block, not at the fork point: `pop_block` meets a block without undo state and throws, with the flags and the number of the head already removed |
| `TransactionOnce` | `MCPurge.cfg` | `chain_database.cpp:1112`, "purge the expired known transactions database, they cannot no longer fork us" | a pop moves time back behind the purge, and the transaction is included again |
| `BlocksArrive` | `MCStall.cfg` | `node.cpp:2982`, "start iterating _received_sync_items from the beginning" | the loop ends at a block that was accepted already |
| `SigneeFound` | `MCSignee.cfg` | assert at `chain_database.cpp:1490`, the signee of the head is a delegate | a change of the active key removes the address that is still the signing key (`:1913`) |
| `ActiveRequestsOutstanding` | `MCNotAvailable.cfg` | `node.cpp:417`, "list of sync blocks we've asked for from peers but have not yet received" | the request of a block that is not available stays open (`:2533`), and nobody else is asked |
| `DustGoesToFees` | `MCDust.cfg` | comment at `market_engine_v7.cpp:555`, "XTS goes to fees" | the call at `:241` passes the record of the quote asset, and XTS are counted as USD |
| `NoBlockLost` | `MCOpen.cfg` | `client.cpp:112`, "preserves the raw blockchain data" | a re-index that is killed and started again renames the new, shorter copy |
| `WantedIsOffered` | `MCInventory.cfg` | `node.cpp:437`, "list of items we know another peer has and we want" | items stay on the list when the peers that offer them are gone |
| `AdvertisedIsHeld` | `MCInventory.cfg`, `CacheDuration = 0` | `node.cpp:2573`, "if we have already advertised it to a peer, we must have it" | the cache forgets by blocks, the advertisement by minutes; in the code the cache holds two blocks |
| `OffersSettle` | `MCInventory.cfg` | none; an item that was offered is fetched | an item that is still on the list when another peer offers it triggers nothing (`node.cpp:2587`), nor does a peer that becomes idle at the end of a sync request; the item waits for other news |
| `TransactionOnce` | `MCPool.cfg` | `chain_database.cpp:152`, the known transactions are collected at start | their digests are those of another chain id, so that a transaction is included again after a restart |
| `SyncEnds` | `MCStall.cfg` | `node.cpp:2831`, "we will want to send another request to find out if we are in sync" | the list of a peer never becomes empty, as in `BlocksArrive` |
| `FutureBlocksRevalidated` | `MCForks.cfg` | comment at `chain_database.cpp:1738` | notes the pushed block, not the one that is in the future |
| `UndoStateKept` | `MCDeep.cfg` | message at `chain_database.cpp:1665` | looks at the number of the block, not at the fork point |
| `SecretRevealed` | `MCSignee.cfg` | comment at `wallet.cpp:1705`, assert at `wallet.cpp:1716` | takes the last or last but one key, wrong after a change in the delegate's own block or two changes between its blocks; the delegate cannot sign any more |
| `RetractedNotScheduled` | `MCSignee.cfg` | `wallet_api.json:2752`, "Retract (permanently disable)" | a retraction that leaves the votes unchanged leaves the entry in the ranking |
| `PopRestoresKeys` | `MCSignee.cfg` | `pop_block` undoes a block | entries lost before the block reappear, so that nodes that popped a block refuse other keys than nodes that did not |
| `SlotRecordsOnChain` | `MCSignee.cfg`, `TrackStats = TRUE` | `pending_chain_state.cpp:220`, the record meant to be invalid | the null record is stored at time 0, the record of the popped block stays |
| `ValidatedNeverUnchecked` | `MCForks.cfg` | assert at `chain_database.cpp:644` | a noted block that was applied later is unchecked at the next start |
| `SwitchFailsOnlyIfInvalid` | `Genesis*` tree | comment at `chain_database.cpp:1703` | popping block 1 throws, with the head id already changed |
| `MissingLinkLinks` | `Link*` tree, `Bad = {a1}` | comment at `chain_database.cpp:501` | blocks waiting below an invalid parent stay unlinked |
| `PendingIndependent` | `MCPool.cfg` | comment at `chain_database.cpp:2233` | pending transactions may depend on each other |
| `ProcessingInCalls` | `MCStall.cfg` | comment at `peer_connection.hpp:160` | a block that was accepted already stays in the list for ever |
| `ListFollowsNumber` | `OneChain`, `Stored = {1, 2}` | comment at `peer_connection.hpp:166` | counts from zero although the list starts later |
| `UnfetchedNotNegative` | `TwoForks` | comment at `node.cpp:490` | the unsigned counter wraps below zero |

### Bounds

* `ChainDatabase`: `Forks` has two forks that overtake each other, one of them with
  early blocks, and a third that fails; the clock passes the times at which these
  are accepted. `Deep` has a fork point beyond `MaxUndo`. All
  orders of arrival are explored.
* `TransactionPool`: three transactions give a dependency, a conflict and a tie;
  `MaxBody`, `MaxClock`, `MaxPops` and `MaxRestarts` bound block size, slots,
  popped blocks and restarts. `MaxQueue` 0 makes the rising relay fee apply.
* `Delegates`: with two active delegates a round ends at block 2; three operations
  free a key, take it and change it again; a gap of three slots reaches the upper
  limit of the confirmation requirement. The two spare keys are symmetric.
* `CachedLevelMap`: one key that is stored, one that is removed, one untouched.
* `ChainOpen`: `FlushInterval` 2 of 4 blocks puts two flushes into a re-index; three
  kills hit normal operation, the re-index that follows and the attempt after it;
  `IdOrder` is an order of ids in which no block comes in its place.
* `MarketEngine`: two owners at two prices with a tie; the three books are a market
  before its first feed, one with safe positions and one after the feed fell.
  `Precision` 12 makes prices of 1/4 and 1 with remainders, `DustLimit` 2 an order that
  is too small. With three operations and three blocks positions are called, expire,
  merge and run out of collateral.
* `NodeInventory`: one of the two peers offers all items, the other one of the
  blocks, so that a request can go to another peer and items of one type compete;
  `TrxLimit` 0 and `FullLimit` 1 let both limits apply. `MaxEvents` 1 allows one
  request of synchronisation, broadcast or ageing, and `Syncing` the second peer to
  be the one that is busy with synchronisation.
* `NodeSync`: `Word` stands for 2^32. `MaxClosed`, `MaxAsks` and `MaxNormal` bound
  what the environment does. `MaxPerPeer`, `MaxCalls` and `MaxBacklog` are 1 or 2
  so that batches end, calls run out and fetching is suspended. `MinPrefetch`
  exceeds the chain: the list of ids is complete before the first block is
  fetched, as it is when less than 10000 blocks are missing. With a smaller
  `MinPrefetch` the model stalls when all listed blocks arrive before they are
  processed, because ids are then asked for neither on arrival nor at the end of
  a call; the code relies on 10000 being larger than all that can be under way.

Deadlock is checked for `ChainDatabase`, `CachedLevelMap`, `ChainOpen` and
`Delegates`. The other models stop when their bounds
are used up or the chain is synchronised.

### Fairness

`ChainDatabase`: a running `push_block` waits for nothing and asserts that it is
not preempted, so its next step is taken. `TransactionPool`: the scheduler runs
the revalidation task, the clock advances, and in the last slot of the model a
delegate produces. `NodeSync`: every fiber that is ready gets its turn (weak
fairness of each task and handler), the client returns from a call, a connected
peer answers (the code terminates one that does not) and a closing connection
closes. Nothing is assumed of disconnects, questions or inventory.
`ChainOpen`: a process that was started goes on, and one that stopped is started
again. `NodeInventory`: the node does not stop while a triggered loop, the return
of the client, the end of a penalty or timeout, or the end of the read loop of a
socket that we closed is due; nothing is assumed of the peers. The code reaps a
connection whose read loop does not end by `connection_terminated_time`, which is
never set (`peer_connection.cpp:327`), hence the assumption on sockets.

## Proofs

`ChainDatabaseProofs` assumes only the tree (`TreeAssumption`: a block has a
parent and the number after it) and natural bounds (`BoundAssumption`). The set
of blocks may be infinite.

* `TypeCorrect`: `TypeOK` is inductive. The case that needs work is the number
  tried by `push_block`, which stays in `Height` because below every number of a
  block, down to 1, there is a block (`HeightBelow`).
* `AlwaysLinkedToGenesis`: `LinkedToGenesis` is not inductive, because linking the
  descendants of a filled placeholder follows `next` lists. `LinkInv` adds that
  `next` lists exactly the stored children, and that genesis is linked.
  `DescendantsStep` says what the closure along the lists reaches,
  `StoreKeepsLinks` treats a new block and a filled placeholder, `MarksKeepLinks`
  the operations that leave the links alone.
* `ForkHistoryHasNoDeadEnd`: hence the exception "we hit a dead end, this fork
  isn't really linked!" of `get_fork_history` is never thrown for a linked block.

`CachedLevelMapProofs` assumes only that `NoValue` is not a value; keys and values
may be infinite.

* `AlwaysAccounted`: `DirtyAccountsForChanges` with `TypeOK` is inductive, one lemma
  per operation. It says more than the difference between cache and database: a
  key in `dirty_store` is in the cache and one in `dirty_remove` is not, so that
  the order of the two loops of `flush` does not matter, and nothing is dirty in
  write-through mode. Without these a flush might write back a removed key.
* `AlwaysSavedInWriteThrough` and `FlushAlwaysBuilds` follow from it: in
  write-through mode every accepted write is in the database, and `_cache.at` in
  `flush` never throws.
* `Refinement`: every step of the cached map is a step or a stutter of `DurableMap`
  under the mapping `Abs`, again one lemma per operation. Opening is a stutter, and
  a refused write leaves its key in `refused` on both levels.

`ChainOpenProofs` needs no assumption on the constants.

* `AlwaysRecovered`: `StateRecovered` speaks of an open database only. `Recovery` is
  the inductive invariant: until the loop over the raw blocks, the state on disk is
  that of the last number on disk or genesis never reached the disk
  (`Recoverable`); from then on the numbers are those up to the head, the caches
  are at the head or one block ahead within `apply_changes`, and in write-through
  mode they are what is on disk. One lemma per step of the process and of the
  environment. The work is in `FindHead` (the last number is the end of the
  interval, `LastNumber`) and in `Crash`, where each of the steps leaves either a
  recoverable disk or a mark in `torn`. TLC checks `Recovery` on `MCOpen.cfg` too.

Only model-checked: `MainChainConsistent` (false in general, see the deep and the
genesis fork above; a proof needs the assumption that no fork is that deep),
`ChainSurvives` (its proof needs what `SelectSeq` selects, an induction over
sequences), all properties of the modules without a proof module, liveness, and
what the recursive definitions of `Synopsis` compute.

## Not modelled, and the plan

`PROJECT.json` lists every component with its status. In this order:

1. The delegate loop of the client with its clock: that no delegate produces twice
   in a slot. Lemmas on `store_account_record` of `Delegates`, proved for one
   record at a time.
2. `PendingChainState`: overlay and undo of the remaining kinds of record (slates,
   assets, burns, objects, feeds). `generate_block` uses an overlay per transaction,
   `extend_chain` one for the block: that both accept the same blocks.
3. `Ledger`: withdrawal conditions, asset operations, yield; conservation of supply
   and of votes, proved as an invariant.
4. The engine of `market_engine.cpp`, when its hard fork gets a block number;
   relative orders.
5. The handshake and the potential peer database; `NodeInventory` composed with
   `NodeSync`, `ChainOpen` with `CachedLevelMap` for each database.
6. Wallet scanning under reorganisations, the queues of the mail client, the
   login state of rpc connections.
7. Proofs: consistency of the main chain for forks within the undo history;
   `ActiveRequestsOutstanding` of `NodeSync` without missing blocks; the overlay
   of `TransactionPool`; `XTSAccountedFor`, which needs sums over finite functions.

Left out for good: the engines and operations of earlier hard forks (used only
to replay old blocks), encodings and cryptography (model values here), the
generated api, command line formatting, UPnP and foreign wallet importers.
