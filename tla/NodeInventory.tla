---------------------------- MODULE NodeInventory ----------------------------
(***************************************************************************)
(* Blocks and transactions in normal operation of                          *)
(* bts::net::detail::node_impl: peers advertise the ids of items, the node *)
(* remembers who offers what, asks one peer at a time for an item, hands   *)
(* what arrives to the client and advertises what the client accepts.      *)
(*                                                                         *)
(* The node is a set of fibers on one thread.  A handler runs in the read  *)
(* loop of its connection; the only call in which others get a turn is     *)
(* handle_message of the client, and while it lasts neither the next       *)
(* message nor the end of that connection is seen.  An iteration of a loop *)
(* is one step: sending only queues a message.                             *)
(*                                                                         *)
(* Synchronisation is there as far as it keeps a peer busy (NodeSync has   *)
(* the rest).  Out of the model: the handshake, hard forks, keepalives,    *)
(* firewall checks, the database of potential peers.                       *)
(***************************************************************************)
EXTENDS Integers, FiniteSetsExt, SequencesExt

CONSTANTS
  Peer,            \* connections: one that was closed does not come back
  Block, Trx,      \* the ids of the two types of item
  Offers,          \* per peer, the items that it may advertise
  Own,             \* the items that the client itself broadcasts
  TrxLimit,        \* is_inventory_advertised_to_us_list_full_for_transactions
  FullLimit,       \* is_inventory_advertised_to_us_list_full
  CacheDuration,   \* cache_duration_in_blocks
  None,
  Syncing,         \* bound: the peers that we synchronise with, or that do so with us
  MaxEvents        \* bound: synchronisation requests, ours and the peers', broadcasts
                   \* of the client, and times that the inventory grows old

VARIABLES
  peer,         \* the peer_connection of each peer
  toFetch,      \* _items_to_fetch, in the order of their sequence numbers
  newInventory, \* _new_inventory
  fetch,        \* fetch_items_loop: was it triggered, whose penalty does it await
  advertiseDue, \* advertise_inventory_loop was triggered
  recent,       \* _most_recent_blocks_accepted
  cache,        \* _message_cache: block_clock, and the clock of each message
  told,         \* per peer, the items that it has advertised
  handled,      \* the items that the client was given, or has broadcast
  events        \* the events of MaxEvents so far

Item == Block \cup Trx

ASSUME InventoryAssumption ==
  /\ Block \cap Trx = {} /\ Own \subseteq Item /\ Syncing \subseteq Peer /\ None \notin Item
  /\ Offers \in [Peer -> SUBSET Item]
  /\ {TrxLimit, FullLimit, CacheDuration, MaxEvents} \subseteq Nat

history == <<told, handled, events>>
vars == <<peer, toFetch, newInventory, fetch, advertiseDue, recent, cache, history>>

-----------------------------------------------------------------------------
(* Connections and the list of wanted items. *)

Active(prs) == {p \in Peer : prs[p].conn = "active"}

\* A message of the peer can be handled: its last one is.
Listens(p) == peer[p].conn \in {"active", "closing"} /\ peer[p].handling = None

busy(pr) == pr.requested # {} \/ pr.sync
idle(pr) == ~busy(pr)

is_item_in_any_peers_inventory(prs, i) == \E p \in Active(prs) : i \in prs[p].offered

disconnect_from_peer(pr) == [pr EXCEPT !.conn = "closing"]
move_peer_to_terminating_list(pr) == [pr EXCEPT !.conn = "terminating"]

\* What is older than BTS_NET_MAX_INVENTORY_SIZE_IN_MINUTES goes.
clear_old_inventory(pr) ==
  [pr EXCEPT !.offered = @ \ pr.old, !.advertised = @ \ pr.old, !.old = {}]
ClearActive(prs) == [p \in Peer |-> IF p \in Active(prs) THEN clear_old_inventory(prs[p]) ELSE prs[p]]

\* The set is unique in the item: one that is there keeps its place.
Insert(s, i) == IF Contains(s, i) THEN s ELSE Append(s, i)

\* Mutant: the comparison of the sequence numbers is the wrong way round.
PrioritizedNewestFirst(s) ==
  Reverse(SelectSeq(s, LAMBDA i : i \in Block)) \o Reverse(SelectSeq(s, LAMBDA i : i \in Trx))
\* prioritized_item_id::operator<: blocks first, then in the order we heard of them.
Prioritized(s) ==
  SelectSeq(s, LAMBDA i : i \in Block) \o SelectSeq(s, LAMBDA i : i \in Trx)

trigger_fetch_items_loop(f) == [f EXCEPT !.due = TRUE]

Connection(status, needs) ==
  [conn |-> status, sync |-> FALSE, needsSync |-> needs, offered |-> {}, advertised |-> {},
   old |-> {}, requested |-> {}, inhibited |-> FALSE, handling |-> None]

\* Normal operation: the node and its peers are in sync.
Init ==
  /\ peer = [p \in Peer |-> Connection("active", FALSE)]
  /\ toFetch = <<>> /\ newInventory = {}
  /\ fetch = [due |-> FALSE, awaits |-> {}] /\ advertiseDue = FALSE
  /\ recent = {} /\ cache = [clock |-> 0, at |-> <<>>]
  /\ told = [p \in Peer |-> {}] /\ handled = {}
  /\ events = 0

-----------------------------------------------------------------------------
(* Hearing of items, and asking for them. *)

Full(pr, i) ==
  LET n == Cardinality(pr.offered) IN (i \in Trx /\ n > TrxLimit) \/ n > FullLimit

\* One round of the loop of on_item_ids_inventory_message.
Hear(acc, p, i) ==
  LET asked == \E q \in Active(acc.peer) : i \in acc.peer[q].requested
      have  == \E q \in Active(acc.peer) : i \in acc.peer[q].advertised
      new   == ~asked /\ ~Contains(acc.toFetch, i)
  IN  IF acc.full \/ have THEN acc
      ELSE IF Full(acc.peer[p], i) THEN [acc EXCEPT !.full = TRUE]
      ELSE [acc EXCEPT !.peer[p].offered = @ \cup {i},
                       !.toFetch = IF asked THEN @ ELSE Insert(@, i),
                       !.fetch = IF new THEN trigger_fetch_items_loop(@) ELSE @]

\* A peer advertises items of one type, each of them once.
on_item_ids_inventory_message(p) ==
  /\ Listens(p)
  /\ \E S \in SUBSET (Offers[p] \ told[p]) \ {{}} :
       /\ S \subseteq Block \/ S \subseteq Trx
       /\ \E s \in SetToSeqs(S) :
            LET start == [peer |-> [peer EXCEPT ![p] = clear_old_inventory(@)],
                          toFetch |-> toFetch, fetch |-> fetch, full |-> FALSE]
                end == FoldLeft(LAMBDA acc, i : Hear(acc, p, i), start, s)
            IN  peer' = end.peer /\ toFetch' = end.toFetch /\ fetch' = end.fetch
       /\ told' = [told EXCEPT ![p] = @ \cup S]
  /\ UNCHANGED <<newInventory, advertiseDue, recent, cache, handled, events>>

\* The peers are looked at for one item, until one can be asked for it.
Ask(acc, order, i) ==
  LET offers(p) == p \in Active(acc.peer) /\ idle(acc.peer[p]) /\ i \in acc.peer[p].offered
      barred(p) == acc.peer[p].inhibited /\ i \in Trx
      k == SelectInSeq(order, LAMBDA p : offers(p) /\ ~barred(p))
      passed == ToSet(IF k = 0 THEN order ELSE SubSeq(order, 1, k - 1))
      waited == [acc EXCEPT !.awaits = @ \cup {p \in passed : offers(p)}]
  IN  IF k = 0 THEN waited
      ELSE [waited EXCEPT !.peer[order[k]].requested = {i}, !.left = Remove(@, i)]

\* Where an iteration over the items ends, in a set of one element.
AskAll(order) ==
  FoldLeft(LAMBDA S, i : {Ask(acc, order, i) : acc \in S},
           {[peer |-> peer, left |-> toFetch, awaits |-> {}]}, Prioritized(toFetch))

\* An iteration of the loop; the connections are an unordered set.
fetch_items_loop ==
  /\ fetch.due
  /\ \E order \in SetToSeqs(Peer) : \E end \in AskAll(order) :
       /\ peer' = end.peer /\ toFetch' = end.left
       /\ fetch' = [due |-> FALSE, awaits |-> end.awaits]
  /\ UNCHANGED <<newInventory, advertiseDue, recent, cache, history>>

\* The penalty is over; the loop may be waiting for that moment.
InhibitionEnds(p) ==
  /\ peer[p].inhibited
  /\ peer' = [peer EXCEPT ![p].inhibited = FALSE]
  /\ fetch' = IF p \in fetch.awaits THEN trigger_fetch_items_loop(fetch) ELSE fetch
  /\ UNCHANGED <<toFetch, newInventory, advertiseDue, recent, cache, history>>

-----------------------------------------------------------------------------
(* Receiving items. *)

cache_message(c, i) ==
  IF i \in DOMAIN c.at THEN c ELSE [c EXCEPT !.at = (i :> c.clock) @@ @]

block_accepted(c) ==
  LET now == c.clock + 1
      kept == {i \in DOMAIN c.at : now > CacheDuration => c.at[i] >= now - CacheDuration}
  IN  [clock |-> now, at |-> [i \in kept |-> c.at[i]]]

\* The client's broadcast, and the one of what a peer has sent.
broadcast(i) ==
  /\ recent' = recent \cup ({i} \cap Block)
  /\ newInventory' = newInventory \cup {i}
  /\ advertiseDue' = TRUE

ClientBroadcasts(i) ==
  /\ i \in Own \ handled /\ events < MaxEvents
  /\ broadcast(i)
  /\ cache' = cache_message(cache, i)
  /\ handled' = handled \cup {i}
  /\ events' = events + 1
  /\ UNCHANGED <<peer, toFetch, fetch, told>>

\* The end of process_block_message.
TriggerIfIdle(pr) == fetch' = IF idle(pr) THEN trigger_fetch_items_loop(fetch) ELSE fetch

\* A block that the client accepted now or before.
BlockAccepted(prs, p, i) ==
  /\ peer' = ClearActive(prs)
  /\ broadcast(i)
  /\ cache' = block_accepted(cache_message(cache, i))
  /\ TriggerIfIdle(prs[p])

\* process_block_message and process_ordinary_message, up to the call of the client.
ReceiveItem(p, i) ==
  /\ Listens(p)
  /\ i \in peer[p].requested
  /\ LET prs == [peer EXCEPT ![p].requested = @ \ {i}]
     IN  IF i \in recent THEN BlockAccepted(prs, p, i)
         ELSE /\ peer' = [prs EXCEPT ![p].handling = i]
              /\ IF i \in Trx THEN TriggerIfIdle(prs[p]) ELSE UNCHANGED fetch
              /\ UNCHANGED <<recent, newInventory, advertiseDue, cache>>
  /\ handled' = handled \cup {i}
  /\ UNCHANGED <<toFetch, told, events>>

\* What was not asked for.
ReceiveUnasked(p) ==
  /\ Listens(p) /\ peer[p].conn = "active"
  /\ peer' = [peer EXCEPT ![p] = disconnect_from_peer(@)]
  /\ UNCHANGED <<toFetch, newInventory, fetch, advertiseDue, recent, cache, history>>

\* handle_message returns: the client accepts the item.
Accepted(p) ==
  LET i == peer[p].handling
      prs == [peer EXCEPT ![p].handling = None]
  IN  /\ i # None
      /\ IF i \in Block THEN BlockAccepted(prs, p, i)
         ELSE /\ peer' = prs /\ broadcast(i) /\ cache' = cache_message(cache, i)
              /\ UNCHANGED fetch
      /\ UNCHANGED <<toFetch, history>>

\* handle_message throws.  The peers with the block at the front of their list of
\* blocks to synchronise, busy or not, are disconnected; the others keep offering it.
Rejected(p) ==
  LET i == peer[p].handling
  IN  /\ i # None
      /\ \E S \in SUBSET Active(peer) :
           /\ i \in Trx => S = {}
           /\ peer' = [q \in Peer |->
                LET pr == IF q = p THEN [peer[q] EXCEPT !.handling = None] ELSE peer[q]
                IN  IF q \in S THEN disconnect_from_peer(pr) ELSE pr]
      /\ IF i \in Block THEN TriggerIfIdle(peer[p]) ELSE UNCHANGED fetch
      /\ UNCHANGED <<toFetch, newInventory, advertiseDue, recent, cache, history>>

\* insufficient_relay_fee
Throttled(p) ==
  /\ peer[p].handling \in Trx
  /\ peer' = [peer EXCEPT ![p].handling = None, ![p].inhibited = TRUE]
  /\ UNCHANGED <<toFetch, newInventory, fetch, advertiseDue, recent, cache, history>>

\* Mutant: the item is not looked for elsewhere.
RescheduleNever(prs, s, S) == s
\* Items that were asked for in vain go back, if somebody else offers them.
Reschedule(prs, s, S) ==
  FoldSet(LAMBDA i, acc : IF is_item_in_any_peers_inventory(prs, i) THEN Insert(acc, i) ELSE acc, s, S)

on_item_not_available_message(p, i) ==
  /\ Listens(p)
  /\ i \in peer[p].requested
  /\ peer' = [peer EXCEPT ![p].requested = @ \ {i}, ![p].offered = @ \ {i}]
  /\ toFetch' = Reschedule(peer', toFetch, {i})
  /\ fetch' = trigger_fetch_items_loop(fetch)
  /\ UNCHANGED <<newInventory, advertiseDue, recent, cache, history>>

-----------------------------------------------------------------------------
(* Advertising. *)

advertise_inventory_loop ==
  /\ advertiseDue
  /\ peer' = ClearActive([p \in Peer |->
       IF peer[p].conn # "active" \/ peer[p].needsSync THEN peer[p]
       ELSE [peer[p] EXCEPT !.advertised = @ \cup (newInventory \ peer[p].offered)]])
  /\ newInventory' = {} /\ advertiseDue' = FALSE
  /\ UNCHANGED <<toFetch, fetch, recent, cache, history>>

-----------------------------------------------------------------------------
(* Synchronisation, timeouts and the end of a connection. *)

\* fetch_next_batch_of_item_ids_from_peer, or a request for blocks.
SyncAsked(p) ==
  /\ p \in Syncing /\ peer[p].conn = "active" /\ ~peer[p].sync /\ events < MaxEvents
  /\ peer' = [peer EXCEPT ![p].sync = TRUE]
  /\ events' = events + 1
  /\ UNCHANGED <<toFetch, newInventory, fetch, advertiseDue, recent, cache, told, handled>>

\* The answer leaves the peer idle; only the loop of the synchronisation is triggered.
SyncAnswered(p) ==
  /\ Listens(p) /\ peer[p].sync
  /\ peer' = [peer EXCEPT ![p].sync = FALSE]
  /\ UNCHANGED <<toFetch, newInventory, fetch, advertiseDue, recent, cache, history>>

on_fetch_blockchain_item_ids_message(p, needs) ==
  /\ p \in Syncing /\ Listens(p) /\ peer[p].needsSync # needs /\ events < MaxEvents
  /\ peer' = [peer EXCEPT ![p].needsSync = needs]
  /\ events' = events + 1
  /\ UNCHANGED <<toFetch, newInventory, fetch, advertiseDue, recent, cache, told, handled>>

\* Mutant: only ignored requests of the synchronisation count.
TimesOutInSync(p) ==
  /\ \/ peer[p].conn = "active" /\ peer[p].sync
     \/ peer[p].conn = "closing"
  /\ peer' = [peer EXCEPT ![p] = move_peer_to_terminating_list(@)]
  /\ UNCHANGED <<toFetch, newInventory, fetch, advertiseDue, recent, cache, history>>
\* terminate_inactive_connections_loop: a request was ignored, or closing takes too long.
TimesOut(p) ==
  /\ \/ peer[p].conn = "active" /\ busy(peer[p])
     \/ peer[p].conn = "closing"
  /\ peer' = [peer EXCEPT ![p] = move_peer_to_terminating_list(@)]
  /\ UNCHANGED <<toFetch, newInventory, fetch, advertiseDue, recent, cache, history>>

\* Nothing was heard of the peer for active_disconnect_timeout.
Inactive(p) ==
  /\ peer[p].conn = "active"
  /\ peer' = [peer EXCEPT ![p] = disconnect_from_peer(@)]
  /\ UNCHANGED <<toFetch, newInventory, fetch, advertiseDue, recent, cache, history>>

\* The read loop ends, because we or the peer closed the socket.
on_connection_closed(p) ==
  /\ peer[p].conn # "closed" /\ peer[p].handling = None
  /\ LET pr == peer[p]
         prs == [peer EXCEPT ![p] = Connection("closed", TRUE)]
     IN  /\ peer' = prs
         /\ toFetch' = Reschedule(prs, toFetch, pr.requested)
         /\ fetch' = IF pr.requested # {} THEN trigger_fetch_items_loop(fetch) ELSE fetch
  /\ told' = [told EXCEPT ![p] = {}]
  /\ UNCHANGED <<newInventory, advertiseDue, recent, cache, handled, events>>

\* Minutes go by in which nothing is under way: what was advertised is old.
InventoryAges ==
  /\ events < MaxEvents
  /\ ~fetch.due /\ ~advertiseDue
  /\ \A p \in Peer : ~busy(peer[p]) /\ peer[p].handling = None /\ ~peer[p].inhibited
  /\ \E p \in Peer : peer[p].offered \cup peer[p].advertised # {}
  /\ peer' = [p \in Peer |-> [peer[p] EXCEPT !.old = peer[p].offered \cup peer[p].advertised]]
  /\ events' = events + 1
  /\ UNCHANGED <<toFetch, newInventory, fetch, advertiseDue, recent, cache, told, handled>>

-----------------------------------------------------------------------------
Next ==
  \/ fetch_items_loop
  \/ advertise_inventory_loop
  \/ InventoryAges
  \/ \E i \in Item : ClientBroadcasts(i)
  \/ \E p \in Peer :
       \/ on_item_ids_inventory_message(p)
       \/ InhibitionEnds(p)
       \/ \E i \in Item : ReceiveItem(p, i) \/ on_item_not_available_message(p, i)
       \/ ReceiveUnasked(p)
       \/ Accepted(p) \/ Rejected(p) \/ Throttled(p)
       \/ SyncAsked(p) \/ SyncAnswered(p)
       \/ \E needs \in BOOLEAN : on_fetch_blockchain_item_ids_message(p, needs)
       \/ TimesOut(p) \/ Inactive(p)
       \/ on_connection_closed(p)

Spec == Init /\ [][Next]_vars

\* What does not depend on the peers: the loops run when they were triggered, the client
\* returns from its calls, penalties and timeouts come to an end, and a socket that we
\* closed ends its read loop.
OwnStep ==
  \/ fetch_items_loop \/ advertise_inventory_loop
  \/ \E p \in Peer : \/ Accepted(p) \/ Rejected(p) \/ Throttled(p)
                     \/ InhibitionEnds(p)
                     \/ TimesOut(p)
                     \/ peer[p].conn = "terminating" /\ on_connection_closed(p)

\* The node does not stop while one of these steps is due.
Fairness == WF_vars(OwnStep)

FairSpec == Spec /\ Fairness

-----------------------------------------------------------------------------
\* The state of the inventory is of its type.
TypeOK ==
  /\ peer \in [Peer -> [conn : {"active", "closing", "terminating", "closed"},
                        sync : BOOLEAN, needsSync : BOOLEAN, offered : SUBSET Item,
                        advertised : SUBSET Item, old : SUBSET Item, requested : SUBSET Item,
                        inhibited : BOOLEAN, handling : Item \cup {None}]]
  /\ ToSet(toFetch) \subseteq Item /\ newInventory \subseteq Item
  /\ fetch \in [due : BOOLEAN, awaits : SUBSET Peer]
  /\ recent \subseteq Block /\ DOMAIN cache.at \subseteq Item

Offered(i) == is_item_in_any_peers_inventory(peer, i)
Asked(i) == \E p \in Peer : i \in peer[p].requested

\* An item that an active peer offers is wanted, or was asked for and not yet answered,
\* or has reached the client: timeouts, closed connections and items that are not
\* available do not make the node forget what it can still get from somebody else.
NothingForgotten == \A i \in Item : Offered(i) => Contains(toFetch, i) \/ Asked(i) \/ i \in handled

\* An item that an active peer offers reaches the client, unless nobody offers it any
\* more.
OffersSettle == \A i \in Item : Offered(i) ~> (i \in handled \/ ~Offered(i))

\* An item that was asked for reaches the client, unless nobody offers it any more: the
\* peer answers, or runs into a timeout, and the next one that offers the item is asked
\* as soon as it is idle.  The exception is an item offered by a peer that is busy with
\* synchronisation, the end of which does not trigger fetch_items_loop.
RequestsSettle ==
  \A i \in Item : Asked(i) ~> \/ i \in handled
                              \/ ~Offered(i)
                              \/ \E p \in Active(peer) : i \in peer[p].offered /\ peer[p].sync

\* "list of items we know another peer has and we want": each of them is offered.
WantedIsOffered == \A i \in ToSet(toFetch) : Offered(i)

\* "we want to prioritize any blocks before transactions, but otherwise request items in
\* the order we heard about them": a peer is not asked for an item while one that comes
\* before it, and that this peer offers, stays on the list.
PriorityRespected ==
  [][\A p \in Peer : \A i \in peer'[p].requested \ peer[p].requested :
       \A j \in ToSet(toFetch') \cap peer[p].offered :
         \/ i \in Block /\ j \in Trx
         \/ (i \in Block <=> j \in Block)
            /\ \E m, n \in 1..Len(toFetch) : m < n /\ toFetch[m] = i /\ toFetch[n] = j
         \/ peer[p].inhibited /\ j \in Trx
    ]_vars

\* "if we have already advertised it to a peer, we must have it": what we advertised and
\* still remember to have advertised can be taken from the message cache.
AdvertisedIsHeld ==
  \A p \in Active(peer) : peer[p].advertised \ peer[p].old \subseteq DOMAIN cache.at
=============================================================================
