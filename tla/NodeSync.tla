------------------------------ MODULE NodeSync ------------------------------
(***************************************************************************)
(* Synchronisation of the block chain by bts::net::detail::node_impl: one  *)
(* node asks its peers for the ids of the blocks it is missing, spreads    *)
(* the requests for the blocks over the peers, keeps what arrives early,   *)
(* and hands the blocks to the client in the order of the chain.           *)
(*                                                                         *)
(* The node is a set of fibers on one thread: a handler runs to its end,   *)
(* the calls of the client (handle_message) are where others get a turn.   *)
(* The peers run the same program: what they answer is modelled, not their *)
(* own synchronisation.  A connection delivers in order, until it closes.  *)
(* Out of the model: the handshake, hard forks, the plausibility check on  *)
(* the number of offered blocks, and the inventory of normal operation.    *)
(***************************************************************************)
EXTENDS Synopsis, FiniteSetsExt

CONSTANTS
  Peer,
  Block,           \* numbers other than 0, which stands for item_hash_t()
  Parent,          \* the previous block, 0 for a first block
  Stored,          \* the blocks the client has at the start
  ChainOf,         \* per peer, the tips of its main chain, one after the other
  Missing,         \* per peer, blocks of its chain that it cannot deliver
  MaxUndo,         \* BTS_BLOCKCHAIN_MAX_UNDO_HISTORY
  MinPrefetch,     \* BTS_NET_MIN_BLOCK_IDS_TO_PREFETCH
  MaxPerPeer,      \* _maximum_blocks_per_peer_during_syncing
  MaxCalls,        \* _maximum_number_of_blocks_to_handle_at_one_time
  MaxBacklog,      \* _maximum_number_of_sync_blocks_to_prefetch
  Word,            \* 2 ^ 32
  MaxClosed, MaxAsks, MaxNormal   \* bounds on what the environment does

VARIABLES
  peer,        \* the peer_connection of each peer
  active,      \* _active_sync_requests
  newReceived, \* _new_received_sync_items
  received,    \* _received_sync_items
  calls,       \* _handle_message_calls_in_progress, in the order of their start
  recent,      \* _most_recent_blocks_accepted
  suspended,   \* _suspend_fetching_sync_blocks
  fetchDue,    \* fetch_sync_items_loop was triggered
  backlogDue,  \* process_backlog_of_sync_blocks was scheduled
  total,       \* _total_number_of_unfetched_items
  known, head, \* the client: its blocks and the head of its main chain
  tip,         \* per peer, its position in ChainOf
  closed, asks, normal   \* how often the environment acted

tasks == <<active, newReceived, received, calls, suspended, fetchDue, backlogDue, total>>
client == <<known, head, recent>>
env == <<tip, closed, asks, normal>>
vars == <<peer, tasks, client, env>>

-----------------------------------------------------------------------------
(* The block tree, and what the client answers. *)

\* The chain that ends in a block.
PathTo[b \in Block \cup {0}] == IF b = 0 THEN <<>> ELSE Append(PathTo[Parent[b]], b)
Number(b) == Len(PathTo[b])
Linked(b, S) == ToSet(PathTo[b]) \subseteq S
MainChain(p) == PathTo[ChainOf[p][tip[p]]]

\* push_block: the main chain follows the highest linked block.
best_heads(S) ==
  LET linked == {b \in S : Linked(b, S)}
      higher == {b \in linked : Number(b) > Number(head)}
  IN  IF higher = {} THEN {head}
      ELSE {b \in higher : \A c \in higher : Number(c) <= Number(b)}

too_old(b) == Number(head) > MaxUndo /\ Number(b) <= Number(head) - MaxUndo

\* What on_new_block says of a block that arrives in sync mode.
verdict(b) ==
  IF b \notin known /\ too_old(b) THEN "too_old"
  ELSE IF Linked(b, known \cup {b}) THEN "accepted" ELSE "unlinkable"

\* handle_message: a block is stored whether or not it can be linked.
handle_message(b) ==
  /\ known' = IF b \notin known /\ too_old(b) THEN known ELSE known \cup {b}
  /\ head' \in best_heads(known')

-----------------------------------------------------------------------------
(* Connections. *)

Connected(q) == peer[q].conn # "closed"
Active(q)    == peer[q].conn = "active"

idle(pr) == pr.requested = {} /\ ~pr.asked

send(pr, m) == [pr EXCEPT !.out = Append(@, m)]

disconnect_from_peer(pr) == [pr EXCEPT !.conn = "closing"]

fetch_next_batch_of_item_ids_from_peer(pr) ==
  LET path == PathTo[IF pr.seen = 0 THEN head ELSE pr.seen]
      synopsis == IF path = <<>> /\ pr.toGet = <<>> THEN <<>>
                  ELSE create_blockchain_synopsis_for_peer(path, pr.seenNum, pr.toGet)
  IN  [send(pr, [type |-> "fetch_ids", ids |-> synopsis]) EXCEPT !.asked = TRUE]

start_synchronizing_with_peer(pr) ==
  fetch_next_batch_of_item_ids_from_peer(
    [pr EXCEPT !.toGet = <<>>, !.unfetched = 0, !.needSync = TRUE,
               !.seen = 0, !.seenNum = 0, !.inhibit = FALSE])

calculate_unsynced_block_count(prs) ==
  Max({0} \cup {Len(prs[q].toGet) + prs[q].unfetched : q \in {r \in Peer : prs[r].conn = "active"}})

NewConnection ==
  [conn |-> "active", toGet |-> <<>>, processing |-> {}, unfetched |-> 0,
   needSync |-> TRUE, peerNeeds |-> TRUE, asked |-> FALSE, requested |-> {},
   seen |-> 0, seenNum |-> 0, inhibit |-> FALSE, normalCall |-> <<>>,
   out |-> <<>>, in |-> <<>>]

\* Every peer has just been added to the active connections.
Init ==
  /\ known = Stored
  /\ head \in {b \in Stored \cup {0} : \A c \in Stored : Number(c) <= Number(b)}
  /\ peer = [p \in Peer |-> start_synchronizing_with_peer(NewConnection)]
  /\ active = {} /\ newReceived = <<>> /\ received = <<>> /\ calls = <<>>
  /\ recent = {head} /\ suspended = FALSE
  /\ fetchDue = FALSE /\ backlogDue = FALSE /\ total = 0
  /\ tip = [p \in Peer |-> 1] /\ closed = 0 /\ asks = 0 /\ normal = 0

-----------------------------------------------------------------------------
(* Asking for blocks. *)

have_already_received(b) == Contains(received, b) \/ Contains(newReceived, b)

\* Mutant: requests of earlier rounds are not looked at.
schedule_requests_again(s, q) ==
  LET wanted == SelectSeq(s.prs[q].toGet, LAMBDA b : ~have_already_received(b) /\ b \notin s.taken)
      items  == SubSeq(wanted, 1, Min({MaxPerPeer, Len(wanted)}))
  IN  IF items = <<>> THEN s
      ELSE [prs   |-> [s.prs EXCEPT ![q] = [send(@, [type |-> "fetch_items", ids |-> items])
                                              EXCEPT !.requested = @ \cup ToSet(items)]],
            taken |-> s.taken \cup ToSet(items)]

\* The next blocks to get from an idle peer, unless they are here already or
\* were asked for from another peer; request_sync_items_from_peer.
schedule_requests(s, q) ==
  LET wanted == SelectSeq(s.prs[q].toGet, LAMBDA b : /\ ~have_already_received(b)
                                                     /\ b \notin s.taken
                                                     /\ b \notin active)
      items  == SubSeq(wanted, 1, Min({MaxPerPeer, Len(wanted)}))
  IN  IF items = <<>> THEN s
      ELSE [prs   |-> [s.prs EXCEPT ![q] = [send(@, [type |-> "fetch_items", ids |-> items])
                                              EXCEPT !.requested = @ \cup ToSet(items)]],
            taken |-> s.taken \cup ToSet(items)]

\* One turn of fetch_sync_items_loop; the connections are in no fixed order.
FetchSyncItems ==
  LET syncing == {q \in Peer : /\ Active(q) /\ peer[q].needSync
                               /\ idle(peer[q]) /\ ~peer[q].inhibit}
  IN  /\ fetchDue
      /\ fetchDue' = FALSE
      /\ \E order \in SetToSeqs(IF suspended THEN {} ELSE syncing) :
           LET s == FoldLeft(schedule_requests, [prs |-> peer, taken |-> {}], order)
           IN  peer' = s.prs /\ active' = active \cup s.taken
      /\ UNCHANGED <<newReceived, received, calls, suspended, backlogDue, total, client, env>>

\* A peer answers the oldest request: on_fetch_blockchain_item_ids_message or
\* on_fetch_items_message of the other node.
PeerAnswers(p) ==
  /\ Connected(p) /\ peer[p].out # <<>>
  /\ LET m == Head(peer[p].out)
         list == get_item_ids(MainChain(p), m.ids)
         item(b) == [type |-> IF b \in Missing[p] THEN "not_available" ELSE "block", block |-> b]
     IN  peer' = [peer EXCEPT ![p].out = Tail(@),
                              ![p].in = @ \o (IF m.type = "fetch_ids"
                                              THEN <<[type |-> "ids"] @@ list>>
                                              ELSE [i \in 1..Len(m.ids) |-> item(m.ids[i])])]
  /\ UNCHANGED <<tasks, client, env>>

-----------------------------------------------------------------------------
(* Messages from a peer. *)

\* The handler of one message ends before the next one of the connection is read,
\* even when it waits for the client.
Listens(p) == Connected(p) /\ peer[p].normalCall = <<>>

Receives(p, type) == Listens(p) /\ peer[p].in # <<>> /\ Head(peer[p].in).type = type
Taken(p) == [peer[p] EXCEPT !.in = Tail(@)]

\* The ids a peer offers when it has offered none that are still to be got:
\* what the client has is flushed, unless another peer offers the same.
flush_known(p, pr, ids) ==
  LET for_other == \E q \in Peer \ {p} : /\ Active(q) /\ peer[q].toGet # <<>>
                                         /\ ids # <<>> /\ Head(peer[q].toGet) = ids[1]
      k == IF for_other THEN 0
           ELSE Max({n \in 0..Len(ids) : \A i \in 1..n : ids[i] \in known})
  IN  [pr EXCEPT !.seen = IF k = 0 THEN @ ELSE ids[k],
                 !.seenNum = @ + k,
                 !.toGet = SubSeq(ids, k + 1, Len(ids))]

\* The ids that follow the ones offered before.  When the peer has switched to
\* another fork, what it no longer has is dropped.
extend_list(pr, ids) ==
  LET i == SelectLastInSeq(pr.toGet, LAMBDA b : b = ids[1])
  IN  IF i # 0 THEN [pr EXCEPT !.toGet = SubSeq(@, 1, i - 1) \o ids]
      ELSE [pr EXCEPT !.seen = ids[1], !.seenNum = Number(ids[1]), !.toGet = Tail(ids)]

OnBlockchainItemIdsInventory(p) ==
  /\ Receives(p, "ids")
  /\ LET m  == Head(peer[p].in)
         pr == [Taken(p) EXCEPT !.asked = FALSE]
         in_sync == /\ m.remaining = 0
                    /\ Len(m.ids) = 0 \/ (Len(m.ids) = 1 /\ m.ids[1] \in known)
                    /\ pr.toGet = <<>> /\ pr.unfetched = 0
         listed == [CASE m.ids = <<>> -> pr
                      [] m.ids # <<>> /\ pr.toGet = <<>> -> flush_known(p, pr, m.ids)
                      [] m.ids # <<>> /\ pr.toGet # <<>> -> extend_list(pr, m.ids)
                      EXCEPT !.unfetched = m.remaining]
         fetch  == IF m.remaining # 0 THEN Len(listed.toGet) > MinPrefetch
                                      ELSE listed.toGet # <<>>
     IN  \/ /\ ~peer[p].asked
            /\ peer' = [peer EXCEPT ![p] = Taken(p)]
            /\ UNCHANGED <<total, fetchDue>>
         \/ /\ peer[p].asked /\ in_sync
            /\ peer' = [peer EXCEPT ![p] = [pr EXCEPT !.needSync = FALSE]]
            /\ total' = calculate_unsynced_block_count(peer')
            /\ UNCHANGED fetchDue
         \/ /\ peer[p].asked /\ ~in_sync
            /\ peer' = [peer EXCEPT ![p] = IF fetch THEN listed
                                           ELSE fetch_next_batch_of_item_ids_from_peer(listed)]
            /\ total' = calculate_unsynced_block_count([peer EXCEPT ![p] = listed])
            /\ fetchDue' = (fetchDue \/ fetch)
  /\ UNCHANGED <<active, newReceived, received, calls, suspended, backlogDue, client, env>>

\* process_block_message for a block asked for during sync.  (A peer that sends
\* any other block is disconnected; see OnlyRequestedBlocks.)
ProcessBlockMessage(p) ==
  /\ Receives(p, "block")
  /\ LET b  == Head(peer[p].in).block
         pr == [Taken(p) EXCEPT !.requested = @ \ {b}]
         more_ids == idle(pr) /\ pr.unfetched > 0 /\ Len(pr.toGet) < MinPrefetch
     IN  /\ b \in peer[p].requested
         /\ active' = active \ {b}
         /\ newReceived' = <<b>> \o newReceived
         /\ peer' = [peer EXCEPT ![p] = IF more_ids THEN fetch_next_batch_of_item_ids_from_peer(pr)
                                        ELSE pr]
         /\ fetchDue' = (fetchDue \/ (idle(pr) /\ ~more_ids))
  /\ backlogDue' = TRUE
  /\ UNCHANGED <<received, calls, suspended, total, client, env>>

\* on_item_not_available_message for a sync block.
OnItemNotAvailable(p) ==
  /\ Receives(p, "not_available")
  /\ LET b  == Head(peer[p].in).block
         pr == [Taken(p) EXCEPT !.requested = @ \ {b}]
     IN  /\ b \in peer[p].requested
         /\ peer' = [peer EXCEPT ![p] = IF pr.peerNeeds THEN [pr EXCEPT !.inhibit = TRUE]
                                        ELSE disconnect_from_peer(pr)]
  /\ fetchDue' = TRUE
  /\ UNCHANGED <<active, newReceived, received, calls, suspended, backlogDue, total, client, env>>

\* on_fetch_blockchain_item_ids_message: the peer asks with a summary of its own
\* chain.  A peer found to be on a fork that cannot be used is disconnected.
OnFetchBlockchainItemIds(p) ==
  /\ Active(p) /\ Listens(p) /\ asks < MaxAsks
  /\ asks' = asks + 1
  /\ LET synopsis == get_blockchain_synopsis(MainChain(p), 0)
         reply    == get_item_ids(PathTo[head], synopsis)
         has_all  == synopsis # <<>> /\ reply.ids = <<Last(synopsis)>>
         noted    == [peer[p] EXCEPT !.peerNeeds = ~(reply.ids = <<>> \/ has_all)]
         restart  == ~noted.needSync /\ synopsis # <<>> /\ Last(synopsis) \notin known
         synced   == IF restart THEN start_synchronizing_with_peer(noted) ELSE noted
     IN  peer' = [peer EXCEPT ![p] = IF has_all /\ noted.inhibit THEN disconnect_from_peer(synced)
                                     ELSE synced]
  /\ UNCHANGED <<tasks, client, tip, closed, normal>>

-----------------------------------------------------------------------------
(* Handing blocks to the client. *)

\* The block leaves the list of every peer that offers it first.
take_first_block(prs, b) ==
  [q \in Peer |-> IF prs[q].conn = "active" /\ prs[q].toGet # <<>> /\ Head(prs[q].toGet) = b
                  THEN [prs[q] EXCEPT !.toGet = Tail(@), !.processing = @ \cup {b}]
                  ELSE prs[q]]

\* Mutant: the first block that arrived is handed on, in its turn or not.
process_one_block_any(s) ==
  LET b == s.received[1]
  IN  IF s.done \/ s.received = <<>> \/ Len(s.calls) >= MaxCalls THEN s
      ELSE [s EXCEPT !.prs = take_first_block(@, b), !.received = Tail(@),
                     !.calls = Append(@, [block |-> b, result |-> "none"])]

\* One turn of the loop of process_backlog_of_sync_blocks: find a block that is
\* the next one for some peer and start a call of the client for it.
process_one_block(s) ==
  LET i == SelectInSeq(s.received, LAMBDA b : \E q \in Peer : /\ s.prs[q].conn = "active"
                                                             /\ s.prs[q].toGet # <<>>
                                                             /\ Head(s.prs[q].toGet) = b)
      b == s.received[i]
      start == b \notin recent
      begun == [s EXCEPT !.prs = take_first_block(@, b),
                         !.received = IF start THEN RemoveAt(@, i) ELSE @,
                         !.calls = IF start THEN Append(@, [block |-> b, result |-> "none"]) ELSE @]
      full  == Len(begun.calls) >= MaxCalls
  IN  IF s.done THEN s
      ELSE IF i = 0 THEN [s EXCEPT !.done = TRUE]
      ELSE [begun EXCEPT !.done = full \/ ~start,
                         !.suspended = full /\ Len(begun.received) >= MaxBacklog]

\* Where the loop ends, in a set of one element.
process_all(all) ==
  FoldLeft(LAMBDA S, n : {process_one_block(s) : s \in S},
           {[prs |-> peer, received |-> all, calls |-> calls, suspended |-> FALSE, done |-> FALSE]},
           [n \in 1..Len(all) + 1 |-> n])

ProcessBacklog ==
  /\ backlogDue
  /\ backlogDue' = FALSE
  /\ \/ /\ Len(calls) >= MaxCalls
        /\ UNCHANGED <<peer, newReceived, received, calls, suspended, fetchDue>>
     \/ /\ Len(calls) < MaxCalls
        /\ \E s \in process_all(Reverse(newReceived) \o received) :
             /\ peer' = s.prs
             /\ received' = s.received
             /\ calls' = s.calls
             /\ suspended' = s.suspended
             /\ fetchDue' = (fetchDue \/ ~s.suspended)
        /\ newReceived' = <<>>
  /\ UNCHANGED <<active, total, client, env>>

\* The client handles the oldest call: client_impl::handle_message.
HandleMessage ==
  LET i == SelectInSeq(calls, LAMBDA c : c.result = "none")
  IN  /\ i # 0
      /\ handle_message(calls[i].block)
      /\ calls' = [calls EXCEPT ![i].result = verdict(calls[i].block)]
      /\ UNCHANGED <<peer, active, newReceived, received, suspended, fetchDue, backlogDue,
                     total, recent, env>>

\* Mutant: the peer is not asked again when its list has become empty.
block_accepted_silent(pr, b) ==
  IF pr.conn # "active" \/ b \notin pr.processing THEN pr
  ELSE [pr EXCEPT !.seen = b, !.seenNum = Number(b), !.processing = @ \ {b}]

\* What an accepted block means for an active peer: one that is idle is told of
\* it, one that offered it is asked for more when it has nothing else to offer.
block_accepted(pr, b) ==
  LET pr2 == [pr EXCEPT !.seen = b, !.seenNum = Number(b), !.processing = @ \ {b}]
  IN  IF pr.conn # "active" THEN pr
      ELSE IF pr.toGet = <<>> /\ pr.processing = {}
      THEN IF ~pr.peerNeeds /\ ~pr.needSync THEN start_synchronizing_with_peer(pr) ELSE pr
      ELSE IF b \notin pr.processing THEN pr
      ELSE IF pr2.toGet = <<>> /\ pr2.unfetched = 0 /\ pr2.processing = {}
      THEN fetch_next_batch_of_item_ids_from_peer(pr2) ELSE pr2

block_rejected(pr, b, result) ==
  IF pr.conn # "active" \/ b \notin pr.processing THEN pr
  ELSE IF result = "too_old" THEN [pr EXCEPT !.inhibit = TRUE]
  ELSE disconnect_from_peer(pr)

\* send_sync_block_to_node_delegate, once the client has returned.
FinishCall ==
  /\ calls # <<>> /\ Head(calls).result # "none"
  /\ LET b == Head(calls).block
         r == Head(calls).result
     IN  \/ /\ r = "accepted"
            /\ recent' = recent \cup {b}
            /\ total' = (total - 1) % Word
            /\ peer' = [q \in Peer |-> block_accepted(peer[q], b)]
         \/ /\ r # "accepted"
            /\ peer' = [q \in Peer |-> block_rejected(peer[q], b, r)]
            /\ UNCHANGED <<recent, total>>
  /\ calls' = Tail(calls)
  /\ backlogDue' = TRUE
  /\ UNCHANGED <<active, newReceived, received, suspended, fetchDue, known, head, env>>

-----------------------------------------------------------------------------
(* The rest of the node and of the network. *)

\* A block that arrives by inventory from a peer in normal operation.  Unless it
\* was accepted lately it is handed to the client, and the fiber of the connection
\* waits for the answer.
ProcessBlockDuringNormalOperation(p) ==
  /\ Active(p) /\ Listens(p) /\ ~peer[p].needSync /\ normal < MaxNormal
  /\ normal' = normal + 1
  /\ \E b \in ToSet(MainChain(p)) \ Missing[p] :
       \/ /\ b \in recent
          /\ peer' = [peer EXCEPT ![p].seen = b, ![p].seenNum = Number(b)]
          /\ UNCHANGED client
       \/ /\ b \notin recent
          /\ handle_message(b)
          /\ peer' = [peer EXCEPT ![p].normalCall =
                         <<[block |-> b, rejected |-> b \notin known /\ too_old(b)]>>]
          /\ UNCHANGED recent
  /\ UNCHANGED <<tasks, tip, closed, asks>>

\* The rest of process_block_during_normal_operation, once the client has returned.
FinishNormalBlock(p) ==
  /\ Connected(p) /\ peer[p].normalCall # <<>>
  /\ LET b == peer[p].normalCall[1].block
         offers(q) == Active(q) /\ peer[q].toGet # <<>> /\ Head(peer[q].toGet) = b
         done == [peer EXCEPT ![p].normalCall = <<>>]
     IN  \/ /\ ~peer[p].normalCall[1].rejected
            /\ recent' = recent \cup {b}
            /\ peer' = IF Active(p) THEN [done EXCEPT ![p].seen = b, ![p].seenNum = Number(b)]
                       ELSE done
         \/ /\ peer[p].normalCall[1].rejected
            /\ peer' = [q \in Peer |-> IF offers(q) THEN disconnect_from_peer(done[q]) ELSE done[q]]
            /\ UNCHANGED recent
  /\ UNCHANGED <<tasks, known, head, env>>

\* terminate_inactive_connections_loop: a request was ignored for too long.
TerminateInactive(p) ==
  /\ Active(p) /\ ~idle(peer[p]) /\ closed < MaxClosed
  /\ peer' = [peer EXCEPT ![p].conn = "closing"]
  /\ closed' = closed + 1
  /\ UNCHANGED <<tasks, client, tip, asks, normal>>

\* The blocks asked for from this peer may be asked for from another one.
on_connection_closed(p) ==
  /\ peer' = [peer EXCEPT ![p] = [NewConnection EXCEPT !.conn = "closed"]]
  /\ active' = active \ peer[p].requested
  /\ fetchDue' = (fetchDue \/ peer[p].requested # {})
  /\ UNCHANGED <<newReceived, received, calls, suspended, backlogDue, total, client>>

\* The socket is closed, by the peer or at the end of a disconnection.
OnConnectionClosed(p) ==
  /\ Listens(p)
  /\ \/ peer[p].conn = "closing" /\ closed' = closed
     \/ Active(p) /\ closed < MaxClosed /\ closed' = closed + 1
  /\ on_connection_closed(p)
  /\ UNCHANGED <<tip, asks, normal>>

\* The main chain of a peer moves on.
PeerSwitches(p) ==
  /\ tip[p] < Len(ChainOf[p])
  /\ tip' = [tip EXCEPT ![p] = @ + 1]
  /\ UNCHANGED <<peer, tasks, client, closed, asks, normal>>

NodeStep ==
  \/ FetchSyncItems \/ ProcessBacklog \/ HandleMessage \/ FinishCall
  \/ \E p \in Peer : \/ OnBlockchainItemIdsInventory(p)
                     \/ ProcessBlockMessage(p)
                     \/ OnItemNotAvailable(p)
                     \/ FinishNormalBlock(p)

Next ==
  \/ NodeStep
  \/ \E p \in Peer : \/ PeerAnswers(p)
                     \/ OnFetchBlockchainItemIds(p)
                     \/ ProcessBlockDuringNormalOperation(p)
                     \/ TerminateInactive(p)
                     \/ OnConnectionClosed(p)
                     \/ PeerSwitches(p)

Spec == Init /\ [][Next]_vars

\* The scheduler gives every fiber its turn, and a peer that stays connected
\* answers (one that does not is terminated).
FairSpec ==
  /\ Spec
  /\ WF_vars(FetchSyncItems) /\ WF_vars(ProcessBacklog)
  /\ WF_vars(HandleMessage) /\ WF_vars(FinishCall)
  /\ \A p \in Peer : /\ WF_vars(PeerAnswers(p))
                     /\ WF_vars(OnBlockchainItemIdsInventory(p))
                     /\ WF_vars(ProcessBlockMessage(p))
                     /\ WF_vars(OnItemNotAvailable(p))
                     /\ WF_vars(FinishNormalBlock(p))
                     /\ WF_vars(peer[p].conn = "closing" /\ OnConnectionClosed(p))

-----------------------------------------------------------------------------
(* Properties. *)

\* Every variable has its type; the lists of a closed connection are empty.
TypeOK ==
  /\ \A p \in Peer :
       /\ peer[p].conn \in {"active", "closing", "closed"}
       /\ peer[p].toGet \in Seq(Block) /\ peer[p].processing \subseteq Block
       /\ peer[p].requested \subseteq Block
       /\ peer[p].unfetched \in Nat /\ peer[p].seenNum \in Nat
       /\ peer[p].seen \in Block \cup {0}
       /\ peer[p].conn = "closed" => peer[p].in = <<>> /\ peer[p].out = <<>>
  /\ active \subseteq Block /\ known \subseteq Block
  /\ received \in Seq(Block) /\ newReceived \in Seq(Block)
  /\ head \in known \cup {0} /\ total \in 0..Word - 1

InCalls == {calls[i].block : i \in 1..Len(calls)}

\* "list of sync blocks we've asked for from peers but have not yet received":
\* a block is in _active_sync_requests exactly while one connected peer, and no
\* other, has been asked for it and has not answered.
ActiveRequestsOutstanding ==
  /\ active = UNION {peer[p].requested : p \in Peer}
  /\ \A p, q \in Peer : p # q => peer[p].requested \cap peer[q].requested = {}

\* request_sync_items_from_peer never asks two connected peers for the same
\* block at a time, and what a peer was asked for stays in _active_sync_requests
\* until its block arrives or its connection is closed.
RequestedOnce ==
  \A p \in Peer : /\ peer[p].requested \subseteq active
                 /\ \A q \in Peer \ {p} : peer[p].requested \cap peer[q].requested = {}

\* A peer that only answers what it was asked is never taken for one that sends
\* "a block that I didn't ask for".
OnlyRequestedBlocks ==
  \A p \in Peer : \A i \in 1..Len(peer[p].in) :
    peer[p].in[i].type = "block" => peer[p].in[i].block \in peer[p].requested

\* "list of all items this peer has offered use that we've already handed to
\* the client but the client hasn't finished processing".
ProcessingInCalls == \A p \in Peer : Active(p) => peer[p].processing \subseteq InCalls

\* "ids_of_items_to_get[0] should be the id of block [this value + 1]".
ListFollowsNumber ==
  \A p \in Peer : Active(p) /\ peer[p].toGet # <<>> /\ peer[p].processing = {} =>
    Number(Head(peer[p].toGet)) = peer[p].seenNum + 1

\* Blocks reach the client in the order of the chain: the client never has to
\* refuse a sync block of an honest peer as unlinkable, unless it has refused
\* one of the blocks before it as too old.
HandedInOrder ==
  \A i \in 1..Len(calls) : calls[i].result = "unlinkable" =>
    \E b \in ToSet(PathTo[calls[i].block]) \ known : too_old(b)

\* "the number of items we still need to fetch while syncing" does not fall
\* below zero.
UnfetchedNotNegative == total <= Cardinality(Block)

\* Every block of a peer that stays connected is in the end known: when one block
\* has been dealt with, process_backlog_of_sync_blocks will "start iterating
\* _received_sync_items from the beginning".
BlocksArrive == \A p \in Peer : <>[](Active(p) => ToSet(MainChain(p)) \subseteq known)

\* "if we just received the last item in our list from this peer, we will want
\* to send another request to find out if we are in sync": the node finds out.
SyncEnds == \A p \in Peer : <>[](Active(p) => ~peer[p].needSync)

\* "if we just received the last item in our list from this peer, we will want to
\* send another request to find out if we are in sync": a peer the node still has
\* to synchronise with, which has nothing more to offer and whose blocks have all
\* been handled, has been asked for more, whatever became of its blocks.
AsksWhenDone ==
  \A p \in Peer : (/\ Active(p) /\ peer[p].needSync
                   /\ peer[p].toGet = <<>> /\ peer[p].processing = {}) => peer[p].asked

=============================================================================
