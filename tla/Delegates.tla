------------------------------ MODULE Delegates ------------------------------
(***************************************************************************)
(* Accounts and delegates of bts::blockchain::chain_database: the account  *)
(* records with the two indexes kept beside them, by key and by votes; the *)
(* operations on accounts, evaluated through the overlay of a block; the   *)
(* schedule of the delegates, their production info and their pay; and the *)
(* undo of all of it when a block is popped.                               *)
(*                                                                         *)
(* A key stands for its address.  A secret is the number and the key it is *)
(* derived from.  Names, parents, fees and signatures of transactions are  *)
(* left out: every operation is signed by whom it must be.  The hardforks  *)
(* up to BTS_V0_4_28 are in the past.                                      *)
(***************************************************************************)
EXTENDS Integers, FiniteSets, SequencesExt

CONSTANTS
  NumDelegates,  \* BTS_BLOCKCHAIN_NUM_DELEGATES
  Ids,           \* account ids, 1..n
  Keys, NoKey,   \* public keys, and the default public_key_type()
  GenesisKey,    \* the keys of the accounts of the genesis state, all delegates
  Pay,           \* accepted_paycheck of one block
  TrackStats,    \* _track_stats
  MaxSlot, MaxBlocks, MaxOps, MaxVotes  \* bounds of the model

VARIABLES
  db,             \* accounts: _account_db, keys: _address_to_account_db,
                  \* votes: _delegate_vote_index_db
  active,         \* property active_delegate_list_id
  confirmations,  \* property confirmation_requirement
  slots,          \* _slot_record_db: per slot the delegate and the block
  chain,          \* the main chain: blocks [slot, producer, ops]
  undo,           \* _undo_state_db, per block of the chain
  before          \* history: the state each block of the chain was applied to

vars == <<db, active, confirmations, slots, chain, undo, before>>

NoId     == 0
NoSecret == <<0, NoKey>>
AllKeys  == Keys \cup {NoKey}
Slots    == 1..MaxSlot

-----------------------------------------------------------------------------
(* account_record *)

NullAccount ==
  [owner |-> NoKey, active |-> NoKey, delegate |-> FALSE, signing |-> <<>>,
   votes |-> 0, pay |-> 0, last |-> 0, secret |-> NoSecret,
   produced |-> 0, missed |-> 0]

is_null(r)      == r.owner = NoKey
make_null(r)    == [r EXCEPT !.owner = NoKey]
is_retracted(r) == r.active = NoKey
signing_key(r)  == Last(r.signing).key

\* signing_key_history is a map from the number of the head block.
set_signing_key(r, num, key) ==
  LET entry == [num |-> num, key |-> key]
  IN  [r EXCEPT !.signing = IF @ # <<>> /\ Last(@).num = num
                            THEN Append(Front(@), entry) ELSE Append(@, entry)]

\* The addresses under which a record is indexed.
AddressesOf(r) ==
  {r.owner} \cup (IF is_retracted(r) THEN {} ELSE {r.active})
            \cup (IF r.delegate THEN {signing_key(r)} ELSE {})

ranked(r) == r.delegate /\ ~is_retracted(r)

-----------------------------------------------------------------------------
(* chain_database::store_account_record *)

\* Mutant: the entry of the old key stays.
Reindex_keeps_old(keys, old, new, id) ==
  [k \in AllKeys |-> IF k = new /\ new # NoKey THEN id ELSE keys[k]]

\* One replacement of an entry of _address_to_account_db.
Reindex(keys, old, new, id) ==
  [k \in AllKeys |-> IF k = new /\ new # NoKey THEN id
                     ELSE IF k = old THEN NoId ELSE keys[k]]

\* Mutant: the entry by votes stays.
remove_record_keeps_votes(d, id) ==
  LET r == d.accounts[id]
  IN  [accounts |-> [d.accounts EXCEPT ![id] = NullAccount],
       keys  |-> [k \in AllKeys |-> IF k \in AddressesOf(r) THEN NoId ELSE d.keys[k]],
       votes |-> d.votes]

remove_record(d, id) ==
  LET r == d.accounts[id]
  IN  [accounts |-> [d.accounts EXCEPT ![id] = NullAccount],
       keys  |-> [k \in AllKeys |-> IF k \in AddressesOf(r) THEN NoId ELSE d.keys[k]],
       votes |-> IF ranked(r) THEN d.votes \ {<<r.votes, id>>} ELSE d.votes]

store_record(d, id, r) ==
  [accounts |-> [d.accounts EXCEPT ![id] = r],
   keys  |-> [k \in AllKeys |-> IF k \in AddressesOf(r) THEN id ELSE d.keys[k]],
   votes |-> IF ranked(r) THEN d.votes \cup {<<r.votes, id>>} ELSE d.votes]

\* NoKey stands for the address of a retracted account, which has no entry.
index_active_keys(keys, id, prev, new) ==
  IF prev.active = new.active THEN keys
  ELSE Reindex(keys, prev.active, new.active, id)

index_signing_keys(keys, id, prev, new) ==
  LET old == IF prev.delegate THEN signing_key(prev) ELSE NoKey
      key == IF new.delegate THEN signing_key(new) ELSE NoKey
  IN  IF old = key THEN keys ELSE Reindex(keys, old, key, id)

\* Mutant: the entry of the old votes stays.
index_votes_keeps_old(votes, id, prev, new) ==
  IF prev.delegate = new.delegate /\ prev.votes = new.votes THEN votes
  ELSE votes \cup (IF ranked(new) THEN {<<new.votes, id>>} ELSE {})

\* A delegate that is retracted without a change of its votes keeps its entry.
index_votes(votes, id, prev, new) ==
  IF prev.delegate = new.delegate /\ prev.votes = new.votes THEN votes
  ELSE (votes \ (IF ranked(prev) THEN {<<prev.votes, id>>} ELSE {}))
         \cup (IF ranked(new) THEN {<<new.votes, id>>} ELSE {})

store_account_record(d, id, r) ==
  LET prev == d.accounts[id]
  IN  IF is_null(r) THEN IF is_null(prev) THEN d ELSE remove_record(d, id)
      ELSE IF is_null(prev) THEN store_record(d, id, r)
      ELSE [accounts |-> [d.accounts EXCEPT ![id] = r],
            keys  |-> index_signing_keys(index_active_keys(d.keys, id, prev, r),
                                         id, prev, r),
            votes |-> index_votes(d.votes, id, prev, r)]

\* The orders in which an unordered_map may list its accounts.
Orders == [S \in SUBSET Ids |-> SetToSeqs(S)]

\* pending_chain_state::apply_changes: what it can lead to.
apply_changes(d, accounts) ==
  {FoldLeft(LAMBDA e, id : store_account_record(e, id, accounts[id]), d, order) :
     order \in Orders[DOMAIN accounts]}

-----------------------------------------------------------------------------
(* pending_chain_state: the records a block has changed, and the keys of     *)
(* key_to_account, which keeps those that were replaced again.               *)

get_account_record(p, id) ==
  IF id \in DOMAIN p.accounts THEN p.accounts[id] ELSE db.accounts[id]

\* Lookup by address: the key is in use if a record is found.
key_in_use(p, key) == key \in p.keys \/ db.keys[key] # NoId

pending_store(p, id, r) ==
  [accounts |-> (id :> r) @@ p.accounts,
   keys |-> p.keys \cup AddressesOf(r)]

new_account_id(p) == 1 + Cardinality({id \in Ids : ~is_null(get_account_record(p, id))})

-----------------------------------------------------------------------------
(* The operations.  Each yields the overlay after it; Allowed is the guard   *)
(* that the throws of evaluate amount to.                                    *)

head_block_num == Len(chain)

Operations ==
       [op : {"register"}, owner : Keys, active : Keys, delegate : BOOLEAN]
  \cup [op : {"update_active"}, id : Ids, key : AllKeys]
  \cup [op : {"update_delegate"}, id : Ids]
  \cup [op : {"update_signing"}, id : Ids, key : Keys]
  \cup [op : {"vote"}, id : Ids, delta : {1, -1}]
  \cup [op : {"withdraw_pay"}, id : Ids]

CanRegister(p, o) ==
  new_account_id(p) \in Ids /\ ~key_in_use(p, o.owner) /\ ~key_in_use(p, o.active)

\* Retracting is setting the key to the default one.
CanUpdateActive(p, o) ==
  LET r == get_account_record(p, o.id)
  IN  /\ ~is_null(r) /\ ~is_retracted(r) /\ o.key # r.active
      /\ ~key_in_use(p, o.key)
      /\ ~(o.key = NoKey /\ r.delegate /\ r.pay > 0)

CanUpdateDelegate(p, o) ==
  LET r == get_account_record(p, o.id)
  IN  ~is_null(r) /\ ~is_retracted(r) /\ ~r.delegate

CanUpdateSigning(p, o) ==
  LET r == get_account_record(p, o.id)
  IN  ~is_null(r) /\ ~is_retracted(r) /\ r.delegate /\ ~key_in_use(p, o.key)

\* Balances move to or from a delegate; retracted delegates can be voted for.
CanVote(p, o) ==
  LET r == get_account_record(p, o.id)
  IN  ~is_null(r) /\ r.delegate /\ r.votes + o.delta \in r.pay..MaxVotes

CanWithdraw(p, o) ==
  LET r == get_account_record(p, o.id)
  IN  ~is_null(r) /\ ~is_retracted(r) /\ r.delegate /\ r.pay > 0

Allowed(p, o) ==
  CASE o.op = "register"        -> CanRegister(p, o)
    [] o.op = "update_active"   -> CanUpdateActive(p, o)
    [] o.op = "update_delegate" -> CanUpdateDelegate(p, o)
    [] o.op = "update_signing"  -> CanUpdateSigning(p, o)
    [] o.op = "vote"            -> CanVote(p, o)
    [] o.op = "withdraw_pay"    -> CanWithdraw(p, o)

become_delegate(r) ==
  set_signing_key([r EXCEPT !.delegate = TRUE], head_block_num, r.active)

register_account(o) ==
  LET r == [NullAccount EXCEPT !.owner = o.owner, !.active = o.active]
  IN  IF o.delegate THEN become_delegate(r) ELSE r

updated(r, o) ==
  CASE o.op = "update_active"   -> [r EXCEPT !.active = o.key]
    [] o.op = "update_delegate" -> become_delegate(r)
    [] o.op = "update_signing"  -> set_signing_key(r, head_block_num, o.key)
    [] o.op = "vote"            -> [r EXCEPT !.votes = @ + o.delta]
    [] o.op = "withdraw_pay"    -> [r EXCEPT !.votes = @ - r.pay, !.pay = 0]

evaluate(p, o) ==
  IF o.op = "register"
  THEN pending_store(p, new_account_id(p), register_account(o))
  ELSE pending_store(p, o.id, updated(get_account_record(p, o.id), o))

-----------------------------------------------------------------------------
(* The schedule *)

\* get_slot_signee: the position in the list is the slot number.
get_slot_signee(slot) == active[1 + (slot % NumDelegates)]

head_slot == IF chain = <<>> THEN 0 ELSE Last(chain).slot

\* get_delegates_by_vote: most votes first, the lowest id wins in ties.
vote_del_less(v, w) == v[1] > w[1] \/ (v[1] = w[1] /\ v[2] < w[2])

next_round_active_delegates ==
  LET sorted == SetToSortSeq(db.votes, vote_del_less)
  IN  [i \in 1..(IF Len(sorted) < NumDelegates THEN Len(sorted) ELSE NumDelegates)
         |-> sorted[i][2]]

\* The shuffle swaps position i with one that the seed picks, except every
\* fifth i, which the inner loop increments past.
Swap(s, i, j) == [s EXCEPT ![i] = s[j], ![j] = s[i]]
shuffled(list, pick) ==
  FoldLeft(LAMBDA s, i : IF i % 5 = 0 THEN s ELSE Swap(s, i, pick[i]), list,
           [i \in 1..Len(list) |-> i])

-----------------------------------------------------------------------------
(* wallet::sign_block: the number and the key that the previous secret is   *)
(* derived from.                                                            *)

reveals(r) ==
  <<r.last, IF r.last > Last(r.signing).num THEN signing_key(r)
            ELSE r.signing[Len(r.signing) - 1].key>>

CanSign(r) ==
  r.secret = NoSecret
  \/ /\ r.last > Last(r.signing).num \/ Len(r.signing) >= 2
     /\ reveals(r) = r.secret

-----------------------------------------------------------------------------
(* extend_chain and pop_block *)

Init ==
  LET ids == DOMAIN GenesisKey
      genesis(id) == become_delegate([NullAccount EXCEPT !.owner = GenesisKey[id],
                                                         !.active = GenesisKey[id]])
  IN  /\ chain = <<>>
      /\ db \in apply_changes([accounts |-> [id \in Ids |-> NullAccount],
                               keys |-> [k \in AllKeys |-> NoId], votes |-> {}],
                              [id \in ids |-> genesis(id)])
      /\ active = next_round_active_delegates
      /\ confirmations = NumDelegates * 2
      /\ slots = [s \in Slots |-> <<NoId, 0>>]
      /\ undo = <<>> /\ before = <<>>

\* Mutant: the slot of the head block is counted again.
Gap_from_head(slot) == IF chain = <<>> THEN {} ELSE head_slot .. slot - 1

\* The slots without a block between the head and a block.
Gap(slot) == IF chain = <<>> THEN {} ELSE head_slot + 1 .. slot - 1

\* The account that get_delegate_record_for_signee finds for a block of a slot.
signee(slot) == db.keys[signing_key(db.accounts[get_slot_signee(slot)])]

\* The block is signed by the wallet of the scheduled delegate, and its secret
\* is the one that the account found for the signee has committed to.
HeaderValid(slot) ==
  LET r == db.accounts[get_slot_signee(slot)]
      e == signee(slot)
  IN  /\ \A s \in Gap(slot) \cup {slot} : 1 + (s % NumDelegates) <= Len(active)
      /\ r.delegate /\ CanSign(r)
      /\ e # NoId /\ db.accounts[e].delegate
      /\ db.accounts[e].secret \in {NoSecret, r.secret}

\* The pay counts as votes for the delegate itself.
pay_delegate(r) == [r EXCEPT !.votes = @ + Pay, !.pay = @ + Pay]

\* update_delegate_production_info, then pay_delegate.
produce(slot) ==
  LET e   == signee(slot)
      num == head_block_num + 1
      key == signing_key(db.accounts[get_slot_signee(slot)])
      missed(id) == Cardinality({s \in Gap(slot) : get_slot_signee(s) = id})
      info(id) ==
        LET r == [db.accounts[id] EXCEPT !.missed = @ + missed(id)]
        IN  IF id # e THEN r
            ELSE pay_delegate([r EXCEPT !.produced = @ + 1, !.secret = <<num, key>>,
                                        !.last = num])
      changed == {id \in Ids : id = e \/ missed(id) > 0}
  IN  [accounts |-> [id \in changed |-> info(id)],
       keys |-> UNION {AddressesOf(info(id)) : id \in changed}]

required_confirmations(slot) ==
  LET n == confirmations + 2 * Cardinality(Gap(slot)) - 1
  IN  IF n < 1 THEN 1 ELSE IF n > 3 * NumDelegates THEN 3 * NumDelegates ELSE n

\* With statistics on, a record per slot; the undo state of a slot without an
\* earlier record is a null record, stored at time 0.
store_slot_records(slot, num) ==
  [s \in Slots |-> CASE ~TrackStats    -> slots[s]
                     [] s = slot       -> <<signee(slot), num>>
                     [] s \in Gap(slot) -> <<get_slot_signee(s), 0>>
                     [] OTHER          -> slots[s]]
undo_slot_records(prev) ==
  [s \in Slots |-> IF s \in DOMAIN prev /\ prev[s] # <<NoId, 0>> THEN prev[s] ELSE slots[s]]

\* The values that the databases had for everything the block has changed.
get_undo_state(p, slot) ==
  [accounts |-> [id \in DOMAIN p.accounts |->
                   IF is_null(db.accounts[id]) THEN make_null(p.accounts[id])
                   ELSE db.accounts[id]],
   active |-> active, confirmations |-> confirmations,
   slots |-> IF TrackStats THEN [s \in Gap(slot) \cup {slot} |-> slots[s]] ELSE <<>>]

EndsRound(num) == num % NumDelegates = 0

\* The overlays that a number of operations can lead to.
evaluated(slot) ==
  LET after[n \in 0..MaxOps] ==
        IF n = 0 THEN {produce(slot)}
        ELSE UNION {{evaluate(p, o) : o \in {o \in Operations : Allowed(p, o)}} :
                      p \in after[n - 1]}
  IN  after

OpsLeft == MaxOps - FoldLeft(LAMBDA n, b : n + b.ops, 0, chain)

\* A block of the scheduled delegate is applied.
ExtendChain(slot) ==
  LET num == head_block_num + 1
  IN  /\ num <= MaxBlocks /\ slot > head_slot
      /\ HeaderValid(slot)
      /\ \E n \in 0..OpsLeft : \E changes \in evaluated(slot)[n] :
           /\ db' \in apply_changes(db, changes.accounts)
           /\ chain' = Append(chain, [slot |-> slot, producer |-> signee(slot), ops |-> n])
           /\ undo' = Append(undo, get_undo_state(changes, slot))
      /\ IF EndsRound(num)
         THEN LET list == next_round_active_delegates
              IN  \E pick \in [1..Len(list) -> 1..Len(list)] : active' = shuffled(list, pick)
         ELSE active' = active
      /\ confirmations' = required_confirmations(slot)
      /\ slots' = store_slot_records(slot, num)
      /\ before' = Append(before, [db |-> db, active |-> active,
                                   confirmations |-> confirmations])


PopBlock ==
  /\ chain # <<>>
  /\ LET u == Last(undo)
     IN  /\ db' \in apply_changes(db, u.accounts)
         /\ active' = u.active /\ confirmations' = u.confirmations
         /\ slots' = undo_slot_records(u.slots)
  /\ chain' = Front(chain) /\ undo' = Front(undo) /\ before' = Front(before)

Next == (\E slot \in Slots : ExtendChain(slot)) \/ PopBlock

Spec == Init /\ [][Next]_vars

-----------------------------------------------------------------------------
(* Properties *)

Account ==
  [owner : AllKeys, active : AllKeys, delegate : BOOLEAN,
   signing : Seq([num : 0..MaxBlocks, key : Keys]), votes : Nat, pay : Nat,
   last : 0..MaxBlocks, secret : (0..MaxBlocks) \X AllKeys, produced : Nat, missed : Nat]

\* The records, the indexes and the properties have their types, and only
\* accounts that exist have numbers in them.
TypeOK ==
  /\ db \in [accounts : [Ids -> Account], keys : [AllKeys -> Ids \cup {NoId}],
             votes : SUBSET (Nat \X Ids)]
  /\ active \in Seq(Ids)
  /\ confirmations \in 1..3 * NumDelegates
  /\ slots \in [Slots -> (Ids \cup {NoId}) \X (0..MaxBlocks)]
  /\ chain \in Seq([slot : Slots, producer : Ids, ops : 0..MaxOps])
  /\ Len(undo) = Len(chain) /\ Len(before) = Len(chain)
  /\ \A id \in Ids : is_null(db.accounts[id]) => db.accounts[id] = NullAccount

Exists(id) == ~is_null(db.accounts[id])

\* The votes by which delegates are ranked are their current ones, whatever
\* blocks were applied and popped: a delegate that is not retracted has one
\* entry in _delegate_vote_index_db and it holds its votes, and no account has
\* two entries or has one without being a delegate.
RankingCurrent ==
  /\ \A id \in Ids : Exists(id) /\ ranked(db.accounts[id]) =>
       <<db.accounts[id].votes, id>> \in db.votes
  /\ \A v, w \in db.votes : v[2] = w[2] => v = w
  /\ \A v \in db.votes : Exists(v[2]) /\ db.accounts[v[2]].delegate


\* Every slot since the first block is accounted for once, as produced or as
\* missed, by some delegate; blocks that were popped leave nothing behind.
SlotsCounted ==
  LET sum(f(_)) == FoldSet(LAMBDA id, n : n + f(db.accounts[id]), 0, Ids)
      produced(r) == r.produced
      missed(r) == r.missed
  IN  /\ sum(produced) = Len(chain)
      /\ sum(missed) = IF chain = <<>> THEN 0
                       ELSE head_slot - chain[1].slot + 1 - Len(chain)

\* The commitment of a delegate is that of its last block on the chain: what
\* the next block of it must reveal is never the secret of a popped block.
CommitmentOnChain ==
  \A id \in Ids :
    LET own == {n \in 1..Len(chain) : chain[n].producer = id}
        r   == db.accounts[id]
    IN  /\ r.last = (IF own = {} THEN 0 ELSE CHOOSE n \in own : \A m \in own : m <= n)
        /\ r.secret[1] = r.last

\* An address never leads to an account that does not use it.
KeyIndexSound ==
  \A k \in AllKeys : db.keys[k] # NoId =>
    Exists(db.keys[k]) /\ k \in AddressesOf(db.accounts[db.keys[k]])

\* Popping a block brings back the records, the ranking, the active list and the
\* confirmation requirement that the block was applied to.
PopRestores ==
  [][Len(chain') < Len(chain) =>
       LET b == Last(before)
       IN  /\ db'.accounts = b.db.accounts /\ db'.votes = b.db.votes
           /\ active' = b.active /\ confirmations' = b.confirmations]_vars

\* The lookup of the account of a verified block finds the scheduled delegate,
\* as get_delegate_record_for_signee asserts, unless the delegate is retracted.
SigneeFound ==
  \A i \in 1..Len(active) :
    LET r == db.accounts[active[i]]
    IN  ~is_retracted(r) => db.keys[signing_key(r)] = active[i]

\* A wallet that has all the keys can reveal the previous secret of its
\* delegate, as sign_block asserts.
SecretRevealed == \A i \in 1..Len(active) : CanSign(db.accounts[active[i]])

\* A retracted account is disabled: it does not enter the list of a new round.
RetractedNotScheduled ==
  [][active' # active /\ Len(chain') > Len(chain) =>
       \A i \in 1..Len(active') : ~is_retracted(db.accounts[active'[i]])]_vars

\* Popping a block brings back the index by key, which decides which keys the
\* operations of the next block may use.
PopRestoresKeys == [][Len(chain') < Len(chain) => db'.keys = Last(before).db.keys]_vars

\* A slot record that names a block names one of the chain.
SlotRecordsOnChain ==
  \A s \in Slots : slots[s][2] > 0 => \E n \in 1..Len(chain) : chain[n].slot = s

=============================================================================
