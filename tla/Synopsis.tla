------------------------------ MODULE Synopsis ------------------------------
(***************************************************************************)
(* The summary of a chain that a node sends when it asks a peer for the    *)
(* ids of the blocks it is missing, and the answer of the peer.  The first *)
(* part of the summary is made by the client from its database, the second *)
(* by the p2p node from the ids that this peer has already offered.        *)
(***************************************************************************)
EXTENDS Integers, SequencesExt

CONSTANT Limit   \* the most ids in one answer

\* Mutant: the distance is halved from one block too far, missing the tip.
next_low_late(low, high) == low + (high - low + 2) \div 2 + 1

\* Mutant: every block is listed.
next_low_each(low, high) == low + 1

next_low(low, high) == low + (high - low + 2) \div 2

\* The block numbers in a summary of a chain of the given height.
low_block_nums(high) ==
  LET from[low \in 1..high + 2] ==
        IF low > high THEN <<>> ELSE <<low>> \o from[next_low(low, high)]
  IN  from[1]

\* Summary of the path from the first block to the reference point, of which
\* the node says that it knows of some blocks after it.
get_blockchain_synopsis(path, after) ==
  LET nums == SelectSeq(low_block_nums(Len(path) + after), LAMBDA n : n <= Len(path))
  IN  [i \in 1..Len(nums) |-> path[nums[i]]]

\* The summary sent to a peer that has offered ids after the reference point,
\* which the node takes for block number refNum.
create_blockchain_synopsis_for_peer(path, refNum, offered) ==
  LET nums == SelectSeq(low_block_nums(refNum + Len(offered)), LAMBDA n : n > refNum)
  IN  get_blockchain_synopsis(path, Len(offered))
        \o [i \in 1..Len(nums) |-> offered[nums[i] - refNum]]

\* Mutant: the first block of the summary that is known, instead of the last.
last_seen_block_num_first(chain, synopsis) ==
  LET i == SelectInSeq(synopsis, LAMBDA b : Contains(chain, b))
  IN  IF i = 0 THEN 1 ELSE SelectInSeq(chain, LAMBDA b : b = synopsis[i])

last_seen_block_num(chain, synopsis) ==
  LET i == SelectLastInSeq(synopsis, LAMBDA b : Contains(chain, b))
  IN  IF i = 0 THEN 1 ELSE SelectInSeq(chain, LAMBDA b : b = synopsis[i])

\* The answer of a node whose main chain is the given one: the ids from the
\* last block the two have in common, and how many more would follow.  Left out is
\* the exception for a summary of more than _blockchain_synopsis_size_limit ids: a
\* summary is that long only on a chain of more than 20 years.
get_item_ids(chain, synopsis) ==
  LET first == last_seen_block_num(chain, synopsis)
      ids   == SubSeq(chain, first, IF first + Limit - 1 < Len(chain) THEN first + Limit - 1
                                                                      ELSE Len(chain))
  IN  IF chain = <<>> THEN [ids |-> <<>>, remaining |-> 0]
      ELSE [ids |-> ids, remaining |-> Len(chain) - first + 1 - Len(ids)]

=============================================================================
