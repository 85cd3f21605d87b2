----------------------------- MODULE MCSynopsis -----------------------------
(***************************************************************************)
(* One request for block ids and its answer, for every pair of chains up   *)
(* to MaxHeight: the requester has `path`, was offered `offered` after it, *)
(* and shares with the peer the first `common` of these blocks.            *)
(***************************************************************************)
EXTENDS Synopsis

CONSTANT MaxHeight

VARIABLES path, offered, refNum, chain, common, answer

vars == <<path, offered, refNum, chain, common, answer>>

NoAnswer == [ids |-> <<>>, remaining |-> -1]

\* The blocks of the peer's own fork have other ids.
Init ==
  \E p, o, h \in 0..MaxHeight :
    /\ p + o <= MaxHeight
    /\ path = [i \in 1..p |-> i]
    /\ offered = [i \in 1..o |-> p + i]
    /\ refNum \in 0..p
    /\ common \in 0..(IF h < p + o THEN h ELSE p + o)
    /\ chain = [i \in 1..h |-> IF i <= common THEN i ELSE MaxHeight + i]
    /\ answer = NoAnswer

summary == create_blockchain_synopsis_for_peer(path, refNum, offered)

Answer ==
  /\ answer = NoAnswer
  /\ answer' = get_item_ids(chain, summary)
  /\ UNCHANGED <<path, offered, refNum, chain, common>>

Spec == Init /\ [][Answer]_vars

\* The summary runs in increasing order from the first block to the last id
\* that was offered, "assert(synopsis.back() == original_ids_of_items_to_get
\* ->back())", even when the number kept for the reference point is too low.
SynopsisSpansChain ==
  Len(path) + Len(offered) > 0 =>
    /\ summary # <<>>
    /\ Last(summary) = Len(path) + Len(offered)
    /\ path # <<>> => summary[1] = 1
    /\ \A i \in 1..Len(summary) - 1 : summary[i] < summary[i + 1]

\* The summary stays logarithmic in the height of the chain, which is what the
\* limit of get_item_ids on its length relies on.
SynopsisLogarithmic ==
  refNum = Len(path) /\ summary # <<>> => 2 ^ (Len(summary) - 1) <= Len(path) + Len(offered)

\* The answer continues the requester's chain: it starts with a block of the
\* summary when the chains share a block and otherwise with the first block of
\* the peer, it misses no block of the peer's chain after the common part, and
\* it repeats at most as many known blocks as lie between the fork and the tip.
AnswerContinuesChain ==
  answer # NoAnswer /\ chain # <<>> =>
    LET first == SelectInSeq(chain, LAMBDA b : b = answer.ids[1])
    IN  /\ common > 0 => first <= common /\ Contains(summary, answer.ids[1])
        /\ common = 0 => first = 1
        /\ first + Len(answer.ids) + answer.remaining = Len(chain) + 1
        /\ refNum = Len(path) /\ common > 0 =>
             common - first <= Len(path) + Len(offered) - common

=============================================================================
