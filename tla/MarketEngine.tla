---------------------------- MODULE MarketEngine ----------------------------
(***************************************************************************)
(* One BitAsset market (quote "USD" against base "XTS"): the order and     *)
(* cover operations of a block's transactions, and market_engine_v7, the   *)
(* engine that execute_markets_v1 runs between the hard forks 0.4.24 and   *)
(* 0.4.29.  extend_chain executes the market of the previous block's       *)
(* orders first and applies the transactions afterwards, both on the       *)
(* pending state of the block.                                             *)
(*                                                                         *)
(* The engine reads the order books through iterators over the databases   *)
(* and writes to a pending state of its own, which reaches the block's     *)
(* state only when execute() ends without an exception.  So an execution   *)
(* has three states: db (what the iterators see), eng (the engine and its  *)
(* pending state pend) and, afterwards, db again.                          *)
(*                                                                         *)
(* A price is the integer ratio * Precision (BTS_PRICE_PRECISION in the    *)
(* code); the products and quotients below truncate where the code does.   *)
(***************************************************************************)
EXTENDS Integers, Sequences, FiniteSets, SequencesExt, Functions

CONSTANTS
    Owners,          \* addresses, ordered as the index keys order them
    Prices,          \* limit prices of orders and feeds
    Rates,           \* interest rates of short orders
    Amounts,         \* what an order operation adds or withdraws
    Precision,       \* BTS_PRICE_PRECISION
    DustLimit,       \* base_asset.precision / 100
    ShortPeriod,     \* BTS_BLOCKCHAIN_MAX_SHORT_PERIOD_SEC, in blocks
    Year,            \* the blocks of a year
    Books,           \* the margin positions, balances and feed to start from
    MaxOperations,   \* bound: operations in a behaviour
    MaxBlocks        \* bound: blocks in a behaviour

ASSUME MarketAssumption ==
    /\ Owners \subseteq Nat
    /\ Prices \subseteq Nat \ {0}
    /\ Precision \in Nat \ {0}

VARIABLES
    db,              \* the market's records in the chain database
    eng,             \* the engine while it executes
    pc,              \* "trx", "match" or "matched"
    leak,            \* history: shares the records lost track of
    done             \* history: operations and blocks so far

vars == <<db, eng, pc, leak, done>>

Assets == {"XTS", "USD"}
None == [type |-> "none"]
NoFeed == 0
NoLimit == 0

-----------------------------------------------------------------------------
\* asset and price arithmetic

ToQuote(amount, price) == (amount * price) \div Precision

ToBase(amount, price) == (amount * Precision) \div price

PriceOf(quote, base) == (quote * Precision) \div base

Least(S) == CHOOSE x \in S : \A y \in S : x <= y

get_interest_owed(principle, rate, age) ==
    (principle * rate * age) \div (Precision * Year)

get_interest_paid(total, rate, age) ==
    (total * rate * age) \div (Precision * Year + rate * age)

-----------------------------------------------------------------------------
\* the databases: a record with nothing in it is removed

Without(f, key) == Restrict(f, DOMAIN f \ {key})

StoreOrder(f, key, order) ==
    IF order.balance = 0
    THEN Without(f, key)
    ELSE [k \in DOMAIN f \cup {key} |-> IF k = key THEN order ELSE f[k]]

OrderAt(f, key) ==
    IF key \in DOMAIN f THEN f[key] ELSE [balance |-> 0, limit |-> NoLimit]

\* collateral_record(): its interest rate is price(), which is no rate.
NoRate == -1
NullCover == [collateral |-> 0, payoff |-> 0, rate |-> NoRate, expiration |-> 0]

\* Storing a record marks the market dirty.  A null record removes the
\* position; until the block ends the pending state still finds the null.
store_collateral_record(s, key, cover) ==
    LET null == cover.collateral = 0 /\ cover.payoff = 0
    IN  [s EXCEPT !.dirty = TRUE,
                  !.covers = IF null THEN Without(@, key)
                             ELSE [k \in DOMAIN @ \cup {key} |->
                                      IF k = key THEN cover ELSE @[k]],
                  !.removed = IF null THEN @ \cup {key} ELSE @ \ {key}]

CoverAt(s, key) == IF key \in DOMAIN s.covers THEN s.covers[key] ELSE NullCover

store_bid_record(s, key, balance) ==
    [s EXCEPT !.dirty = TRUE,
              !.bids = StoreOrder(@, key, [balance |-> balance, limit |-> NoLimit])]

store_ask_record(s, key, balance) ==
    [s EXCEPT !.dirty = TRUE,
              !.asks = StoreOrder(@, key, [balance |-> balance, limit |-> NoLimit])]

store_short_record(s, key, balance, limit) ==
    [s EXCEPT !.dirty = TRUE,
              !.shorts = StoreOrder(@, key, [balance |-> balance, limit |-> limit])]

Above(k, l) == k[1] > l[1] \/ (k[1] = l[1] /\ k[2] > l[2])

Descending(keys) == SetToSortSeq(keys, Above)

Ascending(keys) == Reverse(Descending(keys))

-----------------------------------------------------------------------------
\* the engine's iterators

get_quantity(bid) ==
    IF bid.type = "bid" THEN ToBase(bid.balance, bid.key[1]) ELSE bid.balance

get_next_short(e) ==
    IF e.short_itr = <<>>
    THEN e
    ELSE LET key == Head(e.short_itr)
         IN  [e EXCEPT !.short_itr = Tail(@),
                       !.bid = [type |-> "short", key |-> key,
                                balance |-> db.shorts[key].balance,
                                limit |-> db.shorts[key].limit]]

get_next_bid(e) ==
    IF e.bid # None /\ get_quantity(e.bid) > 0
    THEN e
    ELSE LET next == [e EXCEPT !.bid = None, !.progress = TRUE]
             key == Head(e.bid_itr)
         IN  IF \/ e.bid_itr = <<>>
                \/ e.feed # NoFeed /\ key[1] < e.feed /\ e.short_itr # <<>>
             THEN get_next_short(next)
             ELSE [next EXCEPT !.bid_itr = Tail(@),
                               !.bid = [type |-> "bid", key |-> key,
                                        balance |-> db.bids[key].balance]]

\* collateral_itr holds the positions that may be called: the loop over the
\* others changes nothing but the iterator.
get_next_ask(e) ==
    IF e.ask # None /\ e.ask.balance > 0
    THEN e
    ELSE LET next == [e EXCEPT !.ask = None, !.progress = TRUE]
         IN  IF e.bid # None /\ e.collateral_itr # <<>>
             THEN LET key == Head(e.collateral_itr)
                      cover == db.covers[key]
                  IN  [next EXCEPT !.collateral_itr = Tail(@), !.collat = cover,
                                   !.ask = [type |-> "cover", key |-> key,
                                            balance |-> cover.payoff,
                                            collateral |-> cover.collateral]]
             ELSE IF e.ask_itr # <<>>
             THEN LET key == Head(e.ask_itr)
                  IN  [next EXCEPT !.ask_itr = Tail(@),
                                   !.ask = [type |-> "ask", key |-> key,
                                            balance |-> db.asks[key].balance]]
             ELSE next

Callable(key) ==
    \/ db.feed # NoFeed /\ key[1] > db.feed
    \/ db.covers[key].expiration <= db.now

-----------------------------------------------------------------------------
\* what one match pays.  Each operator takes and returns the engine; a
\* failed FC_ASSERT or division sets its error.

Credit(e, owner, asset, amount) ==
    [e EXCEPT !.pend.balances[owner][asset] = @ + amount]

CollectFees(e, asset, amount) == [e EXCEPT !.pend.fees[asset] = @ + amount]

\* Mutant: what the short put up is not part of the collateral.
pay_current_shortUnsecured(e, m) ==
    LET rest == e.bid.balance - m.short_collateral
        used == IF rest < DustLimit /\ rest > 0
                THEN e.bid.balance ELSE m.short_collateral
        left == [e.bid EXCEPT !.balance = @ - used]
        collateral == m.ask_paid
        call_collateral == (collateral * 2) \div 3
        key == <<PriceOf(m.bid_paid, call_collateral), e.bid.key[2]>>
        old == CoverAt(e.pend, key)
        cover == [collateral |-> old.collateral + collateral,
                  payoff |-> old.payoff + m.bid_paid,
                  rate |-> e.bid.key[1],
                  expiration |-> db.now + ShortPeriod]
        stored == store_short_record(store_collateral_record(e.pend, key, cover),
                                     left.key, left.balance, left.limit)
    IN  IF m.bid_paid = 0
        THEN [e EXCEPT !.bid = left, !.leak.xts = @ + m.ask_paid]
        ELSE IF call_collateral = 0 \/ left.balance < 0
        THEN [e EXCEPT !.error = TRUE]
        ELSE [e EXCEPT !.bid = left,
                       !.pend = [stored EXCEPT !.supply["USD"] = @ + m.bid_paid]]

pay_current_short(e, m) ==
    LET rest == e.bid.balance - m.short_collateral
        used == IF rest < DustLimit /\ rest > 0
                THEN e.bid.balance ELSE m.short_collateral
        left == [e.bid EXCEPT !.balance = @ - used]
        collateral == used + m.ask_paid
        call_collateral == (collateral * 2) \div 3
        key == <<PriceOf(m.bid_paid, call_collateral), e.bid.key[2]>>
        old == CoverAt(e.pend, key)
        cover == [collateral |-> old.collateral + collateral,
                  payoff |-> old.payoff + m.bid_paid,
                  rate |-> e.bid.key[1],
                  expiration |-> db.now + ShortPeriod]
        stored == store_short_record(store_collateral_record(e.pend, key, cover),
                                     left.key, left.balance, left.limit)
    IN  IF m.bid_paid = 0
        THEN [e EXCEPT !.bid = left, !.leak.xts = @ + m.ask_paid]
        ELSE IF call_collateral = 0 \/ left.balance < 0
        THEN [e EXCEPT !.error = TRUE]
        ELSE [e EXCEPT !.bid = left,
                       !.pend = [stored EXCEPT !.supply["USD"] = @ + m.bid_paid]]

pay_current_bid(e, m) ==
    LET left == e.bid.balance - m.bid_paid
        dust == IF ToBase(left, e.bid.key[1]) = 0 THEN left ELSE 0
        paid == Credit(CollectFees(e, "USD", dust), e.bid.key[2], "XTS", m.bid_received)
    IN  [paid EXCEPT !.error = @ \/ left < 0,
                     !.bid.balance = left - dust,
                     !.pend = store_bid_record(@, e.bid.key, left - dust)]

\* Mutant: the dust of an ask is collected by nobody.
pay_current_askDropsDust(e, m, fees) ==
    LET left == e.ask.balance - m.ask_paid
        dust == IF ToQuote(left, e.ask.key[1]) = 0 THEN left ELSE 0
        paid == Credit(e, e.ask.key[2], "USD", m.ask_received)
    IN  [paid EXCEPT !.error = @ \/ left < 0,
                     !.leak.dust = @ + (IF fees = "USD" THEN dust ELSE 0),
                     !.ask.balance = left - dust,
                     !.pend = store_ask_record(@, e.ask.key, left - dust)]

\* fees is the asset whose record the caller passes as base_asset.
pay_current_ask(e, m, fees) ==
    LET left == e.ask.balance - m.ask_paid
        dust == IF ToQuote(left, e.ask.key[1]) = 0 THEN left ELSE 0
        paid == Credit(CollectFees(e, fees, dust), e.ask.key[2], "USD", m.ask_received)
    IN  [paid EXCEPT !.error = @ \/ left < 0,
                     !.leak.dust = @ + (IF fees = "USD" THEN dust ELSE 0),
                     !.ask.balance = left - dust,
                     !.pend = store_ask_record(@, e.ask.key, left - dust)]

CoverAge(e) == ShortPeriod - (e.collat.expiration - db.now)

get_current_cover_debt(e) ==
    e.ask.balance + get_interest_owed(e.ask.balance, e.collat.rate, CoverAge(e))

\* Mutant: the debt outlives its collateral.
pay_current_coverKeepsDebt(e, m) ==
    LET whole == m.ask_received >= get_current_cover_debt(e)
        interest == IF whole THEN m.ask_received - e.collat.payoff
                    ELSE get_interest_paid(m.ask_received, e.collat.rate, CoverAge(e))
        principle == m.ask_received - interest
        debt == IF whole THEN 0 ELSE e.ask.balance - principle
        collateral == e.ask.collateral - m.ask_paid
        unpaid == 0
        left == debt - unpaid
        home == IF left = 0 THEN collateral ELSE 0
        fee == IF e.collat.expiration > db.now THEN (home * 5000) \div 100000 ELSE 0
        old == CoverAt(e.pend, e.ask.key)
        cover == [e.collat EXCEPT !.collateral = collateral - home, !.payoff = left]
        paid == Credit(CollectFees(CollectFees(e, "USD", interest - unpaid), "XTS", fee),
                       e.ask.key[2], "XTS", home - fee)
    IN  [paid EXCEPT !.error = \/ @ \/ e.collat.rate = NoRate
                               \/ interest < 0 \/ debt < 0 \/ collateral < 0,
                     !.collat = cover,
                     !.ask.balance = left, !.ask.collateral = collateral - home,
                     !.pend = store_collateral_record(
                                 [@ EXCEPT !.supply["USD"] = @ - principle],
                                 e.ask.key, cover),
                     !.leak.xts = @ + old.collateral - e.ask.collateral,
                     !.leak.debt = @ + old.payoff - e.ask.balance]

pay_current_cover(e, m) ==
    LET whole == m.ask_received >= get_current_cover_debt(e)
        interest == IF whole THEN m.ask_received - e.collat.payoff
                    ELSE get_interest_paid(m.ask_received, e.collat.rate, CoverAge(e))
        principle == m.ask_received - interest
        debt == IF whole THEN 0 ELSE e.ask.balance - principle
        collateral == e.ask.collateral - m.ask_paid
        unpaid == IF collateral = 0 THEN debt ELSE 0
        left == debt - unpaid
        home == IF left = 0 THEN collateral ELSE 0
        fee == IF e.collat.expiration > db.now THEN (home * 5000) \div 100000 ELSE 0
        old == CoverAt(e.pend, e.ask.key)
        cover == [e.collat EXCEPT !.collateral = collateral - home, !.payoff = left]
        paid == Credit(CollectFees(CollectFees(e, "USD", interest - unpaid), "XTS", fee),
                       e.ask.key[2], "XTS", home - fee)
    IN  [paid EXCEPT !.error = \/ @ \/ e.collat.rate = NoRate
                               \/ interest < 0 \/ debt < 0 \/ collateral < 0,
                     !.collat = cover,
                     !.ask.balance = left, !.ask.collateral = collateral - home,
                     !.pend = store_collateral_record(
                                 [@ EXCEPT !.supply["USD"] = @ - principle],
                                 e.ask.key, cover),
                     !.leak.xts = @ + old.collateral - e.ask.collateral,
                     !.leak.debt = @ + old.payoff - e.ask.balance]

-----------------------------------------------------------------------------
\* one match: the four cases of execute()

Trade(bid_price, ask_price, bid_paid, bid_received, ask_paid, ask_received, short_collateral) ==
    [bid_price |-> bid_price, ask_price |-> ask_price,
     bid_paid |-> bid_paid, bid_received |-> bid_received,
     ask_paid |-> ask_paid, ask_received |-> ask_received,
     short_collateral |-> short_collateral]

CoverTrade(e, price, usd_for_sale) ==
    LET affordable == ToQuote(e.ask.collateral, price)
        usd == Least({usd_for_sale, affordable, get_current_cover_debt(e)})
        paid == IF usd = affordable THEN e.ask.collateral ELSE ToBase(usd, price)
    IN  Trade(price, price, usd, paid, paid, usd, 0)

ShortUsd(e) == ToQuote(e.bid.balance, e.feed \div 2)

ShortCollateral(e, usd) ==
    IF usd = ShortUsd(e) THEN e.bid.balance ELSE ToBase(usd, e.feed \div 2)

ShortCover(e, price) ==
    LET m == CoverTrade(e, price, ShortUsd(e))
        n == [m EXCEPT !.short_collateral = ShortCollateral(e, m.bid_paid)]
    IN  [e |-> pay_current_cover(pay_current_short(e, n), n), m |-> n]

BidCover(e, price) ==
    LET m == CoverTrade(e, price, e.bid.balance)
    IN  [e |-> pay_current_cover(pay_current_bid(e, m), m), m |-> m]

ShortAsk(e, bid_price) ==
    LET price == e.ask.key[1]
        usd == Least({ShortUsd(e), ToQuote(e.ask.balance, price)})
        paid == IF usd = ShortUsd(e) THEN ToBase(usd, price) ELSE e.ask.balance
        m == Trade(bid_price, price, usd, paid, paid, usd, ShortCollateral(e, usd))
    IN  [e |-> pay_current_ask(pay_current_short(e, m), m, "USD"), m |-> m]

\* Mutant: nobody gets the difference between the bid's and the ask's price.
BidAskNoFees(e, bid_price) ==
    LET price == e.ask.key[1]
        quantity == Least({get_quantity(e.bid), e.ask.balance})
        paid == IF quantity = get_quantity(e.bid)
                THEN e.bid.balance ELSE ToQuote(quantity, bid_price)
        m == Trade(bid_price, price, paid, quantity, quantity, ToQuote(quantity, price), 0)
    IN  [e |-> pay_current_ask(pay_current_bid(e, m), m, "XTS"), m |-> m]

BidAsk(e, bid_price) ==
    LET price == e.ask.key[1]
        quantity == Least({get_quantity(e.bid), e.ask.balance})
        paid == IF quantity = get_quantity(e.bid)
                THEN e.bid.balance ELSE ToQuote(quantity, bid_price)
        m == Trade(bid_price, price, paid, quantity, quantity, ToQuote(quantity, price), 0)
        f == pay_current_ask(pay_current_bid(e, m), m, "XTS")
    IN  [e |-> CollectFees([f EXCEPT !.error = @ \/ paid < m.ask_received],
                           "USD", paid - m.ask_received),
         m |-> m]

Match(e, bid_price) ==
    CASE e.ask.type = "cover" /\ e.bid.type = "short" -> ShortCover(e, bid_price)
      [] e.ask.type = "cover" /\ e.bid.type = "bid"   -> BidCover(e, bid_price)
      [] e.ask.type = "ask"   /\ e.bid.type = "short" -> ShortAsk(e, bid_price)
      [] e.ask.type = "ask"   /\ e.bid.type = "bid"   -> BidAsk(e, bid_price)

-----------------------------------------------------------------------------
\* market_engine_v7::execute

Idle == [error |-> FALSE, trade |-> None]

Started ==
    [bid |-> None, ask |-> None, collat |-> NullCover,
     bid_itr |-> Descending(DOMAIN db.bids),
     ask_itr |-> Ascending(DOMAIN db.asks),
     short_itr |-> Descending(DOMAIN db.shorts),
     collateral_itr |-> SelectSeq(Descending(DOMAIN db.covers), Callable),
     feed |-> db.feed, progress |-> TRUE, error |-> FALSE,
     pend |-> db, leak |-> leak, trade |-> None]

\* market_status::update_feed_price
UpdateFeedPrice(s) == [s EXCEPT !.last_valid = @ \/ db.feed # NoFeed]

\* The exception handler: the pending state of the engine is dropped.
Abort ==
    /\ db' = UpdateFeedPrice(db)
    /\ eng' = [Idle EXCEPT !.error = TRUE]
    /\ pc' = "trx"
    /\ UNCHANGED <<leak, done>>

Start ==
    /\ pc = "execute"
    /\ IF db.feed = NoFeed /\ ~db.last_valid
       THEN Abort
       ELSE /\ eng' = get_next_ask(get_next_bid(Started))
            /\ pc' = "match"
            /\ UNCHANGED <<db, leak, done>>

\* The condition of the loop, evaluated on the way into the next round.
Fetched ==
    LET e == get_next_bid(eng)
    IN  IF e.bid = None THEN e ELSE get_next_ask(e)

More(e) == e.bid # None /\ e.ask # None

\* Mutant: a short always sells at the feed price.
BidPriceNoLimit(e) ==
    IF e.bid.type = "bid" THEN e.bid.key[1] ELSE e.feed

BidPrice(e) ==
    IF e.bid.type = "bid" THEN e.bid.key[1]
    ELSE IF e.bid.limit = NoLimit THEN e.feed
    ELSE Least({e.bid.limit, e.feed})

SkipsShort(e) ==
    /\ e.bid.type = "short"
    /\ \/ e.feed = NoFeed
       \/ e.bid.limit # NoLimit /\ e.bid.limit < e.ask.key[1]

minimum_ask(e) == (e.feed * 9) \div 10

SkipsCover(e) ==
    /\ e.ask.type = "cover"
    /\ \/ e.feed = NoFeed
       \/ e.ask.key[1] < BidPrice(e) /\ e.collat.expiration > db.now
       \/ BidPrice(e) < minimum_ask(e)

\* Mutant: an ask at exactly the bid's price is left alone.
StopsAtSpreadEarly(e) == e.ask.type = "ask" /\ BidPrice(e) <= e.ask.key[1]

StopsAtSpread(e) == e.ask.type = "ask" /\ BidPrice(e) < e.ask.key[1]

Entered == [Fetched EXCEPT !.progress = FALSE, !.trade = None]

SkipShort ==
    /\ pc = "match"
    /\ More(Fetched) /\ Fetched.progress
    /\ SkipsShort(Fetched)
    /\ eng' = [Entered EXCEPT !.bid = None]
    /\ UNCHANGED <<db, pc, leak, done>>

SkipCover ==
    /\ pc = "match"
    /\ More(Fetched) /\ Fetched.progress
    /\ ~SkipsShort(Fetched) /\ SkipsCover(Fetched)
    /\ eng' = [Entered EXCEPT !.ask = None]
    /\ UNCHANGED <<db, pc, leak, done>>

\* "We appear caught in an order matching loop!"
Caught == pc = "match" /\ More(Fetched) /\ ~Fetched.progress

Exchange ==
    /\ pc = "match"
    /\ More(Fetched)
    /\ Caught \/ ~(SkipsShort(Fetched) \/ SkipsCover(Fetched) \/ StopsAtSpread(Fetched))
    /\ LET match == Match(Entered, BidPrice(Entered))
       IN  IF Caught \/ match.e.error
           THEN Abort
           ELSE /\ eng' = [match.e EXCEPT !.trade =
                             [m |-> match.m, bid |-> Entered.bid, ask |-> Entered.ask]]
                /\ UNCHANGED <<db, pc, leak, done>>

Finish ==
    /\ pc = "match"
    /\ \/ ~More(Fetched)
       \/ /\ More(Fetched) /\ Fetched.progress
          /\ ~SkipsShort(Fetched) /\ StopsAtSpread(Fetched)
    /\ db' = UpdateFeedPrice(eng.pend)
    /\ leak' = eng.leak
    /\ eng' = Idle
    /\ pc' = "matched"
    /\ UNCHANGED done

Step == Start \/ SkipShort \/ SkipCover \/ Exchange \/ Finish

-----------------------------------------------------------------------------
\* The operations of a block's transactions.  An operation and the
\* withdrawals and deposits that balance it are one transaction; its fee is
\* left out.

Applies(s) ==
    /\ pc \in {"trx", "matched"}
    /\ done.operations < MaxOperations
    /\ \A owner \in Owners, asset \in Assets : s.balances[owner][asset] >= 0
    /\ db' = s
    /\ eng' = Idle
    /\ pc' = "trx"
    /\ done' = [done EXCEPT !.operations = @ + 1]

Deltas == Amounts \cup {-amount : amount \in Amounts}

\* An order may shrink to nothing but not below: insufficient_funds.
bid_operation(owner, price, amount) ==
    LET key == <<price, owner>>
        balance == OrderAt(db.bids, key).balance + amount
    IN  /\ balance >= 0
        /\ Applies(store_bid_record([db EXCEPT !.balances[owner]["USD"] = @ - amount],
                                    key, balance))
        /\ UNCHANGED leak

ask_operation(owner, price, amount) ==
    LET key == <<price, owner>>
        balance == OrderAt(db.asks, key).balance + amount
    IN  /\ balance >= 0
        /\ Applies(store_ask_record([db EXCEPT !.balances[owner]["XTS"] = @ - amount],
                                    key, balance))
        /\ UNCHANGED leak

short_operation(owner, rate, limit, amount) ==
    LET key == <<rate, owner>>
        balance == OrderAt(db.shorts, key).balance + amount
    IN  /\ balance >= 0
        /\ Applies(store_short_record([db EXCEPT !.balances[owner]["XTS"] = @ - amount],
                                      key, balance, limit))
        /\ UNCHANGED leak

\* The old position is removed before the new one is stored, so only another
\* position of the owner can stand at the new call price.
Reprice(s, key, cover, price) ==
    LET new == <<price, key[2]>>
        gone == store_collateral_record(s, key, NullCover)
        old == CoverAt(gone, new)
    IN  /\ Applies(store_collateral_record(gone, new, cover))
        /\ leak' = [leak EXCEPT !.xts = @ + old.collateral, !.debt = @ + old.payoff]

cover_operation(key, amount, new_price) ==
    LET old == CoverAt(db, key)
        age == db.now - (old.expiration - ShortPeriod)
        whole == amount >= old.payoff + get_interest_owed(old.payoff, old.rate, age)
        interest == IF whole THEN amount - old.payoff
                    ELSE get_interest_paid(amount, old.rate, age)
        cover == [old EXCEPT !.payoff = IF whole THEN 0 ELSE @ - (amount - interest)]
        paid == [db EXCEPT !.balances[key[2]]["USD"] = @ - amount,
                           !.supply["USD"] = @ - (amount - interest),
                           !.fees["USD"] = @ + interest]
        call_collateral == (old.collateral * 2) \div 3
        call_price == PriceOf(cover.payoff, call_collateral)
    IN  /\ amount # 0 \/ new_price # NoLimit
        /\ old.rate # NoRate
        /\ cover.payoff >= 0
        /\ \/ /\ cover.payoff > 0
              /\ call_collateral > 0
              /\ Reprice(paid, key, cover,
                         IF new_price > call_price THEN new_price ELSE call_price)
           \/ /\ cover.payoff = 0
              /\ Applies(store_collateral_record(
                    [paid EXCEPT !.balances[key[2]]["XTS"] = @ + old.collateral],
                    key, NullCover))
              /\ UNCHANGED leak

\* Anyone may pay.  A position that this block has already removed is found
\* as its null record and comes back without debt.
add_collateral_operation(payer, key, amount) ==
    LET cover == [CoverAt(db, key) EXCEPT !.collateral = @ + amount]
        call_collateral == (cover.collateral * 2) \div 3
    IN  /\ call_collateral > 0
        /\ Reprice([db EXCEPT !.balances[payer]["XTS"] = @ - amount],
                   key, cover, PriceOf(cover.payoff, call_collateral))

\* A delegate publishes a feed: the market is dirty, whatever it does to the
\* median of the delegates' feeds.
update_feed(price) ==
    /\ Applies([db EXCEPT !.feed = price, !.dirty = TRUE])
    /\ UNCHANGED leak

\* The median changes because a feed is a day old or the active delegates
\* are others.  That marks no market; it counts as one of the operations.
FeedExpires(price) ==
    /\ price # db.feed
    /\ Applies([db EXCEPT !.feed = price])
    /\ UNCHANGED leak

-----------------------------------------------------------------------------
\* extend_chain: the next block executes the market if the last one touched it

NewBlock ==
    /\ pc \in {"trx", "matched"}
    /\ done.blocks < MaxBlocks
    /\ db' = [db EXCEPT !.now = @ + 1, !.dirty = FALSE, !.removed = {}]
    /\ pc' = IF db.dirty THEN "execute" ELSE "trx"
    /\ eng' = Idle
    /\ done' = [done EXCEPT !.blocks = @ + 1]
    /\ UNCHANGED leak

Bid == \E owner \in Owners, price \in Prices, amount \in Deltas :
          bid_operation(owner, price, amount)

Ask == \E owner \in Owners, price \in Prices, amount \in Deltas :
          ask_operation(owner, price, amount)

Short == \E owner \in Owners, rate \in Rates, limit \in Prices \cup {NoLimit},
            amount \in Deltas : short_operation(owner, rate, limit, amount)

Cover == \E key \in DOMAIN db.covers, amount \in Amounts \cup {0},
            new_price \in Prices \cup {NoLimit} : cover_operation(key, amount, new_price)

AddCollateral ==
    \E payer \in Owners, key \in DOMAIN db.covers \cup db.removed, amount \in Amounts :
        add_collateral_operation(payer, key, amount)

Feed == \E price \in Prices \cup {NoFeed} : update_feed(price) \/ FeedExpires(price)

-----------------------------------------------------------------------------
\* what the node reports about the shares in its records

Total(f, part(_)) == FoldFunction(+, 0, [k \in DOMAIN f |-> part(f[k])])

calculate_supply(s, asset) ==
    LET balance(order) == order.balance
        collateral(cover) == cover.collateral
        owned(balances) == balances[asset]
    IN  s.fees[asset] + Total(s.balances, owned)
        + IF asset = "XTS"
          THEN Total(s.asks, balance) + Total(s.shorts, balance)
               + Total(s.covers, collateral)
          ELSE Total(s.bids, balance)

calculate_debt(s) ==
    LET payoff(cover) == cover.payoff
    IN  Total(s.covers, payoff)

Init ==
    /\ \E book \in Books :
          LET empty == [balances |-> book.balances, covers |-> book.covers,
                        fees |-> [asset \in Assets |-> 0],
                        bids |-> <<>>, asks |-> <<>>, shorts |-> <<>>,
                        removed |-> {}, dirty |-> FALSE, feed |-> book.feed,
                        last_valid |-> book.feed # NoFeed, now |-> 0,
                        supply |-> [asset \in Assets |-> 0]]
          IN  db = [empty EXCEPT !.supply =
                       [asset \in Assets |-> calculate_supply(empty, asset)]]
    /\ eng = Idle
    /\ pc = "trx"
    /\ leak = [xts |-> 0, debt |-> 0, dust |-> 0]
    /\ done = [operations |-> 0, blocks |-> 0]

Next == Step \/ Bid \/ Ask \/ Short \/ Cover \/ AddCollateral \/ Feed \/ NewBlock

Spec == Init /\ [][Next]_vars

-----------------------------------------------------------------------------
\* Properties

\* The records as they are now: the engine's pending state while it executes.
Records == IF pc = "match" THEN eng.pend ELSE db
Leaks == IF pc = "match" THEN eng.leak ELSE leak

\* The types of the state; no balance of an account, order or position is
\* ever negative, before, during or after an execution.
TypeOK ==
    /\ pc \in {"trx", "execute", "match", "matched"}
    /\ \A owner \in Owners, asset \in Assets : Records.balances[owner][asset] \in Nat
    /\ \A f \in {Records.bids, Records.asks, Records.shorts} :
          \A k \in DOMAIN f : k \in Nat \X Owners /\ f[k].balance \in Nat \ {0}
    /\ \A k \in DOMAIN Records.covers :
          /\ k \in Nat \X Owners
          /\ Records.covers[k].collateral \in Nat \ {0}
          /\ Records.covers[k].payoff \in Nat

\* No match, order or cover creates or destroys XTS: the supply on record is
\* what calculate_supply adds up, but for what the named leaks account for
\* (an ask paid to a short that bought nothing, a position stored over
\* another one, the dust of an ask collected in the record of the other
\* asset).
XTSAccountedFor ==
    Records.supply["XTS"] = calculate_supply(Records, "XTS") + Leaks.xts + Leaks.dust

\* Every USD in an account, an order or the fees is owed by some margin
\* position, up to the debts that were stored over and the dust of asks:
\* calculate_supply = calculate_debt.
USDBacked ==
    calculate_supply(Records, "USD") = calculate_debt(Records) + Leaks.debt + Leaks.dust

\* "if the balance is less than 1 XTS * PRICE < .001 USD XTS goes to fees"
\* (pay_current_ask): what is left of an ask is collected in the record of
\* the asset it is in.
DustGoesToFees == Leaks.dust = 0

\* A trade never gives an order less than its limit price promises, rounded
\* down once: an ask or a bid is paid at its own price or better, a short
\* sells at an ask within its limit and the feed, a margin call sells no
\* lower than the minimum ask.
LimitPricesRespected ==
    eng.trade # None =>
        LET m == eng.trade.m
            bid == eng.trade.bid
            ask == eng.trade.ask
        IN  /\ bid.type = "bid" => m.bid_received >= ToBase(m.bid_paid, bid.key[1])
            /\ bid.type = "short" =>
                  /\ m.bid_price <= eng.feed
                  /\ bid.limit # NoLimit => m.bid_price <= bid.limit
                  /\ m.bid_received >= ToBase(m.bid_paid, m.bid_price)
            /\ ask.type = "ask" => m.ask_received >= ToQuote(m.ask_paid, ask.key[1])
            /\ ask.type = "cover" => m.ask_price >= minimum_ask(eng)

\* An execution that succeeds leaves no ask that a bid would buy from.
NotCrossed ==
    pc = "matched" =>
        \A b \in DOMAIN db.bids, a \in DOMAIN db.asks :
            ToBase(db.bids[b].balance, b[1]) > 0 => b[1] < a[1]

\* Every round of the matching loop uses up an order, so the loop ends and
\* its guard "We appear caught in an order matching loop!" never fires.
NeverCaught == ~Caught

\* A margin position is opened with enough collateral not to be called at
\* the feed it was opened at.
OpenedAboveWater ==
    eng.trade # None /\ pc = "match" /\ eng.trade.bid.type = "short" =>
        \A k \in DOMAIN eng.pend.covers \ DOMAIN db.covers : k[1] <= eng.feed

=============================================================================
