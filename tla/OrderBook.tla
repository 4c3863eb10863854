----------------------------- MODULE OrderBook ------------------------------
(***************************************************************************)
(* exchange/venues/book/engine.py: a binary market traded through one      *)
(* price-time book of complete sets.  "bid yes" and "ask no" are bids on   *)
(* the yes axis, "ask yes" and "bid no" are asks; two crossing orders      *)
(* transfer a share, mint a set or redeem one, whichever their intents     *)
(* say.  place_order matches the new order to the end before it returns,   *)
(* and every call runs inside one API handler, so it is one step.          *)
(*                                                                         *)
(* Prices are ticks out of One, sizes are whole shares.  The code's money  *)
(* quantum is its price quantum times its size quantum, so price * size is *)
(* exact there as it is here.                                              *)
(***************************************************************************)
EXTENDS Ledger, SequencesExt

CONSTANTS
  Traders,
  Escrow,        \* BookMarket.escrow_account_id
  One,           \* ticks in a credit: what a complete set is worth
  Prices,        \* prices an order may name
  Sizes,         \* sizes an order may name
  Funds,         \* available balance of a trader before the market opens
  MaxOrders      \* bound: orders of the market

BookOutcomes == {"yes", "no"}
Sides == {"bid", "ask"}
Parties == Traders \cup {Escrow}
OrderIds == 1..MaxOrders

\* A bid's lock goes by its lock_type and its order, the escrow's by its type.
OrderLock(i) == <<"limit_order", i>>
EscrowLock == <<"position">>
LockKeys == {OrderLock(i) : i \in OrderIds} \cup {EscrowLock}

ASSUME OrderBookAssumption ==
  /\ IsFiniteSet(Traders) /\ Escrow \notin Traders
  /\ One \in Nat /\ One % 2 = 0
  /\ Prices \subseteq 1..(One - 1)
  /\ Sizes \subseteq Nat \ {0}
  /\ Funds \in Nat /\ MaxOrders \in Nat

VARIABLES
  ledger,      \* RiskEngine, restricted to this market's parties
  status,      \* "none" before create_market, then BookMarket.status
  resolution,  \* BookMarket.resolution
  orders,      \* BookEngine.orders; an order's id and sequence is its index
  shares,      \* BookEngine.positions
  sets         \* BookMarket.total_sets_minted

vars == <<ledger, status, resolution, orders, shares, sets>>

NoOutcome == "none"
NoShares == [t \in Traders |-> [o \in BookOutcomes |-> 0]]

\* reserved is the order's entry in BookEngine.reservations, 0 when it has none
Order ==
  [account : Traders, side : Sides, outcome : BookOutcomes, price : Prices,
   size : Sizes, remaining : Nat, reserved : Nat,
   status : {"open", "partial", "filled", "cancelled"}]

TypeOK ==
  /\ ledger \in Ledgers(Parties, LockKeys)
  /\ status \in {"none", "open", "resolved", "void"}
  /\ resolution \in BookOutcomes \cup {NoOutcome}
  /\ orders \in Seq(Order) /\ Len(orders) <= MaxOrders
  /\ shares \in [Traders -> [BookOutcomes -> Nat]]
  /\ sets \in Nat

Init ==
  /\ ledger = [EmptyLedger(Parties, LockKeys) EXCEPT
                 !.available = [a \in Parties |-> IF a \in Traders THEN Funds ELSE 0]]
  /\ status = "none"
  /\ resolution = NoOutcome
  /\ orders = <<>>
  /\ shares = NoShares
  /\ sets = 0

CreateMarket ==
  /\ status = "none"
  /\ status' = "open"
  /\ UNCHANGED <<ledger, resolution, orders, shares, sets>>

-----------------------------------------------------------------------------
(* The yes axis                                                            *)

IsBid(order) == <<order.side, order.outcome>> \in {<<"bid", "yes">>, <<"ask", "no">>}
YesPrice(order) == IF order.outcome = "yes" THEN order.price ELSE One - order.price
Live(order) == order.status \in {"open", "partial"}

Crosses(bid, ask) == YesPrice(bid) >= YesPrice(ask)

Makers(book, taker) ==
  LET t == book[taker]
  IN  {i \in DOMAIN book \ {taker} :
         /\ Live(book[i])
         /\ IsBid(book[i]) # IsBid(t)
         /\ IF IsBid(t) THEN Crosses(t, book[i]) ELSE Crosses(book[i], t)}

\* Order i is matched before order j of the same side: better price for the
\* taker, then lower sequence.
Ahead(book, i, j) ==
  LET mine == YesPrice(book[i]) yours == YesPrice(book[j])
  IN  \/ IF IsBid(book[i]) THEN mine > yours ELSE mine < yours
      \/ mine = yours /\ i < j

\* Mutant: the oldest crossing order, whatever its price.
BestOldest(book, taker) ==
  CHOOSE i \in Makers(book, taker) : \A j \in Makers(book, taker) : i <= j

Best(book, taker) ==
  CHOOSE i \in Makers(book, taker) :
    \A j \in Makers(book, taker) \ {i} : Ahead(book, i, j)

-----------------------------------------------------------------------------
(* _fill.  A desk is everything a fill changes: the ledger, the orders, the *)
(* positions and the number of sets.                                        *)

\* Mutant: the lock gives up what the trade costs.
SpendBidAtTradePrice(L, book, i, price, n, recipient) ==
  LET payer == book[i].account
  IN  TransferAvailable(DecreaseLock(L, payer, OrderLock(i), price * n), payer, recipient, price * n)

\* _spend_bid: the lock gives up the order's own price, the trade costs `price`.
SpendBid(L, book, i, price, n, recipient) ==
  LET payer == book[i].account
  IN  TransferAvailable(DecreaseLock(L, payer, OrderLock(i), book[i].price * n),
                        payer, recipient, price * n)

AddPosition(s, order, n) ==
  [s EXCEPT ![order.account][order.outcome] = IF order.side = "bid" THEN @ + n ELSE @ - n]

\* _advance, and the reservation _consume_ask uses up
Advance(order, n) ==
  [order EXCEPT
     !.remaining = @ - n,
     !.reserved  = IF order.side = "ask" THEN @ - n ELSE @,
     !.status    = IF order.remaining = n THEN "filled" ELSE "partial"]

SharePriceUnflipped(book, maker, i) == YesPrice(book[maker])   \* mutant

\* The price of order i's outcome in a trade with this maker: the maker's price,
\* whatever the pair of intents.
SharePrice(book, maker, i) ==
  IF book[i].outcome = "yes" THEN YesPrice(book[maker]) ELSE One - YesPrice(book[maker])

MoveMoney(desk, taker, maker, n) ==
  LET book == desk.orders
      PaidBy(i) == SharePrice(book, maker, i)
      Spend(L, i, to) == SpendBid(L, book, i, PaidBy(i), n, to)
      Redeem(L, i) == TransferAvailable(L, Escrow, book[i].account, PaidBy(i) * n)
  IN  CASE book[taker].side = "bid" /\ book[maker].side = "ask" ->
             Spend(desk.ledger, taker, book[maker].account)
        [] book[taker].side = "ask" /\ book[maker].side = "bid" ->
             Spend(desk.ledger, maker, book[taker].account)
        [] book[taker].side = "bid" /\ book[maker].side = "bid" ->
             Freeze(Spend(Spend(desk.ledger, taker, Escrow), maker, Escrow),
                    Escrow, EscrowLock, One * n)
        [] OTHER ->
             Redeem(Redeem(DecreaseLock(desk.ledger, Escrow, EscrowLock, One * n), taker), maker)

SetsAfterMintsOnly(desk, taker, maker, n) ==   \* mutant: redeemed sets still count
  IF desk.orders[taker].side = "bid" /\ desk.orders[maker].side = "bid"
  THEN desk.sets + n ELSE desk.sets

SetsAfter(desk, taker, maker, n) ==
  LET sides == {desk.orders[taker].side, desk.orders[maker].side}
  IN  CASE sides = {"bid"} -> desk.sets + n
        [] sides = {"ask"} -> desk.sets - n
        [] OTHER -> desk.sets

Fill(desk, taker, maker, n) ==
  [ledger |-> MoveMoney(desk, taker, maker, n),
   orders |-> [desk.orders EXCEPT ![taker] = Advance(@, n), ![maker] = Advance(@, n)],
   shares |-> AddPosition(AddPosition(desk.shares, desk.orders[taker], n),
                          desk.orders[maker], n),
   sets   |-> SetsAfter(desk, taker, maker, n)]

\* Mutant: a fill is as large as the taker, whatever the maker has left.
FillBestUncapped(desk, taker) ==
  IF desk.orders[taker].remaining = 0 \/ Makers(desk.orders, taker) = {}
  THEN desk
  ELSE Fill(desk, taker, Best(desk.orders, taker), desk.orders[taker].remaining)

FillBest(desk, taker) ==
  LET maker == Best(desk.orders, taker)
  IN  IF desk.orders[taker].remaining = 0 \/ Makers(desk.orders, taker) = {}
      THEN desk
      ELSE Fill(desk, taker, maker,
                Min({desk.orders[taker].remaining, desk.orders[maker].remaining}))

\* _match: each fill uses up the taker or a maker, so a round for every order
\* is enough.
Matched(desk, taker) ==
  FoldLeft(LAMBDA d, i : FillBest(d, taker), desk, [i \in 1..taker |-> i])

-----------------------------------------------------------------------------
(* place_order                                                             *)

Reserved(t, o) ==
  SumFunction([i \in DOMAIN orders |->
    IF orders[i].account = t /\ orders[i].outcome = o THEN orders[i].reserved ELSE 0])

NewOrder(t, side, o, price, n) ==
  [account |-> t, side |-> side, outcome |-> o, price |-> price,
   size |-> n, remaining |-> n, reserved |-> IF side = "ask" THEN n ELSE 0, status |-> "open"]

PlaceOrder(t, side, o, price, n) ==
  LET id    == Len(orders) + 1
      desk  == [ledger |-> IF side = "bid" THEN Freeze(ledger, t, OrderLock(id), price * n) ELSE ledger,
                orders |-> Append(orders, NewOrder(t, side, o, price, n)),
                shares |-> shares, sets |-> sets]
      after == Matched(desk, id)
  IN  /\ status = "open" /\ id <= MaxOrders
      /\ side = "bid" => CanPay(ledger, t, price * n)
      /\ side = "ask" => shares[t][o] - Reserved(t, o) >= n
      /\ ledger' = after.ledger /\ orders' = after.orders
      /\ shares' = after.shares /\ sets' = after.sets
      /\ UNCHANGED <<status, resolution>>

-----------------------------------------------------------------------------
(* cancel, resolve and void                                                *)

\* _cancel_order
CancelledOrder(order) == [order EXCEPT !.status = "cancelled", !.reserved = 0]

UnlockBid(L, i) ==
  IF orders[i].side = "bid" THEN ReleaseLock(L, orders[i].account, OrderLock(i)) ELSE L

Cancel(i) ==
  /\ Live(orders[i])
  /\ orders' = [orders EXCEPT ![i] = CancelledOrder(@)]
  /\ ledger' = UnlockBid(ledger, i)
  /\ UNCHANGED <<status, resolution, shares, sets>>

\* _cancel_market_orders, _release_escrow, then one transfer per position
Settle(payout) ==
  LET live     == {i \in DOMAIN orders : Live(orders[i])}
      unlocked == FoldSet(LAMBDA i, L : UnlockBid(L, i), ledger, live)
      released == ReleaseLock(unlocked, Escrow, EscrowLock)
      Pay(t, L) == TransferAvailable(L, Escrow, t, payout[t])
  IN  /\ status = "open"
      /\ ledger' = FoldSet(Pay, released, Traders)
      /\ orders' = [i \in DOMAIN orders |->
                      IF i \in live THEN CancelledOrder(orders[i]) ELSE orders[i]]
      /\ shares' = NoShares
      /\ sets' = 0

Resolve(o) ==
  /\ Settle([t \in Traders |-> One * shares[t][o]])
  /\ status' = "resolved"
  /\ resolution' = o

\* Mutant: void redeems complete sets and forgets the rest.
VoidPairsOnly ==
  /\ Settle([t \in Traders |-> One * Min({shares[t]["yes"], shares[t]["no"]})])
  /\ status' = "void"
  /\ UNCHANGED resolution

Void ==
  /\ Settle([t \in Traders |-> (One * (shares[t]["yes"] + shares[t]["no"])) \div 2])
  /\ status' = "void"
  /\ UNCHANGED resolution

-----------------------------------------------------------------------------
(* Restart.  The ledger is saved with the book, by the same _save.           *)

\* snapshot: reservations go by order id, apart from the orders.
Snapshot ==
  [status |-> status, resolution |-> resolution, sets |-> sets, positions |-> shares,
   orders       |-> [i \in DOMAIN orders |-> [orders[i] EXCEPT !.reserved = 0]],
   reservations |-> [i \in {i \in DOMAIN orders : orders[i].reserved > 0} |-> orders[i].reserved]]

\* from_snapshot
Restart ==
  LET saved == Snapshot
      reserved(i) == IF i \in DOMAIN saved.reservations THEN saved.reservations[i] ELSE 0
  IN  /\ status' = saved.status /\ resolution' = saved.resolution
      /\ sets' = saved.sets /\ shares' = saved.positions
      /\ orders' = [i \in DOMAIN saved.orders |-> [saved.orders[i] EXCEPT !.reserved = reserved(i)]]
      /\ UNCHANGED ledger

Next ==
  \/ CreateMarket
  \/ \E t \in Traders, side \in Sides, o \in BookOutcomes, price \in Prices, n \in Sizes :
       PlaceOrder(t, side, o, price, n)
  \/ \E i \in DOMAIN orders : Cancel(i)
  \/ \E o \in BookOutcomes : Resolve(o)
  \/ Void
  \/ Restart

Spec == Init /\ [][Next]_vars

-----------------------------------------------------------------------------
(* Properties *)

\* "complete-set collateral is frozen in one lock on a dedicated escrow
\* account": whatever mix of transfers, mints and redemptions the fills made,
\* there are as many yes as no shares, the escrow has locked One for each
\* pair, and it holds nothing loose; a settled market leaves it empty.
SetsAreBacked ==
  /\ \A o \in BookOutcomes : SumFunction([t \in Traders |-> shares[t][o]]) = sets
  /\ ledger.locks[Escrow][EscrowLock] = One * sets
  /\ ledger.available[Escrow] = 0

\* A live bid's lock is its price times what remains, a live ask reserves what
\* remains, an order that is done holds neither, and no trader has reserved
\* more shares than it has: no partial fill, self-trade or cancel leaks custody.
OrdersAreCovered ==
  /\ \A i \in DOMAIN orders :
       LET order == orders[i]
           open  == IF Live(order) THEN order.remaining ELSE 0
       IN  /\ ledger.locks[order.account][OrderLock(i)] =
                  (IF order.side = "bid" THEN order.price * open ELSE 0)
           /\ order.reserved = IF order.side = "ask" THEN open ELSE 0
  /\ \A t \in Traders, o \in BookOutcomes : Reserved(t, o) <= shares[t][o]

\* _match goes on until nothing crosses: between calls the best bid of the yes
\* axis is below the best ask, also across complementary outcomes.
BookIsUncrossed ==
  \A i, j \in DOMAIN orders :
    Live(orders[i]) /\ Live(orders[j]) /\ IsBid(orders[i]) /\ ~ IsBid(orders[j]) =>
      ~ Crosses(orders[i], orders[j])

\* What rests on the book between calls can be kept: it is covered, uncrossed.
RestingOrdersAreSound == OrdersAreCovered /\ BookIsUncrossed

FilledOf(book, i) == IF i \in DOMAIN book THEN book[i].size - book[i].remaining ELSE 0

\* What the step fills of order i, the order it places included.
JustFilled(i) == FilledOf(orders', i) - FilledOf(orders, i)

\* "the best canonical price on the opposite side, then the oldest order at
\* that price": when a call fills a resting order, every order ahead of it in
\* the queue has been filled to the end.
PriceTimePriority ==
  [][\A i, j \in DOMAIN orders :
       JustFilled(i) > 0 /\ Live(orders[j]) /\ IsBid(orders[i]) = IsBid(orders[j])
         /\ Ahead(orders, j, i)
       => orders'[j].status = "filled"]_vars

Wealth(L, t) == L.available[t] + L.frozen[t]

\* The money account t's own orders allow the step to move: a bid pays its
\* price for every share filled, an ask asks its price.
AtOwnPrices(t) ==
  SumFunction([i \in DOMAIN orders' |->
    LET value == orders'[i].price * JustFilled(i)
    IN  IF orders'[i].account # t THEN 0
        ELSE IF orders'[i].side = "bid" THEN -value ELSE value])

\* A limit is a limit: while the market is open no call, whoever makes it,
\* leaves a trader with less than its own orders' prices imply, whoever was the
\* maker, and when one call fills several of its orders.
LimitsHonoured ==
  [][status' = "open" =>
       \A t \in Traders : Wealth(ledger', t) - Wealth(ledger, t) >= AtOwnPrices(t)]_vars

\* The book implements the market in complete sets it is built to be.
Abstract == INSTANCE CompleteSets WITH
  Outcomes <- BookOutcomes,
  wealth <- [t \in Traders |-> Wealth(ledger, t)]

ImplementsCompleteSets == Abstract!Spec
=============================================================================
