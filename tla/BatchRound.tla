----------------------------- MODULE BatchRound ------------------------------
(***************************************************************************)
(* exchange/venues/batch/engine.py and the part of exchange/core/api.py    *)
(* that runs it: sealed orders collect during a round, the round is closed *)
(* by hand or by the reconcile loop once it is due, and every order of it  *)
(* is filled at one clearing price.  A handler saves the state only when   *)
(* it succeeds; one that raises leaves whatever it had changed in memory.  *)
(*                                                                         *)
(* Shares are counted in ticks.  A posted price is known by q, the net     *)
(* shares sold (b times its log-odds).  The cost function is the one of a  *)
(* market maker whose price is linear in q instead of logistic: it shares  *)
(* with b*ln(1+e^(q/b)) what clearing depends on, C convex, C(q) - C(-q)   *)
(* = q, and prices that stop being told apart from 0 and 1 far out.        *)
(* Credits are in money quanta; a share pays Unit of them.                 *)
(***************************************************************************)
EXTENDS Ledger, SequencesExt

CONSTANTS
  Traders,
  Markets,      \* market numbers, 1..n
  Timed,        \* markets created with round_seconds
  Sponsors,     \* who may fund a market: Nobody (the subsidy is minted) or a trader
  Nobody,
  Spread,       \* |q| at which the price reaches 0 or 1
  NetCap,       \* net_cap
  Requests,     \* [target, budget] of the orders a trader may send to a market
  Unquotable,   \* a target whose complement rounds to 1: _logit divides by zero
  Funds,        \* available balance of a trader
  MaxOrders,    \* bound: orders submitted
  MaxRounds,    \* bound: rounds of each market
  MaxCrashes    \* bound: crashes of the exchange

Parties == Traders \cup Markets      \* the escrow account of m is m
Unit == 4 * Spread

ASSUME BatchRoundAssumption ==
  /\ IsFiniteSet(Traders) /\ Traders \cap Markets = {} /\ Nobody \notin Traders
  /\ IsFiniteSet(Markets) /\ Markets = 1..Cardinality(Markets)
  /\ Timed \subseteq Markets /\ Sponsors \in [Markets -> SUBSET (Traders \cup {Nobody})]
  /\ Spread \in Nat \ {0} /\ NetCap \in Nat \ {0} /\ Funds \in Nat
  /\ DOMAIN Requests = Traders
  /\ \A t \in Traders : DOMAIN Requests[t] = Markets
  /\ \A t \in Traders, m \in Markets :
       Requests[t][m] \subseteq [target : Int \cup {Unquotable}, budget : Nat \ {0}]
  /\ MaxOrders \in Nat /\ MaxRounds \in [Markets -> Nat] /\ MaxCrashes \in Nat

VARIABLES
  live,      \* RiskEngine and BatchEngine in memory
  disk,      \* what the last _save() wrote
  up,        \* the lifespan of the app has begun
  crashes    \* history: crashes so far

vars == <<live, disk, up, crashes>>

-----------------------------------------------------------------------------
(* The state that is saved                                                 *)

\* An order keeps its outcome's target in yes terms: buying no at t is
\* selling yes down to 1 - t.
Order == [trader : Traders, target : Int \cup {Unquotable}, budget : Nat]

Holdings == [Markets -> [Traders -> Nat]]

Books ==
  [ledger  : Ledgers(Parties, Markets),  \* the lock of (m, batch_order) has key m
   seq     : Nat,                        \* _market_seq
   orders  : Nat,                        \* _order_seq
   status  : [Markets -> {"none", "open", "resolved", "void"}],
   sponsor : [Markets -> Traders \cup {Nobody}],
   q       : [Markets -> Int],           \* posted_price
   round   : [Markets -> Nat],
   due     : [Markets -> BOOLEAN],       \* round_started_at is round_seconds ago
   pending : [Markets -> Seq(Order)],    \* in the order of their ids
   fills   : [Markets -> Nat],           \* len(fills)
   yes : Holdings, no : Holdings, basis : Holdings,
   half    : [Markets -> SUBSET {"round", "payout"}]]   \* history: what stopped half way

TypeOK ==
  /\ {live, disk} \subseteq Books
  /\ up \in BOOLEAN
  /\ crashes \in 0..MaxCrashes

Blank ==
  LET none == [m \in Markets |-> [t \in Traders |-> 0]]
  IN  [ledger  |-> [EmptyLedger(Parties, Markets) EXCEPT
                     !.available = [a \in Parties |-> IF a \in Traders THEN Funds ELSE 0]],
       seq     |-> 0, orders |-> 0,
       status  |-> [m \in Markets |-> "none"],
       sponsor |-> [m \in Markets |-> Nobody],
       q       |-> [m \in Markets |-> 0],
       round   |-> [m \in Markets |-> 1],
       due     |-> [m \in Markets |-> FALSE],
       pending |-> [m \in Markets |-> <<>>],
       fills   |-> [m \in Markets |-> 0],
       yes |-> none, no |-> none, basis |-> none,
       half    |-> [m \in Markets |-> {}]]

Init == live = Blank /\ disk = Blank /\ up = TRUE /\ crashes = 0

Saved == disk' = live'

-----------------------------------------------------------------------------
(* Prices                                                                  *)

Abs(x) == IF x < 0 THEN -x ELSE x

Cost(q) == IF q <= -Spread THEN 0 ELSE IF q >= Spread THEN Unit * q ELSE (q + Spread) * (q + Spread)

Subsidy == Cost(0)

\* _clearing_price: what a net of n shares costs on average; a fraction.
ClearingPrice(q, n) ==
  IF n = 0 THEN [num |-> Max({0, Min({Unit, 2 * (q + Spread)})}), den |-> 1]
  ELSE [num |-> Abs(Cost(q + n) - Cost(q)), den |-> Abs(n)]

\* A buyer of no pays the complement.
UnitPrice(price, size) ==
  IF size >= 0 THEN price ELSE [price EXCEPT !.num = Unit * price.den - @]

\* unit * abs(size) > max_spend
OverBudget(price, size, budget) ==
  Abs(size) * UnitPrice(price, size).num > budget * price.den

SpendUp(price, size) ==   \* mutant: spends are rounded up
  -((-(Abs(size) * UnitPrice(price, size).num)) \div price.den)
\* _money(unit * shares)
Spend(price, size) == (Abs(size) * UnitPrice(price, size).num) \div price.den

Signed(size, amount) == IF size >= 0 THEN amount ELSE -amount

\* 1/N of the way to the target, within the cap.
Desired(q, order, n) ==
  LET way   == order.target - q
      limit == Min({NetCap, Abs(way)})
  IN  Signed(way, Min({limit, Abs(way) \div n}))

Total(sizes) == SumFunction(sizes)

RepricedAtPosted(q, orders, sizes) ==   \* mutant: the budget is judged at the posted price
  LET price == ClearingPrice(q, 0)
  IN  [i \in DOMAIN orders |->
         IF OverBudget(price, sizes[i], orders[i].budget)
         THEN Signed(sizes[i], (orders[i].budget * price.den) \div UnitPrice(price, sizes[i]).num)
         ELSE sizes[i]]

\* One repricing: whoever cannot pay for its size gets what it can pay for.
Repriced(q, orders, sizes) ==
  LET price == ClearingPrice(q, Total(sizes))
  IN  [i \in DOMAIN orders |->
         IF OverBudget(price, sizes[i], orders[i].budget)
         THEN Signed(sizes[i], (orders[i].budget * price.den) \div UnitPrice(price, sizes[i]).num)
         ELSE sizes[i]]

\* The last correction, of one tick.
Clipped(q, orders, sizes) ==
  LET price == ClearingPrice(q, Total(sizes))
  IN  [i \in DOMAIN orders |->
         IF OverBudget(price, sizes[i], orders[i].budget)
         THEN sizes[i] - Signed(sizes[i], 1) ELSE sizes[i]]

Deals == [sizes : Seq(Int), spends : Seq(Nat)]

\* What the orders of a round get and pay: three repricings (one that changes
\* nothing ends the loop, and is repeated here), then the tick.
Deal(q, orders) ==
  LET wished == [i \in DOMAIN orders |-> Desired(q, orders[i], Len(orders))]
      reprice[sizes \in Seq(Int)] == Repriced(q, orders, sizes)
      clip[sizes \in Seq(Int)] == Clipped(q, orders, sizes)
      deal[sizes \in Seq(Int)] ==
        [sizes  |-> sizes,
         spends |-> LET price == ClearingPrice(q, Total(sizes))
                    IN  [k \in DOMAIN sizes |-> Spend(price, sizes[k])]]
  IN  deal[clip[reprice[reprice[reprice[wished]]]]]

-----------------------------------------------------------------------------
(* close_round.  A round is what it leaves and how it ended: "closed",     *)
(* "refused" with a VenueError, or "broken" by any other exception.        *)

\* One order: its lock is released, its spend goes to the escrow.
Filled(s, m, order, size, spend) ==
  [s EXCEPT !.ledger = TransferAvailable(ReleaseLock(@, order.trader, m), order.trader, m, spend),
            !.pending[m] = SubSeq(@, 2, Len(@)),
            !.fills[m]   = @ + 1,
            !.basis[m][order.trader] = @ + spend,
            !.yes[m][order.trader]   = @ + Max({size, 0}),
            !.no[m][order.trader]    = @ + Max({-size, 0})]

\* The orders are filled in turn until one would spend more than its maximum.
FillUntilOver(s, m, orders, deal) ==
  LET over == {i \in DOMAIN orders : deal.spends[i] > orders[i].budget}
      last == Min(over \cup {Len(orders) + 1}) - 1
      Fill(t, i) == Filled(t, m, orders[i], deal.sizes[i], deal.spends[i])
  IN  FoldLeft(Fill, s, [i \in 1..last |-> i])

ExpectedEscrow(s, m) == Unit * SumFunction(s.no[m]) + Cost(s.q[m])

\* _assert_escrow
EscrowIsRight(s, m) ==
  Abs(s.ledger.available[m] - ExpectedEscrow(s, m)) <= s.fills[m] + 1

Advanced(s, m) == [s EXCEPT !.round[m] = @ + 1]

\* How a round ends, once its orders are filled and the price has moved.
Ended(m, filled, moved) ==
  LET posted == [filled EXCEPT !.q[m] = @ + moved]
  IN  IF filled.pending[m] # <<>>
      THEN [end |-> "refused", state |-> [filled EXCEPT !.half[m] = @ \cup {"round"}]]
      ELSE IF EscrowIsRight(posted, m)
      THEN [end |-> "closed", state |-> Advanced(posted, m)]
      ELSE [end |-> "refused", state |-> posted]

Closed(s, m) ==
  LET orders == s.pending[m]
      clear[deal \in Deals] ==
        LET end[filled \in Books] == Ended(m, filled, Total(deal.sizes))
        IN  end[FillUntilOver(s, m, orders, deal)]
  IN  IF orders = <<>> THEN [end |-> "closed", state |-> Advanced(s, m)]
      ELSE IF \E i \in DOMAIN orders : orders[i].target = Unquotable
      THEN [end |-> "broken", state |-> s]
      ELSE clear[Deal(s.q[m], orders)]

Rounds == [end : {"closed", "refused", "broken"}, state : Books]

\* BatchVenue.close_round: the next round begins now.
CloseRound(s, m) ==
  LET restart[round \in Rounds] ==
        IF round.end = "closed" THEN [round EXCEPT !.state.due[m] = FALSE] ELSE round
  IN  restart[Closed(s, m)]

-----------------------------------------------------------------------------
(* The handlers: each runs under app.state.lock and saves if it succeeds.  *)

Open(s, m) == s.status[m] = "open"

\* create_market: the number is taken and the escrow account is made before the
\* transfer that may fail, and only a success is saved.
CreateMarket(m, f) ==
  LET opened == [live EXCEPT !.seq = m, !.status[m] = "open", !.sponsor[m] = f]
  IN  /\ up /\ m = live.seq + 1
      /\ IF f = Nobody
         THEN /\ live' = [opened EXCEPT !.ledger = Mint(@, m, Subsidy)]
              /\ Saved
         ELSE IF CanPay(live.ledger, f, Subsidy)
         THEN /\ live' = [opened EXCEPT !.ledger = TransferAvailable(@, f, m, Subsidy)]
              /\ Saved
         ELSE /\ live' = [live EXCEPT !.seq = m]
              /\ UNCHANGED disk
      /\ UNCHANGED <<up, crashes>>

\* The place of t's order among those pending, 0 if it has none.
PlaceOf(s, m, t) == SelectInSeq(s.pending[m], LAMBDA order : order.trader = t)

\* Mutant: the difference has the wrong sign.
RelockedSwapped(L, t, m, old, budget) ==
  LET more == IF old = 0 THEN budget ELSE old - budget
  IN  IF more >= 0 THEN Freeze(L, t, m, more) ELSE DecreaseLock(L, t, m, -more)

\* Mutant: a resubmission leaves the lock as it was.
RelockedNever(L, t, m, old, budget) ==
  IF old = 0 THEN Freeze(L, t, m, budget) ELSE L

\* A first order is locked in full, a resubmission moves its lock by the
\* difference to the old maximum.
Relocked(L, t, m, old, budget) ==
  LET more == budget - old
  IN  IF more >= 0 THEN Freeze(L, t, m, more) ELSE DecreaseLock(L, t, m, -more)

\* The order of a resubmission takes the place of the old one under its key, and
\* is the last by its id.
SubmitOrder(t, m, request) ==
  LET place  == PlaceOf(live, m, t)
      old    == IF place = 0 THEN 0 ELSE live.pending[m][place].budget
      ledger == Relocked(live.ledger, t, m, old, request.budget)
      order  == [trader |-> t, target |-> request.target, budget |-> request.budget]
  IN  /\ up /\ Open(live, m)
      /\ live.orders < MaxOrders
      /\ ledger.available[t] >= 0      \* InsufficientBalance
      /\ live' = [live EXCEPT !.ledger = ledger,
                              !.orders = @ + 1,
                              !.pending[m] = Append(RemoveAt(@, place), order)]
      /\ Saved
      /\ UNCHANGED <<up, crashes>>

CloseByHand(m) ==
  /\ up /\ Open(live, m)
  /\ live.round[m] < MaxRounds[m]
  /\ \E round \in {CloseRound(live, m)} :
       /\ live' = round.state
       /\ IF round.end = "closed" THEN Saved ELSE UNCHANGED disk
  /\ UNCHANGED <<up, crashes>>

ReleasePending(s, m) ==
  LET Release(L, i) == ReleaseLock(L, s.pending[m][i].trader, m)
  IN  [s EXCEPT !.ledger = FoldLeft(Release, @, [i \in DOMAIN s.pending[m] |-> i]),
                !.pending[m] = <<>>]

Owed(s, m, t, outcome) == Unit * (IF outcome = "yes" THEN s.yes[m][t] ELSE s.no[m][t])

\* How far the escrow goes, paying the holders in turn.
Covered(s, m, owed, order) ==
  Max({k \in 0..Len(order) :
         SumFunction([i \in 1..k |-> owed[order[i]]]) <= s.ledger.available[m]})

Paid(s, m, owed, order) ==
  LET Pay(L, t) == TransferAvailable(L, m, t, owed[t])
  IN  [s EXCEPT !.ledger = FoldLeft(Pay, @, order)]

\* What the holders of paid have is cleared.
Cleared(holding, paid) == [t \in Traders |-> IF t \in Range(paid) THEN 0 ELSE holding[t]]

\* _sweep_escrow: what is left goes back to the sponsor.
Swept(L, m, f) == IF f = Nobody THEN L ELSE TransferAvailable(L, m, f, L.available[m])

Finished(s, m, status) ==
  [s EXCEPT !.status[m] = status, !.ledger = Swept(@, m, s.sponsor[m])]

\* A walk that the escrow does not cover raises half way: what it paid is paid,
\* the market stays open, and nothing is saved.
Settle(m, walked, complete, status) ==
  /\ up /\ Open(live, m)
  /\ IF complete
     THEN live' = Finished(walked, m, status) /\ Saved
     ELSE live' = [walked EXCEPT !.half[m] = @ \cup {"payout"}] /\ UNCHANGED disk
  /\ UNCHANGED <<up, crashes>>

\* The orders in which the holders may have got their first shares.
PayoutOrders == SetToSeqs(Traders)

Resolve(m, outcome, order) ==
  LET owed == [t \in Traders |-> Owed(live, m, t, outcome)]
      k    == Covered(live, m, owed, order)
      paid == SubSeq(order, 1, k)
  IN  Settle(m, [Paid(ReleasePending(live, m), m, owed, paid) EXCEPT
                   !.yes[m] = Cleared(@, paid), !.no[m] = Cleared(@, paid)],
             k = Len(order), "resolved")

\* void: everybody gets back what it spent; the shares go when all are refunded.
Void(m, order) ==
  LET owed     == live.basis[m]
      k        == Covered(live, m, owed, order)
      paid     == SubSeq(order, 1, k)
      refunded == [Paid(ReleasePending(live, m), m, owed, paid) EXCEPT
                     !.basis[m] = Cleared(@, paid)]
      nothing  == [t \in Traders |-> 0]
  IN  IF k = Len(order)
      THEN Settle(m, [refunded EXCEPT !.yes[m] = nothing, !.no[m] = nothing], TRUE, "void")
      ELSE Settle(m, refunded, FALSE, "void")

-----------------------------------------------------------------------------
(* The reconcile loop                                                      *)

\* What a pass has done so far.
Passes == [state : Books, closed : BOOLEAN, broken : BOOLEAN]

\* A pass takes the outcome of one more round.
Taken(pass, outcome) ==
  LET take[round \in Rounds] ==
        [state  |-> round.state,
         closed |-> pass.closed \/ round.end = "closed",
         broken |-> round.end = "broken"]
  IN  take[outcome]

StepUntilIdle(pass, m) ==   \* mutant: the pass ends at the first market that is not due
  IF ~ (Open(pass.state, m) /\ pass.state.due[m]) THEN [pass EXCEPT !.broken = TRUE]
  ELSE Taken(pass, CloseRound(pass.state, m))

\* One market of _close_due_batch_rounds_once.
Step(pass, m) ==
  IF ~ (Open(pass.state, m) /\ pass.state.due[m]) THEN pass
  ELSE Taken(pass, CloseRound(pass.state, m))

\* A VenueError is logged and the pass goes on, any other exception ends it.
Pass(s) ==
  LET after[m \in 0..s.seq] ==
        IF m = 0 THEN [state |-> s, closed |-> FALSE, broken |-> FALSE]
        ELSE LET go[pass \in Passes] == IF pass.broken THEN pass ELSE Step(pass, m)
             IN  go[after[m - 1]]
  IN  after[s.seq]

ReconcileUnsaved ==   \* mutant: the pass does not save
  /\ up
  /\ live' = Pass(live).state
  /\ UNCHANGED <<disk, up, crashes>>

\* _batch_round_reconciler: what an exception interrupts is not saved.
Reconcile ==
  /\ up
  /\ \E pass \in {Pass(live)} :
       /\ live' = pass.state
       /\ IF pass.closed /\ ~ pass.broken THEN Saved ELSE UNCHANGED disk
  /\ UNCHANGED <<up, crashes>>

\* round_seconds have passed since the round began, in memory or on disk.
RoundExpires(m) ==
  /\ m \in Timed
  /\ Open(live, m) /\ ~ live.due[m] /\ live.round[m] < MaxRounds[m]
  /\ live' = [live EXCEPT !.due[m] = TRUE]
  /\ disk' = [disk EXCEPT !.due[m] = Open(disk, m)]
  /\ UNCHANGED <<up, crashes>>

-----------------------------------------------------------------------------
(* Crash and restart                                                       *)

\* from_snapshot refuses a pending order whose lock is not its maximum.
Loadable(s) ==
  \A m \in Markets : \A i \in DOMAIN s.pending[m] :
    s.ledger.locks[s.pending[m][i].trader][m] = s.pending[m][i].budget

\* A request that did not get to its save might as well not have begun.
Crash ==
  /\ up /\ crashes < MaxCrashes
  /\ up' = FALSE /\ crashes' = crashes + 1
  /\ live' = disk
  /\ UNCHANGED disk

\* lifespan: the state is loaded, then a pass runs outside of any try; if it
\* raises, the exchange does not come up.
Start ==
  /\ ~ up /\ Loadable(disk)
  /\ \E pass \in {Pass(disk)} :
       /\ ~ pass.broken
       /\ live' = pass.state
       /\ IF pass.closed THEN Saved ELSE UNCHANGED disk
  /\ up' = TRUE
  /\ UNCHANGED crashes

Next ==
  \/ \E m \in Markets :
       \/ \E f \in Sponsors[m] : CreateMarket(m, f)
       \/ \E t \in Traders : \E r \in Requests[t][m] : SubmitOrder(t, m, r)
       \/ CloseByHand(m)
       \/ RoundExpires(m)
       \/ \E order \in PayoutOrders :
            \/ \E outcome \in {"yes", "no"} : Resolve(m, outcome, order)
            \/ Void(m, order)
  \/ Reconcile
  \/ Crash \/ Start

\* The loop runs as long as the exchange does, and the exchange is started again.
Spec == Init /\ [][Next]_vars /\ WF_vars(Reconcile) /\ WF_vars(Start)

-----------------------------------------------------------------------------
(* Properties                                                              *)

\* A saved state can be loaded: whatever was submitted, replaced, filled, left
\* half done and saved by a later request, every pending order has its maximum
\* in its lock, in memory and on disk; a trader has one order of a market, and
\* who has none has nothing locked for it.
LocksMatchPending ==
  \A s \in {live, disk} :
    /\ Loadable(s)
    /\ \A m \in Markets :
         /\ \A i, j \in DOMAIN s.pending[m] :
              i # j => s.pending[m][i].trader # s.pending[m][j].trader
         /\ \A a \in Parties : s.ledger.locks[a][m] > 0 =>
              \E i \in DOMAIN s.pending[m] : s.pending[m][i].trader = a

\* Fills, payouts, refunds and sweeps are never refused by the risk engine half
\* way: a fill is paid out of the lock it releases, an escrow pays what it has.
NobodyIsOverdrawn ==
  \A s \in {live, disk} : \A a \in Parties : s.ledger.available[a] >= 0

\* "balance = total_no_shares + C(posted_price)": rounding spends down may cost
\* the escrow less than a quantum per fill, and never gives it anything.
EscrowWithinRounding ==
  \A m \in Markets :
    Open(live, m) /\ live.half[m] = {}
      => LET missing == ExpectedEscrow(live, m) - live.ledger.available[m]
         IN  missing \in 0..live.fills[m]

\* A market can be voided at any time before a payout: the escrow has the
\* subsidy and every credit that was spent, also when a round stopped half way.
BasisCoversVoid ==
  \A m \in Markets :
    Open(live, m) /\ "payout" \notin live.half[m]
      => live.ledger.available[m] = Subsidy + SumFunction(live.basis[m])

\* What the escrow owes, to winners and in a refund, it has, and nothing is ever
\* paid that is not there.
EscrowIsCovered == EscrowWithinRounding /\ BasisCoversVoid /\ NobodyIsOverdrawn

Poisoned(s) ==
  \E m \in Markets : \E i \in DOMAIN s.pending[m] : s.pending[m][i].target = Unquotable

\* A pass that closed a round could not save it, for an order that cannot be
\* quoted stopped it; it is still there, or a payout that stopped half way has
\* dropped it.
Obstructed(s) == Poisoned(s) \/ \E m \in Markets : "payout" \in s.half[m]

\* What was announced survives a crash: a round that is closed in memory, and
\* the price it posted, are on disk, unless something obstructed the pass.
PublishedRoundsAreSaved ==
  up /\ ~ Obstructed(live) =>
    \A m \in Markets : live.half[m] = {} =>
      live.round[m] = disk.round[m] /\ live.q[m] = disk.q[m]

\* Three repricings are enough for a round whose orders all buy the same side:
\* only buyers of yes against buyers of no can leave a round half filled.
OneSidedRoundsClear ==
  \A m \in Markets :
    "round" \in live'.half[m] \ live.half[m] =>
      LET buysYes(i) == live.pending[m][i].target > live.q[m]
      IN  \E i, j \in DOMAIN live.pending[m] : buysYes(i) /\ ~ buysYes(j)

\* A payout that stops half way was short by rounding only: the winners are owed
\* less than a quantum per fill above what the escrow had.
ShortByRounding ==
  \A m \in Markets :
    live.half[m] = {} /\ "payout" \in live'.half[m] =>
      \E outcome \in {"yes", "no"} :
        LET owed == SumFunction([t \in Traders |-> Owed(live, m, t, outcome)])
        IN  owed - live.ledger.available[m] \in 1..live.fills[m]

\* A handler stops half way for these two reasons only.
HalvesAreExplained == [][OneSidedRoundsClear /\ ShortByRounding]_vars

\* A round that is due is closed, whatever crashes and restarts come between,
\* unless the market ends first or an order that cannot be quoted, or a step
\* that stopped half way, is in the way.
DueRoundsClear ==
  \A m \in Markets :
    Open(live, m) /\ live.due[m]
      ~> \/ ~ Open(live, m) \/ ~ live.due[m]
         \/ Poisoned(live) \/ live.half[m] # {}
=============================================================================
