----------------------------- MODULE AmmMarket ------------------------------
(***************************************************************************)
(* exchange/core/market_engine.py: one LMSR market, its AMM account, and   *)
(* the traders who buy from and sell to it.  Every step is one API handler *)
(* (exchange/core/api.py), which holds app.state.lock from its first read  *)
(* to its last write and awaits nothing in between, so handlers do not     *)
(* interleave.  They do fail half way: a sell that finds the AMM's lock    *)
(* too small raises after it has released the trader's margin, and nothing *)
(* is rolled back.                                                         *)
(*                                                                         *)
(* Units: token amounts are integers (multiples of the amount quantum),    *)
(* prices are ticks per token, credits are ticks times tokens, and One is  *)
(* the value of a winning token.  trade_value = tokens * price is exact;   *)
(* rounding happens in the price only, as in the code.                     *)
(***************************************************************************)
EXTENDS Ledger, FiniteSetsExt

CONSTANTS
  Traders,         \* accounts that trade
  Amm,             \* the market's AMM account
  Funder,          \* the account that pays the subsidy (treasury or creator);
                   \* taken not to trade in the market
  Outcomes,
  One,             \* credits a winning token pays
  Cost(_, _),      \* the LMSR cost function C(b, q), in credits
  TraderFunds,     \* available balance of a trader before the market opens
  FunderFunds,     \* available balance of the funder before the market opens
  Budgets,         \* budgets a buyer names
  MaxTrade,        \* bound: tokens of one trade
  MaxQ,            \* bound: tokens sold of one outcome, per unit of b
  MaxTrades,       \* bound: trades of the market
  MaxB,            \* bound: liquidity after add_liquidity
  MaxPaidIn,       \* bound: credits paid for the subsidy and for liquidity
  OtherParties,    \* accounts of other venues in the same risk engine
  OtherLocks       \* lock_types of other venues' markets with this market_id

Parties == Traders \cup {Amm, Funder} \cup OtherParties

\* lock_type strings of models.Lock
AmmLock == <<"position">>
PositionLock(o) == <<"position", o>>
Profit == <<"conditional_profit">>
Loss == <<"conditional_loss">>
PositionLocks == {PositionLock(o) : o \in Outcomes}
OwnLocks == PositionLocks \cup {AmmLock, Profit, Loss}
LockTypes == OwnLocks \cup OtherLocks

ASSUME AmmMarketAssumption ==
  /\ IsFiniteSet(Traders) /\ IsFiniteSet(Outcomes) /\ Outcomes # {}
  /\ Amm \notin Traders /\ Funder \notin Traders /\ Amm # Funder
  /\ IsFiniteSet(OtherParties) /\ OtherParties \cap (Traders \cup {Amm, Funder}) = {}
  /\ IsFiniteSet(OtherLocks)
  /\ One \in Nat \ {0}
  /\ TraderFunds \in Nat /\ FunderFunds \in Nat
  /\ Budgets \subseteq Nat
  /\ MaxTrade \in Nat /\ MaxQ \in Nat /\ MaxTrades \in Nat /\ MaxB \in Nat \ {0}
  /\ MaxPaidIn \in Nat

\* Market.q within the bound, at one liquidity
Quantities(liquidity) == [Outcomes -> 0..(MaxQ * liquidity)]

\* What lmsr.py's C(b, q) = b * ln(sum e^(q/b)) has for every b and q: it covers
\* every outcome, every price is positive, and doubling both doubles it.
ASSUME CostAssumption ==
  \A liquidity \in 1..MaxB : \A sold \in Quantities(liquidity) :
    /\ Cost(liquidity, sold) \in Nat
    /\ \A o \in Outcomes : One * sold[o] <= Cost(liquidity, sold)
    /\ \A o \in Outcomes, n \in 1..MaxTrade :
         sold[o] + n <= MaxQ * liquidity =>
           Cost(liquidity, sold) < Cost(liquidity, [sold EXCEPT ![o] = @ + n])
    /\ 2 * liquidity <= MaxB =>
         Cost(2 * liquidity, [o \in Outcomes |-> 2 * sold[o]]) = 2 * Cost(liquidity, sold)

VARIABLES
  ledger,      \* RiskEngine, restricted to this market's parties
  status,      \* "none" before create_market, then Market.status
  resolution,  \* Market.resolution
  funding,     \* how create_market was called: "minted", "recorded", "unrecorded"
  b,           \* Market.b
  q,           \* Market.q
  positions,   \* Market.positions
  trades,      \* len(Market.trades)
  minted,      \* RiskEngine.total_minted()
  netPaid,     \* history: what a trader paid for its buys minus what its sells brought
  paidIn,      \* history: what an account paid for the subsidy and for liquidity
  faults       \* history: which of Faults have happened

vars == <<ledger, status, resolution, funding, b, q, positions, trades,
          minted, netPaid, paidIn, faults>>

NoOutcome == "none"
Statuses == {"none", "open", "resolved", "void"}

\* A sell or an add_liquidity that raised half way; a resolve that found no
\* AMM lock to pay the remainder into; a status written by an admin.
Faults == {"sell_aborted", "funding_aborted", "remainder_lost", "overridden"}

TypeOK ==
  /\ ledger \in Ledgers(Parties, LockTypes)
  /\ status \in Statuses
  /\ resolution \in Outcomes \cup {NoOutcome}
  /\ funding \in {"none", "minted", "recorded", "unrecorded"}
  /\ b \in 1..MaxB
  /\ q \in [Outcomes -> Nat]
  /\ positions \in [Traders -> [Outcomes -> Nat]]
  /\ trades \in 0..MaxTrades
  /\ minted \in Nat
  /\ netPaid \in [Traders -> Int]
  /\ paidIn \in [Parties -> Nat]
  /\ faults \subseteq Faults

StartBalance(a) ==
  CASE a \in Traders -> TraderFunds [] a = Funder -> FunderFunds [] OTHER -> 0

\* The accounts hold what they were minted before the market exists.
Init ==
  /\ ledger = [EmptyLedger(Parties, LockTypes) EXCEPT
                 !.available = [a \in Parties |-> StartBalance(a)]]
  /\ status = "none"
  /\ resolution = NoOutcome
  /\ funding = "none"
  /\ b = 1
  /\ q = [o \in Outcomes |-> 0]
  /\ positions = [t \in Traders |-> [o \in Outcomes |-> 0]]
  /\ trades = 0
  /\ minted = SumFunction([a \in Parties |-> StartBalance(a)])
  /\ netPaid = [t \in Traders |-> 0]
  /\ paidIn = [a \in Parties |-> 0]
  /\ faults = {}

-----------------------------------------------------------------------------
(* Pricing                                                                 *)

\* cost_to_buy
CostToBuy(o, n) == Cost(b, [q EXCEPT ![o] = @ + n]) - Cost(b, q)

\* amount_for_cost, quantized down: the most tokens the budget pays for
TokensFor(o, budget) == Max({n \in 0..MaxTrade : CostToBuy(o, n) <= budget})

\* average price rounded up for a buyer, down for a seller and never negative
BuyValue(o, n) == n * (-((-CostToBuy(o, n)) \div n))
SellValueAtBuyPrice(o, n) == BuyValue(o, n)   \* mutant
SellValue(o, n) == n * Max({0, (-CostToBuy(o, -n)) \div n})

-----------------------------------------------------------------------------
(* create_market: the subsidy C(b, 0) is minted, or taken from the funder.  *)
(* Only the self-serve endpoint records the funder in the metadata that     *)
(* _sweep_amm reads; the webhook and the admin endpoint fund from the       *)
(* treasury without recording it.                                           *)

CreateMarket(how) ==
  LET subsidy == Cost(b, q)
      funded  == IF how = "minted"
                 THEN Mint(ledger, Amm, subsidy)
                 ELSE TransferAvailable(ledger, Funder, Amm, subsidy)
  IN  /\ status = "none"
      /\ how # "minted" => CanPay(ledger, Funder, subsidy)
      /\ ledger' = Freeze(funded, Amm, AmmLock, subsidy)
      /\ minted' = minted + (IF how = "minted" THEN subsidy ELSE 0)
      /\ status' = "open"
      /\ funding' = how
      /\ paidIn' = IF how = "minted" THEN paidIn ELSE [paidIn EXCEPT ![Funder] = @ + subsidy]
      /\ UNCHANGED <<resolution, b, q, positions, trades, netPaid, faults>>

-----------------------------------------------------------------------------
(* Trading: buy, sell and their common _execute_trade                      *)

\* "--- Update LMSR state ---", "--- Update positions ---", trades.append
RecordTrade(t, o, signed, paid) ==
  /\ q' = [q EXCEPT ![o] = @ + signed]
  /\ positions' = [positions EXCEPT ![t][o] = @ + signed]
  /\ trades' = trades + 1
  /\ netPaid' = [netPaid EXCEPT ![t] = @ + paid]

\* When the rounded price pushes the value over the balance, one token less
\* is bought; when that is still too dear the buy raises.
Buy(t, o, budget) ==
  LET wanted == TokensFor(o, budget)
      tokens == IF wanted > 0 /\ ~ CanPay(ledger, t, BuyValue(o, wanted))
                THEN wanted - 1 ELSE wanted
  IN  /\ status = "open" /\ trades < MaxTrades
      /\ CanPay(ledger, t, budget)
      /\ tokens > 0 /\ q[o] + tokens <= MaxQ * b
      /\ CanPay(ledger, t, BuyValue(o, tokens))
      /\ ledger' = Freeze(ledger, t, PositionLock(o), BuyValue(o, tokens))
      /\ RecordTrade(t, o, tokens, BuyValue(o, tokens))
      /\ UNCHANGED <<status, resolution, funding, b, minted, paidIn, faults>>

\* Mutant: the margin of a whole token, times the tokens.
CloseMarginPerToken(t, o, n) ==
  n * (ledger.locks[t][PositionLock(o)] \div positions[t][o])

\* The margin a sell releases: pro rata, rounded down, all of it at the end.
CloseMargin(t, o, n) ==
  LET locked == ledger.locks[t][PositionLock(o)]
  IN  IF positions[t][o] = n THEN locked ELSE (locked * n) \div positions[t][o]

\* Mutant: the loss is released but the profit is kept.
NetPnlKeepsProfit(L, t) ==
  DecreaseLock(L, t, Loss, Min({L.locks[t][Profit], L.locks[t][Loss]}))

\* Step 3 of _execute_trade: of a profit and a loss of the same trader the
\* smaller is consumed, the profit back into the AMM's lock, the loss released.
NetPnl(L, t) ==
  LET net == Min({L.locks[t][Profit], L.locks[t][Loss]})
  IN  IF net = 0 THEN L
      ELSE DecreaseLock(TransferFrozen(L, t, Profit, Amm, AmmLock, net), t, Loss, net)

\* Mutant: the position is not checked.
CanSellUncovered(t, o, n) ==
  status = "open" /\ trades < MaxTrades /\ HasLock(ledger, t, PositionLock(o))

CanSell(t, o, n) ==
  /\ status = "open" /\ trades < MaxTrades
  /\ n <= positions[t][o]
  /\ HasLock(ledger, t, PositionLock(o))

Sell(t, o, n) ==
  LET margin   == CloseMargin(t, o, n)
      pnl      == SellValue(o, n) - margin
      released == DecreaseLock(ledger, t, PositionLock(o), margin)
  IN  /\ CanSell(t, o, n)
      /\ \/ /\ pnl > 0
            /\ CanDecrease(released, Amm, AmmLock, pnl)
            /\ ledger' = NetPnl(TransferFrozen(released, Amm, AmmLock, t, Profit, pnl), t)
         \/ /\ pnl < 0
            /\ CanPay(released, t, -pnl)
            /\ ledger' = NetPnl(Freeze(released, t, Loss, -pnl), t)
         \/ /\ pnl = 0
            /\ ledger' = NetPnl(released, t)
      /\ RecordTrade(t, o, -n, -SellValue(o, n))
      /\ UNCHANGED <<status, resolution, funding, b, minted, paidIn, faults>>

\* The AMM's lock is gone (AttributeError on None) or smaller than the profit
\* (ValueError of transfer_frozen): step 1 has already released the margin.
SellAborts(t, o, n) ==
  LET margin   == CloseMargin(t, o, n)
      pnl      == SellValue(o, n) - margin
      released == DecreaseLock(ledger, t, PositionLock(o), margin)
  IN  /\ CanSell(t, o, n)
      /\ pnl > 0
      /\ ~ CanDecrease(released, Amm, AmmLock, pnl)
      /\ ledger' = released
      /\ faults' = faults \cup {"sell_aborted"}
      /\ UNCHANGED <<status, resolution, funding, b, q, positions, trades, minted, netPaid,
                     paidIn>>

-----------------------------------------------------------------------------
(* add_liquidity.  b_for_funding scales q with b; the funding that doubles  *)
(* both is (new_b - b) * ln(sum e^((q_i - min q) / b)) = C(b, q) - min q.   *)
(* Other fundings give fractional q; doubling keeps the model in integers.  *)

DoublingCost == Cost(b, q) - One * Min({q[o] : o \in Outcomes})

PaidIn == SumFunction(paidIn)

\* payer is the funding_account_id: any account of the risk engine, whoever the
\* metadata names.  Without one the AMM pays, from what it has available; an
\* increase_lock is the Freeze.
AddLiquidity(payer) ==
  LET funded == TransferAvailable(ledger, payer, Amm, DoublingCost)
  IN  /\ status = "open" /\ 2 * b <= MaxB
      /\ CanPay(ledger, payer, DoublingCost)
      /\ payer # Amm => PaidIn + DoublingCost <= MaxPaidIn
      /\ paidIn' = IF payer = Amm THEN paidIn
                   ELSE [paidIn EXCEPT ![payer] = @ + DoublingCost]
      /\ \/ /\ HasLock(ledger, Amm, AmmLock)
            /\ ledger' = Freeze(funded, Amm, AmmLock, DoublingCost)
            /\ b' = 2 * b
            /\ q' = [o \in Outcomes |-> 2 * q[o]]
            /\ UNCHANGED faults
         \/ \* "AMM has no position lock" is raised after the transfer
            /\ ~ HasLock(ledger, Amm, AmmLock)
            /\ payer # Amm
            /\ ledger' = funded
            /\ faults' = faults \cup {"funding_aborted"}
            /\ UNCHANGED <<b, q>>
      /\ UNCHANGED <<status, resolution, funding, positions, trades, minted, netPaid>>

-----------------------------------------------------------------------------
(* Settlement                                                              *)

\* _sweep_amm: what the AMM has left goes to the funder the metadata names.
Sweep(L) ==
  IF funding = "recorded" /\ L.available[Amm] > 0
  THEN TransferAvailable(L, Amm, Funder, L.available[Amm])
  ELSE L

\* The locks of the cleared kinds are settled or released; paid[a] reaches a.
ClearLocks(L, cleared, paid) ==
  LET left == [a \in Parties |->
                 [k \in LockTypes |-> IF <<a, k>> \in cleared THEN 0 ELSE L.locks[a][k]]]
  IN  [available |-> [a \in Parties |-> L.available[a] + paid[a]],
       frozen    |-> [a \in Parties |->
                        L.frozen[a] - SumFunction(L.locks[a]) + SumFunction(left[a])],
       locks     |-> left]

\* resolve() settles the locks it knows of the accounts that traded and of the
\* AMM; void() releases every lock with this market_id, whoever made it.
SettledLocks == (Traders \cup {Amm}) \X OwnLocks
ReleasedLocks == Parties \X LockTypes

\* Mutant: conditional losses are left out of the pool.
PoolWithoutLosses ==
  SumFunction([a \in Parties |-> SumFunction(ledger.locks[a]) - ledger.locks[a][Loss]])

\* total_pool: all credits locked under this market_id, whoever holds them
Pool == SumFunction([a \in Parties |-> SumFunction(ledger.locks[a])])

\* A winning position lock settles at the token value; a trader whose lock is
\* gone is counted in total_trader_payout but there is no lock to pay it from.
Winnings(t, o) == One * positions[t][o]
Entitled(o) ==
  SumFunction([t \in Traders |-> Winnings(t, o) + ledger.locks[t][Profit]])

ResolvePaid(o) ==
  [a \in Parties |->
     IF a \in Traders
     THEN ledger.locks[a][Profit]
          + (IF HasLock(ledger, a, PositionLock(o)) THEN Winnings(a, o) ELSE 0)
     ELSE IF a = Amm /\ HasLock(ledger, Amm, AmmLock) THEN Pool - Entitled(o)
     ELSE 0]

Resolve(o) ==
  /\ status = "open"
  /\ ledger' = Sweep(ClearLocks(ledger, SettledLocks, ResolvePaid(o)))
  /\ status' = "resolved"
  /\ resolution' = o
  /\ faults' = faults \cup (IF HasLock(ledger, Amm, AmmLock) THEN {} ELSE {"remainder_lost"})
  /\ UNCHANGED <<funding, b, q, positions, trades, minted, netPaid, paidIn>>

\* Locks go back to their owners, conditional profit back to the AMM.
VoidPaid ==
  [a \in Parties |->
     IF a = Amm
     THEN ledger.locks[Amm][AmmLock] + SumFunction([t \in Traders |-> ledger.locks[t][Profit]])
     ELSE SumFunction(ledger.locks[a]) - ledger.locks[a][Profit]]

\* Mutant: void does not sweep the AMM's balance.
VoidUnswept ==
  /\ status = "open"
  /\ ledger' = ClearLocks(ledger, ReleasedLocks, VoidPaid)
  /\ status' = "void"
  /\ UNCHANGED <<resolution, funding, b, q, positions, trades, minted, netPaid, paidIn, faults>>

Void ==
  /\ status = "open"
  /\ ledger' = Sweep(ClearLocks(ledger, ReleasedLocks, VoidPaid))
  /\ status' = "void"
  /\ UNCHANGED <<resolution, funding, b, q, positions, trades, minted, netPaid, paidIn, faults>>

\* admin_override_status: the status is overwritten, no credits move
OverrideStatus(new) ==
  /\ status # "none"
  /\ trades = 0
  /\ status' = new
  /\ resolution' = IF new = "void" THEN NoOutcome ELSE resolution
  /\ faults' = faults \cup {"overridden"}
  /\ UNCHANGED <<ledger, funding, b, q, positions, trades, minted, netPaid, paidIn>>

-----------------------------------------------------------------------------
Next ==
  \/ \E how \in {"minted", "recorded", "unrecorded"} : CreateMarket(how)
  \/ \E t \in Traders, o \in Outcomes :
       \/ \E budget \in Budgets : Buy(t, o, budget)
       \/ \E n \in 1..MaxTrade : Sell(t, o, n) \/ SellAborts(t, o, n)
  \/ \E payer \in Parties : AddLiquidity(payer)
  \/ \E o \in Outcomes : Resolve(o)
  \/ Void
  \/ \E new \in {"void", "resolved", "open"} : OverrideStatus(new)

Spec == Init /\ [][Next]_vars
-----------------------------------------------------------------------------
(* Properties *)

Sound == faults = {}

\* "Conservation: sum(all payouts) == sum(all lock amounts) == pool": as long
\* as no handler failed half way and no status was overridden, trading,
\* resolving, voiding and sweeping neither create nor destroy credits.
CreditsConserved == Sound => Credits(ledger) = minted

ProfitsOwed == SumFunction([t \in Traders |-> ledger.locks[t][Profit]])

\* Whatever outcome wins, the pool pays every winning token and every frozen
\* profit, so the AMM's remainder in resolve() is never negative.  It holds
\* only because price rounding favours the AMM and C(q) covers every q_i.
PoolCoversEveryOutcome ==
  Sound /\ status = "open" =>
    \A o \in Outcomes :
      Pool - ProfitsOwed >= SumFunction([t \in Traders |-> Winnings(t, o)])

\* "Everyone gets back their deposit" (void()): at every moment a void would return
\* exactly what the trader came with, except for liquidity it paid, whatever it
\* bought, sold, won or lost in between, also after a sell that failed half way.
DepositsIntact ==
  status \in {"open", "void"} =>
    \A t \in Traders :
      ledger.available[t] + SumFunction(ledger.locks[t]) - ledger.locks[t][Profit]
        = TraderFunds - paidIn[t]

\* "Invariant: position[outcome] == 0 -> position:{outcome} lock == 0": partial
\* sells round the released margin down and never leave a remainder behind.
NoPositionNoLock ==
  status = "open" =>
    \A t \in Traders, o \in Outcomes :
      positions[t][o] = 0 => ~ HasLock(ledger, t, PositionLock(o))

\* Step 3 of _execute_trade nets: a trader never has a frozen profit and a
\* frozen loss in the same market.
ProfitAndLossAreNetted ==
  \A t \in Traders : ~ (HasLock(ledger, t, Profit) /\ HasLock(ledger, t, Loss))

\* What the docstrings promise of a trader's locks also holds after handlers
\* that raised half way.
IntactAfterFailures == DepositsIntact /\ NoPositionNoLock /\ ProfitAndLossAreNetted

\* After resolve() a trader has what it came with, less the net price of its
\* trades and any liquidity it paid, plus the value of its winning tokens: the
\* margin, profit and loss locks of any buys and sells add up to exactly that.
ResolvePaysWhatWasTraded ==
  Sound /\ status = "resolved" =>
    \A t \in Traders :
      ledger.available[t] =
        TraderFunds - paidIn[t] - netPaid[t] + Winnings(t, resolution)

\* The subsidy, if it was minted; all that was put into the market; and what of it
\* a funder gets back.
Endowed == minted - SumFunction([a \in Parties |-> StartBalance(a)])
Gathered == PaidIn + Endowed
Swept == IF funding = "recorded" THEN Gathered ELSE 0

\* _sweep_amm goes by the metadata alone: a void brings the funder they name the
\* subsidy and all liquidity, whoever paid it, and a funder they do not name
\* nothing, all of it then stays on the AMM's account; also after a sell that
\* raised, and with the funding of an add_liquidity that raised.  When nothing
\* raised, resolve leaves nothing on the AMM's account of a recorded funder.
SweepFollowsTheRecord ==
  "overridden" \notin faults =>
    /\ status = "void" =>
         /\ ledger.available[Amm] = Gathered - Swept
         /\ ledger.available[Funder] = FunderFunds - paidIn[Funder] + Swept
    /\ Sound /\ status = "resolved" /\ funding = "recorded" => ledger.available[Amm] = 0

-----------------------------------------------------------------------------
(* Statements of the code's own documentation that the code does not keep. *)

\* resolve(), market_engine.py:122: "Conservation: sum(all payouts) == sum(all
\* lock amounts) == pool", for every market that still has its AMM lock when
\* it resolves and whose status was never overridden.
ResolveConserves ==
  status = "resolved" /\ faults \cap {"remainder_lost", "overridden"} = {} =>
    Credits(ledger) = minted

\* admin_override_status, api.py: "Only allowed on markets with 0 trades (no
\* settlement reversal needed)": credits are conserved through any overrides.
\* Restricted to one trade at most, which by itself cannot drain the AMM's lock.
OverrideNeedsNoReversal ==
  faults \subseteq {"overridden", "remainder_lost"} /\ trades <= 1 =>
    Credits(ledger) = minted
=============================================================================
