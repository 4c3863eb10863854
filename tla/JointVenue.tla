----------------------------- MODULE JointVenue ------------------------------
(***************************************************************************)
(* exchange/venues/joint/venue.py: staked probability edits on a joint     *)
(* distribution over several variables.  An edit of one variable, given a  *)
(* context of others, freezes its worst case and is settled against the    *)
(* treasury when its variable and its whole context are decided, in        *)
(* whatever order that happens; it is called off when its context fails.   *)
(*                                                                         *)
(* The joint distribution is the junction tree of backend/inference, which *)
(* every edit moves and every resolution conditions, and which a restart   *)
(* reloads from the venue's snapshot.  What settlement needs of an edit is *)
(* its two raw payouts, b*ln(q/p) and b*ln((1-q)/(1-p)), here integers in  *)
(* units of 1/Grain credit.                                                *)
(***************************************************************************)
EXTENDS Ledger, JunctionTree

CONSTANTS
  Traders,
  Treasury,
  Bets,            \* what may be traded: a variable, given others, by an edit
  Decidable,       \* bound: the variables that are ever resolved or voided
  Grain,           \* raw units in a credit quantum (msr.PLACES)
  Funds,           \* available balance of a trader
  TreasuryFunds,   \* available balance of the treasury
  MaxOrders        \* bound: orders of the venue

Parties == Traders \cup {Treasury}
OrderIds == 1..MaxOrders

\* Raw payouts, and the ranks of the probabilities an edit moves to.
Edits == {bet.edit : bet \in Bets}

\* What a variable is instead of one of its outcomes.
Open == "open"
Void == "void"

ASSUME JointVenueAssumption ==
  /\ IsFiniteSet(Traders) /\ Treasury \notin Traders
  /\ \A bet \in Bets : bet.variable \in Variables /\ bet.given \subseteq Variables
  /\ Edits \subseteq [won : Int, lost : Int, yes : 0..Never - 1, no : 0..Never - 1]
  /\ \A edit \in Edits : 0 \in {edit.yes, edit.no}
  /\ Decidable \subseteq Variables /\ {Open, Void} \cap Outcomes = {}
  /\ Grain \in Nat \ {0}
  /\ Funds \in Nat /\ TreasuryFunds \in Nat /\ MaxOrders \in Nat

VARIABLES
  ledger,     \* RiskEngine, restricted to the traders and the treasury
  orders,     \* JointVenue._orders; the lock of order i has key i
  decided,    \* _resolutions and _voided: an outcome, Void, or Open
  fm,         \* JointVenue._fm
  flat,       \* reference: the joint distribution after the same trades
  refused,    \* history: variables whose resolution the joint refused
  aborted     \* history: a settlement walk raised half way

book_vars == <<ledger, orders, decided, aborted>>
belief_vars == <<fm, flat, refused>>
vars == <<book_vars, belief_vars>>

\* won is order["resolvedWon"], "unknown" while the key is missing;
\* context is never changed, remaining is order["remainingContext"]
Order ==
  [account : Traders, variable : Variables, outcome : Outcomes, edit : Edits,
   stake : Nat, context : Contexts, remaining : Contexts,
   won : {"yes", "no", "unknown"},
   status : {"open", "awaiting_context", "settled", "called_off"}]

TypeOK ==
  /\ ledger \in Ledgers(Parties, OrderIds)
  /\ orders \in Seq(Order) /\ Len(orders) <= MaxOrders
  /\ decided \in [Variables -> Outcomes \cup {Open, Void}]
  /\ IsTree(fm)
  /\ flat \in [Assignments(Variables) -> 0..Never]
  /\ refused \subseteq Variables
  /\ aborted \in BOOLEAN

Init ==
  /\ ledger = [EmptyLedger(Parties, OrderIds) EXCEPT
                 !.available = [a \in Parties |-> IF a = Treasury THEN TreasuryFunds ELSE Funds]]
  /\ orders = <<>>
  /\ decided = [v \in Variables |-> Open]
  /\ fm = SeededTree
  /\ flat = SeededJoint
  /\ refused = {}
  /\ aborted = FALSE

-----------------------------------------------------------------------------
(* msr.py: gains are rounded down, losses and stakes up *)

RoundDown(raw) == raw \div Grain
RoundUp(raw) == -((-raw) \div Grain)

StakeOfBestCase(edit) == RoundUp(Min({-edit.won, -edit.lost}))   \* mutant
Stake(edit) == RoundUp(Max({-edit.won, -edit.lost, 0}))

RawPayout(edit, won) == IF won = "yes" THEN edit.won ELSE edit.lost

Payout(edit, won) ==
  LET raw == RawPayout(edit, won)
  IN  IF raw >= 0 THEN RoundDown(raw) ELSE -RoundUp(-raw)

-----------------------------------------------------------------------------
(* place_edit *)

\* _check_lifecycle: the variable is open, no context variable is voided or
\* resolved otherwise.
Acceptable(v, context) ==
  /\ decided[v] = Open
  /\ \A u \in DOMAIN context : decided[u] \in {Open, context[u]}

\* ... and a context variable resolved as requested needs no more waiting.
StillOpen(context) == Restrict(context, {u \in DOMAIN context : decided[u] = Open})

\* _before and stake_for_edit: a price strictly between 0 and 1.  A refused
\* resolution leaves answers behind that no longer agree with the tables.
Priced(v, o, context) ==
  LET belief == Belief(fm, v, context)
  IN \/ refused # {}
     \/ belief[o] # Never /\ \E other \in Outcomes \ {o} : belief[other] # Never

\* preview_edit answers with the stake, or not at all.
Previews(bet, o, context) ==
  Acceptable(bet.variable, context) /\ Priced(bet.variable, o, context)

PlacedOrder(t, bet, o, context) ==
  [account |-> t, variable |-> bet.variable, outcome |-> o, edit |-> bet.edit,
   stake |-> Stake(bet.edit), context |-> context, remaining |-> StillOpen(context),
   won |-> "unknown", status |-> "open"]

\* The stake is frozen, the joint is asked to trade, and the stake is released
\* again if it refuses.
Place(t, bet, o, context) ==
  LET id == Len(orders) + 1
      v == bet.variable
      stake == Stake(bet.edit)
      trade == Trade(fm, v, o, bet.edit, context)
      staked == Freeze(ledger, t, id, stake)
  IN  /\ id <= MaxOrders
      /\ Previews(bet, o, context)
      /\ CanPay(ledger, t, stake)
      /\ fm' = trade.tree
      /\ UNCHANGED <<decided, aborted, refused>>
      /\ \/ /\ trade.filled
            /\ ledger' = staked
            /\ orders' = Append(orders, PlacedOrder(t, bet, o, context))
            /\ flat' = FlatTrade(flat, v, o, bet.edit, context)
         \/ /\ ~ trade.filled
            /\ ledger' = ReleaseLock(staked, t, id)
            /\ UNCHANGED <<orders, flat>>

-----------------------------------------------------------------------------
(* Settlement.  A desk is what the walk over the orders changes.            *)

Live(order) == order.status \in {"open", "awaiting_context"}

Contradicted(order, v, o) == v \in DOMAIN order.remaining /\ order.remaining[v] # o

\* What the resolution v = o leaves an order that it does not contradict.
WonForgetful(order, v, o) ==   \* mutant: any resolution decides the bet
  IF o = order.outcome THEN "yes" ELSE "no"
Won(order, v, o) ==
  IF order.variable # v THEN order.won ELSE IF o = order.outcome THEN "yes" ELSE "no"

Remaining(context, v) == Restrict(context, DOMAIN context \ {v})

Settles(order, v, o) ==
  /\ Live(order) /\ ~ Contradicted(order, v, o)
  /\ Won(order, v, o) # "unknown"
  /\ DOMAIN order.remaining \subseteq {v}

\* _resolution_treasury_outflow: what the winners alone will take
Outflow(v, o) ==
  SumFunction([i \in DOMAIN orders |->
    IF Settles(orders[i], v, o)
    THEN Max({0, Payout(orders[i].edit, Won(orders[i], v, o))})
    ELSE 0])

CalledOff(desk, i) ==
  [desk EXCEPT !.ledger = ReleaseLock(@, desk.orders[i].account, i),
               !.orders[i].status = "called_off"]

\* The payout moves once the stake is released; a transfer that is not covered
\* raises, after the release, and ends the walk.
Settled(desk, i) ==
  LET order    == desk.orders[i]
      released == ReleaseLock(desk.ledger, order.account, i)
      payout   == Payout(order.edit, order.won)
      payer    == IF payout > 0 THEN Treasury ELSE order.account
      payee    == IF payout > 0 THEN order.account ELSE Treasury
      amount   == IF payout > 0 THEN payout ELSE -payout
  IN  IF CanPay(released, payer, amount)
      THEN [desk EXCEPT !.ledger = TransferAvailable(released, payer, payee, amount),
                        !.orders[i].status = "settled"]
      ELSE [desk EXCEPT !.ledger = released, !.aborted = TRUE]

\* What a resolution leaves of an order that goes on waiting.
Updated(desk, i, v, o) ==
  [desk EXCEPT !.orders[i].remaining = Remaining(@, v),
               !.orders[i].won       = Won(desk.orders[i], v, o)]

Waiting(desk, i) ==
  IF desk.orders[i].won = "unknown" THEN desk
  ELSE [desk EXCEPT !.orders[i].status = "awaiting_context"]

\* Mutant: an order that is already awaiting its context is not called off.
SettleOneUnlessAwaiting(desk, i, v, o) ==
  LET order == desk.orders[i]
  IN  IF desk.aborted \/ ~ Live(order) THEN desk
      ELSE IF order.status = "open" /\ Contradicted(order, v, o) THEN CalledOff(desk, i)
      ELSE IF Settles(order, v, o) THEN Settled(Updated(desk, i, v, o), i)
      ELSE Waiting(Updated(desk, i, v, o), i)

\* One round of the loop of resolve_variable.
SettleOne(desk, i, v, o) ==
  LET order == desk.orders[i]
  IN  IF desk.aborted \/ ~ Live(order) THEN desk
      ELSE IF Contradicted(order, v, o) THEN CalledOff(desk, i)
      ELSE IF Settles(order, v, o) THEN Settled(Updated(desk, i, v, o), i)
      ELSE Waiting(Updated(desk, i, v, o), i)

\* The walk over all orders, in placement order.
Walk(Step(_, _)) ==
  FoldLeft(Step, [ledger |-> ledger, orders |-> orders, aborted |-> FALSE],
           [i \in DOMAIN orders |-> i])

\* The joint is conditioned first; when it refuses nothing is settled, nor
\* recorded, but the table it was to keep is already empty.
ResolveVariable(v, o) ==
  LET Step(desk, i) == SettleOne(desk, i, v, o)
      after == Walk(Step)
      conditioned == Condition(fm, v, o)
  IN  /\ decided[v] = Open
      /\ CanPay(ledger, Treasury, Outflow(v, o))
      /\ fm' = conditioned.tree
      /\ \/ /\ conditioned.done
            /\ decided' = [decided EXCEPT ![v] = o]
            /\ ledger' = after.ledger /\ orders' = after.orders
            /\ aborted' = (aborted \/ after.aborted)
            /\ flat' = FlatCondition(flat, v, o)
            /\ UNCHANGED refused
         \/ /\ ~ conditioned.done
            /\ refused' = refused \cup {v}
            /\ UNCHANGED <<book_vars, flat>>

\* void_variable: the bets on v and those that still wait for v are called off.
VoidVariable(v) ==
  LET Undecidable(order) == Live(order) /\ (order.variable = v \/ v \in DOMAIN order.remaining)
      Step(desk, i) == IF Undecidable(desk.orders[i]) THEN CalledOff(desk, i) ELSE desk
      after == Walk(Step)
  IN  /\ decided[v] = Open
      /\ decided' = [decided EXCEPT ![v] = Void]
      /\ ledger' = after.ledger /\ orders' = after.orders
      /\ UNCHANGED <<belief_vars, aborted>>

-----------------------------------------------------------------------------
(* Restart from the venue's snapshot *)

\* The seeds with what was resolved; voids leave no trace in the joint.
Resolved == {v \in Variables : decided[v] \in Outcomes}

Replayed == FoldSet(LAMBDA v, tree : Condition(tree, v, decided[v]).tree, SeededTree, Resolved)

\* from_snapshot: orders, resolutions and voids as they were, and the stored
\* tables, if their structure is what their scopes build; else the seeds with
\* the resolutions, and the traded prices are lost.
Restart ==
  /\ UNCHANGED book_vars
  /\ \/ Rebuilds(fm) /\ UNCHANGED belief_vars
     \/ /\ ~ Rebuilds(fm)
        /\ fm' = Replayed
        /\ flat' = FoldSet(LAMBDA v, joint : FlatCondition(joint, v, decided[v]), SeededJoint, Resolved)
        /\ refused' = {}

-----------------------------------------------------------------------------
(* What the venue's pages show *)

\* all_marginals: with a context, those of a copy conditioned on it, one
\* variable after the other, unless one of them is refused.
Shadow(context) ==
  FoldSet(LAMBDA u, desk : IF desk.done THEN Condition(desk.tree, u, context[u]) ELSE desk,
          [tree |-> fm, done |-> TRUE], DOMAIN context)

AllMarginals(shadow) == [v \in Variables |-> Belief(shadow.tree, v, <<>>)]

\* orders_for
OrdersFor(t) == {i \in DOMAIN orders : orders[i].account = t}

\* get_my_net_portfolio
Portfolio(t) ==
  LET Totalled(status, Amount(_)) ==
        SumFunction([i \in {i \in OrdersFor(t) : orders[i].status \in status} |-> Amount(orders[i])])
  IN  [openStake  |-> Totalled({"open", "awaiting_context"}, LAMBDA order : order.stake),
       settledPnl |-> Totalled({"settled"}, LAMBDA order : Payout(order.edit, order.won))]

Next ==
  \/ \E t \in Traders, bet \in Bets, o \in Outcomes :
       \E context \in Assignments(bet.given) : Place(t, bet, o, context)
  \/ \E v \in Decidable :
       \/ \E o \in Outcomes : ResolveVariable(v, o)
       \/ VoidVariable(v)
  \/ Restart

Spec == Init /\ [][Next]_vars

-----------------------------------------------------------------------------
(* Properties *)

\* Frozen stakes and orders go together: an order that can still settle has
\* exactly its stake in its lock, an order that is done has nothing frozen,
\* whatever else was settled or called off in between.
StakesMatchOrders ==
  \A t \in Traders : \A i \in OrderIds :
    ledger.locks[t][i] =
      IF i \in DOMAIN orders /\ orders[i].account = t /\ Live(orders[i])
      THEN orders[i].stake ELSE 0

\* The fate of an order is decided by what became of its variables, not by when:
\* resolving or voiding them in any order, before or after the order was
\* placed, settles or calls off the same orders.  Nothing waits for a variable
\* that will never be decided ("a bet against it would freeze funds forever").
Fate(order) ==
  IF \/ decided[order.variable] = Void
     \/ \E u \in DOMAIN order.context : decided[u] \notin {Open, order.context[u]}
  THEN "called_off"
  ELSE IF decided[order.variable] = Open THEN "open"
  ELSE IF \A u \in DOMAIN order.context : decided[u] # Open THEN "settled"
  ELSE "awaiting_context"

FateFollowsDecisions == \A i \in DOMAIN orders : orders[i].status = Fate(orders[i])

\* "an under-funded treasury fails cleanly rather than aborting mid-walk": once
\* the precheck has let a resolution through, no transfer of the walk fails,
\* neither the treasury's, in whatever order winners and losers come, nor a
\* loser's, out of a stake that was rounded when it was placed.
WalkNeverAborts == ~ aborted

\* Every trader has what it came with and the scores of its settled orders, as
\* its variable was resolved; the treasury is on the other side of each score.
Score(order) ==
  IF order.status # "settled" THEN 0
  ELSE Payout(order.edit, IF decided[order.variable] = order.outcome THEN "yes" ELSE "no")

ScoresOf(t) ==
  SumFunction([i \in DOMAIN orders |-> IF orders[i].account = t THEN Score(orders[i]) ELSE 0])

PaidByScore ==
  /\ \A t \in Traders : ledger.available[t] + ledger.frozen[t] = Funds + ScoresOf(t)
  /\ ledger.available[Treasury] = TreasuryFunds - SumFunction([t \in Traders |-> ScoresOf(t)])

\* A trader's page shows what the ledger has: its open stake is all that is
\* frozen, its settled profit all that its account gained.
PortfolioIsLedgers ==
  \A t \in Traders :
    /\ Portfolio(t).openStake = ledger.frozen[t]
    /\ Portfolio(t).settledPnl = ledger.available[t] + ledger.frozen[t] - Funds

\* Stakes and fates of orders are those of the decisions.
OrdersFollowDecisions == StakesMatchOrders /\ FateFollowsDecisions

\* A settlement goes through, and pays what the scores say and the pages show.
SettlementIsExact == WalkNeverAborts /\ PaidByScore /\ PortfolioIsLedgers

\* "Same market semantics as JointMarket": through trades in any context, the
\* restructurings they force, refusals, resolutions and restarts, the tree is
\* the joint distribution that a maker over the explicit joint has, and each
\* of its tables is that joint's marginal, unless a resolution was refused.  It
\* answers as that maker does, whether it is asked under evidence or a copy of
\* it is conditioned first, and refuses the same contexts.
Asked == UNION {Assignments(bet.given) : bet \in Bets}

AnswersAreExact(context) ==
  LET possible == MassOf(flat, Slice(flat, context)) # Never
      answers  == [v \in Variables |-> FlatBelief(flat, v, context)]
      shadow   == Once(Shadow(context))
  IN  /\ shadow.done <=> possible
      /\ \A v \in Variables : Belief(fm, v, context) = answers[v]
      /\ possible => AllMarginals(shadow) = answers

BeliefsAreExact ==
  refused = {} =>
    /\ fm = Absorbed(flat, fm) /\ JointOf(fm) = flat
    /\ \A context \in Asked : AnswersAreExact(context)

\* Whatever is traded later, the tree keeps a cluster for every family and for
\* the whole scope of every edit it recorded, so that no later restructuring
\* projects an order's effect away; its clusters stay connected and within the
\* width budget.
TradesStayRepresented ==
  /\ \A scope \in Families \cup fm.scopes : Covering(fm.clusters, scope) # 0
  /\ RunningIntersection(fm.clusters)
  /\ Fits(fm.clusters)

\* factored_market.py: "The snapshot's structure was produced by the same
\* deterministic triangulation of the same scopes".
SnapshotRebuilds == Rebuilds(fm)
=============================================================================
