---------------------------- MODULE JournalReads ----------------------------
(***************************************************************************)
(* backend/server.py: what the market server's GET routes compute from the *)
(* state the commands leave.  Analytics join the journal to the orders,    *)
(* the platform totals count orders alone, the profit and loss of an       *)
(* account is recomputed from its orders while the risk and position views *)
(* are kept up as orders come, and feeds are read page by page: different  *)
(* routes to the same facts, with no code in common.                       *)
(*                                                                         *)
(* Money made of prices is counted in levels.  What the score of an edit   *)
(* is worth is known by the distribution it is marked under.               *)
(***************************************************************************)
EXTENDS Journal, Feeds

IsEdit(o) == "context" \in DOMAIN o
IsTrade(o) == "delta" \in DOMAIN o

OrdersOn(m) == {i \in DOMAIN orders : orders[i].market = m}
OrdersOf(a) == {i \in DOMAIN orders : orders[i].account = a}
EditsOf(a, m) == {i \in OrdersOf(a) \cap OrdersOn(m) : IsEdit(orders[i])}

\* The orders filled under a command.
OrdersUnder(c) == {i \in DOMAIN orders : orders[i].command = c}

\* What a share of an outcome costs at a level of "yes".
ShareAt(outcome, level) == IF outcome = "yes" THEN level ELSE One - level

(***************************************************************************)
(* Market analytics                                                        *)
(***************************************************************************)
\* normalize_accepted_activity_rows: the orders of a market that an event of its
\* journal accepted.
Activity(m) ==
  {i \in OrdersOn(m) :
     \E e \in Range(journal[m]) : e.accepted /\ e.command = orders[i].command}

Volume(o) ==
  IF IsEdit(o) THEN Impact[o.old][o.new]
  ELSE (IF o.delta < 0 THEN -o.delta ELSE o.delta) * ShareAt(o.outcome, o.price)

\* The number and the volume of some of its rows.
Totals(rows) ==
  [trades |-> Cardinality(rows), volume |-> SumFunction([i \in rows |-> Volume(orders[i])])]

\* get_market_analytics
Summary(m) == Totals(Activity(m))

\* rank_traders_by_volume, but for the order
TopTraders(m) ==
  [a \in {orders[i].account : i \in Activity(m)} |-> Totals(Activity(m) \cap OrdersOf(a))]

\* Mutant: edits under a context are points of the series too.
OnSeriesAnyEdit(r) == r.payload \in Resolution \/ r.payload \in Edit

\* What moves the unconditional price.
OnSeries(r) ==
  r.payload \in Resolution \/ (r.payload \in Edit /\ r.payload.context = NoContext)

\* build_market_price_series: from the seed's prior, or from today's price when
\* nothing else is known of a created market.
PriceSeries(m) ==
  LET request(e) == commands[e.command].request
      told == FromFirst({i \in DOMAIN journal[m] :
                           journal[m][i].accepted /\ OnSeries(request(journal[m][i]))})
      level(e) == IF request(e).payload \in Resolution
                  THEN PointMass(request(e).payload.resolve)
                  ELSE orders[CHOOSE i \in OrdersUnder(e.command) : TRUE].new
      points == [k \in DOMAIN told |-> AsRepriced(level(journal[m][told[k]]))]
  IN CASE m \in Seeds -> <<Uniform>> \o points
       [] m \notin Seeds /\ points = <<>> -> <<AsRepriced(price[m])>>
       [] OTHER -> points

(***************************************************************************)
(* The platform                                                            *)
(***************************************************************************)
\* aggregate_platform_stats: every stored order counts, told of or not.
PlatformStats ==
  [active |-> Cardinality({m \in Markets : status[m] = "active"}),
   resolved |-> Cardinality({m \in Markets : status[m] = "resolved"}),
   markets |-> Cardinality({m \in Markets : Exists(m)}),
   trades |-> Len(orders),
   accounts |-> {orders[i].account : i \in DOMAIN orders}]

\* parse_market_list_query: the statuses a query lets through.  The resolved
\* are left out unless they are asked for, by name, by "all" or by a flag.
Wanted(asked, include) ==
  (CASE asked \in {"", "all"} -> {"active", "closed", "resolved"}
     [] OTHER -> {asked})
  \ (IF include \/ asked \in {"all", "resolved"} THEN {} ELSE {"resolved"})

\* list_markets, but for the order
MarketsFor(asked, include) == {m \in Markets : status[m] \in Wanted(asked, include)}

\* get_market_cpt: the parents its rows name, and the rows, or the marginal.
Cpt(m) ==
  [parents |-> {c.on : c \in DOMAIN cond[m]},
   rows |-> IF cond[m] = NoRows THEN [c \in {NoContext} |-> price[m]] ELSE cond[m]]

\* get_network_overview: the edges between markets it lists.
Edges == {e \in {m \in Markets : Exists(m)} \X {m \in Markets : Exists(m)} :
            e[1] \in Cpt(e[2]).parents}

(***************************************************************************)
(* Accounts                                                                *)
(***************************************************************************)
NotFound == [code |-> 404, body |-> <<>>]
ServerError == [code |-> 500, body |-> <<>>]
Ok(body) == [code |-> 200, body |-> body]

\* get_account_risk: an account is known from its first edit on.
RiskView(a) ==
  IF \E i \in OrdersOf(a) : IsEdit(orders[i])
  THEN Ok([overall |-> minAsset[a], markets |-> consumed[a]])
  ELSE NotFound

\* get_account_exposure: the live positions, each with the price of the last
\* trade; an account without one is not found.
ExposureView(a) ==
  LET last(p) == Max(Trades(a, p[1], p[2]))
  IN IF exposure[a] = <<>> THEN NotFound
     ELSE Ok([p \in DOMAIN exposure[a] |->
                [net |-> exposure[a][p], lastPrice |-> orders[last(p)].price]])

\* get_account_positions: a position is marked as if all of it had been traded
\* at the price of the last trade.
PositionsView(a) ==
  LET live == ExposureView(a).body
      gain(p) == ShareAt(p[2], AsRepriced(price[p[1]])) - ShareAt(p[2], live[p].lastPrice)
  IN IF ExposureView(a).code = 404 THEN NotFound
     ELSE Ok([p \in DOMAIN live |-> live[p].net * gain(p)])

\* What a market was resolved to.
Settlement(m) ==
  LET done == {i \in DOMAIN commands :
                 /\ commands[i].request.market = m
                 /\ commands[i].request.payload \in Resolution
                 /\ commands[i].outcome = "accepted"}
  IN commands[CHOOSE i \in done : TRUE].request.payload.resolve

\* valuation_distribution_for_slice: a slice of a context whose row was dropped
\* by an unconditional edit is marked under the marginal.
Valuation(m, c) ==
  CASE status[m] = "resolved" -> PointMass(Settlement(m))
    [] status[m] # "resolved" /\ c \in DOMAIN cond[m] -> cond[m][c]
    [] OTHER -> price[m]

\* compute_account_pnl recomputes the score of every edit ever stored, which
\* raises where the score is not defined.
PnlRaises(a) ==
  \E i \in OrdersOf(a) : IsEdit(orders[i]) /\ ~ScoreIsDefined(orders[i].old, orders[i].new)

\* One market of an account's profit and loss: what its edits cost, under what
\* each slice of them is marked, and the cost and the mark of its trades.
PnlRow(a, m) ==
  LET edits == EditsOf(a, m)
      trades == (OrdersOf(a) \cap OrdersOn(m)) \ edits
      worth(i, level) == orders[i].delta * ShareAt(orders[i].outcome, level)
      now == AsRepriced(Valuation(m, NoContext))
  IN [realized |-> status[m] = "resolved",
      editCost |-> SumFunction([i \in edits |-> Impact[orders[i].old][orders[i].new]]),
      slices |-> [c \in {orders[i].context : i \in edits} |-> Valuation(m, c)],
      tradeCost |-> SumFunction([i \in trades |-> worth(i, orders[i].price)]),
      tradeMark |-> SumFunction([i \in trades |-> worth(i, now)])]

\* get_account_pnl
PnlView(a) ==
  CASE OrdersOf(a) = {} -> NotFound
    [] PnlRaises(a) -> ServerError
    [] OTHER -> Ok([m \in {orders[i].market : i \in OrdersOf(a)} |-> PnlRow(a, m)])

(***************************************************************************)
(* Feeds                                                                   *)
(***************************************************************************)
\* get_market_events
EventsPage(m, from, limit) == PageFrom(journal[m], from, limit)

Comments(m) ==
  LET places == FromFirst({i \in CommandsOn(m) : /\ commands[i].request.payload \in Comment
                                                 /\ commands[i].outcome = "accepted"})
  IN [k \in DOMAIN places |-> commands[places[k]]]

\* get_market_comments
CommentsPage(m, from, limit) == PageFrom(Comments(m), from, limit)

\* The trades of a market, as places among the orders, the newest first.
TradesOn(m) == {i \in OrdersOn(m) : IsTrade(orders[i])}
TradesFeed(m) == FromLast(TradesOn(m))

\* get_market_trades: a page, and the trade to ask the next page before; 0 asks
\* for the first page.
TradesPage(m, before, limit) ==
  LET feed == TradesFeed(m)
      start == IF before = 0 THEN 1 ELSE 1 + (CHOOSE k \in DOMAIN feed : feed[k] = before)
      page == PageFrom(feed, start, limit)
  IN [items |-> page.items, next |-> IF page.next = 0 THEN 0 ELSE Last(page.items)]

(***************************************************************************)
(* Properties                                                              *)
(***************************************************************************)
\* The price series of a market outside the joint ends at the price it shows,
\* as long as no command on it failed half way: edits under a context and
\* trades leave no point, and no change of the price is without one.
SeriesIsCurrent ==
  \A m \in Created :
    Untorn(CommandsOn(m)) => Last(PriceSeries(m)) = AsRepriced(price[m])

\* The platform counts the trades the markets' analytics count and, besides,
\* exactly the orders of commands that failed half way; its counts of markets
\* are the lengths of the lists a client asks for; and what a market's top
\* traders moved adds up to its volume.
TotalsAgree ==
  LET torn == {i \in DOMAIN orders : commands[orders[i].command].outcome = "none"}
      volumes(m) == [a \in DOMAIN TopTraders(m) |-> TopTraders(m)[a].volume]
  IN /\ PlatformStats.trades =
          SumFunction([m \in Markets |-> Summary(m).trades]) + Cardinality(torn)
     /\ PlatformStats.markets = Cardinality(MarketsFor("all", FALSE))
     /\ PlatformStats.resolved = Cardinality(MarketsFor("resolved", FALSE))
     /\ PlatformStats.active = Cardinality(MarketsFor("active", FALSE))
     /\ \A m \in Markets : SumFunction(volumes(m)) = Summary(m).volume

\* An account's profit and loss is out of reach, for as long as the process
\* lives, exactly once an edit of its failed half way.
PnlFailsOnceTorn ==
  \A a \in Accounts :
    PnlView(a).code = 500 <=>
      \E i \in CommandsOf(a) : commands[i].outcome = "none" /\ OrdersUnder(i) # {}

\* Until a market resolves, what an account's edits cost it there is what the
\* risk view says it consumes.
CostIsCapacity ==
  \A a \in Accounts : (PnlView(a).code = 200 /\ RiskView(a).code = 200) =>
    LET rows == PnlView(a).body
        slices == RiskView(a).body.markets
    IN \A m \in DOMAIN rows : status[m] # "resolved" =>
         rows[m].editCost = IF m \in DOMAIN slices THEN slices[m] ELSE 0

\* Trades that were all made at one price, in one outcome, gain in the profit
\* and loss of an open market what the position view says they gain.
MarksAgree ==
  \A a \in Accounts, m \in Markets, o \in Outcomes :
    LET trades == {i \in OrdersOf(a) \cap OrdersOn(m) : IsTrade(orders[i])}
        row == PnlRow(a, m)
        position == <<m, o>>
    IN (/\ status[m] # "resolved"
        /\ \A i \in trades : orders[i].outcome = o
        /\ Cardinality({orders[i].price : i \in trades}) = 1)
         => row.tradeMark - row.tradeCost =
              IF position \in DOMAIN ExposureView(a).body THEN PositionsView(a).body[position] ELSE 0

\* A resolved market keeps the price it was resolved to, which is what profit
\* and loss are realized at, whatever the joint does afterwards.
RealizedAtPrice ==
  \A m \in Markets : status[m] = "resolved" => price[m] = Valuation(m, NoContext)

AccountViewsAgree == PnlFailsOnceTorn /\ CostIsCapacity /\ MarksAgree /\ RealizedAtPrice

\* Every parent a market's table names is a market, so the network overview
\* has an edge for it.
ParentsAreMarkets ==
  \A m \in Markets : Exists(m) => \A p \in Cpt(m).parents : <<p, m>> \in Edges

\* Following the cursors, whatever the page size, a client reads every event,
\* comment and trade of a market once and in order.
PagesAreComplete ==
  \A m \in Markets, limit \in 1..2 :
    LET events == [c \in 1..(Len(journal[m]) + 1) |-> EventsPage(m, c, limit)]
        comments == [c \in 1..(Len(Comments(m)) + 1) |-> CommentsPage(m, c, limit)]
        trades == [c \in {0} \cup TradesOn(m) |-> TradesPage(m, c, limit)]
    IN /\ Read(events, 1) = journal[m]
       /\ Read(comments, 1) = Comments(m)
       /\ Read(trades, 0) = TradesFeed(m)

\* What the routes say of the same facts agrees.
ReadsAgree ==
  /\ SeriesIsCurrent /\ TotalsAgree /\ AccountViewsAgree
  /\ ParentsAreMarkets /\ PagesAreComplete
=============================================================================
