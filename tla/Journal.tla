------------------------------ MODULE Journal ------------------------------
(***************************************************************************)
(* backend/server.py: the market server's commands.  A handler validates a *)
(* request, looks its idempotency key up, stores a command, applies it to  *)
(* the stored prices, the joint market maker, the account risk and the     *)
(* account exposure, and appends one terminal event to the market's        *)
(* journal.  The server is single-threaded (run_server), so a handler is   *)
(* one step; it may stop half way by raising, and the process may restart  *)
(* between two handlers with nothing kept but the joint's file.            *)
(*                                                                         *)
(* Markets are binary and an edit targets "yes"; a probability is one of   *)
(* six levels.  Tiny is positive but Zero at the six decimals of a price   *)
(* read off the joint, Speck already at the twelve of an edited price.  A  *)
(* context names one other variable; one marked wide names enough more of  *)
(* them to exceed the compiler's treewidth.                                *)
(* The joint is known by its marginals: how a trade on one variable moves  *)
(* the others is a choice.                                                 *)
(***************************************************************************)
EXTENDS Integers, FiniteSets, SequencesExt

CONSTANTS
  Seeds,         \* INITIAL_MARKETS: the variables of the joint
  Created,       \* markets that POST /v1/markets may add; never in the joint
  Accounts,
  Keys,          \* idempotency keys
  NoKey,         \* a request without one
  Requests,      \* the command requests clients may send
  SeedRows,      \* CONDITIONAL_MARGINALS as compiled in
  SpillLevels,   \* marginals a trade may leave another variable at
  Impact,        \* Impact[old][new]: kl_divergence, scaled to an integer
  RiskLimit,     \* ACCOUNT_RISK_LIMIT, in the same unit
  MaxPosition,   \* max_position_size
  MaxCommands,   \* bound: commands of one process
  MaxRestarts    \* bound: restarts

Markets == Seeds \cup Created

Zero == 0
Speck == 1
Tiny == 2
Uniform == 3
One == 5
Levels == Zero..One
Interior == Speck..(One - 1)
Lost == 6                    \* a variable whose belief table was emptied
Beliefs == Levels \cup {Lost}

Outcomes == {"yes", "no"}
NoContext == [on |-> "none", yes |-> FALSE, wide |-> FALSE]
Contexts == {NoContext} \cup [on : Markets, yes : BOOLEAN, wide : BOOLEAN]

\* Normalized payloads.  Each kind has fields of its own, so two commands of
\* different kinds never have the same payload.
Edit == [level : Interior, context : Contexts]
Trade == [outcome : Outcomes, delta : Int]
Resolution == [resolve : Outcomes]
AdminOp == [kind : {"CloseMarket", "ReopenMarket"}]
Comment == [body : STRING]

ASSUME JournalAssumption ==
  /\ IsFiniteSet(Seeds) /\ IsFiniteSet(Created) /\ Seeds \cap Created = {}
  /\ IsFiniteSet(Accounts) /\ NoKey \notin Keys
  /\ \A r \in Requests :
       /\ r.market \in Markets /\ r.account \in Accounts
       /\ r.key \in Keys \cup {NoKey}
       /\ \/ r.payload \in Edit /\ r.payload.context.on # r.market
          \/ r.payload \in Trade \/ r.payload \in Resolution
          \/ r.payload \in AdminOp \/ r.payload \in Comment
  /\ SpillLevels \subseteq Interior
  /\ SeedRows = [m \in Markets |-> [c \in DOMAIN SeedRows[m] |-> SeedRows[m][c]]]
  /\ \A m \in Markets : /\ DOMAIN SeedRows[m] \subseteq Contexts \ {NoContext}
                        /\ \A c \in DOMAIN SeedRows[m] : c.on \in Seeds
                        /\ Range(SeedRows[m]) \subseteq Interior
  /\ \A old, new \in Levels : Impact[old][new] \in Int
  /\ \A old, new \in Interior : Impact[old][new] >= 0   \* Gibbs' inequality
  /\ RiskLimit \in Nat /\ MaxPosition \in Nat
  /\ MaxCommands \in Nat /\ MaxRestarts \in Nat

VARIABLES
  status,    \* MARKETS[m]["status"], "absent" before create_market
  price,     \* MARKETS[m]["marginals"]["yes"]
  cond,      \* CONDITIONAL_MARGINALS[m]: the rows edited under a context
  joint,     \* _JOINT_MARKET_STATE["market"], by its marginals
  disk,      \* the file at BAYES_JOINT_STATE_PATH, <<>> when there is none
  commands,  \* COMMANDS with the outcome stored for each, "none" without one
  keys,      \* IDEMPOTENCY_KEYS: scope key -> command
  journal,   \* EVENTS of each market, in sequence
  orders,    \* ORDERS
  minAsset,  \* ACCOUNT_RISK[a]["minAsset"]
  consumed,  \* ACCOUNT_RISK[a]["markets"][m]["capacityConsumed"]
  exposure,  \* ACCOUNT_EXPOSURE[a]: the non-zero netSize of (market, outcome)
  restarts   \* counts restarts against MaxRestarts

market_vars == <<status, price, cond>>
maker_vars == <<joint, disk>>
log_vars == <<commands, keys, journal>>
account_vars == <<orders, minAsset, consumed, exposure>>
vars == <<market_vars, maker_vars, log_vars, account_vars, restarts>>

NoRows == [c \in {} |-> Zero]

TypeOK ==
  /\ status \in [Markets -> {"absent", "active", "closed", "resolved"}]
  /\ price \in [Markets -> Levels]
  /\ \A m \in Markets : /\ DOMAIN cond[m] \subseteq Contexts \ {NoContext}
                        /\ \A c \in DOMAIN cond[m] : cond[m][c] \in Levels
  /\ joint \in [Seeds -> Beliefs]
  /\ disk = <<>> \/ disk \in [Seeds -> Beliefs]
  /\ \A i \in DOMAIN commands :
       /\ commands[i].request \in Requests
       /\ commands[i].outcome \in {"none", "accepted", "rejected"}
  /\ Len(commands) <= MaxCommands
  /\ \A k \in DOMAIN keys : keys[k] \in DOMAIN commands
  /\ \A m \in Markets : \A i \in DOMAIN journal[m] :
       journal[m][i].command \in DOMAIN commands
  /\ minAsset \in [Accounts -> Int]
  /\ \A a \in Accounts : /\ DOMAIN consumed[a] \subseteq Markets
                         /\ Range(consumed[a]) \subseteq Int
  /\ \A a \in Accounts : /\ DOMAIN exposure[a] \subseteq Markets \X Outcomes
                         /\ \A p \in DOMAIN exposure[a] :
                              exposure[a][p] \in (-MaxPosition)..MaxPosition \ {0}
  /\ restarts \in 0..MaxRestarts

Init ==
  /\ status = [m \in Markets |-> IF m \in Seeds THEN "active" ELSE "absent"]
  /\ price = [m \in Markets |-> Uniform]
  /\ cond = SeedRows
  /\ joint = [m \in Seeds |-> Uniform]
  /\ disk = <<>>
  /\ commands = <<>>
  /\ keys = [k \in {} |-> 0]
  /\ journal = [m \in Markets |-> <<>>]
  /\ orders = <<>>
  /\ minAsset = [a \in Accounts |-> RiskLimit]
  /\ consumed = [a \in Accounts |-> [m \in {} |-> 0]]
  /\ exposure = [a \in Accounts |-> [p \in {} |-> 0]]
  /\ restarts = 0

(***************************************************************************)
(* Probabilities                                                           *)
(***************************************************************************)
\* An edited price is kept to twelve decimals, one read off the joint to six.
AsEdited(level) == IF level = Speck THEN Zero ELSE level
AsRepriced(level) == IF level \in {Speck, Tiny} THEN Zero ELSE level

\* A market whose rows span too many variables has no exact query.
Compiles(m) == \A c \in DOMAIN cond[m] : ~c.wide

\* _marginalize_partial_context: the row for as much of the context as some
\* row knows of.
PartialRow(m, c) == {k \in DOMAIN cond[m] : k = [c EXCEPT !.wide = FALSE]}

\* The price an edit starts from: the row stored for its context, or a
\* partial one when the market compiles, or the marginal.
Base(m, c) ==
  CASE c \in DOMAIN cond[m] -> cond[m][c]
    [] c \notin DOMAIN cond[m] /\ Compiles(m) /\ PartialRow(m, c) # {} ->
         cond[m][CHOOSE k \in PartialRow(m, c) : TRUE]
    [] OTHER -> price[m]

\* lmsr_score_delta divides the new prices by the old and takes logarithms.
ScoreIsDefined(old, new) == Zero \notin {old, new} /\ One \notin {old, new}

(***************************************************************************)
(* The joint market maker                                                  *)
(***************************************************************************)
Settled(m) == joint[m] \in {Zero, One}
Damaged == \E m \in Seeds : joint[m] = Lost

\* The joints in which m is at level and each open variable moved or did not.
\* A variable whose table was emptied empties the tables beyond it, once the
\* next move passes through.
Moved(m, level) ==
  {j \in [Seeds -> Beliefs] :
     /\ j[m] = level
     /\ \A n \in Seeds \ {m} :
          \/ j[n] = joint[n]
          \/ ~Settled(n) /\ joint[n] # Lost /\ j[n] \in SpillLevels
          \/ j[n] = Lost /\ Damaged}

\* Variables the joint does not have are dropped from a trade's context.
InJoint(c) == c.on \in Seeds
Impossible(c) == InJoint(c) /\ joint[c.on] = (IF c.yes THEN Zero ELSE One)

\* FactoredMarket.trade_to_probability: the joints a trade may lead to; none
\* when the maker refuses it.  A trade under a context of the joint moves
\* m's own marginal as it moves the others'.
Traded(m, c, level) ==
  IF m \notin Seeds \/ Settled(m) \/ joint[m] = Lost \/ Impossible(c) THEN {}
  ELSE IF InJoint(c)
    THEN UNION {Moved(m, l) : l \in SpillLevels \cup {joint[m]}
                                      \cup (IF Damaged THEN {Lost} ELSE {})}
    ELSE Moved(m, level)

\* A context too wide for the junction tree may be refused as well, and any
\* context where a table is empty.
Refusable(m, c, level) ==
  Traded(m, c, level) = {} \/ c.wide \/ (InJoint(c) /\ Damaged)

\* What a refused trade leaves: the tree it tried may have been rebuilt around
\* an empty table before the refusal.
Refused(m, c) ==
  IF m \in Seeds /\ InJoint(c) /\ Damaged
  THEN {j \in [Seeds -> Beliefs] : \A n \in Seeds : j[n] \in {joint[n], Lost}}
  ELSE {joint}

\* build_market_resolution_marginals
PointMass(outcome) == IF outcome = "yes" THEN One ELSE Zero

\* FactoredMarket.condition succeeds on an outcome that has mass.
Conditioned(m, outcome) ==
  LET level == PointMass(outcome)
  IN IF m \notin Seeds \/ joint[m] = Lost \/ (Settled(m) /\ joint[m] # level)
     THEN {}
     ELSE {j \in Moved(m, level) :
             joint[m] = level => \A n \in Seeds : j[n] \in {joint[n], Lost}}

\* On any other it has emptied m's table by the time it fails.
Emptied(m) == IF m \in Seeds THEN [joint EXCEPT ![m] = Lost] ELSE joint

\* Mutant: closed markets are not repriced either.
ResyncedActive(p, j) ==
  [m \in Markets |->
     IF m \in Seeds /\ status'[m] = "active" /\ j[m] # Lost
     THEN AsRepriced(j[m]) ELSE p[m]]

\* resync_marginals_from_joint over the prices p; an empty table has no
\* marginal to show.
Resynced(p, j) ==
  [m \in Markets |->
     IF m \in Seeds /\ status'[m] # "resolved" /\ j[m] # Lost
     THEN AsRepriced(j[m]) ELSE p[m]]

\* Mutant: the joint is never saved.
MoveJointUnsaved(j, p) ==
  /\ joint' = j
  /\ price' = Resynced(p, j)
  /\ UNCHANGED disk

\* The joint becomes j, which is shown and saved.
MoveJoint(j, p) ==
  /\ joint' = j
  /\ disk' = j
  /\ price' = Resynced(p, j)

(***************************************************************************)
(* Commands, idempotency keys and the journal                              *)
(***************************************************************************)
Scope(r) == <<r.market, r.account, r.key>>

\* Mutant: a key bound to another payload is taken over.
FreshPayload(r) ==
  /\ Scope(r) \in DOMAIN keys => commands[keys[Scope(r)]].request.payload # r.payload
  /\ Len(commands) < MaxCommands

Bound(r) == r.key # NoKey /\ Scope(r) \in DOMAIN keys

\* A request whose key is bound gets the stored response again, or 409 when
\* its payload differs; either way nothing changes.
Fresh(r) ==
  /\ ~Bound(r)
  /\ Len(commands) < MaxCommands

Exists(m) == status[m] # "absent"

NextCommand == Len(commands) + 1

\* materialize_*_command, with the outcome recorded before the handler ends.
Store(r, outcome) ==
  commands' = Append(commands, [request |-> r, outcome |-> outcome])

\* record_terminal_outcome: the outcome binds the key.
Record(r, outcome) ==
  /\ Store(r, outcome)
  /\ keys' = IF r.key = NoKey THEN keys
             ELSE [k \in DOMAIN keys \cup {Scope(r)} |->
                     IF k = Scope(r) THEN NextCommand ELSE keys[k]]

\* market_replay_state_hash: the market's document and conditional rows.
ReplayState(m) == <<status[m], price[m], cond[m]>>

\* The effects an event tells of: what moved a price, the market's own or that
\* of one context, and whose minAsset moved, each from what to what.
NoEffects == [prices |-> {}, assets |-> <<>>]
EditEffects(r, old, new) ==
  [prices |-> {<<r.payload.context, old, new>>},
   assets |-> [a \in {r.account} |-> <<minAsset[a], minAsset'[a]>>]]
ResolutionEffects(m, final) ==
  [prices |-> IF price[m] = final THEN {} ELSE {<<NoContext, price[m], final>>},
   assets |-> [a \in {b \in Accounts : m \in DOMAIN consumed[b]} |->
                 <<minAsset[a], minAsset'[a]>>]]

\* emit_terminal_event; only an acceptance carries effects and the replay hash.
Emit(r, outcome, effects, state) ==
  journal' = [journal EXCEPT ![r.market] = Append(@,
    [command |-> NextCommand, accepted |-> outcome = "accepted",
     effects |-> effects, state |-> state])]

\* Mutant: the replay hash is taken before the command is applied.
AcceptBeforeApply(r, effects) ==
  /\ Record(r, "accepted")
  /\ Emit(r, "accepted", effects, ReplayState(r.market))

\* build_terminal_response, once the command is applied.
Accept(r, effects) ==
  /\ Record(r, "accepted")
  /\ Emit(r, "accepted", effects, ReplayState(r.market)')

Reject(r) ==
  /\ Record(r, "rejected")
  /\ Emit(r, "rejected", NoEffects, <<>>)
  /\ UNCHANGED <<market_vars, maker_vars, account_vars, restarts>>

\* An exception after the command is stored and before its outcome is.
Abandon(r) ==
  /\ Store(r, "none")
  /\ UNCHANGED <<keys, journal>>

(***************************************************************************)
(* ProbabilityEdit                                                         *)
(***************************************************************************)
\* sync_account_risk_state
Charge(a, m, impact) ==
  /\ minAsset' = [minAsset EXCEPT ![a] = @ - impact]
  /\ consumed' = [consumed EXCEPT ![a] =
       [n \in DOMAIN @ \cup {m} |->
          (IF n \in DOMAIN @ THEN @[n] ELSE 0) + (IF n = m THEN impact ELSE 0)]]

\* Mutant: the balance before the edit is what must not be negative.
AffordableBefore(a, c, impact) == c = NoContext => minAsset[a] >= 0

\* min_asset_check looks at unconditional edits only.
Affordable(a, c, impact) == c = NoContext => minAsset[a] - impact >= 0

\* create_probability_edit_order writes the stored price before the joint is
\* asked: the row of the context, or the marginal, whose rows are dropped.
EditedCond(m, c, level) ==
  [cond EXCEPT ![m] =
     IF c = NoContext THEN NoRows
     ELSE [k \in DOMAIN @ \cup {c} |-> IF k = c THEN level ELSE @[k]]]
EditedPrice(m, c, level) == IF c = NoContext THEN [price EXCEPT ![m] = level] ELSE price

EditOrder(r, old, new, filled) ==
  [command |-> NextCommand, market |-> r.market, account |-> r.account,
   context |-> r.payload.context, old |-> old, new |-> new, filled |-> filled]

ApplyEdit(r) ==
  LET m == r.market
      c == r.payload.context
      old == Base(m, c)
      new == AsEdited(r.payload.level)
      impact == Impact[old][new]
      order(filled) == EditOrder(r, old, new, filled)
  IN /\ Compiles(m)
     /\ Affordable(r.account, c, impact)
     /\ cond' = EditedCond(m, c, new)
     /\ UNCHANGED status
     /\ \/ \E j \in Traded(m, c, r.payload.level) :
             /\ MoveJoint(j, EditedPrice(m, c, new))
             /\ orders' = Append(orders, order(TRUE))
        \/ /\ Refusable(m, c, r.payload.level)
           /\ price' = EditedPrice(m, c, new)
           /\ orders' = Append(orders, order(FALSE))
           /\ joint' \in Refused(m, c)
           /\ UNCHANGED disk
     /\ Charge(r.account, m, impact)
     /\ IF ScoreIsDefined(old, new) THEN Accept(r, EditEffects(r, old, new)) ELSE Abandon(r)
     /\ UNCHANGED <<exposure, restarts>>

\* normalize_context_assignments
KnownContext(c) == c # NoContext => Exists(c.on)

\* validate_structure_preserving_edit: the other outcome has mass to give.
Movable(m, c) == Base(m, c) # One

\* handle_probability_edit.  The request is validated against today's price
\* before its key is looked up.  Where the market does not compile, an
\* unconditional edit fails before its command is stored, any other after.
ProbabilityEdit(r) ==
  /\ r.payload \in Edit
  /\ Fresh(r)
  /\ Exists(r.market)
  /\ KnownContext(r.payload.context)
  /\ Movable(r.market, r.payload.context)
  /\ IF status[r.market] # "active"
     THEN Reject(r)
     ELSE \/ ApplyEdit(r)
          \/ /\ ~Compiles(r.market)
             /\ r.payload.context # NoContext
             /\ Abandon(r)
             /\ UNCHANGED <<market_vars, maker_vars, account_vars, restarts>>

(***************************************************************************)
(* EventTrade                                                              *)
(***************************************************************************)
\* preview_event_trade_position_net_change
Net(a, m, o) == IF <<m, o>> \in DOMAIN exposure[a] THEN exposure[a][<<m, o>>] ELSE 0

\* Mutant: a flat position is kept.
HoldFlat(a, m, o, net) ==
  exposure' = [exposure EXCEPT ![a] =
    [p \in DOMAIN @ \cup {<<m, o>>} |-> IF p = <<m, o>> THEN net ELSE @[p]]]

\* sync_account_exposure_state: a flat position is dropped.
Hold(a, m, o, net) ==
  exposure' = [exposure EXCEPT ![a] =
    IF net = 0 THEN [p \in DOMAIN @ \ {<<m, o>>} |-> @[p]]
    ELSE [p \in DOMAIN @ \cup {<<m, o>>} |-> IF p = <<m, o>> THEN net ELSE @[p]]]

\* create_event_trade_order; the price is that of "yes".
TradeOrder(r) ==
  [command |-> NextCommand, market |-> r.market, account |-> r.account,
   outcome |-> r.payload.outcome, delta |-> r.payload.delta,
   price |-> AsRepriced(price[r.market])]

\* handle_event_trade.  A trade leaves prices and the joint alone.
EventTrade(r) ==
  LET m == r.market
      o == r.payload.outcome
      net == Net(r.account, m, o) + r.payload.delta
  IN /\ r.payload \in Trade
     /\ Fresh(r)
     /\ Exists(m)
     /\ net \in (-MaxPosition)..MaxPosition
     /\ CASE status[m] # "active" -> Reject(r)
          [] status[m] = "active" /\ Compiles(m) ->
               /\ UNCHANGED <<market_vars, maker_vars, minAsset, consumed, restarts>>
               /\ orders' = Append(orders, TradeOrder(r))
               /\ Hold(r.account, m, o, net)
               /\ Accept(r, NoEffects)
          [] OTHER ->
               /\ Abandon(r)
               /\ UNCHANGED <<market_vars, maker_vars, account_vars, restarts>>

(***************************************************************************)
(* Market lifecycle                                                        *)
(***************************************************************************)
\* settle_market_account_risk: what is left is recomputed, not refunded.
ReleaseRisk(m) ==
  LET left(a) == [n \in DOMAIN consumed[a] \ {m} |-> consumed[a][n]]
  IN /\ consumed' = [a \in Accounts |-> left(a)]
     /\ minAsset' = [a \in Accounts |->
          IF m \in DOMAIN consumed[a]
          THEN RiskLimit - SumFunction(left(a))
          ELSE minAsset[a]]

\* settle_market_account_exposure
ReleaseExposure(m) ==
  exposure' = [a \in Accounts |->
    [p \in {q \in DOMAIN exposure[a] : q[1] # m} |-> exposure[a][p]]]

\* transition_market_to_resolved
ToResolved(m, outcome) ==
  LET final == [price EXCEPT ![m] = PointMass(outcome)]
      joints == Conditioned(m, outcome)
  IN /\ status' = [status EXCEPT ![m] = "resolved"]
     /\ cond' = [cond EXCEPT ![m] = NoRows]
     /\ \/ \E j \in joints : MoveJoint(j, final)
        \/ /\ joints = {}
           /\ price' = final
           /\ joint' = Emptied(m)
           /\ UNCHANGED disk

\* handle_market_resolution
MarketResolution(r) ==
  /\ r.payload \in Resolution
  /\ Fresh(r)
  /\ Exists(r.market)
  /\ IF status[r.market] = "resolved"
     THEN Reject(r)
     ELSE /\ ToResolved(r.market, r.payload.resolve)
          /\ ReleaseRisk(r.market)
          /\ ReleaseExposure(r.market)
          /\ Accept(r, ResolutionEffects(r.market, PointMass(r.payload.resolve)))
          /\ UNCHANGED <<orders, restarts>>

\* A market status changed by an AdminOp that touches nothing else.
Transition(r, from, to) ==
  /\ Fresh(r)
  /\ Exists(r.market)
  /\ IF status[r.market] # from
     THEN Reject(r)
     ELSE /\ status' = [status EXCEPT ![r.market] = to]
          /\ UNCHANGED <<price, cond, maker_vars, account_vars, restarts>>
          /\ Accept(r, NoEffects)

\* handle_market_close
MarketClose(r) ==
  /\ r.payload = [kind |-> "CloseMarket"]
  /\ Transition(r, "active", "closed")

\* handle_market_reopen
MarketReopen(r) ==
  /\ r.payload = [kind |-> "ReopenMarket"]
  /\ Transition(r, "closed", "active")

\* handle_comment_post: its outcome is recorded, no event is emitted.
CommentPost(r) ==
  /\ r.payload \in Comment
  /\ Fresh(r)
  /\ Exists(r.market)
  /\ Record(r, IF status[r.market] = "active" THEN "accepted" ELSE "rejected")
  /\ UNCHANGED <<market_vars, maker_vars, journal, account_vars, restarts>>

\* create_market: a uniform prior, unknown to the joint.
CreateMarket(m) ==
  /\ m \in Created
  /\ ~Exists(m)
  /\ status' = [status EXCEPT ![m] = "active"]
  /\ UNCHANGED <<price, cond, maker_vars, log_vars, account_vars, restarts>>

\* The process starts over: the module's state is that of the seeds, and
\* get_joint_market restores the joint from its file.
Restart ==
  /\ restarts < MaxRestarts
  /\ restarts' = restarts + 1
  /\ status' = [m \in Markets |-> IF m \in Seeds THEN "active" ELSE "absent"]
  /\ joint' = IF disk = <<>> THEN [m \in Seeds |-> Uniform] ELSE disk
  /\ price' = Resynced([m \in Markets |-> Uniform], joint')
  /\ cond' = SeedRows
  /\ commands' = <<>>
  /\ keys' = [k \in {} |-> 0]
  /\ journal' = [m \in Markets |-> <<>>]
  /\ orders' = <<>>
  /\ minAsset' = [a \in Accounts |-> RiskLimit]
  /\ consumed' = [a \in Accounts |-> [m \in {} |-> 0]]
  /\ exposure' = [a \in Accounts |-> [p \in {} |-> 0]]
  /\ UNCHANGED disk

(***************************************************************************)
(* What a client is told                                                   *)
(***************************************************************************)
\* Every handler validates a request against today's state before it looks the
\* key up, so a retry may be refused for what happened since.
Refused400(r) ==
  r.payload \in Edit /\ ~(KnownContext(r.payload.context)
                             /\ Movable(r.market, r.payload.context))

Answer(r) ==
  CASE ~Exists(r.market) -> "market_not_found"
    [] Exists(r.market) /\ Refused400(r) -> "invalid"
    [] Exists(r.market) /\ ~Refused400(r) /\ Bound(r) ->
         IF commands[keys[Scope(r)]].request.payload = r.payload
         THEN commands[keys[Scope(r)]].outcome
         ELSE "idempotency_conflict"
    [] OTHER -> "fresh"

Next ==
  \/ \E r \in Requests :
       \/ ProbabilityEdit(r) \/ EventTrade(r) \/ CommentPost(r)
       \/ MarketResolution(r) \/ MarketClose(r) \/ MarketReopen(r)
  \/ \E m \in Created : CreateMarket(m)
  \/ Restart

Spec == Init /\ [][Next]_vars

(***************************************************************************)
(* Properties                                                              *)
(***************************************************************************)
Told(m) ==
  {i \in DOMAIN commands : /\ commands[i].request.market = m
                           /\ commands[i].request.payload \notin Comment
                           /\ commands[i].outcome # "none"}

\* A market's journal holds, in the order the commands were stored, exactly
\* one event for each command whose outcome was recorded, and it says what
\* the recorded outcome says, whatever failed in between.
EventPerOutcome ==
  \A m \in Markets :
    LET events == journal[m]
    IN /\ {events[i].command : i \in DOMAIN events} = Told(m)
       /\ \A i, k \in DOMAIN events : i < k => events[i].command < events[k].command
       /\ \A i \in DOMAIN events :
            events[i].accepted = (commands[events[i].command].outcome = "accepted")

\* Whatever clients retry, a key leads to the one outcome recorded under it,
\* so no request with a key is answered twice with an outcome of its own.
KeyNamesOneOutcome ==
  \A i \in DOMAIN commands :
    LET r == commands[i].request
    IN (r.key # NoKey /\ commands[i].outcome # "none")
         => Scope(r) \in DOMAIN keys /\ keys[Scope(r)] = i

\* A retry with its key is told the recorded outcome whatever happened since,
\* but for one: an edit of a market that has come to stand at certainty is
\* refused as invalid, although it was accepted.
RetriesAreAnswered ==
  \A i \in DOMAIN commands :
    LET r == commands[i].request
    IN (r.key # NoKey /\ commands[i].outcome # "none")
         => \/ Answer(r) = commands[i].outcome
            \/ Answer(r) = "invalid" /\ r.payload \in Edit /\ price[r.market] = One

\* One outcome for a key, one event for an outcome, one answer for a retry.
OutcomesAreRecordedOnce == EventPerOutcome /\ KeyNamesOneOutcome /\ RetriesAreAnswered

\* An account's minAsset is its limit less what its unresolved markets
\* consume: edits, edits that fail after they charged, and settlements keep
\* the account and its market slices in step.
CapacityBalances ==
  \A a \in Accounts : minAsset[a] = RiskLimit - SumFunction(consumed[a])

\* An account gets below zero only by edits under a context, which the
\* solvency check lets through, or by one that starts from or ends at a
\* price the score is not defined for.
OverdrawnOnlyByContext ==
  \A a \in Accounts : minAsset[a] < 0 =>
    \E i \in DOMAIN orders :
      /\ orders[i].account = a
      /\ "context" \in DOMAIN orders[i]
      /\ orders[i].context # NoContext \/ Zero \in {orders[i].old, orders[i].new}

Trades(a, m, o) ==
  {i \in DOMAIN orders : /\ "delta" \in DOMAIN orders[i]
                         /\ orders[i].account = a
                         /\ orders[i].market = m
                         /\ orders[i].outcome = o}

\* The exposure read model is the sum of the stored trades of each market
\* until it resolves, and has no position in a market after it did.
PositionsMatchTrades ==
  \A a \in Accounts, m \in Markets, o \in Outcomes :
    Net(a, m, o) =
      IF status[m] = "resolved" THEN 0
      ELSE SumFunction([i \in Trades(a, m, o) |-> orders[i].delta])

\* The account read models agree with the orders they are kept for, and the
\* solvency check lets nothing past but what it does not look at.
AccountsFollowOrders == CapacityBalances /\ OverdrawnOnlyByContext /\ PositionsMatchTrades

\* A seed market that is not resolved shows the joint's marginal, if the joint
\* has one, unless the joint refused an edit of it and no later edit was filled:
\* the stored price is written before the joint is asked.
PriceDriftsOnlyByRefusal ==
  \A m \in Seeds :
    (status[m] # "resolved" /\ joint[m] # Lost /\ price[m] # AsRepriced(joint[m])) =>
      \E i \in DOMAIN orders :
        /\ "filled" \in DOMAIN orders[i] /\ orders[i].market = m /\ ~orders[i].filled
        /\ \A k \in DOMAIN orders :
             (k > i /\ "filled" \in DOMAIN orders[k]) => ~orders[k].filled

LastAccepted(m) ==
  {i \in DOMAIN journal[m] :
     journal[m][i].accepted /\ \A k \in DOMAIN journal[m] : k > i => ~journal[m][k].accepted}

\* No command of it failed half way.
Untorn(commandsOf) == \A i \in commandsOf : commands[i].outcome # "none"
CommandsOn(m) == {i \in DOMAIN commands : commands[i].request.market = m}
CommandsOf(a) == {i \in DOMAIN commands : commands[i].request.account = a}

\* The replay hash of a market's last accepted event is the hash of its state.
HashIsLive(m) ==
  \A i \in LastAccepted(m) : journal[m][i].state = ReplayState(m)

\* A move [at, from, to] is what the event of command at tells of a value.  The
\* last of some moves ends where they lead to, and where they began if none.
End(moves, first) ==
  IF moves = {} THEN first
  ELSE (CHOOSE last \in moves : \A move \in moves : move.at <= last.at).to

\* The moves lead from first to last, each from where those before it ended.
Leads(moves, first, last) ==
  /\ \A move \in moves : move.from = End({l \in moves : l.at < move.at}, first)
  /\ End(moves, first) = last

\* The effects of its events lead from the price a market was created with to
\* the one it shows.
PriceMoves(m) ==
  UNION {{[at |-> e.command, from |-> p[2], to |-> p[3]] :
            p \in {q \in e.effects.prices : q[1] = NoContext}} : e \in Range(journal[m])}
PriceIsTold(m) == Leads(PriceMoves(m), Uniform, price[m])

\* So do the effects of the events of all markets for an account's minAsset,
\* the releases that other clients' resolutions gave it included.
Events == UNION {Range(journal[m]) : m \in Markets}
AssetMoves(a) ==
  {[at |-> e.command, from |-> e.effects.assets[a][1], to |-> e.effects.assets[a][2]] :
     e \in {f \in Events : a \in DOMAIN f.effects.assets}}
MinAssetIsTold(a) == Leads(AssetMoves(a), RiskLimit, minAsset[a])

\* The journal is enough to replay from.  For a market outside the joint the
\* last hash and the price moves are those of its state now, and for an
\* account its asset moves, as long as no command of either failed half way:
\* every other change of that state is in the journal.
JournalTellsAll ==
  /\ \A m \in Created : Untorn(CommandsOn(m)) => HashIsLive(m) /\ PriceIsTold(m)
  /\ \A a \in Accounts : Untorn(CommandsOf(a)) => MinAssetIsTold(a)

\* Once the joint is conditioned on a variable no trade, other resolution,
\* repricing or restart moves that variable to another value, although a
\* restart makes its market active again.  Resolving it anew, against what the
\* joint knows, loses the value; a server that never restarted does not.
SettledStaysSettled ==
  [][\A m \in Seeds : Settled(m) =>
       \/ joint'[m] = joint[m]
       \/ joint'[m] = Lost /\ restarts > 0]_vars
=============================================================================
