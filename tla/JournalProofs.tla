---------------------------- MODULE JournalProofs -----------------------------
(***************************************************************************)
(* Journal.tla for any number of markets, accounts, idempotency keys,      *)
(* commands and restarts: what is recorded of a command, what the account  *)
(* read models make of the orders, how the stored prices and the joint     *)
(* market maker keep together, and that what the routes of JournalReads    *)
(* answer agrees.                                                          *)
(***************************************************************************)
EXTENDS JournalReads, LedgerProofs

-----------------------------------------------------------------------------
(* Sequences that only grow                                                *)

IsSequence(s) == \E S : s \in Seq(S)

LEMMA Appended ==
  ASSUME NEW s, NEW e, IsSequence(s)
  PROVE  LET t == Append(s, e)
             n == Len(s) + 1
         IN  /\ IsSequence(t)
             /\ Len(s) \in Nat /\ DOMAIN s = 1..Len(s)
             /\ Len(t) = n /\ DOMAIN t = 1..n
             /\ DOMAIN t = DOMAIN s \cup {n} /\ n \notin DOMAIN s
             /\ t[n] = e
             /\ \A i \in DOMAIN s : i \in Nat /\ i < n /\ t[i] = s[i]
<1>1. PICK S : s \in Seq(S)
  BY DEF IsSequence
<1>2. s \in Seq(S \cup {e}) /\ e \in S \cup {e}
  BY <1>1
<1>3. Append(s, e) \in Seq(S \cup {e})
  BY <1>2
<1>. QED BY <1>2, <1>3 DEF IsSequence

LEMMA EmptyIsSequence == IsSequence(<<>>) /\ Len(<<>>) = 0 /\ DOMAIN <<>> = {}
<1>1. <<>> \in Seq({})
  OBVIOUS
<1>. QED BY <1>1 DEF IsSequence

-----------------------------------------------------------------------------
(* Constants and payloads                                                  *)

LEMMA ConstantsOK ==
  /\ IsFiniteSet(Seeds) /\ IsFiniteSet(Created) /\ IsFiniteSet(Markets)
  /\ Seeds \subseteq Markets /\ Created \subseteq Markets /\ Seeds \cap Created = {}
  /\ IsFiniteSet(Accounts) /\ NoKey \notin Keys
  /\ SpillLevels \subseteq Interior
  /\ \A old, new \in Levels : Impact[old][new] \in Int
  /\ \A old, new \in Interior : Impact[old][new] >= 0
  /\ RiskLimit \in Nat /\ MaxPosition \in Nat /\ MaxCommands \in Nat /\ MaxRestarts \in Nat
<1>1. IsFiniteSet(Markets)
  BY JournalAssumption, FS_Union DEF Markets
<1>. QED BY <1>1, JournalAssumption DEF Markets

LEMMA RequestOK ==
  ASSUME NEW r \in Requests
  PROVE  /\ r.market \in Markets /\ r.account \in Accounts /\ r.key \in Keys \cup {NoKey}
         /\ \/ r.payload \in Edit /\ r.payload.context.on # r.market
            \/ r.payload \in Trade \/ r.payload \in Resolution
            \/ r.payload \in AdminOp \/ r.payload \in Comment
BY JournalAssumption

\* The kinds of payloads are told apart by their fields.
LEMMA KindsDiffer ==
  /\ \A p \in Edit : p \notin Comment
  /\ \A p \in Trade : p \notin Comment /\ p \notin Edit
  /\ \A p \in Resolution : p \notin Comment /\ p \notin Edit
  /\ \A p \in AdminOp : p \notin Comment /\ p \notin Edit
BY DEF Edit, Trade, Resolution, AdminOp, Comment

LEMMA EditOK ==
  ASSUME NEW r \in Requests, r.payload \in Edit
  PROVE  r.payload.level \in Interior /\ r.payload.context \in Contexts
BY DEF Edit

LEMMA LevelsOK ==
  /\ Levels = 0..5 /\ Interior = 1..4 /\ Zero = 0 /\ One = 5 /\ Uniform = 3 /\ Lost = 6
  /\ Interior \subseteq Levels /\ Levels \subseteq Beliefs /\ Lost \in Beliefs /\ Lost \notin Levels
  /\ \A b \in Beliefs : b # Lost => b \in Levels
  /\ \A l \in Levels : AsRepriced(l) \in Levels /\ AsEdited(l) \in Levels
  /\ \A l \in Interior : AsEdited(l) \in Levels /\ AsEdited(l) # One
                         /\ (AsEdited(l) # Zero => AsEdited(l) \in Interior)
BY DEF Levels, Interior, Zero, One, Uniform, Speck, Tiny, Lost, Beliefs, AsRepriced, AsEdited

-----------------------------------------------------------------------------
(* The steps, each with the guards the proofs use                          *)

\* What every handler has checked of a request that stores a command.
Asked(r) ==
  /\ Fresh(r) /\ Exists(r.market)
  /\ r.payload \in Edit => KnownContext(r.payload.context)

Elsewhere == UNCHANGED <<market_vars, maker_vars, account_vars, restarts>>

EditApplied(r) ==
  /\ Asked(r) /\ r.payload \in Edit
  /\ Movable(r.market, r.payload.context) /\ status[r.market] = "active"
  /\ ApplyEdit(r)

TradeApplied(r) ==
  LET net == Net(r.account, r.market, r.payload.outcome) + r.payload.delta
  IN  /\ Asked(r) /\ r.payload \in Trade
      /\ net \in (-MaxPosition)..MaxPosition /\ status[r.market] = "active"
      /\ UNCHANGED <<market_vars, maker_vars, minAsset, consumed, restarts>>
      /\ orders' = Append(orders, TradeOrder(r))
      /\ Hold(r.account, r.market, r.payload.outcome, net)
      /\ Accept(r, NoEffects)

ResolutionApplied(r) ==
  /\ Asked(r) /\ r.payload \in Resolution /\ status[r.market] # "resolved"
  /\ ToResolved(r.market, r.payload.resolve)
  /\ ReleaseRisk(r.market) /\ ReleaseExposure(r.market)
  /\ Accept(r, ResolutionEffects(r.market, PointMass(r.payload.resolve)))
  /\ UNCHANGED <<orders, restarts>>

TransitionApplied(r) ==
  /\ Asked(r) /\ r.payload \in AdminOp
  /\ \E from, to \in {"active", "closed"} :
       status[r.market] = from /\ status' = [status EXCEPT ![r.market] = to]
  /\ UNCHANGED <<price, cond, maker_vars, account_vars, restarts>>
  /\ Accept(r, NoEffects)

\* Rejected, or failed after the command was stored and before it did anything.
NotApplied(r) ==
  /\ Asked(r) /\ r.payload \notin Comment
  /\ Reject(r) \/ (Abandon(r) /\ Elsewhere)

Commented(r) ==
  /\ Asked(r) /\ r.payload \in Comment
  /\ \E outcome \in {"accepted", "rejected"} : Record(r, outcome)
  /\ Elsewhere /\ UNCHANGED journal

LEMMA StepKinds ==
  ASSUME [Next]_vars
  PROVE  \/ \E r \in Requests :
              \/ EditApplied(r) \/ TradeApplied(r) \/ ResolutionApplied(r)
              \/ TransitionApplied(r) \/ NotApplied(r) \/ Commented(r)
         \/ \E m \in Created : CreateMarket(m)
         \/ Restart
         \/ UNCHANGED vars
<1>1. ASSUME NEW r \in Requests, ProbabilityEdit(r) PROVE EditApplied(r) \/ NotApplied(r)
  BY <1>1, KindsDiffer DEF ProbabilityEdit, EditApplied, NotApplied, Asked, Elsewhere
<1>2. ASSUME NEW r \in Requests, EventTrade(r) PROVE TradeApplied(r) \/ NotApplied(r)
  <2>. DEFINE net == Net(r.account, r.market, r.payload.outcome) + r.payload.delta
  <2>1. Asked(r) /\ r.payload \in Trade /\ r.payload \notin Comment
    BY <1>2, KindsDiffer DEF EventTrade, Asked
  <2>2. CASE status[r.market] # "active"
    BY <1>2, <2>1, <2>2 DEF EventTrade, NotApplied
  <2>3. CASE status[r.market] = "active" /\ Compiles(r.market)
    BY <1>2, <2>1, <2>3 DEF EventTrade, TradeApplied
  <2>4. CASE status[r.market] = "active" /\ ~ Compiles(r.market)
    BY <1>2, <2>1, <2>4 DEF EventTrade, NotApplied, Elsewhere
  <2>. QED BY <2>2, <2>3, <2>4
<1>3. ASSUME NEW r \in Requests, CommentPost(r) PROVE Commented(r)
  BY <1>3, KindsDiffer DEF CommentPost, Commented, Asked, Elsewhere
<1>4. ASSUME NEW r \in Requests, MarketResolution(r) PROVE ResolutionApplied(r) \/ NotApplied(r)
  BY <1>4, KindsDiffer DEF MarketResolution, ResolutionApplied, NotApplied, Asked
<1>5. ASSUME NEW r \in Requests, MarketClose(r) \/ MarketReopen(r)
      PROVE  TransitionApplied(r) \/ NotApplied(r)
  <2>1. r.payload \in AdminOp /\ r.payload \notin Comment /\ r.payload \notin Edit
    BY <1>5, KindsDiffer DEF MarketClose, MarketReopen, AdminOp
  <2>2. Transition(r, "active", "closed") \/ Transition(r, "closed", "active")
    BY <1>5 DEF MarketClose, MarketReopen
  <2>. QED BY <2>1, <2>2 DEF Transition, TransitionApplied, NotApplied, Asked
<1>. QED BY <1>1, <1>2, <1>3, <1>4, <1>5 DEF Next

\* What a step does to the log, whatever else it does.
Logged(r) ==
  /\ Asked(r) /\ r.payload \notin Comment
  /\ \E outcome \in {"accepted", "rejected"} : \E effects, state :
       Record(r, outcome) /\ Emit(r, outcome, effects, state)
Torn(r) == Asked(r) /\ Abandon(r)
Remarked(r) ==
  /\ Asked(r) /\ r.payload \in Comment
  /\ \E outcome \in {"accepted", "rejected"} : Record(r, outcome)
  /\ UNCHANGED journal

LEMMA LogKinds ==
  ASSUME [Next]_vars
  PROVE  \/ \E r \in Requests : Logged(r) \/ Torn(r) \/ Remarked(r)
         \/ UNCHANGED log_vars
         \/ Restart
<1>0. ASSUME NEW r, Asked(r), r.payload \notin Comment, NEW effects, Accept(r, effects)
      PROVE  Logged(r)
  BY <1>0 DEF Accept, Logged
<1>1. ASSUME NEW r \in Requests, EditApplied(r) PROVE Logged(r) \/ Torn(r)
  <2>1. r.payload \notin Comment /\ Asked(r)
    BY <1>1, KindsDiffer DEF EditApplied
  <2>2. ApplyEdit(r) => Abandon(r) \/ \E effects : Accept(r, effects)
    BY DEF ApplyEdit
  <2>. QED BY <1>0, <1>1, <2>1, <2>2 DEF EditApplied, Torn
<1>2. ASSUME NEW r \in Requests, TradeApplied(r) \/ ResolutionApplied(r) \/ TransitionApplied(r)
      PROVE  Logged(r)
  <2>1. r.payload \notin Comment /\ Asked(r)
    BY <1>2, KindsDiffer DEF TradeApplied, ResolutionApplied, TransitionApplied
  <2>2. \E effects : Accept(r, effects)
    BY <1>2 DEF TradeApplied, ResolutionApplied, TransitionApplied
  <2>. QED BY <1>0, <2>1, <2>2
<1>3. ASSUME NEW r \in Requests, NotApplied(r) PROVE Logged(r) \/ Torn(r)
  BY <1>3 DEF NotApplied, Reject, Logged, Torn
<1>4. ASSUME NEW r \in Requests, Commented(r) PROVE Remarked(r)
  BY <1>4 DEF Commented, Remarked
<1>5. ASSUME NEW m, CreateMarket(m) PROVE UNCHANGED log_vars
  BY <1>5 DEF CreateMarket
<1>6. UNCHANGED vars => UNCHANGED log_vars
  BY DEF vars
<1>. QED BY <1>1, <1>2, <1>3, <1>4, <1>5, <1>6, StepKinds

-----------------------------------------------------------------------------
(* The log: commands, keys and journal                                     *)

LogShape ==
  /\ IsSequence(commands) /\ Len(commands) <= MaxCommands
  /\ \A i \in DOMAIN commands :
       /\ commands[i].request \in Requests
       /\ commands[i].outcome \in {"none", "accepted", "rejected"}
  /\ keys = [k \in DOMAIN keys |-> keys[k]]
  /\ \A k \in DOMAIN keys : keys[k] \in DOMAIN commands
  /\ journal = [m \in Markets |-> journal[m]]
  /\ \A m \in Markets :
       /\ IsSequence(journal[m])
       /\ \A i \in DOMAIN journal[m] : journal[m][i].command \in DOMAIN commands

\* A command is stored at the end.
LEMMA Stored ==
  ASSUME LogShape, NEW r \in Requests, Asked(r),
         NEW outcome \in {"none", "accepted", "rejected"}, Store(r, outcome)
  PROVE  /\ IsSequence(commands') /\ Len(commands') <= MaxCommands
         /\ NextCommand \in Nat /\ NextCommand \notin DOMAIN commands
         /\ DOMAIN commands' = DOMAIN commands \cup {NextCommand}
         /\ commands'[NextCommand].request = r /\ commands'[NextCommand].outcome = outcome
         /\ \A i \in DOMAIN commands : i \in Nat /\ i < NextCommand /\ commands'[i] = commands[i]
         /\ \A i \in DOMAIN commands' :
              /\ commands'[i].request \in Requests
              /\ commands'[i].outcome \in {"none", "accepted", "rejected"}
<1>. DEFINE c == [request |-> r, outcome |-> outcome]
<1>1. commands' = Append(commands, c) /\ c.request = r /\ c.outcome = outcome
  BY DEF Store
<1>. HIDE DEF c
<1>2. Len(commands) < MaxCommands /\ MaxCommands \in Nat
  BY ConstantsOK DEF Asked, Fresh
<1>3. /\ IsSequence(commands') /\ Len(commands) \in Nat /\ Len(commands') = NextCommand
      /\ DOMAIN commands' = DOMAIN commands \cup {NextCommand} /\ NextCommand \notin DOMAIN commands
      /\ commands'[NextCommand] = c
      /\ \A i \in DOMAIN commands : i \in Nat /\ i < NextCommand /\ commands'[i] = commands[i]
  BY <1>1, Appended DEF LogShape, NextCommand
<1>4. Len(commands') <= MaxCommands /\ NextCommand \in Nat
  BY <1>2, <1>3 DEF NextCommand
<1>. QED BY <1>1, <1>3, <1>4 DEF LogShape

\* The key of a recorded outcome is bound to its command, no other key moves.
LEMMA Recorded ==
  ASSUME LogShape, NEW r \in Requests, NEW outcome, Record(r, outcome)
  PROVE  /\ keys' = [k \in DOMAIN keys' |-> keys'[k]]
         /\ \A k \in DOMAIN keys : k \in DOMAIN keys' /\ (k # Scope(r) => keys'[k] = keys[k])
         /\ \A k \in DOMAIN keys' : k \in DOMAIN keys \/ keys'[k] = NextCommand
         /\ r.key # NoKey => Scope(r) \in DOMAIN keys' /\ keys'[Scope(r)] = NextCommand
         /\ r.key = NoKey => keys' = keys
BY DEF Record, LogShape

\* The event of a recorded outcome is the last of its market's journal.
LEMMA Emitted ==
  ASSUME LogShape, NEW r \in Requests, NEW outcome, NEW effects, NEW state,
         Emit(r, outcome, effects, state)
  PROVE  LET n == Len(journal[r.market]) + 1
         IN  /\ journal' = [m \in Markets |-> journal'[m]]
             /\ \A m \in Markets \ {r.market} : journal'[m] = journal[m]
             /\ IsSequence(journal'[r.market])
             /\ DOMAIN journal'[r.market] = DOMAIN journal[r.market] \cup {n}
             /\ journal'[r.market][n].command = NextCommand
             /\ journal'[r.market][n].accepted = (outcome = "accepted")
             /\ \A i \in DOMAIN journal[r.market] :
                  i \in Nat /\ i < n /\ journal'[r.market][i] = journal[r.market][i]
             /\ n \in Nat
<1>. DEFINE e == [command |-> NextCommand, accepted |-> outcome = "accepted",
                  effects |-> effects, state |-> state]
            m == r.market
<1>1. m \in Markets /\ IsSequence(journal[m])
  BY RequestOK DEF LogShape
<1>2. journal' = [journal EXCEPT ![m] = Append(@, e)]
  BY DEF Emit
<1>3. e.command = NextCommand /\ e.accepted = (outcome = "accepted")
  OBVIOUS
<1>. HIDE DEF e, m
<1>4. /\ journal' = [n \in Markets |-> journal'[n]]
      /\ \A n \in Markets \ {m} : journal'[n] = journal[n]
      /\ journal'[m] = Append(journal[m], e)
  BY <1>1, <1>2 DEF LogShape
<1>5. LET t == Append(journal[m], e)
          n == Len(journal[m]) + 1
      IN  /\ IsSequence(t) /\ DOMAIN t = DOMAIN journal[m] \cup {n} /\ t[n] = e
          /\ \A i \in DOMAIN journal[m] : i \in Nat /\ i < n /\ t[i] = journal[m][i]
          /\ n \in Nat
  <2>1. Len(journal[m]) \in Nat
    BY <1>1, Appended
  <2>. QED BY <1>1, <2>1, Appended
<1>. QED BY <1>3, <1>4, <1>5 DEF m

LogInv == LogShape /\ EventPerOutcome /\ KeyNamesOneOutcome

\* The commands a market's journal should tell of, after one more is stored.
LEMMA ToldNext ==
  ASSUME LogShape, NEW r \in Requests, Asked(r),
         NEW outcome \in {"none", "accepted", "rejected"}, Store(r, outcome)
  PROVE  \A m \in Markets :
           Told(m)' = IF m = r.market /\ r.payload \notin Comment /\ outcome # "none"
                      THEN Told(m) \cup {NextCommand} ELSE Told(m)
<1>1. /\ DOMAIN commands' = DOMAIN commands \cup {NextCommand}
      /\ NextCommand \notin DOMAIN commands
      /\ commands'[NextCommand].request = r /\ commands'[NextCommand].outcome = outcome
      /\ \A i \in DOMAIN commands : commands'[i] = commands[i]
  BY Stored
<1>. QED BY <1>1 DEF Told

\* An outcome that is recorded is the only one of its key.
LEMMA KeysStep ==
  ASSUME LogShape, KeyNamesOneOutcome, NEW r \in Requests, Asked(r),
         NEW outcome \in {"accepted", "rejected"}, Record(r, outcome)
  PROVE  KeyNamesOneOutcome'
<1>1. Store(r, outcome) /\ outcome \in {"none", "accepted", "rejected"}
  BY DEF Record
<1>2. /\ DOMAIN commands' = DOMAIN commands \cup {NextCommand}
      /\ commands'[NextCommand].request = r
      /\ \A i \in DOMAIN commands : commands'[i] = commands[i]
  BY <1>1, Stored
<1>3. /\ \A k \in DOMAIN keys : k \in DOMAIN keys' /\ (k # Scope(r) => keys'[k] = keys[k])
      /\ r.key # NoKey => Scope(r) \in DOMAIN keys' /\ keys'[Scope(r)] = NextCommand
      /\ r.key = NoKey => keys' = keys
  BY Recorded
<1>4. r.key # NoKey => Scope(r) \notin DOMAIN keys
  BY DEF Asked, Fresh, Bound
<1>5. ASSUME NEW i \in DOMAIN commands, commands[i].request.key # NoKey,
             commands[i].outcome # "none"
      PROVE  /\ Scope(commands[i].request) \in DOMAIN keys'
             /\ keys'[Scope(commands[i].request)] = i
  <2>1. Scope(commands[i].request) \in DOMAIN keys /\ keys[Scope(commands[i].request)] = i
    BY <1>5 DEF KeyNamesOneOutcome
  <2>. QED BY <1>3, <1>4, <2>1
<1>6. ASSUME NEW i \in DOMAIN commands', commands'[i].request.key # NoKey,
             commands'[i].outcome # "none"
      PROVE  /\ Scope(commands'[i].request) \in DOMAIN keys'
             /\ keys'[Scope(commands'[i].request)] = i
  BY <1>2, <1>3, <1>5, <1>6
<1>7. \A q : Scope(q) = <<q.market, q.account, q.key>>
  BY DEF Scope
<1>. QED BY <1>6 DEF KeyNamesOneOutcome, Scope

LEMMA LoggedStep ==
  ASSUME LogInv, NEW r \in Requests, Logged(r)
  PROVE  LogInv'
<1>1. PICK outcome \in {"accepted", "rejected"} : \E effects, state :
        Record(r, outcome) /\ Emit(r, outcome, effects, state)
  BY DEF Logged
<1>2. PICK effects, state : Record(r, outcome) /\ Emit(r, outcome, effects, state)
  BY <1>1
<1>3. /\ Store(r, outcome) /\ outcome \in {"none", "accepted", "rejected"} /\ Asked(r)
      /\ r.payload \notin Comment /\ outcome # "none" /\ r.market \in Markets
  BY <1>2, RequestOK DEF Record, Logged
<1>4. LogShape /\ EventPerOutcome /\ KeyNamesOneOutcome
  BY DEF LogInv
<1>5. /\ IsSequence(commands') /\ Len(commands') <= MaxCommands
      /\ NextCommand \in Nat /\ NextCommand \notin DOMAIN commands
      /\ DOMAIN commands' = DOMAIN commands \cup {NextCommand}
      /\ commands'[NextCommand].request = r /\ commands'[NextCommand].outcome = outcome
      /\ \A i \in DOMAIN commands : i \in Nat /\ i < NextCommand /\ commands'[i] = commands[i]
      /\ \A i \in DOMAIN commands' :
              /\ commands'[i].request \in Requests
              /\ commands'[i].outcome \in {"none", "accepted", "rejected"}
  BY <1>3, <1>4, Stored
<1>. DEFINE n == Len(journal[r.market]) + 1
<1>6. /\ journal' = [m \in Markets |-> journal'[m]]
      /\ \A m \in Markets \ {r.market} : journal'[m] = journal[m]
      /\ IsSequence(journal'[r.market])
      /\ DOMAIN journal'[r.market] = DOMAIN journal[r.market] \cup {n}
      /\ journal'[r.market][n].command = NextCommand
      /\ journal'[r.market][n].accepted = (outcome = "accepted")
      /\ \A i \in DOMAIN journal[r.market] :
           i \in Nat /\ i < n /\ journal'[r.market][i] = journal[r.market][i]
      /\ n \in Nat
  BY <1>2, <1>4, Emitted
<1>. HIDE DEF n
<1>7. LogShape'
  <2>1. keys' = [k \in DOMAIN keys' |-> keys'[k]]
        /\ \A k \in DOMAIN keys' : keys'[k] \in DOMAIN commands'
    <3>1. /\ keys' = [k \in DOMAIN keys' |-> keys'[k]]
          /\ \A k \in DOMAIN keys : k # Scope(r) => keys'[k] = keys[k]
          /\ \A k \in DOMAIN keys' : k \in DOMAIN keys \/ keys'[k] = NextCommand
          /\ r.key # NoKey => Scope(r) \in DOMAIN keys' /\ keys'[Scope(r)] = NextCommand
          /\ r.key = NoKey => keys' = keys
      BY <1>2, <1>4, Recorded
    <3>2. \A k \in DOMAIN keys : keys[k] \in DOMAIN commands
      BY <1>4 DEF LogShape
    <3>. QED BY <1>5, <3>1, <3>2
  <2>2. ASSUME NEW m \in Markets
        PROVE  /\ IsSequence(journal'[m])
               /\ \A i \in DOMAIN journal'[m] : journal'[m][i].command \in DOMAIN commands'
    <3>1. IsSequence(journal[m]) /\ \A i \in DOMAIN journal[m] :
                                       journal[m][i].command \in DOMAIN commands
      BY <1>4 DEF LogShape
    <3>2. CASE m # r.market
      BY <1>5, <1>6, <3>1, <3>2
    <3>3. CASE m = r.market
      BY <1>5, <1>6, <3>1, <3>3
    <3>. QED BY <3>2, <3>3
  <2>. QED BY <1>5, <1>6, <2>1, <2>2 DEF LogShape
<1>8. EventPerOutcome'
  <2>1. \A m \in Markets :
          Told(m)' = IF m = r.market THEN Told(m) \cup {NextCommand} ELSE Told(m)
    BY <1>3, <1>4, ToldNext
  <2>2. ASSUME NEW m \in Markets, m # r.market
        PROVE  LET events == journal'[m]
               IN  /\ {events[i].command : i \in DOMAIN events} = Told(m)'
                   /\ \A i, k \in DOMAIN events : i < k => events[i].command < events[k].command
                   /\ \A i \in DOMAIN events :
                        events[i].accepted = (commands'[events[i].command].outcome = "accepted")
    <3>1. journal'[m] = journal[m] /\ Told(m)' = Told(m)
      BY <1>6, <2>1, <2>2
    <3>2. \A i \in DOMAIN journal[m] :
            commands'[journal[m][i].command] = commands[journal[m][i].command]
      BY <1>4, <1>5 DEF LogShape
    <3>. QED BY <1>4, <3>1, <3>2 DEF EventPerOutcome
  <2>. DEFINE old == journal[r.market]
              new == journal'[r.market]
  <2>3. {new[i].command : i \in DOMAIN new} = Told(r.market)'
    <3>1. {new[i].command : i \in DOMAIN new}
            = {old[i].command : i \in DOMAIN old} \cup {NextCommand}
      BY <1>6
    <3>2. {old[i].command : i \in DOMAIN old} = Told(r.market)
      BY <1>3, <1>4 DEF EventPerOutcome
    <3>. QED BY <1>3, <2>1, <3>1, <3>2
  <2>4. \A i \in DOMAIN old : old[i].command \in DOMAIN commands
    BY <1>3, <1>4 DEF LogShape
  <2>5. ASSUME NEW i \in DOMAIN new, NEW k \in DOMAIN new, i < k
        PROVE  new[i].command < new[k].command
    <3>1. i \in DOMAIN old /\ (k \in DOMAIN old \/ k = n)
      BY <1>6, <2>5
    <3>2. CASE k \in DOMAIN old
      <4>1. old[i].command < old[k].command
        BY <1>3, <1>4, <2>5, <3>1, <3>2 DEF EventPerOutcome
      <4>. QED BY <1>6, <3>1, <3>2, <4>1
    <3>3. CASE k = n
      BY <1>5, <1>6, <2>4, <3>1, <3>3
    <3>. QED BY <3>1, <3>2, <3>3
  <2>6. ASSUME NEW i \in DOMAIN new
        PROVE  new[i].accepted = (commands'[new[i].command].outcome = "accepted")
    <3>1. CASE i = n
      BY <1>5, <1>6, <3>1
    <3>2. CASE i \in DOMAIN old
      <4>1. old[i].accepted = (commands[old[i].command].outcome = "accepted")
        BY <1>3, <1>4, <3>2 DEF EventPerOutcome
      <4>2. new[i] = old[i] /\ commands'[old[i].command] = commands[old[i].command]
        BY <1>5, <1>6, <2>4, <3>2
      <4>. QED BY <4>1, <4>2
    <3>. QED BY <1>6, <3>1, <3>2
  <2>. QED BY <2>2, <2>3, <2>5, <2>6 DEF EventPerOutcome
<1>. QED BY <1>2, <1>3, <1>4, <1>7, <1>8, KeysStep DEF LogInv

\* A command that is stored without an outcome recorded, and a comment, tell
\* the journal nothing.
LEMMA UntoldStep ==
  ASSUME LogInv, NEW r \in Requests, Asked(r),
         NEW outcome \in {"none", "accepted", "rejected"}, Store(r, outcome),
         r.payload \in Comment \/ outcome = "none",
         UNCHANGED journal,
         keys' = [k \in DOMAIN keys' |-> keys'[k]],
         \A k \in DOMAIN keys' : keys'[k] \in DOMAIN commands'
  PROVE  LogShape' /\ EventPerOutcome'
<1>1. LogShape /\ EventPerOutcome
  BY DEF LogInv
<1>2. /\ IsSequence(commands') /\ Len(commands') <= MaxCommands
      /\ DOMAIN commands' = DOMAIN commands \cup {NextCommand}
      /\ \A i \in DOMAIN commands : commands'[i] = commands[i]
      /\ \A i \in DOMAIN commands' :
              /\ commands'[i].request \in Requests
              /\ commands'[i].outcome \in {"none", "accepted", "rejected"}
  BY <1>1, Stored
<1>3. \A m \in Markets : Told(m)' = Told(m)
  BY <1>1, ToldNext
<1>4. LogShape'
  BY <1>1, <1>2 DEF LogShape
<1>5. \A m \in Markets : \A i \in DOMAIN journal[m] :
        commands'[journal[m][i].command] = commands[journal[m][i].command]
  BY <1>1, <1>2 DEF LogShape
<1>6. EventPerOutcome'
  BY <1>1, <1>3, <1>5 DEF EventPerOutcome
<1>. QED BY <1>4, <1>6

LEMMA LogStep ==
  ASSUME LogInv, [Next]_vars
  PROVE  LogInv'
<1>0. LogShape /\ KeyNamesOneOutcome
  BY DEF LogInv
<1>1. ASSUME NEW r \in Requests, Torn(r) PROVE LogInv'
  <2>1. Asked(r) /\ Store(r, "none") /\ UNCHANGED <<keys, journal>>
    BY <1>1 DEF Torn, Abandon
  <2>2. /\ DOMAIN commands' = DOMAIN commands \cup {NextCommand}
        /\ commands'[NextCommand].outcome = "none"
        /\ \A i \in DOMAIN commands : commands'[i] = commands[i]
    BY <1>0, <2>1, Stored
  <2>3. keys' = [k \in DOMAIN keys' |-> keys'[k]] /\ \A k \in DOMAIN keys' : keys'[k] \in DOMAIN commands'
    BY <1>0, <2>1, <2>2 DEF LogShape
  <2>4. LogShape' /\ EventPerOutcome'
    BY <2>1, <2>3, UntoldStep
  <2>5. KeyNamesOneOutcome'
    BY <1>0, <2>1, <2>2 DEF KeyNamesOneOutcome, Scope
  <2>. QED BY <2>4, <2>5 DEF LogInv
<1>2. ASSUME NEW r \in Requests, Remarked(r) PROVE LogInv'
  <2>1. PICK outcome \in {"accepted", "rejected"} : Record(r, outcome)
    BY <1>2 DEF Remarked
  <2>2. Asked(r) /\ Store(r, outcome) /\ r.payload \in Comment /\ UNCHANGED journal
        /\ outcome \in {"none", "accepted", "rejected"}
    BY <1>2, <2>1 DEF Remarked, Record
  <2>3. /\ keys' = [k \in DOMAIN keys' |-> keys'[k]]
        /\ \A k \in DOMAIN keys : k # Scope(r) => keys'[k] = keys[k]
        /\ \A k \in DOMAIN keys' : k \in DOMAIN keys \/ keys'[k] = NextCommand
        /\ r.key # NoKey => Scope(r) \in DOMAIN keys' /\ keys'[Scope(r)] = NextCommand
        /\ r.key = NoKey => keys' = keys
    BY <1>0, <2>1, Recorded
  <2>4. DOMAIN commands' = DOMAIN commands \cup {NextCommand}
    BY <1>0, <2>2, Stored
  <2>5. \A k \in DOMAIN keys : keys[k] \in DOMAIN commands
    BY <1>0 DEF LogShape
  <2>6. \A k \in DOMAIN keys' : keys'[k] \in DOMAIN commands'
    BY <2>3, <2>4, <2>5
  <2>7. LogShape' /\ EventPerOutcome'
    BY <2>2, <2>3, <2>6, UntoldStep
  <2>. QED BY <1>0, <2>1, <2>2, <2>7, KeysStep DEF LogInv
<1>3. CASE UNCHANGED log_vars
  BY <1>3 DEF LogInv, LogShape, EventPerOutcome, Told, KeyNamesOneOutcome, Scope, log_vars
<1>4. CASE commands' = <<>> /\ keys' = [k \in {} |-> 0] /\ journal' = [m \in Markets |-> <<>>]
  <2>1. IsSequence(<<>>) /\ Len(<<>>) = 0 /\ DOMAIN <<>> = {}
    BY EmptyIsSequence
  <2>2. \A m \in Markets : journal'[m] = <<>>
    BY <1>4
  <2>3. LogShape'
    BY <1>4, <2>1, <2>2, ConstantsOK DEF LogShape
  <2>4. EventPerOutcome' /\ KeyNamesOneOutcome'
    BY <1>4, <2>1, <2>2 DEF EventPerOutcome, Told, KeyNamesOneOutcome
  <2>. QED BY <2>3, <2>4 DEF LogInv
<1>5. Restart => commands' = <<>> /\ keys' = [k \in {} |-> 0] /\ journal' = [m \in Markets |-> <<>>]
  BY DEF Restart
<1>. QED BY <1>1, <1>2, <1>3, <1>4, <1>5, LogKinds, LoggedStep

LEMMA LogInit == Init => LogInv
<1>. SUFFICES ASSUME commands = <<>>, keys = [k \in {} |-> 0], journal = [m \in Markets |-> <<>>]
     PROVE LogInv
  BY DEF Init
<1>1. IsSequence(<<>>) /\ Len(<<>>) = 0 /\ DOMAIN <<>> = {}
  BY EmptyIsSequence
<1>2. \A m \in Markets : journal[m] = <<>>
  OBVIOUS
<1>3. LogShape
  BY <1>1, <1>2, ConstantsOK DEF LogShape
<1>4. EventPerOutcome /\ KeyNamesOneOutcome
  BY <1>1, <1>2 DEF EventPerOutcome, Told, KeyNamesOneOutcome
<1>. QED BY <1>3, <1>4 DEF LogInv

-----------------------------------------------------------------------------
(* Types of the markets and of the joint market maker.  No row under a     *)
(* context is certain: an edit's level is inside, and so are the rows the  *)
(* server is compiled with.                                                *)

Rows == UNION {[D -> Levels \ {One}] : D \in SUBSET (Contexts \ {NoContext})}

MarketShape ==
  /\ status \in [Markets -> {"absent", "active", "closed", "resolved"}]
  /\ price \in [Markets -> Levels]
  /\ cond \in [Markets -> Rows]

MakerShape ==
  /\ joint \in [Seeds -> Beliefs]
  /\ disk = <<>> \/ disk \in [Seeds -> Beliefs]

LEMMA RowsOK ==
  ASSUME NEW rows
  PROVE  rows \in Rows <=> /\ DOMAIN rows \subseteq Contexts \ {NoContext}
                           /\ rows \in [DOMAIN rows -> Levels \ {One}]
<1>1. ASSUME rows \in Rows
      PROVE  /\ DOMAIN rows \subseteq Contexts \ {NoContext}
             /\ rows \in [DOMAIN rows -> Levels \ {One}]
  <2>1. PICK D \in SUBSET (Contexts \ {NoContext}) : rows \in [D -> Levels \ {One}]
    BY <1>1 DEF Rows
  <2>. QED BY <2>1
<1>2. ASSUME DOMAIN rows \subseteq Contexts \ {NoContext}, rows \in [DOMAIN rows -> Levels \ {One}]
      PROVE  rows \in Rows
  BY <1>2 DEF Rows
<1>. QED BY <1>1, <1>2

LEMMA NoRowsOK == NoRows \in Rows
<1>1. DOMAIN NoRows = {} /\ NoRows \in [DOMAIN NoRows -> Levels \ {One}]
  BY DEF NoRows
<1>. QED BY <1>1, RowsOK

LEMMA SeedRowsOK == SeedRows \in [Markets -> Rows]
<1>1. \A m \in Markets : SeedRows[m] = [c \in DOMAIN SeedRows[m] |-> SeedRows[m][c]]
  BY JournalAssumption
<1>2. ASSUME NEW m \in Markets, NEW c \in DOMAIN SeedRows[m]
      PROVE  SeedRows[m][c] \in Levels \ {One}
  <2>1. SeedRows[m][c] \in Range(SeedRows[m])
    BY DEF Range
  <2>2. Range(SeedRows[m]) \subseteq Interior
    BY JournalAssumption
  <2>. QED BY <2>1, <2>2, LevelsOK
<1>3. ASSUME NEW m \in Markets PROVE SeedRows[m] \in Rows
  <2>1. DOMAIN SeedRows[m] \subseteq Contexts \ {NoContext}
    BY JournalAssumption
  <2>2. SeedRows[m] \in [DOMAIN SeedRows[m] -> Levels \ {One}]
    BY <1>1, <1>2
  <2>. QED BY <2>1, <2>2, RowsOK
<1>4. SeedRows = [m \in Markets |-> [c \in DOMAIN SeedRows[m] |-> SeedRows[m][c]]]
  BY JournalAssumption
<1>. QED BY <1>1, <1>3, <1>4

\* The price an edit starts from; it is certain only if the marginal is.
LEMMA BaseOK ==
  ASSUME MarketShape, NEW m \in Markets, NEW c
  PROVE  /\ Base(m, c) \in Levels
         /\ Base(m, c) = One => price[m] = One
<1>1. \A k \in DOMAIN cond[m] : cond[m][k] \in Levels /\ cond[m][k] # One
  BY RowsOK DEF MarketShape
<1>2. PartialRow(m, c) # {} => (CHOOSE k \in PartialRow(m, c) : TRUE) \in DOMAIN cond[m]
  BY DEF PartialRow
<1>3. price[m] \in Levels
  BY DEF MarketShape
<1>. QED BY <1>1, <1>2, <1>3 DEF Base

LEMMA EditedOK ==
  ASSUME MarketShape, NEW m \in Markets, NEW c \in Contexts, NEW level \in Levels \ {One}
  PROVE  /\ EditedPrice(m, c, level) \in [Markets -> Levels]
         /\ EditedCond(m, c, level) \in [Markets -> Rows]
<1>1. EditedPrice(m, c, level) \in [Markets -> Levels]
  BY DEF EditedPrice, MarketShape
<1>. DEFINE rows == [k \in DOMAIN cond[m] \cup {c} |-> IF k = c THEN level ELSE cond[m][k]]
<1>2. c # NoContext => rows \in Rows
  <2>1. DOMAIN cond[m] \subseteq Contexts \ {NoContext} /\ cond[m] \in [DOMAIN cond[m] -> Levels \ {One}]
    BY RowsOK DEF MarketShape
  <2>2. DOMAIN rows = DOMAIN cond[m] \cup {c} /\ rows \in [DOMAIN cond[m] \cup {c} -> Levels \ {One}]
    BY <2>1
  <2>. HIDE DEF rows
  <2>. QED BY <2>1, <2>2, RowsOK
<1>3. EditedCond(m, c, level) = [cond EXCEPT ![m] = IF c = NoContext THEN NoRows ELSE rows]
  BY DEF EditedCond, MarketShape
<1>. HIDE DEF rows
<1>4. EditedCond(m, c, level) \in [Markets -> Rows]
  BY <1>2, <1>3, NoRowsOK DEF MarketShape
<1>. QED BY <1>1, <1>4

LEMMA ResyncedOK ==
  ASSUME NEW p \in [Markets -> Levels], NEW j \in [Seeds -> Beliefs]
  PROVE  Resynced(p, j) \in [Markets -> Levels]
BY LevelsOK DEF Resynced

\* Where a trade, a resolution or a failure of either may leave the joint.
LEMMA JointsOK ==
  ASSUME MakerShape, NEW m, NEW c, NEW level, NEW outcome
  PROVE  /\ Traded(m, c, level) \subseteq [Seeds -> Beliefs]
         /\ Refused(m, c) \subseteq [Seeds -> Beliefs]
         /\ Conditioned(m, outcome) \subseteq [Seeds -> Beliefs]
         /\ Emptied(m) \in [Seeds -> Beliefs]
<1>1. \A l : Moved(m, l) \subseteq [Seeds -> Beliefs]
  BY DEF Moved
<1>2. Traded(m, c, level) \subseteq [Seeds -> Beliefs]
  BY <1>1 DEF Traded
<1>3. Refused(m, c) \subseteq [Seeds -> Beliefs]
  BY DEF Refused, MakerShape
<1>4. Conditioned(m, outcome) \subseteq [Seeds -> Beliefs]
  BY <1>1 DEF Conditioned
<1>5. Emptied(m) \in [Seeds -> Beliefs]
  BY LevelsOK DEF Emptied, MakerShape
<1>. QED BY <1>2, <1>3, <1>4, <1>5

\* What a step does to the markets and to the joint.
Edited(r) ==
  LET m == r.market
      c == r.payload.context
      new == AsEdited(r.payload.level)
  IN  /\ status[m] = "active" /\ UNCHANGED status
      /\ cond' = EditedCond(m, c, new)
      /\ \/ \E j \in Traded(m, c, r.payload.level) : MoveJoint(j, EditedPrice(m, c, new))
         \/ /\ price' = EditedPrice(m, c, new)
            /\ joint' \in Refused(m, c) /\ UNCHANGED disk

Renamed ==   \* a market is closed, opened again or created
  /\ \E m \in Markets, to \in {"active", "closed"} :
       status[m] # "resolved" /\ status' = [status EXCEPT ![m] = to]
  /\ UNCHANGED <<price, cond, maker_vars>>

LEMMA MarketKinds ==
  ASSUME [Next]_vars
  PROVE  \/ \E r \in Requests : r.payload \in Edit /\ Edited(r)
         \/ \E r \in Requests : /\ r.payload \in Resolution /\ status[r.market] # "resolved"
                                /\ ToResolved(r.market, r.payload.resolve)
         \/ Renamed
         \/ UNCHANGED <<market_vars, maker_vars>>
         \/ Restart
<1>1. ASSUME NEW r \in Requests, EditApplied(r) PROVE r.payload \in Edit /\ Edited(r)
  BY <1>1 DEF EditApplied, ApplyEdit, Edited
<1>2. ASSUME NEW r \in Requests, TransitionApplied(r) PROVE Renamed
  <2>1. r.market \in Markets
    BY RequestOK
  <2>. QED BY <1>2, <2>1 DEF TransitionApplied, Renamed
<1>3. ASSUME NEW m \in Created, CreateMarket(m) PROVE Renamed
  <2>1. m \in Markets
    BY ConstantsOK
  <2>. QED BY <1>3, <2>1 DEF CreateMarket, Renamed, Exists
<1>4. ASSUME NEW r \in Requests, TradeApplied(r) \/ NotApplied(r) \/ Commented(r)
      PROVE  UNCHANGED <<market_vars, maker_vars>>
  BY <1>4 DEF TradeApplied, NotApplied, Commented, Reject, Elsewhere
<1>5. ASSUME NEW r \in Requests, ResolutionApplied(r)
      PROVE  /\ r.payload \in Resolution /\ status[r.market] # "resolved"
             /\ ToResolved(r.market, r.payload.resolve)
  BY <1>5 DEF ResolutionApplied
<1>6. UNCHANGED vars => UNCHANGED <<market_vars, maker_vars>>
  BY DEF vars
<1>. QED BY <1>1, <1>2, <1>3, <1>4, <1>5, <1>6, StepKinds

LEMMA MarketsTyped ==
  ASSUME MarketShape, MakerShape, [Next]_vars
  PROVE  MarketShape' /\ MakerShape'
<1>1. ASSUME NEW j \in [Seeds -> Beliefs], NEW p \in [Markets -> Levels], MoveJoint(j, p)
      PROVE  price' \in [Markets -> Levels] /\ MakerShape'
  BY <1>1, ResyncedOK DEF MoveJoint, MakerShape
<1>2. ASSUME NEW r \in Requests, r.payload \in Edit, Edited(r) PROVE MarketShape' /\ MakerShape'
  <2>. DEFINE m == r.market
              c == r.payload.context
              new == AsEdited(r.payload.level)
  <2>1. m \in Markets /\ c \in Contexts /\ new \in Levels \ {One}
    BY <1>2, RequestOK, EditOK, LevelsOK
  <2>2. EditedPrice(m, c, new) \in [Markets -> Levels] /\ EditedCond(m, c, new) \in [Markets -> Rows]
    BY <2>1, EditedOK
  <2>3. status' = status /\ cond' = EditedCond(m, c, new)
    BY <1>2 DEF Edited
  <2>4. CASE \E j \in Traded(m, c, r.payload.level) : MoveJoint(j, EditedPrice(m, c, new))
    <3>1. PICK j \in Traded(m, c, r.payload.level) : MoveJoint(j, EditedPrice(m, c, new))
      BY <2>4
    <3>2. j \in [Seeds -> Beliefs]
      BY JointsOK
    <3>3. price' \in [Markets -> Levels] /\ MakerShape'
      BY <1>1, <2>2, <3>1, <3>2
    <3>. QED BY <2>2, <2>3, <3>3 DEF MarketShape
  <2>5. CASE /\ price' = EditedPrice(m, c, new)
             /\ joint' \in Refused(m, c) /\ UNCHANGED disk
    <3>1. joint' \in [Seeds -> Beliefs]
      BY <2>5, JointsOK
    <3>. QED BY <2>2, <2>3, <2>5, <3>1 DEF MarketShape, MakerShape
  <2>. QED BY <1>2, <2>4, <2>5 DEF Edited
<1>3. ASSUME NEW r \in Requests, r.payload \in Resolution, ToResolved(r.market, r.payload.resolve)
      PROVE  MarketShape' /\ MakerShape'
  <2>. DEFINE m == r.market
              final == [price EXCEPT ![m] = PointMass(r.payload.resolve)]
  <2>1. final \in [Markets -> Levels]
    <3>1. PointMass(r.payload.resolve) \in Levels
      BY LevelsOK DEF PointMass
    <3>. QED BY <3>1 DEF MarketShape
  <2>2. status' = [status EXCEPT ![m] = "resolved"] /\ cond' = [cond EXCEPT ![m] = NoRows]
    BY <1>3 DEF ToResolved
  <2>3. /\ status' \in [Markets -> {"absent", "active", "closed", "resolved"}]
        /\ cond' \in [Markets -> Rows]
    BY <2>2, NoRowsOK DEF MarketShape
  <2>4. \/ \E j \in Conditioned(m, r.payload.resolve) : MoveJoint(j, final)
        \/ price' = final /\ joint' = Emptied(m) /\ UNCHANGED disk
    BY <1>3 DEF ToResolved
  <2>. HIDE DEF final
  <2>5. CASE \E j \in Conditioned(m, r.payload.resolve) : MoveJoint(j, final)
    <3>1. PICK j \in Conditioned(m, r.payload.resolve) : MoveJoint(j, final)
      BY <2>5
    <3>2. j \in [Seeds -> Beliefs]
      BY JointsOK
    <3>. QED BY <1>1, <2>1, <2>3, <3>1, <3>2 DEF MarketShape
  <2>6. CASE price' = final /\ joint' = Emptied(m) /\ UNCHANGED disk
    BY <2>1, <2>3, <2>6, JointsOK DEF MarketShape, MakerShape
  <2>. QED BY <2>4, <2>5, <2>6
<1>4. CASE Renamed
  BY <1>4 DEF Renamed, MarketShape, MakerShape, maker_vars
<1>5. CASE UNCHANGED <<market_vars, maker_vars>>
  BY <1>5 DEF MarketShape, MakerShape, market_vars, maker_vars
<1>6. CASE Restart
  <2>1. joint' \in [Seeds -> Beliefs]
    BY <1>6, LevelsOK DEF Restart, MakerShape
  <2>2. [m \in Markets |-> Uniform] \in [Markets -> Levels]
    BY LevelsOK
  <2>3. price' \in [Markets -> Levels]
    BY <1>6, <2>1, <2>2, ResyncedOK DEF Restart
  <2>4. status' \in [Markets -> {"absent", "active", "closed", "resolved"}] /\ cond' \in [Markets -> Rows]
    BY <1>6, SeedRowsOK DEF Restart
  <2>. QED BY <1>6, <2>1, <2>3, <2>4 DEF Restart, MarketShape, MakerShape
<1>. QED BY <1>2, <1>3, <1>4, <1>5, <1>6, MarketKinds

-----------------------------------------------------------------------------
(* Settled variables.  The file holds the joint as it was last moved, so   *)
(* a variable the joint still has a belief of is in the file as it is.  As *)
(* long as the server has not restarted, a variable is settled only by its *)
(* market's resolution and no table was emptied.                           *)

JointIsSaved ==
  /\ disk = <<>> => \A m \in Seeds : joint[m] \in {Uniform, Lost}
  /\ disk # <<>> => \A m \in Seeds : joint[m] \in {disk[m], Lost}

SettledByResolution ==
  restarts = 0 => /\ ~ Damaged
                  /\ \A m \in Seeds : Settled(m) => status[m] = "resolved"

\* How a joint that is reached differs from the one before.
LEMMA MovedKeeps ==
  ASSUME MakerShape, NEW m \in Seeds, NEW level, NEW j \in Moved(m, level)
  PROVE  /\ j[m] = level
         /\ \A n \in Seeds \ {m} :
              /\ j[n] \in SpillLevels \cup {joint[n], Lost}
              /\ Settled(n) => j[n] = joint[n] \/ (j[n] = Lost /\ Damaged)
              /\ ~ Damaged => j[n] \in SpillLevels \cup {joint[n]}
BY DEF Moved

LEMMA TradedKeeps ==
  ASSUME MakerShape, NEW m \in Markets, NEW c, NEW level \in Interior,
         NEW j \in Traded(m, c, level)
  PROVE  /\ m \in Seeds /\ ~ Settled(m)
         /\ \A n \in Seeds :
              /\ Settled(n) => j[n] = joint[n] \/ (j[n] = Lost /\ Damaged)
              /\ j[n] \in {Zero, One} => j[n] = joint[n]
              /\ ~ Damaged => j[n] # Lost
<1>1. m \in Seeds /\ ~ Settled(m) /\ joint[m] # Lost
  BY DEF Traded
<1>2. SpillLevels \subseteq 1..4 /\ level \in 1..4 /\ Zero = 0 /\ One = 5 /\ Lost = 6
  BY ConstantsOK, LevelsOK
<1>3. PICK l \in SpillLevels \cup {joint[m], level} \cup (IF Damaged THEN {Lost} ELSE {}) :
        j \in Moved(m, l)
  BY <1>1 DEF Traded
<1>4. /\ j[m] = l
      /\ \A n \in Seeds \ {m} :
           /\ j[n] \in SpillLevels \cup {joint[n], Lost}
           /\ Settled(n) => j[n] = joint[n] \/ (j[n] = Lost /\ Damaged)
           /\ ~ Damaged => j[n] \in SpillLevels \cup {joint[n]}
  BY <1>1, <1>3, MovedKeeps
<1>5. ~ Damaged => \A n \in Seeds : joint[n] # Lost
  BY DEF Damaged
<1>6. joint[m] \notin {Zero, One}
  BY <1>1 DEF Settled
<1>7. ASSUME NEW n \in Seeds, n # m
      PROVE  /\ Settled(n) => j[n] = joint[n] \/ (j[n] = Lost /\ Damaged)
             /\ j[n] \in {Zero, One} => j[n] = joint[n]
             /\ ~ Damaged => j[n] # Lost
  BY <1>2, <1>4, <1>5, <1>7
<1>8. j[m] \notin {Zero, One} /\ (~ Damaged => j[m] # Lost)
  BY <1>1, <1>2, <1>3, <1>4, <1>6
<1>. QED BY <1>1, <1>7, <1>8

LEMMA RefusedKeeps ==
  ASSUME MakerShape, NEW m, NEW c, NEW j \in Refused(m, c)
  PROVE  \A n \in Seeds : j[n] = joint[n] \/ (j[n] = Lost /\ Damaged)
BY DEF Refused

\* A resolution that the joint takes, and one it does not.
LEMMA ConditionedKeeps ==
  ASSUME MakerShape, NEW m \in Markets, NEW outcome, NEW j \in Conditioned(m, outcome)
  PROVE  /\ m \in Seeds /\ j[m] = PointMass(outcome)
         /\ Settled(m) => j[m] = joint[m]
         /\ \A n \in Seeds \ {m} :
              /\ Settled(n) => j[n] = joint[n] \/ (j[n] = Lost /\ Damaged)
              /\ j[n] \in {Zero, One} => j[n] = joint[n]
              /\ ~ Damaged => j[n] # Lost
<1>1. m \in Seeds /\ joint[m] # Lost /\ (Settled(m) => joint[m] = PointMass(outcome))
      /\ j \in Moved(m, PointMass(outcome))
  BY DEF Conditioned
<1>2. SpillLevels \subseteq 1..4 /\ Zero = 0 /\ One = 5 /\ Lost = 6
  BY ConstantsOK, LevelsOK
<1>3. ~ Damaged => \A n \in Seeds : joint[n] # Lost
  BY DEF Damaged
<1>4. /\ j[m] = PointMass(outcome)
      /\ \A n \in Seeds \ {m} :
           /\ j[n] \in SpillLevels \cup {joint[n], Lost}
           /\ Settled(n) => j[n] = joint[n] \/ (j[n] = Lost /\ Damaged)
           /\ ~ Damaged => j[n] \in SpillLevels \cup {joint[n]}
  BY <1>1, MovedKeeps
<1>. QED BY <1>1, <1>2, <1>3, <1>4

LEMMA NotConditioned ==
  ASSUME MakerShape, NEW m \in Markets, NEW outcome, Conditioned(m, outcome) = {}
  PROVE  \/ m \notin Seeds \/ joint[m] = Lost
         \/ Settled(m) /\ joint[m] # PointMass(outcome)
<1>. DEFINE level == PointMass(outcome)
<1>1. SUFFICES ASSUME m \in Seeds, joint[m] # Lost, Settled(m) => joint[m] = level
      PROVE  FALSE
  OBVIOUS
<1>2. level \in Beliefs /\ (level = joint[m] => [joint EXCEPT ![m] = level] = joint)
  BY <1>1, LevelsOK DEF PointMass, MakerShape
<1>. HIDE DEF level
<1>3. [joint EXCEPT ![m] = level] \in Moved(m, level)
  BY <1>1, <1>2 DEF Moved, MakerShape
<1>4. [joint EXCEPT ![m] = level] \in Conditioned(m, outcome)
  BY <1>1, <1>2, <1>3 DEF Conditioned, level
<1>. QED BY <1>4

LEMMA EmptiedKeeps ==
  ASSUME MakerShape, NEW m \in Markets
  PROVE  \A n \in Seeds : Emptied(m)[n] = IF n = m THEN Lost ELSE joint[n]
BY DEF Emptied, MakerShape

MakerInv == MarketShape /\ MakerShape /\ JointIsSaved /\ SettledByResolution
            /\ restarts \in 0..MaxRestarts

LEMMA RestartsCounted ==
  ASSUME [Next]_vars, restarts \in 0..MaxRestarts
  PROVE  /\ restarts' \in 0..MaxRestarts
         /\ (Restart /\ restarts' > 0) \/ restarts' = restarts
<1>1. MaxRestarts \in Nat
  BY ConstantsOK
<1>2. Restart => restarts' \in 0..MaxRestarts /\ restarts' > 0
  BY <1>1 DEF Restart
<1>3. ASSUME NEW r \in Requests,
             \/ EditApplied(r) \/ TradeApplied(r) \/ ResolutionApplied(r)
             \/ TransitionApplied(r) \/ NotApplied(r) \/ Commented(r)
      PROVE  restarts' = restarts
  BY <1>3 DEF EditApplied, ApplyEdit, TradeApplied, ResolutionApplied, TransitionApplied, NotApplied,
              Reject, Commented, Elsewhere
<1>4. ASSUME NEW m, CreateMarket(m) PROVE restarts' = restarts
  BY <1>4 DEF CreateMarket
<1>5. UNCHANGED vars => restarts' = restarts
  BY DEF vars
<1>. QED BY <1>2, <1>3, <1>4, <1>5, StepKinds

SettledKept ==
  \A m \in Seeds : Settled(m) =>
    \/ joint'[m] = joint[m]
    \/ joint'[m] = Lost /\ restarts > 0

\* Only what is known of each kind of step is left to look at.
LEMMA JointStep ==
  ASSUME MakerInv, [Next]_vars
  PROVE  JointIsSaved' /\ SettledByResolution' /\ SettledKept
<1>0. /\ MarketShape /\ MakerShape /\ JointIsSaved /\ SettledByResolution
      /\ restarts \in 0..MaxRestarts /\ MarketShape' /\ MakerShape'
      /\ restarts' \in 0..MaxRestarts /\ ((Restart /\ restarts' > 0) \/ restarts' = restarts)
  BY MarketsTyped, RestartsCounted DEF MakerInv
<1>. DEFINE Goal == JointIsSaved' /\ SettledByResolution' /\ SettledKept
<1>1. ASSUME NEW j \in [Seeds -> Beliefs], joint' = j, disk' = j PROVE JointIsSaved'
  BY <1>1, EmptyIsSequence DEF JointIsSaved
<1>2. ASSUME UNCHANGED disk, \A n \in Seeds : joint'[n] \in {joint[n], Lost} PROVE JointIsSaved'
  BY <1>0, <1>2 DEF JointIsSaved
<1>3. ~ Damaged => \A n \in Seeds : joint[n] # Lost
  BY DEF Damaged
<1>4. ASSUME restarts' = restarts, status' = status,
             \A n \in Seeds : /\ joint'[n] \in {Zero, One} => joint'[n] = joint[n]
                              /\ ~ Damaged => joint'[n] # Lost
      PROVE  SettledByResolution'
  BY <1>0, <1>4 DEF SettledByResolution, Settled, Damaged
<1>5. restarts = 0 => ~ Damaged
  BY <1>0 DEF SettledByResolution
<1>6. restarts # 0 => restarts > 0
  BY <1>0, ConstantsOK
<1>7. ASSUME NEW r \in Requests, r.payload \in Edit, Edited(r), restarts' = restarts PROVE Goal
  <2>. DEFINE m == r.market
              c == r.payload.context
              level == r.payload.level
  <2>1. m \in Markets /\ level \in Interior /\ status' = status
    BY <1>7, RequestOK, EditOK DEF Edited
  <2>2. ASSUME NEW p, NEW j \in Traded(m, c, level), MoveJoint(j, p) PROVE Goal
    <3>1. joint' = j /\ disk' = j /\ j \in [Seeds -> Beliefs]
      BY <1>0, <2>2, JointsOK DEF MoveJoint
    <3>2. \A n \in Seeds :
              /\ Settled(n) => j[n] = joint[n] \/ (j[n] = Lost /\ Damaged)
              /\ j[n] \in {Zero, One} => j[n] = joint[n]
              /\ ~ Damaged => j[n] # Lost
      BY <1>0, <2>1, TradedKeeps
    <3>. HIDE DEF m, c, level
    <3>. QED BY <1>1, <1>4, <1>5, <1>6, <1>7, <2>1, <3>1, <3>2 DEF SettledKept
  <2>3. ASSUME joint' \in Refused(m, c), UNCHANGED disk PROVE Goal
    <3>1. \A n \in Seeds : joint'[n] = joint[n] \/ (joint'[n] = Lost /\ Damaged)
      BY <1>0, <2>3, RefusedKeeps
    <3>2. Lost \notin {Zero, One}
      BY LevelsOK
    <3>. HIDE DEF m, c, level
    <3>3. SettledByResolution'
      BY <1>3, <1>4, <1>7, <2>1, <3>1, <3>2
    <3>4. JointIsSaved' /\ SettledKept
      BY <1>2, <1>5, <1>6, <2>3, <3>1 DEF SettledKept
    <3>. QED BY <3>3, <3>4
  <2>. QED BY <1>7, <2>2, <2>3 DEF Edited
<1>8. ASSUME NEW r \in Requests, r.payload \in Resolution, status[r.market] # "resolved",
             ToResolved(r.market, r.payload.resolve), restarts' = restarts
      PROVE  Goal
  <2>. DEFINE m == r.market
              o == r.payload.resolve
  <2>1. m \in Markets /\ status' = [status EXCEPT ![m] = "resolved"]
    BY <1>8, RequestOK DEF ToResolved
  <2>2. \A n \in Markets : status'[n] = IF n = m THEN "resolved" ELSE status[n]
    BY <1>0, <2>1 DEF MarketShape
  <2>3. \/ \E j \in Conditioned(m, o) : joint' = j /\ disk' = j
        \/ Conditioned(m, o) = {} /\ joint' = Emptied(m) /\ UNCHANGED disk
    BY <1>8 DEF ToResolved, MoveJoint
  <2>4. restarts = 0 /\ m \in Seeds => joint[m] # Lost /\ ~ Settled(m)
    BY <1>0, <1>3, <1>8 DEF SettledByResolution
  <2>. HIDE DEF m, o
  <2>5. ASSUME NEW j \in Conditioned(m, o), joint' = j, disk' = j PROVE Goal
    <3>1. j \in [Seeds -> Beliefs]
      BY <1>0, <2>5, JointsOK
    <3>2. /\ m \in Seeds /\ j[m] = PointMass(o)
          /\ Settled(m) => j[m] = joint[m]
          /\ \A n \in Seeds \ {m} :
               /\ Settled(n) => j[n] = joint[n] \/ (j[n] = Lost /\ Damaged)
               /\ j[n] \in {Zero, One} => j[n] = joint[n]
               /\ ~ Damaged => j[n] # Lost
      BY <1>0, <2>1, ConditionedKeeps
    <3>3. PointMass(o) # Lost
      BY LevelsOK DEF PointMass
    <3>4. restarts' = 0 => ~ Damaged'
      BY <1>5, <1>8, <2>5, <3>2, <3>3 DEF Damaged
    <3>5. ASSUME restarts' = 0, NEW n \in Seeds, Settled(n)' PROVE status'[n] = "resolved"
      <4>1. n # m => Settled(n)
        BY <2>5, <3>2, <3>5 DEF Settled
      <4>2. n \in Markets
        BY ConstantsOK
      <4>. QED BY <1>0, <1>8, <2>2, <3>5, <4>1, <4>2 DEF SettledByResolution
    <3>6. SettledByResolution'
      BY <3>4, <3>5 DEF SettledByResolution
    <3>7. JointIsSaved' /\ SettledKept
      BY <1>1, <1>5, <1>6, <2>5, <3>1, <3>2 DEF SettledKept
    <3>. QED BY <3>6, <3>7
  <2>6. ASSUME Conditioned(m, o) = {}, joint' = Emptied(m), UNCHANGED disk PROVE Goal
    <3>1. \A n \in Seeds : joint'[n] = IF n = m THEN Lost ELSE joint[n]
      BY <1>0, <2>1, <2>6, EmptiedKeeps
    <3>2. m \notin Seeds \/ joint[m] = Lost \/ restarts # 0
      BY <1>0, <2>1, <2>4, <2>6, NotConditioned
    <3>3. ASSUME restarts' = 0
          PROVE  ~ Damaged' /\ \A n \in Seeds : Settled(n)' => status'[n] = "resolved"
      <4>1. restarts = 0 /\ m \notin Seeds
        BY <1>3, <1>5, <1>8, <3>2, <3>3
      <4>2. \A n \in Seeds : joint'[n] = joint[n] /\ status'[n] = status[n]
        BY <2>2, <3>1, <4>1, ConstantsOK
      <4>. QED BY <1>0, <4>1, <4>2 DEF SettledByResolution, Settled, Damaged
    <3>4. SettledByResolution'
      BY <3>3 DEF SettledByResolution
    <3>5. SettledKept
      BY <1>6, <3>1, <3>2 DEF SettledKept
    <3>. QED BY <1>2, <2>6, <3>1, <3>4, <3>5
  <2>. QED BY <2>3, <2>5, <2>6
<1>9. ASSUME Renamed, restarts' = restarts PROVE Goal
  <2>1. joint' = joint /\ disk' = disk
    BY <1>9 DEF Renamed, maker_vars
  <2>2. \A n \in Markets : status[n] = "resolved" => status'[n] = "resolved"
    BY <1>0, <1>9 DEF Renamed, MarketShape
  <2>. QED BY <1>0, <1>9, <2>1, <2>2, ConstantsOK
           DEF JointIsSaved, SettledByResolution, SettledKept, Settled, Damaged
<1>10. ASSUME UNCHANGED <<market_vars, maker_vars>>, restarts' = restarts PROVE Goal
  BY <1>0, <1>10 DEF JointIsSaved, SettledByResolution, SettledKept, Settled, Damaged,
                     market_vars, maker_vars
<1>11. ASSUME Restart, restarts' > 0 PROVE Goal
  <2>1. disk' = disk /\ joint' = IF disk = <<>> THEN [m \in Seeds |-> Uniform] ELSE disk
    BY <1>11 DEF Restart
  <2>2. SettledByResolution'
    BY <1>0, <1>11 DEF SettledByResolution
  <2>3. JointIsSaved'
    BY <2>1 DEF JointIsSaved
  <2>4. SettledKept
    BY <1>0, <2>1, LevelsOK DEF JointIsSaved, SettledKept, Settled
  <2>. QED BY <2>2, <2>3, <2>4
<1>. HIDE DEF Goal
<1>12. ASSUME Restart, restarts' > 0 PROVE Goal
  BY <1>11, <1>12
<1>13. ASSUME restarts' = restarts PROVE Goal
  <2>1. ~ Restart
    BY <1>0, <1>13, ConstantsOK DEF Restart
  <2>. QED BY <1>7, <1>8, <1>9, <1>10, <1>13, <2>1, MarketKinds
<1>14. Goal
  BY <1>0, <1>12, <1>13
<1>. QED BY <1>14 DEF Goal

-----------------------------------------------------------------------------
(* Prices.  Whatever moves the joint shows it; a price that does not show  *)
(* it was written by an edit the joint then refused, and no edit has moved *)
(* the joint since.                                                        *)

Shown(m) == price[m] = AsRepriced(joint[m])

LEMMA ResyncShows ==
  ASSUME NEW p, NEW j, price' = Resynced(p, j), joint' = j,
         NEW m \in Seeds, status'[m] # "resolved", joint'[m] # Lost
  PROVE  Shown(m)'
<1>1. m \in Markets
  BY ConstantsOK
<1>. QED BY <1>1 DEF Resynced, Shown

\* The last filled edit is before the one of m that was refused.
RefusedLast(m) ==
  \E i \in DOMAIN orders :
    /\ "filled" \in DOMAIN orders[i] /\ orders[i].market = m /\ ~ orders[i].filled
    /\ \A k \in DOMAIN orders :
         (k > i /\ "filled" \in DOMAIN orders[k]) => ~ orders[k].filled

LEMMA RefusedLastStays ==
  ASSUME NEW m, IsSequence(orders), RefusedLast(m), NEW e, orders' = Append(orders, e),
         "filled" \in DOMAIN e => ~ e.filled
  PROVE  RefusedLast(m)'
<1>1. PICK i \in DOMAIN orders :
        /\ "filled" \in DOMAIN orders[i] /\ orders[i].market = m /\ ~ orders[i].filled
        /\ \A k \in DOMAIN orders :
             (k > i /\ "filled" \in DOMAIN orders[k]) => ~ orders[k].filled
  BY DEF RefusedLast
<1>. DEFINE n == Len(orders) + 1
<1>2. /\ DOMAIN orders' = DOMAIN orders \cup {n} /\ orders'[n] = e
      /\ \A k \in DOMAIN orders : orders'[k] = orders[k]
  BY Appended
<1>. HIDE DEF n
<1>. QED BY <1>1, <1>2 DEF RefusedLast

LEMMA RefusedLastBegins ==
  ASSUME NEW m, IsSequence(orders), NEW e, orders' = Append(orders, e),
         "filled" \in DOMAIN e, e.market = m, ~ e.filled
  PROVE  RefusedLast(m)'
<1>. DEFINE n == Len(orders) + 1
<1>1. /\ DOMAIN orders' = DOMAIN orders \cup {n} /\ orders'[n] = e /\ n \in Nat
      /\ \A k \in DOMAIN orders : k \in Nat /\ k < n
  BY Appended
<1>. HIDE DEF n
<1>2. \A k \in DOMAIN orders' : ~ (k > n)
  BY <1>1
<1>. QED BY <1>1, <1>2 DEF RefusedLast

LEMMA DriftFolds ==
  PriceDriftsOnlyByRefusal <=>
    \A m \in Seeds : status[m] # "resolved" /\ joint[m] # Lost /\ ~ Shown(m) => RefusedLast(m)
BY DEF PriceDriftsOnlyByRefusal, Shown, RefusedLast

LEMMA OrderFields ==
  ASSUME NEW r, NEW old, NEW new, NEW filled
  PROVE  /\ "filled" \in DOMAIN EditOrder(r, old, new, filled)
         /\ EditOrder(r, old, new, filled).market = r.market
         /\ EditOrder(r, old, new, filled).filled = filled
         /\ "filled" \notin DOMAIN TradeOrder(r)
BY DEF EditOrder, TradeOrder

LEMMA DriftStep ==
  ASSUME MakerInv, IsSequence(orders), PriceDriftsOnlyByRefusal, [Next]_vars
  PROVE  PriceDriftsOnlyByRefusal'
<1>. DEFINE Open(m) == status[m] # "resolved" /\ joint[m] # Lost /\ ~ Shown(m)
<1>0. /\ MarketShape /\ MakerShape /\ Seeds \subseteq Markets
      /\ \A m \in Seeds : Open(m) => RefusedLast(m)
  BY ConstantsOK, DriftFolds DEF MakerInv
<1>1. ASSUME \A m \in Seeds : status'[m] # "resolved" /\ joint'[m] # Lost => Shown(m)'
      PROVE  PriceDriftsOnlyByRefusal'
  BY <1>1 DEF PriceDriftsOnlyByRefusal, Shown
<1>2. ASSUME \A m \in Seeds :
               status'[m] # "resolved" /\ joint'[m] # Lost /\ ~ Shown(m)' => RefusedLast(m)'
      PROVE  PriceDriftsOnlyByRefusal'
  BY <1>2 DEF PriceDriftsOnlyByRefusal, Shown, RefusedLast
<1>3. ASSUME NEW p, NEW j, MoveJoint(j, p) PROVE PriceDriftsOnlyByRefusal'
  BY <1>1, <1>3, ResyncShows DEF MoveJoint
<1>4. ASSUME UNCHANGED orders,
             \A m \in Seeds : status'[m] # "resolved" =>
               /\ status[m] # "resolved" /\ price'[m] = price[m]
               /\ joint'[m] \in {joint[m], Lost}
      PROVE  PriceDriftsOnlyByRefusal'
  BY <1>0, <1>2, <1>4 DEF Shown, RefusedLast
<1>5. ASSUME NEW r \in Requests, EditApplied(r) PROVE PriceDriftsOnlyByRefusal'
  <2>. DEFINE m == r.market
              c == r.payload.context
              new == AsEdited(r.payload.level)
              e == EditOrder(r, Base(m, c), new, FALSE)
  <2>1. CASE \E j : MoveJoint(j, EditedPrice(m, c, new))
    BY <1>3, <2>1
  <2>2. ASSUME price' = EditedPrice(m, c, new), orders' = Append(orders, e),
               joint' \in Refused(m, c), UNCHANGED status
        PROVE  PriceDriftsOnlyByRefusal'
    <3>1. "filled" \in DOMAIN e /\ e.market = m /\ ~ e.filled
      BY DEF EditOrder
    <3>2. \A n \in Seeds : joint'[n] \in {joint[n], Lost}
      BY <1>0, <2>2, RefusedKeeps
    <3>3. \A n \in Seeds \ {m} : price'[n] = price[n]
      BY <1>0, <2>2 DEF EditedPrice, MarketShape
    <3>. HIDE DEF e, m, c, new
    <3>4. RefusedLast(m)'
      BY <2>2, <3>1, RefusedLastBegins
    <3>5. \A n : RefusedLast(n) => RefusedLast(n)'
      BY <2>2, <3>1, RefusedLastStays
    <3>6. ASSUME NEW n \in Seeds, status'[n] # "resolved", joint'[n] # Lost, ~ Shown(n)'
          PROVE  RefusedLast(n)'
      <4>1. CASE n = m
        BY <3>4, <4>1
      <4>2. CASE n # m
        BY <1>0, <2>2, <3>2, <3>3, <3>5, <3>6, <4>2 DEF Shown
      <4>. QED BY <4>1, <4>2
    <3>. QED BY <1>2, <3>6
  <2>. QED BY <1>5, <2>1, <2>2 DEF EditApplied, ApplyEdit
<1>6. ASSUME NEW r \in Requests, ResolutionApplied(r) PROVE PriceDriftsOnlyByRefusal'
  <2>. DEFINE m == r.market
              final == [price EXCEPT ![m] = PointMass(r.payload.resolve)]
  <2>1. /\ status' = [status EXCEPT ![m] = "resolved"] /\ UNCHANGED orders
        /\ \/ \E j : MoveJoint(j, final)
           \/ price' = final /\ joint' = Emptied(m)
    BY <1>6 DEF ResolutionApplied, ToResolved
  <2>2. m \in Markets
    BY RequestOK
  <2>. HIDE DEF m
  <2>3. ASSUME price' = final, joint' = Emptied(m) PROVE PriceDriftsOnlyByRefusal'
    <3>1. \A n \in Seeds : joint'[n] \in {joint[n], Lost}
      BY <1>0, <2>2, <2>3, EmptiedKeeps
    <3>2. \A n \in Markets : /\ status'[n] = IF n = m THEN "resolved" ELSE status[n]
                             /\ n # m => price'[n] = price[n]
      BY <1>0, <2>1, <2>3 DEF MarketShape
    <3>. QED BY <1>0, <1>4, <2>1, <3>1, <3>2
  <2>. QED BY <1>3, <2>1, <2>3
<1>7. ASSUME NEW r \in Requests, TradeApplied(r) PROVE PriceDriftsOnlyByRefusal'
  <2>1. orders' = Append(orders, TradeOrder(r)) /\ UNCHANGED <<status, price, joint>>
    BY <1>7 DEF TradeApplied, market_vars, maker_vars
  <2>2. \A n : RefusedLast(n) => RefusedLast(n)'
    BY <2>1, OrderFields, RefusedLastStays
  <2>. QED BY <1>0, <1>2, <2>1, <2>2 DEF Shown
<1>8. ASSUME UNCHANGED orders, UNCHANGED <<price, joint>>,
             \A m \in Seeds : status'[m] # "resolved" => status[m] # "resolved"
      PROVE  PriceDriftsOnlyByRefusal'
  BY <1>4, <1>8
<1>9. ASSUME NEW r \in Requests, TransitionApplied(r) PROVE PriceDriftsOnlyByRefusal'
  <2>1. /\ UNCHANGED <<orders, price, joint>>
        /\ \E from, to \in {"active", "closed"} :
             status[r.market] = from /\ status' = [status EXCEPT ![r.market] = to]
    BY <1>9 DEF TransitionApplied, maker_vars, account_vars
  <2>2. \A m \in Markets : status[m] = "resolved" => status'[m] = "resolved"
    BY <1>0, <2>1 DEF MarketShape
  <2>. QED BY <1>0, <1>8, <2>1, <2>2
<1>10. ASSUME NEW m, CreateMarket(m) PROVE PriceDriftsOnlyByRefusal'
  <2>1. \A n \in Markets : status[n] = "resolved" => status'[n] = "resolved"
    BY <1>0, <1>10 DEF CreateMarket, Exists, MarketShape
  <2>. QED BY <1>0, <1>8, <1>10, <2>1 DEF CreateMarket, maker_vars, account_vars
<1>11. ASSUME NEW r \in Requests, NotApplied(r) \/ Commented(r) PROVE PriceDriftsOnlyByRefusal'
  <2>1. UNCHANGED <<market_vars, maker_vars, account_vars>>
    BY <1>11 DEF NotApplied, Reject, Commented, Elsewhere
  <2>. QED BY <1>8, <2>1 DEF market_vars, maker_vars, account_vars
<1>12. CASE Restart
  BY <1>1, <1>12, ResyncShows DEF Restart
<1>13. CASE UNCHANGED vars
  BY <1>8, <1>13 DEF vars, market_vars, maker_vars, account_vars
<1>. QED BY <1>5, <1>6, <1>7, <1>9, <1>10, <1>11, <1>12, <1>13, StepKinds

-----------------------------------------------------------------------------
(* The account read models                                                 *)

EditOrders ==
  [command : Nat, market : Markets, account : Accounts, context : Contexts,
   old : Levels, new : Levels, filled : BOOLEAN]
TradeOrders ==
  [command : Nat, market : Markets, account : Accounts, outcome : Outcomes,
   delta : Int, price : Levels]

Slices == UNION {[D -> Int] : D \in SUBSET Markets}
Position == (-MaxPosition)..MaxPosition \ {0}
Positions == UNION {[D -> Position] : D \in SUBSET (Markets \X Outcomes)}

AccountShape ==
  /\ IsSequence(orders)
  /\ \A i \in DOMAIN orders : orders[i] \in EditOrders \cup TradeOrders
  /\ minAsset \in [Accounts -> Int]
  /\ consumed \in [Accounts -> Slices]
  /\ exposure \in [Accounts -> Positions]

LEMMA SlicesOK ==
  ASSUME NEW f
  PROVE  f \in Slices <=> DOMAIN f \subseteq Markets /\ f \in [DOMAIN f -> Int]
<1>1. ASSUME f \in Slices PROVE DOMAIN f \subseteq Markets /\ f \in [DOMAIN f -> Int]
  <2>1. PICK D \in SUBSET Markets : f \in [D -> Int]
    BY <1>1 DEF Slices
  <2>. QED BY <2>1
<1>. QED BY <1>1 DEF Slices

LEMMA PositionsOK ==
  ASSUME NEW f
  PROVE  f \in Positions <=> DOMAIN f \subseteq Markets \X Outcomes /\ f \in [DOMAIN f -> Position]
<1>1. ASSUME f \in Positions
      PROVE  DOMAIN f \subseteq Markets \X Outcomes /\ f \in [DOMAIN f -> Position]
  <2>1. PICK D \in SUBSET (Markets \X Outcomes) : f \in [D -> Position]
    BY <1>1 DEF Positions
  <2>. QED BY <2>1
<1>. QED BY <1>1 DEF Positions

LEMMA SliceIsFinite ==
  ASSUME NEW f \in Slices
  PROVE  IsFiniteSet(DOMAIN f) /\ SumFunction(f) \in Int
<1>1. DOMAIN f \subseteq Markets /\ f \in [DOMAIN f -> Int]
  BY SlicesOK
<1>2. IsFiniteSet(DOMAIN f)
  BY <1>1, ConstantsOK, FS_Subset
<1>3. SumFunctionOnSet(f, DOMAIN f) \in Int
  BY <1>1, <1>2, SumRemove
<1>. QED BY <1>2, <1>3 DEF SumFunction

\* The orders of both kinds.
LEMMA EditOrderTyped ==
  ASSUME NEW r \in Requests, r.payload \in Edit, NextCommand \in Nat,
         NEW old \in Levels, NEW new \in Levels, NEW filled \in BOOLEAN
  PROVE  EditOrder(r, old, new, filled) \in EditOrders
BY RequestOK, EditOK DEF EditOrder, EditOrders

LEMMA TradeOrderTyped ==
  ASSUME NEW r \in Requests, r.payload \in Trade, NextCommand \in Nat, MarketShape
  PROVE  TradeOrder(r) \in TradeOrders
<1>1. r.market \in Markets /\ r.account \in Accounts
  BY RequestOK
<1>2. r.payload.outcome \in Outcomes /\ r.payload.delta \in Int
  BY DEF Trade
<1>3. AsRepriced(price[r.market]) \in Levels
  BY <1>1, LevelsOK DEF MarketShape
<1>. QED BY <1>1, <1>2, <1>3 DEF TradeOrder, TradeOrders

LEMMA KindOfOrder ==
  /\ \A e \in EditOrders : "delta" \notin DOMAIN e /\ "context" \in DOMAIN e
  /\ \A e \in TradeOrders : "delta" \in DOMAIN e /\ "context" \notin DOMAIN e
BY DEF EditOrders, TradeOrders

\* sync_account_risk_state: what the account has left and what the market
\* consumes move by the same amount.
LEMMA ChargeOK ==
  ASSUME AccountShape, NEW a \in Accounts, NEW m \in Markets, NEW impact \in Int,
         Charge(a, m, impact)
  PROVE  /\ minAsset' \in [Accounts -> Int] /\ consumed' \in [Accounts -> Slices]
         /\ minAsset'[a] = minAsset[a] - impact
         /\ \A b \in Accounts \ {a} : minAsset'[b] = minAsset[b] /\ consumed'[b] = consumed[b]
         /\ DOMAIN consumed'[a] = DOMAIN consumed[a] \cup {m}
         /\ \A n \in DOMAIN consumed'[a] : consumed'[a][n] =
              (IF n \in DOMAIN consumed[a] THEN consumed[a][n] ELSE 0)
                + (IF n = m THEN impact ELSE 0)
         /\ SumFunction(consumed'[a]) = SumFunction(consumed[a]) + impact
         /\ SumFunction(consumed[a]) \in Int
<1>. DEFINE f == consumed[a]
            S == DOMAIN f
            g == [n \in S \cup {m} |-> (IF n \in S THEN f[n] ELSE 0) + (IF n = m THEN impact ELSE 0)]
<1>1. f \in Slices /\ S \subseteq Markets /\ f \in [S -> Int] /\ IsFiniteSet(S)
  BY SlicesOK, SliceIsFinite DEF AccountShape
<1>2. /\ minAsset' = [minAsset EXCEPT ![a] = minAsset[a] - impact]
      /\ consumed' = [consumed EXCEPT ![a] = g]
  BY DEF Charge, AccountShape
<1>. HIDE DEF f
<1>3. /\ DOMAIN g = S \cup {m} /\ g \in [S \cup {m} -> Int]
      /\ \A n \in S \cup {m} : g[n] = (IF n \in S THEN f[n] ELSE 0) + (IF n = m THEN impact ELSE 0)
  BY <1>1
<1>. HIDE DEF S, g
<1>4. SumFunction(g) = SumFunction(f) + impact /\ SumFunction(f) \in Int
  BY <1>1, <1>3, SumCharge
<1>5. g \in Slices
  BY <1>1, <1>3, SlicesOK
<1>6. minAsset' \in [Accounts -> Int] /\ consumed' \in [Accounts -> Slices]
  BY <1>2, <1>5 DEF AccountShape
<1>. QED BY <1>2, <1>3, <1>4, <1>6 DEF AccountShape, f, S

\* settle_market_account_risk: the account has its limit less what is left.
LEMMA ReleaseOK ==
  ASSUME AccountShape, NEW m, ReleaseRisk(m)
  PROVE  /\ minAsset' \in [Accounts -> Int] /\ consumed' \in [Accounts -> Slices]
         /\ \A a \in Accounts :
              /\ DOMAIN consumed'[a] = DOMAIN consumed[a] \ {m}
              /\ \A n \in DOMAIN consumed'[a] : consumed'[a][n] = consumed[a][n]
              /\ m \notin DOMAIN consumed[a] =>
                   consumed'[a] = consumed[a] /\ minAsset'[a] = minAsset[a]
              /\ m \in DOMAIN consumed[a] =>
                   /\ minAsset'[a] = RiskLimit - SumFunction(consumed'[a])
                   /\ SumFunction(consumed[a]) = SumFunction(consumed'[a]) + consumed[a][m]
                   /\ consumed[a][m] \in Int
              /\ SumFunction(consumed'[a]) \in Int
<1>. DEFINE left(a) == [n \in DOMAIN consumed[a] \ {m} |-> consumed[a][n]]
<1>1. /\ consumed' = [a \in Accounts |-> left(a)]
      /\ minAsset' = [a \in Accounts |->
           IF m \in DOMAIN consumed[a] THEN RiskLimit - SumFunction(left(a)) ELSE minAsset[a]]
  BY DEF ReleaseRisk
<1>2. ASSUME NEW a \in Accounts
      PROVE  /\ consumed[a] \in Slices /\ DOMAIN consumed[a] \subseteq Markets
             /\ consumed[a] \in [DOMAIN consumed[a] -> Int] /\ IsFiniteSet(DOMAIN consumed[a])
  BY SlicesOK, SliceIsFinite DEF AccountShape
<1>3. ASSUME NEW a \in Accounts
      PROVE  /\ left(a) \in Slices /\ DOMAIN left(a) = DOMAIN consumed[a] \ {m}
             /\ left(a) \in [DOMAIN consumed[a] \ {m} -> Int]
             /\ \A n \in DOMAIN left(a) : left(a)[n] = consumed[a][n]
             /\ m \notin DOMAIN consumed[a] => left(a) = consumed[a]
             /\ SumFunction(left(a)) \in Int
  <2>1. /\ DOMAIN left(a) = DOMAIN consumed[a] \ {m}
        /\ left(a) \in [DOMAIN left(a) -> Int]
        /\ \A n \in DOMAIN left(a) : left(a)[n] = consumed[a][n]
        /\ m \notin DOMAIN consumed[a] => left(a) = consumed[a]
    BY <1>2
  <2>. HIDE DEF left
  <2>2. left(a) \in Slices
    BY <1>2, <2>1, SlicesOK
  <2>. QED BY <2>1, <2>2, SliceIsFinite
<1>. HIDE DEF left
<1>4. ASSUME NEW a \in Accounts, m \in DOMAIN consumed[a]
      PROVE  SumFunction(consumed[a]) = SumFunction(left(a)) + consumed[a][m]
  <2>. DEFINE T == DOMAIN consumed[a]
  <2>1. /\ IsFiniteSet(T) /\ consumed[a] \in [T -> Int] /\ m \in T
        /\ left(a) \in [T \ {m} -> Int] /\ \A n \in T \ {m} : left(a)[n] = consumed[a][n]
    BY <1>2, <1>3, <1>4
  <2>. HIDE DEF T
  <2>. QED BY <2>1, SumWithout
<1>5. ASSUME NEW a \in Accounts PROVE RiskLimit - SumFunction(left(a)) \in Int
  <2>1. SumFunction(left(a)) \in Int /\ RiskLimit \in Nat
    BY <1>3, ConstantsOK
  <2>. QED BY <2>1
<1>6. minAsset' \in [Accounts -> Int] /\ consumed' \in [Accounts -> Slices]
  BY <1>1, <1>3, <1>5 DEF AccountShape
<1>. QED BY <1>1, <1>2, <1>3, <1>4, <1>6

\* sync_account_exposure_state: one position is set, and dropped when flat.
LEMMA HoldOK ==
  ASSUME AccountShape, NEW a \in Accounts, NEW m \in Markets, NEW o \in Outcomes,
         NEW net \in (-MaxPosition)..MaxPosition, Hold(a, m, o, net)
  PROVE  /\ exposure' \in [Accounts -> Positions]
         /\ Net(a, m, o)' = net
         /\ \A b \in Accounts, n \in Markets, p \in Outcomes :
              <<b, n, p>> # <<a, m, o>> => Net(b, n, p)' = Net(b, n, p)
<1>. DEFINE f == exposure[a]
            S == DOMAIN f
            q == <<m, o>>
            g == IF net = 0 THEN [p \in S \ {q} |-> f[p]]
                 ELSE [p \in S \cup {q} |-> IF p = q THEN net ELSE f[p]]
<1>1. f \in [S -> Position] /\ S \subseteq Markets \X Outcomes /\ q \in Markets \X Outcomes
  BY PositionsOK DEF AccountShape
<1>2. exposure' = [exposure EXCEPT ![a] = g]
  BY DEF Hold, AccountShape
<1>. HIDE DEF f
<1>3. net # 0 => net \in Position
  BY DEF Position
<1>4. /\ DOMAIN g = IF net = 0 THEN S \ {q} ELSE S \cup {q}
      /\ g \in [DOMAIN g -> Position]
      /\ \A p \in DOMAIN g : g[p] = IF p = q THEN net ELSE f[p]
  BY <1>1, <1>3
<1>. HIDE DEF S, g
<1>5. g \in Positions
  BY <1>1, <1>4, PositionsOK
<1>6. exposure' \in [Accounts -> Positions] /\ exposure'[a] = g
      /\ \A b \in Accounts \ {a} : exposure'[b] = exposure[b]
  BY <1>2, <1>5 DEF AccountShape
<1>7. Net(a, m, o)' = net
  BY <1>4, <1>6 DEF Net
<1>8. ASSUME NEW b \in Accounts, NEW n \in Markets, NEW p \in Outcomes, <<b, n, p>> # <<a, m, o>>
      PROVE  Net(b, n, p)' = Net(b, n, p)
  <2>1. CASE b # a
    BY <1>6, <2>1 DEF Net
  <2>2. CASE b = a
    <3>1. <<n, p>> # q
      BY <1>8, <2>2
    <3>2. /\ <<n, p>> \in DOMAIN g <=> <<n, p>> \in S
          /\ <<n, p>> \in DOMAIN g => g[<<n, p>>] = f[<<n, p>>]
      BY <1>4, <3>1
    <3>. QED BY <1>6, <2>2, <3>2 DEF Net, f, S
  <2>. QED BY <2>1, <2>2
<1>. QED BY <1>6, <1>7, <1>8

\* settle_market_account_exposure: no position in the market is left.
LEMMA ReleaseExposureOK ==
  ASSUME AccountShape, NEW m, ReleaseExposure(m)
  PROVE  /\ exposure' \in [Accounts -> Positions]
         /\ \A b \in Accounts, n \in Markets, p \in Outcomes :
              Net(b, n, p)' = IF n = m THEN 0 ELSE Net(b, n, p)
<1>. DEFINE left(a) == [p \in {q \in DOMAIN exposure[a] : q[1] # m} |-> exposure[a][p]]
<1>1. exposure' = [a \in Accounts |-> left(a)]
  BY DEF ReleaseExposure
<1>2. ASSUME NEW a \in Accounts
      PROVE  /\ left(a) \in Positions
             /\ DOMAIN left(a) = {q \in DOMAIN exposure[a] : q[1] # m}
             /\ \A q \in DOMAIN left(a) : left(a)[q] = exposure[a][q]
  <2>1. /\ DOMAIN exposure[a] \subseteq Markets \X Outcomes
        /\ exposure[a] \in [DOMAIN exposure[a] -> Position]
    BY PositionsOK DEF AccountShape
  <2>2. /\ DOMAIN left(a) = {q \in DOMAIN exposure[a] : q[1] # m}
        /\ left(a) \in [DOMAIN left(a) -> Position]
        /\ \A q \in DOMAIN left(a) : left(a)[q] = exposure[a][q]
    BY <2>1
  <2>. HIDE DEF left
  <2>. QED BY <2>1, <2>2, PositionsOK
<1>. HIDE DEF left
<1>3. \A a \in Accounts : exposure'[a] = left(a)
  BY <1>1
<1>4. ASSUME NEW b \in Accounts, NEW n \in Markets, NEW p \in Outcomes
      PROVE  Net(b, n, p)' = IF n = m THEN 0 ELSE Net(b, n, p)
  <2>1. <<n, p>>[1] = n
    OBVIOUS
  <2>2. /\ <<n, p>> \in DOMAIN left(b) <=> <<n, p>> \in DOMAIN exposure[b] /\ n # m
        /\ <<n, p>> \in DOMAIN left(b) => left(b)[<<n, p>>] = exposure[b][<<n, p>>]
    BY <1>2, <2>1
  <2>. QED BY <1>3, <2>2 DEF Net
<1>. QED BY <1>1, <1>2, <1>4

-----------------------------------------------------------------------------
(* What an account has left, what its markets consume, and its orders      *)

\* The account has an edit that the solvency check does not look at, or whose
\* score is not defined.
HasUnchecked(a) ==
  \E i \in DOMAIN orders :
    /\ orders[i].account = a
    /\ "context" \in DOMAIN orders[i]
    /\ orders[i].context # NoContext \/ Zero \in {orders[i].old, orders[i].new}

\* Only such an edit gives an account anything.
GainsAreUnchecked ==
  \A a \in Accounts : \A n \in DOMAIN consumed[a] : consumed[a][n] < 0 => HasUnchecked(a)

RiskInv == AccountShape /\ CapacityBalances /\ OverdrawnOnlyByContext /\ GainsAreUnchecked

LEMMA UncheckedStays ==
  ASSUME IsSequence(orders), NEW a, HasUnchecked(a), NEW e, orders' = Append(orders, e)
  PROVE  HasUnchecked(a)'
<1>1. DOMAIN orders \subseteq DOMAIN orders' /\ \A i \in DOMAIN orders : orders'[i] = orders[i]
  BY Appended
<1>. QED BY <1>1 DEF HasUnchecked

LEMMA UncheckedBegins ==
  ASSUME IsSequence(orders), NEW e, orders' = Append(orders, e), "context" \in DOMAIN e,
         e.context # NoContext \/ Zero \in {e.old, e.new}, NEW a, e.account = a
  PROVE  HasUnchecked(a)'
<1>1. Len(orders) + 1 \in DOMAIN orders' /\ orders'[Len(orders) + 1] = e
  BY Appended
<1>. QED BY <1>1 DEF HasUnchecked

\* What an applied edit does to its account.
Charged(r) ==
  LET old == Base(r.market, r.payload.context)
      new == AsEdited(r.payload.level)
  IN  /\ r.payload \in Edit /\ UNCHANGED exposure
      /\ \E filled \in BOOLEAN : orders' = Append(orders, EditOrder(r, old, new, filled))
      /\ Charge(r.account, r.market, Impact[old][new])
      /\ Affordable(r.account, r.payload.context, Impact[old][new])
      /\ Movable(r.market, r.payload.context)

LEMMA AccountKinds ==
  ASSUME [Next]_vars
  PROVE  \/ \E r \in Requests : Charged(r) \/ TradeApplied(r) \/ ResolutionApplied(r)
         \/ UNCHANGED account_vars
         \/ Restart
<1>1. ASSUME NEW r \in Requests, EditApplied(r) PROVE Charged(r)
  BY <1>1 DEF EditApplied, ApplyEdit, Charged
<1>2. ASSUME NEW r \in Requests, TransitionApplied(r) \/ NotApplied(r) \/ Commented(r)
      PROVE  UNCHANGED account_vars
  BY <1>2 DEF TransitionApplied, NotApplied, Commented, Reject, Elsewhere
<1>3. ASSUME NEW m, CreateMarket(m) PROVE UNCHANGED account_vars
  BY <1>3 DEF CreateMarket
<1>4. UNCHANGED vars => UNCHANGED account_vars
  BY DEF vars
<1>. QED BY <1>1, <1>2, <1>3, <1>4, StepKinds

LEMMA CommandIsNat ==
  ASSUME LogShape
  PROVE  NextCommand \in Nat
<1>1. Len(commands) \in Nat
  BY Appended DEF LogShape
<1>. QED BY <1>1 DEF NextCommand

\* An order is added.
LEMMA OrdersGrow ==
  ASSUME AccountShape, NEW e \in EditOrders \cup TradeOrders, orders' = Append(orders, e)
  PROVE  /\ IsSequence(orders')
         /\ \A i \in DOMAIN orders' : orders'[i] \in EditOrders \cup TradeOrders
<1>. DEFINE n == Len(orders) + 1
<1>1. /\ IsSequence(orders') /\ DOMAIN orders' = DOMAIN orders \cup {n} /\ orders'[n] = e
      /\ \A i \in DOMAIN orders : orders'[i] = orders[i]
  BY Appended DEF AccountShape
<1>. HIDE DEF n
<1>. QED BY <1>1 DEF AccountShape

\* An edit that gives its account something starts from or ends at Zero: the
\* divergence of two interior prices is not negative.
LEMMA ChargeStep ==
  ASSUME RiskInv, MarketShape, LogShape, NEW r \in Requests, Charged(r)
  PROVE  RiskInv'
<1>. DEFINE a == r.account
            m == r.market
            c == r.payload.context
            old == Base(m, c)
            new == AsEdited(r.payload.level)
            impact == Impact[old][new]
            unchecked == c # NoContext \/ Zero \in {old, new}
<1>1. /\ a \in Accounts /\ m \in Markets /\ r.payload \in Edit
      /\ old \in Levels /\ new \in Levels /\ old # One /\ new # One
  BY RequestOK, EditOK, BaseOK, LevelsOK DEF Charged, Movable
<1>2. impact \in Int /\ (~ unchecked => impact >= 0)
  <2>1. impact \in Int
    BY <1>1, ConstantsOK
  <2>2. ~ unchecked => old \in Interior /\ new \in Interior
    BY <1>1, LevelsOK
  <2>. QED BY <2>1, <2>2, ConstantsOK
<1>3. /\ AccountShape /\ CapacityBalances /\ OverdrawnOnlyByContext /\ GainsAreUnchecked
      /\ IsSequence(orders) /\ minAsset \in [Accounts -> Int] /\ consumed \in [Accounts -> Slices]
  BY DEF RiskInv, AccountShape
<1>4. PICK filled \in BOOLEAN : orders' = Append(orders, EditOrder(r, old, new, filled))
  BY DEF Charged
<1>. DEFINE e == EditOrder(r, old, new, filled)
<1>5. /\ e \in EditOrders \cup TradeOrders /\ "context" \in DOMAIN e
      /\ e.account = a /\ e.context = c /\ e.old = old /\ e.new = new
  BY <1>1, CommandIsNat, EditOrderTyped DEF EditOrder
<1>6. /\ minAsset' \in [Accounts -> Int] /\ consumed' \in [Accounts -> Slices]
      /\ minAsset'[a] = minAsset[a] - impact
      /\ \A b \in Accounts \ {a} : minAsset'[b] = minAsset[b] /\ consumed'[b] = consumed[b]
      /\ DOMAIN consumed'[a] = DOMAIN consumed[a] \cup {m}
      /\ \A n \in DOMAIN consumed'[a] : consumed'[a][n] =
           (IF n \in DOMAIN consumed[a] THEN consumed[a][n] ELSE 0) + (IF n = m THEN impact ELSE 0)
      /\ SumFunction(consumed'[a]) = SumFunction(consumed[a]) + impact
      /\ SumFunction(consumed[a]) \in Int
  <2>1. Charge(a, m, impact)
    BY DEF Charged
  <2>. HIDE DEF impact, a, m
  <2>. QED BY ONLY <1>1, <1>2, <1>3, <2>1, ChargeOK
<1>7. exposure' = exposure /\ (c = NoContext => minAsset[a] - impact >= 0)
  BY DEF Charged, Affordable
<1>. HIDE DEF e, impact, old, new, c, a, m
<1>8. (\A b : HasUnchecked(b) => HasUnchecked(b)') /\ (unchecked => HasUnchecked(a)')
  <2>1. orders' = Append(orders, e)
    BY <1>4 DEF e
  <2>2. \A b : HasUnchecked(b) => HasUnchecked(b)'
    BY <1>3, <2>1, UncheckedStays
  <2>3. unchecked => e.context # NoContext \/ Zero \in {e.old, e.new}
    BY <1>5
  <2>4. unchecked => HasUnchecked(a)'
    BY ONLY <1>3, <1>5, <2>1, <2>3, UncheckedBegins
  <2>. QED BY <2>2, <2>4
<1>9. AccountShape'
  <2>1. orders' = Append(orders, e)
    BY <1>4 DEF e
  <2>2. /\ IsSequence(orders') /\ \A i \in DOMAIN orders' : orders'[i] \in EditOrders \cup TradeOrders
    BY <1>3, <1>5, <2>1, OrdersGrow
  <2>. QED BY <1>3, <1>6, <1>7, <2>2 DEF AccountShape
<1>10. CapacityBalances'
  <2>1. ASSUME NEW b \in Accounts PROVE minAsset'[b] = RiskLimit - SumFunction(consumed'[b])
    <3>1. minAsset[b] = RiskLimit - SumFunction(consumed[b]) /\ RiskLimit \in Nat
      BY <1>3, ConstantsOK DEF CapacityBalances
    <3>2. CASE b = a
      BY <1>2, <1>6, <3>1, <3>2
    <3>3. CASE b # a
      BY <1>6, <3>1, <3>3
    <3>. QED BY <3>2, <3>3
  <2>. QED BY <2>1 DEF CapacityBalances
<1>11. ASSUME NEW b \in Accounts, minAsset'[b] < 0 PROVE HasUnchecked(b)'
  <2>0. minAsset[b] < 0 => HasUnchecked(b)
    BY <1>3 DEF OverdrawnOnlyByContext, HasUnchecked
  <2>1. CASE b # a
    BY <1>6, <1>8, <1>11, <2>0, <2>1
  <2>2. CASE b = a
    <3>1. c # NoContext
      BY <1>6, <1>7, <1>11, <2>2, <1>1, <1>2, <1>3
    <3>. QED BY <1>8, <2>2, <3>1
  <2>. QED BY <2>1, <2>2
<1>12. ASSUME NEW b \in Accounts, NEW n \in DOMAIN consumed'[b], consumed'[b][n] < 0
       PROVE  HasUnchecked(b)'
  <2>0. \A k \in DOMAIN consumed[b] : consumed[b][k] < 0 => HasUnchecked(b)
    BY <1>3 DEF GainsAreUnchecked
  <2>1. CASE b # a
    BY <1>6, <1>8, <1>12, <2>0, <2>1
  <2>2. CASE b = a
    <3>. DEFINE was == IF n \in DOMAIN consumed[a] THEN consumed[a][n] ELSE 0
    <3>1. was \in Int
      BY <1>1, <1>3, SlicesOK
    <3>2. consumed'[a][n] = was + (IF n = m THEN impact ELSE 0)
      BY <1>6, <1>12, <2>2
    <3>3. was < 0 => n \in DOMAIN consumed[a] /\ consumed[a][n] < 0
      OBVIOUS
    <3>. HIDE DEF was
    <3>4. was < 0 \/ impact < 0
      BY <1>2, <1>12, <2>2, <3>1, <3>2
    <3>. QED BY <1>2, <1>8, <2>0, <2>2, <3>3, <3>4
  <2>. QED BY <2>1, <2>2
<1>. QED BY <1>9, <1>10, <1>11, <1>12 DEF RiskInv, OverdrawnOnlyByContext, GainsAreUnchecked, HasUnchecked

\* A release gives back what the market consumed; only what was gained by an
\* unchecked edit can leave the account with less than it had.
LEMMA ReleaseStep ==
  ASSUME RiskInv, NEW m, ReleaseRisk(m), ReleaseExposure(m), UNCHANGED orders
  PROVE  RiskInv'
<1>1. /\ AccountShape /\ CapacityBalances
      /\ \A a \in Accounts : minAsset[a] < 0 => HasUnchecked(a)
      /\ \A a \in Accounts : \A n \in DOMAIN consumed[a] : consumed[a][n] < 0 => HasUnchecked(a)
      /\ minAsset \in [Accounts -> Int]
  BY DEF RiskInv, OverdrawnOnlyByContext, GainsAreUnchecked, HasUnchecked, AccountShape
<1>2. \A a : HasUnchecked(a) => HasUnchecked(a)'
  BY DEF HasUnchecked
<1>3. /\ minAsset' \in [Accounts -> Int] /\ consumed' \in [Accounts -> Slices]
      /\ \A a \in Accounts :
           /\ DOMAIN consumed'[a] = DOMAIN consumed[a] \ {m}
           /\ \A n \in DOMAIN consumed'[a] : consumed'[a][n] = consumed[a][n]
           /\ m \notin DOMAIN consumed[a] =>
                consumed'[a] = consumed[a] /\ minAsset'[a] = minAsset[a]
           /\ m \in DOMAIN consumed[a] =>
                /\ minAsset'[a] = RiskLimit - SumFunction(consumed'[a])
                /\ SumFunction(consumed[a]) = SumFunction(consumed'[a]) + consumed[a][m]
                /\ consumed[a][m] \in Int
           /\ SumFunction(consumed'[a]) \in Int
  BY <1>1, ReleaseOK
<1>4. AccountShape'
  BY <1>1, <1>3, ReleaseExposureOK DEF AccountShape
<1>5. CapacityBalances'
  BY <1>1, <1>3 DEF CapacityBalances
<1>6. ASSUME NEW a \in Accounts, minAsset'[a] < 0 PROVE HasUnchecked(a)'
  <2>1. CASE m \notin DOMAIN consumed[a]
    BY <1>1, <1>2, <1>3, <1>6, <2>1
  <2>2. CASE m \in DOMAIN consumed[a]
    <3>1. /\ minAsset[a] = RiskLimit - SumFunction(consumed[a]) /\ RiskLimit \in Nat
          /\ minAsset'[a] = RiskLimit - SumFunction(consumed'[a])
          /\ SumFunction(consumed[a]) = SumFunction(consumed'[a]) + consumed[a][m]
          /\ consumed[a][m] \in Int /\ SumFunction(consumed'[a]) \in Int
      BY <1>1, <1>3, <2>2, ConstantsOK DEF CapacityBalances
    <3>2. minAsset[a] < 0 \/ consumed[a][m] < 0
      BY <1>6, <3>1
    <3>. QED BY <1>1, <1>2, <2>2, <3>2
  <2>. QED BY <2>1, <2>2
<1>7. ASSUME NEW a \in Accounts, NEW n \in DOMAIN consumed'[a], consumed'[a][n] < 0
      PROVE  HasUnchecked(a)'
  BY <1>1, <1>2, <1>3, <1>7
<1>. QED BY <1>4, <1>5, <1>6, <1>7 DEF RiskInv, OverdrawnOnlyByContext, GainsAreUnchecked, HasUnchecked

\* A trade charges no risk.
LEMMA TradeStep ==
  ASSUME RiskInv, MarketShape, LogShape, NEW r \in Requests, TradeApplied(r)
  PROVE  RiskInv'
<1>1. /\ r.account \in Accounts /\ r.market \in Markets /\ r.payload.outcome \in Outcomes
      /\ r.payload \in Trade
  BY RequestOK DEF TradeApplied, Trade
<1>2. /\ orders' = Append(orders, TradeOrder(r)) /\ UNCHANGED <<minAsset, consumed>>
      /\ exposure' \in [Accounts -> Positions]
  BY <1>1, HoldOK DEF TradeApplied, RiskInv
<1>3. TradeOrder(r) \in EditOrders \cup TradeOrders
  BY <1>1, CommandIsNat, TradeOrderTyped
<1>4. AccountShape'
  BY <1>2, <1>3, OrdersGrow DEF AccountShape, RiskInv
<1>5. \A a : HasUnchecked(a) => HasUnchecked(a)'
  BY <1>2, UncheckedStays DEF RiskInv, AccountShape
<1>6. CapacityBalances'
  BY <1>2 DEF RiskInv, CapacityBalances
<1>7. OverdrawnOnlyByContext'
  BY <1>2, <1>5 DEF RiskInv, OverdrawnOnlyByContext, HasUnchecked
<1>8. GainsAreUnchecked'
  BY <1>2, <1>5 DEF RiskInv, GainsAreUnchecked
<1>. QED BY <1>4, <1>6, <1>7, <1>8 DEF RiskInv

\* Nothing is owed and nothing held at the start.
LEMMA NothingOwed ==
  /\ [m \in {} |-> 0] \in Slices /\ SumFunction([m \in {} |-> 0]) = 0
  /\ [p \in {} |-> 0] \in Positions
<1>. DEFINE f == [m \in {} |-> 0]
<1>1. DOMAIN f = {} /\ f \in [{} -> Int] /\ f \in [{} -> Position] /\ \A a \in {} : f[a] = 0
  OBVIOUS
<1>. HIDE DEF f
<1>2. SumFunction(f) = 0
  BY <1>1, FS_EmptySet, SumZero
<1>3. f \in Slices /\ f \in Positions
  BY <1>1, SlicesOK, PositionsOK
<1>. QED BY <1>2, <1>3 DEF f

NoAccounts ==
  /\ orders = <<>> /\ minAsset = [a \in Accounts |-> RiskLimit]
  /\ consumed = [a \in Accounts |-> [m \in {} |-> 0]]
  /\ exposure = [a \in Accounts |-> [p \in {} |-> 0]]

LEMMA RiskBegins == NoAccounts => RiskInv
<1>. SUFFICES ASSUME NoAccounts PROVE RiskInv
  OBVIOUS
<1>. USE DEF NoAccounts
<1>1. RiskLimit \in Nat
  BY ConstantsOK
<1>2. AccountShape
  BY <1>1, NothingOwed, EmptyIsSequence DEF AccountShape
<1>3. CapacityBalances
  BY <1>1, NothingOwed DEF CapacityBalances
<1>4. OverdrawnOnlyByContext
  BY <1>1 DEF OverdrawnOnlyByContext
<1>5. GainsAreUnchecked
  BY DEF GainsAreUnchecked
<1>. QED BY <1>2, <1>3, <1>4, <1>5 DEF RiskInv

LEMMA RiskStep ==
  ASSUME RiskInv, MarketShape, LogShape, [Next]_vars
  PROVE  RiskInv'
<1>1. ASSUME NEW r \in Requests, ResolutionApplied(r) PROVE RiskInv'
  BY <1>1, ReleaseStep DEF ResolutionApplied
<1>2. CASE UNCHANGED account_vars
  BY <1>2 DEF account_vars, RiskInv, AccountShape, CapacityBalances, OverdrawnOnlyByContext,
              GainsAreUnchecked, HasUnchecked
<1>3. CASE Restart
  <2>1. NoAccounts'
    BY <1>3 DEF Restart, NoAccounts
  <2>. QED BY <2>1, RiskBegins, PTL
<1>. QED BY <1>1, <1>2, <1>3, AccountKinds, ChargeStep, TradeStep

-----------------------------------------------------------------------------
(* Positions and the trades they sum up                                    *)

Booked(a, m, o) == [i \in Trades(a, m, o) |-> orders[i].delta]

LEMMA BookedOK ==
  ASSUME AccountShape, NEW a, NEW m, NEW o
  PROVE  /\ IsFiniteSet(Trades(a, m, o)) /\ Booked(a, m, o) \in [Trades(a, m, o) -> Int]
         /\ SumFunction(Booked(a, m, o)) \in Int
<1>1. DOMAIN orders = 1..Len(orders) /\ Len(orders) \in Nat
  BY Appended DEF AccountShape
<1>2. IsFiniteSet(1..Len(orders))
  BY <1>1, FS_Interval
<1>3. IsFiniteSet(Trades(a, m, o))
  BY <1>1, <1>2, FS_Subset DEF Trades
<1>4. \A i \in Trades(a, m, o) : orders[i].delta \in Int
  <2>1. \A e \in TradeOrders : e.delta \in Int
    BY DEF TradeOrders
  <2>. QED BY <2>1, KindOfOrder DEF Trades, AccountShape
<1>5. Booked(a, m, o) \in [Trades(a, m, o) -> Int] /\ DOMAIN Booked(a, m, o) = Trades(a, m, o)
  BY <1>4 DEF Booked
<1>6. SumFunctionOnSet(Booked(a, m, o), Trades(a, m, o)) \in Int
  BY <1>3, <1>5, SumRemove
<1>. QED BY <1>3, <1>5, <1>6 DEF SumFunction

\* An order that is not a trade of this position leaves its sum alone.
LEMMA BookedStays ==
  ASSUME AccountShape, NEW e, orders' = Append(orders, e), NEW a, NEW m, NEW o,
         "delta" \in DOMAIN e => ~ (e.account = a /\ e.market = m /\ e.outcome = o)
  PROVE  Booked(a, m, o)' = Booked(a, m, o)
<1>. DEFINE n == Len(orders) + 1
<1>1. /\ DOMAIN orders' = DOMAIN orders \cup {n} /\ orders'[n] = e
      /\ \A i \in DOMAIN orders : orders'[i] = orders[i]
  BY Appended DEF AccountShape
<1>. HIDE DEF n
<1>2. Trades(a, m, o)' = Trades(a, m, o)
  BY <1>1 DEF Trades
<1>3. \A i \in Trades(a, m, o) : orders'[i].delta = orders[i].delta
  BY <1>1 DEF Trades
<1>. QED BY <1>2, <1>3 DEF Booked

\* A trade of it adds its delta.
LEMMA BookedMore ==
  ASSUME AccountShape, NEW e \in TradeOrders, orders' = Append(orders, e),
         NEW a, NEW m, NEW o, e.account = a, e.market = m, e.outcome = o
  PROVE  SumFunction(Booked(a, m, o)') = SumFunction(Booked(a, m, o)) + e.delta
<1>. DEFINE n == Len(orders) + 1
            S == Trades(a, m, o)
            f == Booked(a, m, o)
            g == [i \in S \cup {n} |-> orders'[i].delta]
            d == e.delta
<1>1. /\ DOMAIN orders' = DOMAIN orders \cup {n} /\ orders'[n] = e
      /\ n \notin DOMAIN orders
      /\ \A i \in DOMAIN orders : orders'[i] = orders[i]
  BY Appended DEF AccountShape
<1>2. IsFiniteSet(S) /\ f \in [S -> Int] /\ \A i \in S : f[i] = orders[i].delta
  BY BookedOK DEF Booked
<1>3. d \in Int /\ "delta" \in DOMAIN e
  BY DEF TradeOrders
<1>. HIDE DEF n
<1>4. Trades(a, m, o)' = S \cup {n} /\ n \notin S
  BY <1>1, <1>3 DEF Trades
<1>5. Booked(a, m, o)' = g
  BY <1>4 DEF Booked
<1>6. \A i \in S : g[i] = f[i] /\ f[i] \in Int
  BY <1>1, <1>2 DEF Trades
<1>7. g[n] = d
  BY <1>1
<1>. DEFINE T == S \cup {n}
<1>8. IsFiniteSet(T) /\ n \in T /\ S = T \ {n}
  BY <1>2, <1>4, FS_AddElement
<1>9. DOMAIN g = T /\ g = [i \in T |-> g[i]]
  OBVIOUS
<1>. HIDE DEF S, f, g, d
<1>10. g \in [T -> Int]
  BY <1>3, <1>6, <1>7, <1>9
<1>. HIDE DEF T
<1>11. f \in [T \ {n} -> Int] /\ \A i \in T \ {n} : f[i] = g[i]
  BY <1>2, <1>6, <1>8
<1>12. SumFunction(g) = SumFunction(f) + g[n]
  BY ONLY <1>8, <1>10, <1>11, SumWithout
<1>. QED BY <1>5, <1>7, <1>12 DEF f, d

PositionsAgree ==
  \A a \in Accounts, m \in Markets, o \in Outcomes :
    Net(a, m, o) = IF status[m] = "resolved" THEN 0 ELSE SumFunction(Booked(a, m, o))

LEMMA PositionsBegin == NoAccounts => PositionsAgree
<1>. SUFFICES ASSUME NoAccounts PROVE PositionsAgree
  OBVIOUS
<1>1. \A a, m, o : Booked(a, m, o) = [i \in {} |-> 0]
  <2>1. \A a, m, o : Trades(a, m, o) = {}
    BY EmptyIsSequence DEF NoAccounts, Trades
  <2>. QED BY <2>1 DEF Booked
<1>2. \A a \in Accounts, m \in Markets, o \in Outcomes : Net(a, m, o) = 0
  BY DEF NoAccounts, Net
<1>. QED BY <1>1, <1>2, NothingOwed DEF PositionsAgree

LEMMA PositionsStep ==
  ASSUME RiskInv, MarketShape, LogShape, PositionsAgree, [Next]_vars
  PROVE  PositionsAgree'
<1>0. AccountShape
  BY DEF RiskInv
<1>1. ASSUME NEW r \in Requests, Charged(r), UNCHANGED status PROVE PositionsAgree'
  <2>. DEFINE old == Base(r.market, r.payload.context)
              new == AsEdited(r.payload.level)
  <2>1. PICK filled \in BOOLEAN : orders' = Append(orders, EditOrder(r, old, new, filled))
    BY <1>1 DEF Charged
  <2>2. "delta" \notin DOMAIN EditOrder(r, old, new, filled)
    BY DEF EditOrder
  <2>. HIDE DEF old, new
  <2>3. \A a, m, o : Booked(a, m, o)' = Booked(a, m, o)
    BY <1>0, <2>1, <2>2, BookedStays
  <2>4. UNCHANGED exposure
    BY <1>1 DEF Charged
  <2>. QED BY <1>1, <2>3, <2>4 DEF PositionsAgree, Net
<1>2. ASSUME NEW r \in Requests, TradeApplied(r) PROVE PositionsAgree'
  <2>. DEFINE a == r.account
              m == r.market
              o == r.payload.outcome
              d == r.payload.delta
              net == Net(a, m, o) + d
              e == TradeOrder(r)
  <2>1. a \in Accounts /\ m \in Markets /\ o \in Outcomes /\ r.payload \in Trade
    BY <1>2, RequestOK DEF TradeApplied, Trade
  <2>2. /\ e \in TradeOrders /\ "delta" \in DOMAIN e
        /\ e.account = a /\ e.market = m /\ e.outcome = o /\ e.delta = d
    BY <2>1, CommandIsNat, TradeOrderTyped DEF TradeOrder
  <2>3. /\ orders' = Append(orders, e) /\ UNCHANGED status /\ status[m] = "active"
        /\ net \in (-MaxPosition)..MaxPosition /\ Hold(a, m, o, net)
    BY <1>2 DEF TradeApplied, market_vars
  <2>. HIDE DEF a, m, o, d, e
  <2>4. /\ Net(a, m, o)' = net
        /\ \A b \in Accounts, n \in Markets, p \in Outcomes :
              <<b, n, p>> # <<a, m, o>> => Net(b, n, p)' = Net(b, n, p)
    <3>. HIDE DEF net
    <3>. QED BY <1>0, <2>1, <2>3, HoldOK
  <2>5. SumFunction(Booked(a, m, o)') = SumFunction(Booked(a, m, o)) + d
    BY <1>0, <2>2, <2>3, BookedMore
  <2>6. \A b, n, p : <<b, n, p>> # <<a, m, o>> => Booked(b, n, p)' = Booked(b, n, p)
    BY <1>0, <2>2, <2>3, BookedStays
  <2>7. Net(a, m, o) = SumFunction(Booked(a, m, o))
    BY <2>1, <2>3 DEF PositionsAgree
  <2>8. ASSUME NEW b \in Accounts, NEW n \in Markets, NEW p \in Outcomes
        PROVE  Net(b, n, p)' = IF status'[n] = "resolved" THEN 0 ELSE SumFunction(Booked(b, n, p)')
    <3>1. CASE <<b, n, p>> = <<a, m, o>>
      BY <2>3, <2>4, <2>5, <2>7, <3>1
    <3>2. CASE <<b, n, p>> # <<a, m, o>>
      BY <2>3, <2>4, <2>6, <3>2 DEF PositionsAgree
    <3>. QED BY <3>1, <3>2
  <2>. QED BY <2>8 DEF PositionsAgree
<1>3. ASSUME NEW r \in Requests, ResolutionApplied(r) PROVE PositionsAgree'
  <2>1. /\ status' = [status EXCEPT ![r.market] = "resolved"] /\ UNCHANGED orders
        /\ ReleaseExposure(r.market)
    BY <1>3 DEF ResolutionApplied, ToResolved
  <2>2. \A b \in Accounts, n \in Markets, p \in Outcomes :
          Net(b, n, p)' = IF n = r.market THEN 0 ELSE Net(b, n, p)
    BY <1>0, <2>1, ReleaseExposureOK
  <2>3. \A b, n, p : Booked(b, n, p)' = Booked(b, n, p)
    BY <2>1 DEF Booked, Trades
  <2>4. \A n \in Markets : status'[n] = IF n = r.market THEN "resolved" ELSE status[n]
    BY <2>1 DEF MarketShape
  <2>. QED BY <2>2, <2>3, <2>4 DEF PositionsAgree
<1>4. ASSUME UNCHANGED <<orders, exposure>>,
             \A m \in Markets : status'[m] = "resolved" <=> status[m] = "resolved"
      PROVE  PositionsAgree'
  <2>1. \A a, m, o : Booked(a, m, o)' = Booked(a, m, o) /\ Net(a, m, o)' = Net(a, m, o)
    BY <1>4 DEF Net, Booked, Trades
  <2>. QED BY <1>4, <2>1 DEF PositionsAgree
<1>5. ASSUME NEW r \in Requests, TransitionApplied(r) PROVE PositionsAgree'
  <2>1. /\ UNCHANGED <<orders, exposure>>
        /\ \E from, to \in {"active", "closed"} :
             status[r.market] = from /\ status' = [status EXCEPT ![r.market] = to]
    BY <1>5 DEF TransitionApplied, account_vars
  <2>2. \A m \in Markets : status'[m] = "resolved" <=> status[m] = "resolved"
    BY <2>1 DEF MarketShape
  <2>. QED BY <1>4, <2>1, <2>2
<1>6. ASSUME NEW m, CreateMarket(m) PROVE PositionsAgree'
  <2>1. \A n \in Markets : status'[n] = "resolved" <=> status[n] = "resolved"
    BY <1>6 DEF CreateMarket, Exists, MarketShape
  <2>. QED BY <1>4, <1>6, <2>1 DEF CreateMarket, account_vars
<1>7. ASSUME NEW r \in Requests, NotApplied(r) \/ Commented(r) PROVE PositionsAgree'
  <2>1. UNCHANGED <<market_vars, account_vars>>
    BY <1>7 DEF NotApplied, Reject, Commented, Elsewhere
  <2>. QED BY <1>4, <2>1 DEF market_vars, account_vars
<1>8. CASE UNCHANGED vars
  BY <1>4, <1>8 DEF vars, market_vars, account_vars
<1>9. ASSUME NEW r \in Requests, EditApplied(r) PROVE PositionsAgree'
  BY <1>1, <1>9 DEF EditApplied, ApplyEdit, Charged
<1>10. CASE Restart
  <2>1. NoAccounts'
    BY <1>10 DEF Restart, NoAccounts
  <2>. QED BY <2>1, PositionsBegin, PTL
<1>. QED BY <1>2, <1>3, <1>5, <1>6, <1>7, <1>8, <1>9, <1>10, StepKinds

-----------------------------------------------------------------------------
(* What a retry is told                                                    *)

\* A command's market, and its context's, existed when it was stored, and
\* no market ceases to exist before the restart that forgets the command.
Known(r) == Exists(r.market) /\ (r.payload \in Edit => KnownContext(r.payload.context))
KnownRequests == \A i \in DOMAIN commands : Known(commands[i].request)

LEMMA ExistsStays ==
  ASSUME MarketShape, [Next]_vars, ~ Restart
  PROVE  \A m \in Markets : Exists(m) => Exists(m)'
<1>1. ASSUME NEW r \in Requests, ToResolved(r.market, r.payload.resolve)
      PROVE  \A m \in Markets : Exists(m) => Exists(m)'
  BY <1>1 DEF ToResolved, Exists, MarketShape
<1>2. ASSUME NEW r \in Requests, Edited(r) PROVE \A m \in Markets : Exists(m) => Exists(m)'
  BY <1>2 DEF Edited, Exists
<1>3. ASSUME Renamed PROVE \A m \in Markets : Exists(m) => Exists(m)'
  BY <1>3 DEF Renamed, Exists, MarketShape
<1>4. CASE UNCHANGED <<market_vars, maker_vars>>
  BY <1>4 DEF market_vars, Exists
<1>. QED BY <1>1, <1>2, <1>3, <1>4, MarketKinds

LEMMA KnownStep ==
  ASSUME LogShape, MarketShape, KnownRequests, [Next]_vars
  PROVE  KnownRequests'
<1>1. CASE Restart
  BY <1>1, EmptyIsSequence DEF Restart, KnownRequests
<1>2. CASE ~ Restart
  <2>1. ASSUME NEW r \in Requests, Known(r) PROVE Known(r)'
    <3>1. r.market \in Markets /\ \A m \in Markets : Exists(m) => Exists(m)'
      BY <1>2, RequestOK, ExistsStays
    <3>2. r.payload \in Edit /\ r.payload.context # NoContext => r.payload.context.on \in Markets
      BY EditOK DEF Contexts
    <3>. QED BY <2>1, <3>1, <3>2 DEF Known, KnownContext
  <2>2. ASSUME \A i \in DOMAIN commands' : \E r \in Requests : commands'[i].request = r /\ Known(r)
        PROVE  KnownRequests'
    BY <2>1, <2>2 DEF KnownRequests, Known, Exists, KnownContext
  <2>3. \A i \in DOMAIN commands : commands[i].request \in Requests
    BY DEF LogShape
  <2>5. ASSUME NEW r \in Requests, Asked(r), NEW outcome \in {"none", "accepted", "rejected"},
               Store(r, outcome)
        PROVE  KnownRequests'
    <3>1. /\ DOMAIN commands' = DOMAIN commands \cup {NextCommand}
          /\ commands'[NextCommand].request = r
          /\ \A i \in DOMAIN commands : commands'[i] = commands[i]
      BY <2>5, Stored
    <3>2. Known(r)
      BY <2>5 DEF Asked, Known
    <3>. QED BY <2>2, <2>3, <3>1, <3>2 DEF KnownRequests
  <2>6. CASE UNCHANGED log_vars
    <3>1. commands' = commands
      BY <2>6 DEF log_vars
    <3>. QED BY <2>2, <2>3, <3>1 DEF KnownRequests
  <2>4. ASSUME NEW r \in Requests, Logged(r) \/ Torn(r) \/ Remarked(r)
        PROVE  Asked(r) /\ \E outcome \in {"none", "accepted", "rejected"} : Store(r, outcome)
    BY <2>4 DEF Logged, Torn, Remarked, Abandon, Record
  <2>. QED BY <1>2, <2>4, <2>5, <2>6, LogKinds
<1>. QED BY <1>1, <1>2

\* The only retry that is refused is that of an edit of a market at certainty.
LEMMA RetriesTold ==
  ASSUME LogShape, MarketShape, KeyNamesOneOutcome, KnownRequests
  PROVE  RetriesAreAnswered
<1>. SUFFICES ASSUME NEW i \in DOMAIN commands, commands[i].request.key # NoKey,
                     commands[i].outcome # "none"
              PROVE  LET r == commands[i].request
                     IN  \/ Answer(r) = commands[i].outcome
                         \/ Answer(r) = "invalid" /\ r.payload \in Edit /\ price[r.market] = One
  BY DEF RetriesAreAnswered
<1>. DEFINE r == commands[i].request
<1>1. r \in Requests /\ r.market \in Markets
  BY RequestOK DEF LogShape
<1>2. Exists(r.market) /\ (r.payload \in Edit => KnownContext(r.payload.context))
  BY DEF KnownRequests, Known
<1>3. Scope(r) \in DOMAIN keys /\ keys[Scope(r)] = i
  BY DEF KeyNamesOneOutcome
<1>. HIDE DEF r
<1>4. CASE Refused400(r)
  <2>1. r.payload \in Edit /\ ~ Movable(r.market, r.payload.context)
    BY <1>2, <1>4 DEF Refused400
  <2>2. price[r.market] = One
    BY <1>1, <2>1, BaseOK DEF Movable
  <2>3. Answer(r) = "invalid"
    BY <1>2, <1>4 DEF Answer
  <2>. QED BY <2>1, <2>2, <2>3 DEF r
<1>5. CASE ~ Refused400(r)
  <2>1. Bound(r) /\ commands[keys[Scope(r)]].request.payload = r.payload
        /\ commands[keys[Scope(r)]].outcome = commands[i].outcome
    BY <1>3 DEF Bound, r
  <2>2. Answer(r) = commands[i].outcome
    BY <1>2, <1>5, <2>1 DEF Answer
  <2>. QED BY <2>2 DEF r
<1>. QED BY <1>4, <1>5

-----------------------------------------------------------------------------
(* What the journal tells                                                  *)

LEMMA LeadsNothing ==
  ASSUME NEW first
  PROVE  Leads({}, first, first)
BY DEF Leads, End

\* A later move that begins where the moves lead to leads on.
LEMMA LeadsOn ==
  ASSUME NEW moves, NEW first, NEW last, Leads(moves, first, last),
         NEW n \in Nat, \A move \in moves : move.at \in Nat /\ move.at < n,
         NEW next, next.at = n, next.from = last
  PROVE  Leads(moves \cup {next}, first, next.to)
<1>. DEFINE all == moves \cup {next}
<1>1. \A move \in moves : {l \in all : l.at < move.at} = {l \in moves : l.at < move.at}
  OBVIOUS
<1>2. {l \in all : l.at < next.at} = moves
  OBVIOUS
<1>3. /\ \A move \in moves : move.from = End({l \in moves : l.at < move.at}, first)
      /\ End(moves, first) = last
  BY DEF Leads
<1>4. \A move \in all : move.from = End({l \in all : l.at < move.at}, first)
  <2>1. ASSUME NEW move \in moves PROVE move.from = End({l \in all : l.at < move.at}, first)
    BY <1>1, <1>3
  <2>2. next.from = End({l \in all : l.at < next.at}, first)
    BY <1>2, <1>3
  <2>. HIDE DEF all
  <2>. QED BY <2>1, <2>2 DEF all
<1>5. End(all, first) = next.to
  <2>1. all # {} /\ next \in all /\ \A move \in all : move.at <= next.at
    OBVIOUS
  <2>2. \A l \in all : (\A move \in all : move.at <= l.at) => l = next
    <3>. SUFFICES ASSUME NEW l \in all, \A move \in all : move.at <= l.at PROVE l = next
      OBVIOUS
    <3>1. next.at <= l.at
      BY <2>1
    <3>2. l \notin moves
      BY <3>1
    <3>. QED BY <3>2
  <2>. HIDE DEF all
  <2>3. (CHOOSE l \in all : \A move \in all : move.at <= l.at) = next
    BY <2>1, <2>2
  <2>. QED BY <2>1, <2>3 DEF End
<1>. HIDE DEF all
<1>6. Leads(all, first, next.to)
  BY <1>4, <1>5 DEF Leads
<1>. QED BY <1>6 DEF all

\* Every event tells of a command that is stored.
LEMMA MovesAreEarlier ==
  ASSUME LogShape
  PROVE  /\ NextCommand \in Nat
         /\ \A m \in Markets : \A move \in PriceMoves(m) : move.at \in Nat /\ move.at < NextCommand
         /\ \A a : \A move \in AssetMoves(a) : move.at \in Nat /\ move.at < NextCommand
<1>1. IsSequence(commands) /\ NextCommand = Len(commands) + 1
  BY DEF LogShape, NextCommand
<1>2. NextCommand \in Nat /\ \A i \in DOMAIN commands : i \in Nat /\ i < NextCommand
  BY <1>1, Appended
<1>3. ASSUME NEW m \in Markets, NEW e \in Range(journal[m])
      PROVE  e.command \in Nat /\ e.command < NextCommand
  <2>1. e.command \in DOMAIN commands
    BY <1>3 DEF LogShape, Range
  <2>. QED BY <1>2, <2>1
<1>4. ASSUME NEW m \in Markets, NEW move \in PriceMoves(m)
      PROVE  move.at \in Nat /\ move.at < NextCommand
  <2>1. PICK e \in Range(journal[m]) : \E p : move = [at |-> e.command, from |-> p[2], to |-> p[3]]
    BY <1>4 DEF PriceMoves
  <2>. QED BY <1>3, <2>1
<1>5. ASSUME NEW a, NEW move \in AssetMoves(a)
      PROVE  move.at \in Nat /\ move.at < NextCommand
  <2>1. PICK e \in Events : move.at = e.command
    BY <1>5 DEF AssetMoves
  <2>2. PICK m \in Markets : e \in Range(journal[m])
    BY <2>1 DEF Events
  <2>. QED BY <1>3, <2>1, <2>2
<1>. QED BY <1>2, <1>4, <1>5

\* An event adds the moves that it tells of.
LEMMA MovesAdded ==
  ASSUME LogShape, NEW r \in Requests, NEW outcome, NEW effects, NEW state,
         Emit(r, outcome, effects, state)
  PROVE  /\ PriceMoves(r.market)' = PriceMoves(r.market) \cup
              {[at |-> NextCommand, from |-> p[2], to |-> p[3]] :
                 p \in {q \in effects.prices : q[1] = NoContext}}
         /\ \A a : AssetMoves(a)' = AssetMoves(a) \cup
              (IF a \in DOMAIN effects.assets
               THEN {[at |-> NextCommand, from |-> effects.assets[a][1], to |-> effects.assets[a][2]]}
               ELSE {})
<1>. DEFINE e == [command |-> NextCommand, accepted |-> outcome = "accepted",
                  effects |-> effects, state |-> state]
            m == r.market
<1>1. m \in Markets /\ IsSequence(journal[m])
  BY RequestOK DEF LogShape
<1>2. journal' = [journal EXCEPT ![m] = Append(@, e)]
  BY DEF Emit
<1>3. e.command = NextCommand /\ e.effects = effects
  OBVIOUS
<1>. HIDE DEF e, m
<1>4. /\ \A n \in Markets \ {m} : journal'[n] = journal[n]
      /\ journal'[m] = Append(journal[m], e)
  BY <1>1, <1>2 DEF LogShape
<1>5. Range(journal'[m]) = Range(journal[m]) \cup {e}
  <2>. DEFINE s == journal[m]
              t == journal'[m]
              n == Len(s) + 1
  <2>1. DOMAIN t = DOMAIN s \cup {n} /\ t[n] = e /\ \A i \in DOMAIN s : t[i] = s[i]
    BY <1>1, <1>4, Appended
  <2>. HIDE DEF s, t, n
  <2>2. Range(t) = Range(s) \cup {e}
    BY <2>1 DEF Range
  <2>. QED BY <2>2 DEF s, t
<1>6. Events' = Events \cup {e}
  <2>1. \A n \in Markets : Range(journal'[n]) = IF n = m THEN Range(journal[n]) \cup {e}
                                                ELSE Range(journal[n])
    BY <1>4, <1>5
  <2>. QED BY <1>1, <2>1 DEF Events
<1>7. PriceMoves(m)' = PriceMoves(m) \cup
        {[at |-> NextCommand, from |-> p[2], to |-> p[3]] : p \in {q \in effects.prices : q[1] = NoContext}}
  <2>. DEFINE told(f) == {[at |-> f.command, from |-> p[2], to |-> p[3]] :
                            p \in {q \in f.effects.prices : q[1] = NoContext}}
  <2>1. PriceMoves(m) = UNION {told(f) : f \in Range(journal[m])}
    BY DEF PriceMoves
  <2>2. PriceMoves(m)' = UNION {told(f) : f \in Range(journal'[m])}
    BY DEF PriceMoves, m
  <2>3. told(e) = {[at |-> NextCommand, from |-> p[2], to |-> p[3]] :
                     p \in {q \in effects.prices : q[1] = NoContext}}
    BY <1>3
  <2>. HIDE DEF told
  <2>4. PriceMoves(m)' = PriceMoves(m) \cup told(e)
    BY <1>5, <2>1, <2>2
  <2>. QED BY <2>3, <2>4
<1>8. ASSUME NEW a
      PROVE  AssetMoves(a)' = AssetMoves(a) \cup
               (IF a \in DOMAIN effects.assets
                THEN {[at |-> NextCommand, from |-> effects.assets[a][1], to |-> effects.assets[a][2]]}
                ELSE {})
  <2>. DEFINE move(f) == [at |-> f.command, from |-> f.effects.assets[a][1], to |-> f.effects.assets[a][2]]
              tells(f) == a \in DOMAIN f.effects.assets
  <2>1. AssetMoves(a) = {move(f) : f \in {g \in Events : tells(g)}}
    BY DEF AssetMoves
  <2>2. AssetMoves(a)' = {move(f) : f \in {g \in Events' : tells(g)}}
    BY DEF AssetMoves
  <2>3. move(e) = [at |-> NextCommand, from |-> effects.assets[a][1], to |-> effects.assets[a][2]]
        /\ (tells(e) <=> a \in DOMAIN effects.assets)
    BY <1>3
  <2>. HIDE DEF move, tells
  <2>4. CASE tells(e)
    <3>1. {g \in Events' : tells(g)} = {g \in Events : tells(g)} \cup {e}
      BY <1>6, <2>4
    <3>2. AssetMoves(a)' = AssetMoves(a) \cup {move(e)}
      BY <2>1, <2>2, <3>1
    <3>. QED BY <2>3, <2>4, <3>2
  <2>5. CASE ~ tells(e)
    <3>1. {g \in Events' : tells(g)} = {g \in Events : tells(g)}
      BY <1>6, <2>5
    <3>. QED BY <2>1, <2>2, <2>3, <2>5, <3>1
  <2>. QED BY <2>4, <2>5
<1>. QED BY <1>7, <1>8 DEF m

\* A command is torn for good, until the restart that forgets it.
LEMMA TornStays ==
  ASSUME LogShape, NEW r \in Requests, Asked(r),
         NEW outcome \in {"none", "accepted", "rejected"}, Store(r, outcome)
  PROVE  /\ \A m : Untorn(CommandsOn(m))' =>
                     Untorn(CommandsOn(m)) /\ (m = r.market => outcome # "none")
         /\ \A a : Untorn(CommandsOf(a))' =>
                     Untorn(CommandsOf(a)) /\ (a = r.account => outcome # "none")
<1>1. /\ DOMAIN commands' = DOMAIN commands \cup {NextCommand}
      /\ commands'[NextCommand].request = r /\ commands'[NextCommand].outcome = outcome
      /\ \A i \in DOMAIN commands : commands'[i] = commands[i]
  BY Stored
<1>. QED BY <1>1 DEF Untorn, CommandsOn, CommandsOf

\* A market outside the joint whose commands all came to an end is told.
MarketTold(m) == HashIsLive(m) /\ PriceIsTold(m)
MarketsTold == \A m \in Created : Untorn(CommandsOn(m)) => MarketTold(m)
AccountsTold == \A a \in Accounts : Untorn(CommandsOf(a)) => MinAssetIsTold(a)

LEMMA MarketStays ==
  ASSUME NEW m, MarketTold(m), journal'[m] = journal[m],
         status'[m] = status[m], price'[m] = price[m], cond'[m] = cond[m]
  PROVE  MarketTold(m)'
<1>1. HashIsLive(m)'
  BY DEF MarketTold, HashIsLive, LastAccepted, ReplayState
<1>2. PriceMoves(m)' = PriceMoves(m)
  BY DEF PriceMoves
<1>3. PriceIsTold(m)'
  BY <1>2 DEF MarketTold, PriceIsTold
<1>. QED BY <1>1, <1>3 DEF MarketTold

\* An acceptance carries the state it led to, and the move of the price.
LEMMA MarketAccepted ==
  ASSUME LogShape, NEW r \in Requests, NEW effects, MarketTold(r.market),
         Emit(r, "accepted", effects, ReplayState(r.market)'),
         LET moved == {q \in effects.prices : q[1] = NoContext}
         IN  \/ moved = {} /\ price'[r.market] = price[r.market]
             \/ \E p \in moved : /\ moved = {p}
                                 /\ p[2] = price[r.market] /\ p[3] = price'[r.market]
  PROVE  MarketTold(r.market)'
<1>. DEFINE m == r.market
            n == Len(journal[m]) + 1
            moved == {q \in effects.prices : q[1] = NoContext}
            told == {[at |-> NextCommand, from |-> p[2], to |-> p[3]] : p \in moved}
<1>1. m \in Markets /\ IsSequence(journal[m])
  BY RequestOK DEF LogShape
<1>2. HashIsLive(m)'
  <2>. DEFINE e == [command |-> NextCommand, accepted |-> "accepted" = "accepted",
                    effects |-> effects, state |-> ReplayState(m)']
  <2>1. journal'[m] = Append(journal[m], e) /\ e.accepted /\ e.state = ReplayState(m)'
    BY <1>1 DEF Emit, LogShape
  <2>. HIDE DEF e, m
  <2>2. /\ DOMAIN journal'[m] = DOMAIN journal[m] \cup {n} /\ journal'[m][n] = e /\ n \in Nat
        /\ \A i \in DOMAIN journal[m] : i \in Nat /\ i < n
    BY <1>1, <2>1, Appended
  <2>. HIDE DEF n
  <2>3. \A i \in LastAccepted(m)' : i = n
    <3>1. \A i \in LastAccepted(m)' :
            /\ i \in DOMAIN journal'[m]
            /\ \A k \in DOMAIN journal'[m] : k > i => ~ journal'[m][k].accepted
      BY DEF LastAccepted
    <3>. QED BY <2>1, <2>2, <3>1
  <2>4. \A i \in LastAccepted(m)' : journal'[m][i].state = ReplayState(m)'
    BY <2>1, <2>2, <2>3
  <2>. QED BY <2>4 DEF HashIsLive
<1>3. PriceIsTold(m)'
  <2>1. PriceMoves(m)' = PriceMoves(m) \cup told
    BY MovesAdded
  <2>2. /\ NextCommand \in Nat
        /\ \A move \in PriceMoves(m) : move.at \in Nat /\ move.at < NextCommand
        /\ Leads(PriceMoves(m), Uniform, price[m])
    BY <1>1, MovesAreEarlier DEF MarketTold, PriceIsTold
  <2>3. \/ moved = {} /\ price'[m] = price[m]
        \/ \E p \in moved : moved = {p} /\ p[2] = price[m] /\ p[3] = price'[m]
    OBVIOUS
  <2>4. CASE moved = {} /\ price'[m] = price[m]
    BY <2>1, <2>2, <2>4 DEF PriceIsTold
  <2>5. CASE \E p \in moved : moved = {p} /\ p[2] = price[m] /\ p[3] = price'[m]
    <3>1. PICK p \in moved : moved = {p} /\ p[2] = price[m] /\ p[3] = price'[m]
      BY <2>5
    <3>. DEFINE next == [at |-> NextCommand, from |-> p[2], to |-> p[3]]
    <3>2. told = {next}
      BY <3>1
    <3>3. next.at = NextCommand /\ next.from = price[m] /\ next.to = price'[m]
      BY <3>1
    <3>. HIDE DEF told, next, m, moved
    <3>4. Leads(PriceMoves(m) \cup {next}, Uniform, next.to)
      BY <2>2, <3>3, LeadsOn
    <3>. QED BY <2>1, <3>2, <3>3, <3>4 DEF PriceIsTold
  <2>. HIDE DEF moved
  <2>. QED BY <2>3, <2>4, <2>5
<1>. QED BY <1>2, <1>3 DEF MarketTold

\* A rejection changes neither the state nor what was accepted last.
LEMMA MarketRejected ==
  ASSUME LogShape, NEW r \in Requests, MarketTold(r.market),
         Emit(r, "rejected", NoEffects, <<>>), UNCHANGED market_vars
  PROVE  MarketTold(r.market)'
<1>. DEFINE m == r.market
            n == Len(journal[m]) + 1
<1>1. m \in Markets
  BY RequestOK
<1>2. HashIsLive(m)'
  <2>0. /\ DOMAIN journal'[m] = DOMAIN journal[m] \cup {n}
        /\ journal'[m][n].accepted = ("rejected" = "accepted")
        /\ \A i \in DOMAIN journal[m] : i \in Nat /\ i < n /\ journal'[m][i] = journal[m][i]
    BY Emitted
  <2>. HIDE DEF n, m
  <2>1. /\ DOMAIN journal'[m] = DOMAIN journal[m] \cup {n}
        /\ ~ journal'[m][n].accepted
        /\ \A i \in DOMAIN journal[m] : i \in Nat /\ i < n /\ journal'[m][i] = journal[m][i]
    BY <2>0
  <2>2. LastAccepted(m)' \subseteq LastAccepted(m)
    BY <2>1 DEF LastAccepted
  <2>3. LastAccepted(m) \subseteq DOMAIN journal[m] /\ ReplayState(m)' = ReplayState(m)
    BY DEF LastAccepted, ReplayState, market_vars
  <2>4. \A i \in LastAccepted(m) : journal[m][i].state = ReplayState(m)
    BY DEF MarketTold, HashIsLive, m
  <2>5. \A i \in LastAccepted(m)' : journal'[m][i].state = ReplayState(m)'
    BY <2>1, <2>2, <2>3, <2>4
  <2>. QED BY <2>5 DEF HashIsLive
<1>3. PriceMoves(m)' = PriceMoves(m)
  <2>1. PriceMoves(m)' = PriceMoves(m) \cup
          {[at |-> NextCommand, from |-> p[2], to |-> p[3]] :
             p \in {q \in NoEffects.prices : q[1] = NoContext}}
    BY MovesAdded
  <2>2. NoEffects.prices = {}
    BY DEF NoEffects
  <2>. QED BY <2>1, <2>2
<1>4. PriceIsTold(m)'
  BY <1>3 DEF PriceIsTold, MarketTold, market_vars
<1>. QED BY <1>2, <1>4 DEF MarketTold

\* So is an account's minAsset, when an event tells how it moved.
LEMMA AccountTold ==
  ASSUME LogShape, NEW r \in Requests, NEW outcome, NEW effects, NEW state,
         Emit(r, outcome, effects, state), NEW a, MinAssetIsTold(a),
         IF a \in DOMAIN effects.assets
         THEN effects.assets[a] = <<minAsset[a], minAsset'[a]>>
         ELSE minAsset'[a] = minAsset[a]
  PROVE  MinAssetIsTold(a)'
<1>1. AssetMoves(a)' = AssetMoves(a) \cup
        (IF a \in DOMAIN effects.assets
         THEN {[at |-> NextCommand, from |-> effects.assets[a][1], to |-> effects.assets[a][2]]}
         ELSE {})
  BY MovesAdded
<1>2. /\ NextCommand \in Nat
      /\ \A move \in AssetMoves(a) : move.at \in Nat /\ move.at < NextCommand
      /\ Leads(AssetMoves(a), RiskLimit, minAsset[a])
  BY MovesAreEarlier DEF MinAssetIsTold
<1>3. CASE a \in DOMAIN effects.assets
  <2>. DEFINE next == [at |-> NextCommand, from |-> effects.assets[a][1], to |-> effects.assets[a][2]]
  <2>1. next.at = NextCommand /\ next.from = minAsset[a] /\ next.to = minAsset'[a]
    BY <1>3
  <2>2. AssetMoves(a)' = AssetMoves(a) \cup {next}
    BY <1>1, <1>3
  <2>. HIDE DEF next
  <2>3. Leads(AssetMoves(a) \cup {next}, RiskLimit, next.to)
    BY <1>2, <2>1, LeadsOn
  <2>. QED BY <2>1, <2>2, <2>3 DEF MinAssetIsTold
<1>4. CASE a \notin DOMAIN effects.assets
  <2>1. AssetMoves(a)' = AssetMoves(a) /\ minAsset'[a] = minAsset[a]
    BY <1>1, <1>4
  <2>. QED BY <1>2, <2>1 DEF MinAssetIsTold
<1>. QED BY <1>3, <1>4

LEMMA AccountStays ==
  ASSUME NEW a, MinAssetIsTold(a), UNCHANGED journal, minAsset'[a] = minAsset[a]
  PROVE  MinAssetIsTold(a)'
<1>1. AssetMoves(a)' = AssetMoves(a)
  BY DEF AssetMoves, Events
<1>. QED BY <1>1 DEF MinAssetIsTold

\* Repricing concerns the joint's markets alone.
LEMMA EditedOutside ==
  ASSUME MarketShape, NEW r \in Requests, r.payload \in Edit, Edited(r), NEW m \in Created
  PROVE  /\ status'[m] = status[m]
         /\ m # r.market => price'[m] = price[m] /\ cond'[m] = cond[m]
         /\ m = r.market => price'[m] = IF r.payload.context = NoContext
                                        THEN AsEdited(r.payload.level) ELSE price[m]
<1>. DEFINE c == r.payload.context
            p == EditedPrice(r.market, c, AsEdited(r.payload.level))
<1>1. r.market \in Markets /\ m \in Markets /\ m \notin Seeds
  BY RequestOK, ConstantsOK
<1>2. \A j : Resynced(p, j)[m] = p[m]
  BY <1>1 DEF Resynced
<1>3. price'[m] = p[m] /\ UNCHANGED status
  BY <1>2 DEF Edited, MoveJoint
<1>4. /\ m # r.market => p[m] = price[m]
      /\ m = r.market => p[m] = IF c = NoContext THEN AsEdited(r.payload.level) ELSE price[m]
  BY <1>1 DEF EditedPrice, MarketShape
<1>5. m # r.market => cond'[m] = cond[m]
  BY <1>1 DEF Edited, EditedCond, MarketShape
<1>. QED BY <1>3, <1>4, <1>5

LEMMA ResolvedOutside ==
  ASSUME MarketShape, NEW r \in Requests, ToResolved(r.market, r.payload.resolve), NEW m \in Created
  PROVE  /\ m # r.market => price'[m] = price[m] /\ cond'[m] = cond[m] /\ status'[m] = status[m]
         /\ m = r.market => price'[m] = PointMass(r.payload.resolve)
<1>. DEFINE final == [price EXCEPT ![r.market] = PointMass(r.payload.resolve)]
<1>1. r.market \in Markets /\ m \in Markets /\ m \notin Seeds
  BY RequestOK, ConstantsOK
<1>2. \A j : Resynced(final, j)[m] = final[m]
  BY <1>1 DEF Resynced
<1>3. price'[m] = final[m]
  BY <1>2 DEF ToResolved, MoveJoint
<1>4. /\ m # r.market => final[m] = price[m]
      /\ m = r.market => final[m] = PointMass(r.payload.resolve)
  BY <1>1 DEF MarketShape
<1>5. m # r.market => cond'[m] = cond[m] /\ status'[m] = status[m]
  BY <1>1 DEF ToResolved, MarketShape
<1>. QED BY <1>3, <1>4, <1>5

\* An unconditional edit starts from the market's own price.
LEMMA BaseIsPrice ==
  ASSUME MarketShape, NEW m \in Markets
  PROVE  Base(m, NoContext) = price[m]
<1>1. NoContext \notin DOMAIN cond[m]
  BY RowsOK DEF MarketShape
<1>2. [NoContext EXCEPT !.wide = FALSE] = NoContext
  <2>1. NoContext.wide = FALSE /\ NoContext = [x \in DOMAIN NoContext |-> NoContext[x]]
    BY DEF NoContext
  <2>. QED BY <2>1
<1>3. PartialRow(m, NoContext) = {}
  BY <1>1, <1>2 DEF PartialRow
<1>. QED BY <1>1, <1>3 DEF Base

\* What the steps that store a command do to the journal.
LEMMA JournalKinds ==
  ASSUME LogShape, NEW r \in Requests,
         \/ EditApplied(r) \/ TradeApplied(r) \/ ResolutionApplied(r)
         \/ TransitionApplied(r) \/ NotApplied(r) \/ Commented(r)
  PROVE  /\ Asked(r)
         /\ \E outcome \in {"none", "accepted", "rejected"} :
              Store(r, outcome) /\ (outcome = "none" => Abandon(r))
         /\ \A m \in Markets \ {r.market} : journal'[m] = journal[m]
<1>1. Asked(r)
  BY DEF EditApplied, TradeApplied, ResolutionApplied, TransitionApplied, NotApplied, Commented
<1>2. \/ Abandon(r)
      \/ \E effects : Accept(r, effects)
      \/ Reject(r)
      \/ (\E outcome \in {"accepted", "rejected"} : Record(r, outcome)) /\ UNCHANGED journal
  <2>1. EditApplied(r) => Abandon(r) \/ \E effects : Accept(r, effects)
    BY DEF EditApplied, ApplyEdit
  <2>. QED BY <2>1 DEF TradeApplied, ResolutionApplied, TransitionApplied, NotApplied, Commented
<1>3. CASE Abandon(r)
  BY <1>1, <1>3 DEF Abandon
<1>4. CASE \E outcome \in {"accepted", "rejected"} : Record(r, outcome)
             /\ (UNCHANGED journal \/ \E effects, state : Emit(r, outcome, effects, state))
  <2>1. PICK outcome \in {"accepted", "rejected"} : Record(r, outcome)
             /\ (UNCHANGED journal \/ \E effects, state : Emit(r, outcome, effects, state))
    BY <1>4
  <2>2. Store(r, outcome) /\ outcome # "none"
    BY <2>1 DEF Record
  <2>3. \A m \in Markets \ {r.market} : journal'[m] = journal[m]
    BY <2>1, Emitted
  <2>. QED BY <1>1, <2>1, <2>2, <2>3
<1>5. Reject(r) \/ (\E effects : Accept(r, effects)) =>
        \E outcome \in {"accepted", "rejected"} : Record(r, outcome)
             /\ \E effects, state : Emit(r, outcome, effects, state)
  BY DEF Reject, Accept
<1>. QED BY <1>2, <1>3, <1>4, <1>5

\* A market's event tells of the price it moved.
LEMMA EditTold ==
  ASSUME LogShape, MarketShape, NEW r \in Requests, EditApplied(r), ~ Abandon(r),
         r.market \in Created, MarketTold(r.market)
  PROVE  MarketTold(r.market)'
<1>. DEFINE m == r.market
            c == r.payload.context
            old == Base(m, c)
            new == AsEdited(r.payload.level)
            effects == EditEffects(r, old, new)
            moved == {q \in effects.prices : q[1] = NoContext}
<1>1. Emit(r, "accepted", effects, ReplayState(m)')
  BY DEF EditApplied, ApplyEdit, Accept
<1>2. r.payload \in Edit /\ Edited(r)
  BY DEF EditApplied, ApplyEdit, Edited
<1>3. price'[m] = IF c = NoContext THEN new ELSE price[m]
  BY <1>2, EditedOutside
<1>4. effects.prices = {<<c, old, new>>}
  BY DEF EditEffects
<1>5. CASE c = NoContext
  <2>1. old = price[m]
    BY <1>5, BaseIsPrice, RequestOK
  <2>2. moved = {<<c, old, new>>}
    BY <1>4, <1>5
  <2>3. \E p \in moved : moved = {p} /\ p[2] = price[m] /\ p[3] = price'[m]
    <3>. DEFINE p == <<c, old, new>>
    <3>1. moved = {p} /\ p[2] = price[m] /\ p[3] = price'[m]
      BY <1>3, <1>5, <2>1, <2>2
    <3>. HIDE DEF p, moved
    <3>. QED BY <3>1
  <2>. QED BY <1>1, <2>3, MarketAccepted
<1>6. CASE c # NoContext
  <2>1. moved = {} /\ price'[m] = price[m]
    BY <1>3, <1>4, <1>6
  <2>. QED BY <1>1, <2>1, MarketAccepted
<1>. QED BY <1>5, <1>6

LEMMA ResolutionTold ==
  ASSUME LogShape, MarketShape, NEW r \in Requests, ResolutionApplied(r),
         r.market \in Created, MarketTold(r.market)
  PROVE  MarketTold(r.market)'
<1>. DEFINE m == r.market
            final == PointMass(r.payload.resolve)
            effects == ResolutionEffects(m, final)
            moved == {q \in effects.prices : q[1] = NoContext}
<1>1. Emit(r, "accepted", effects, ReplayState(m)') /\ ToResolved(m, r.payload.resolve)
  BY DEF ResolutionApplied, Accept
<1>2. price'[m] = final
  BY <1>1, ResolvedOutside
<1>3. effects.prices = IF price[m] = final THEN {} ELSE {<<NoContext, price[m], final>>}
  BY DEF ResolutionEffects
<1>4. \/ moved = {} /\ price'[m] = price[m]
      \/ \E p \in moved : moved = {p} /\ p[2] = price[m] /\ p[3] = price'[m]
  <2>1. CASE price[m] = final
    BY <1>2, <1>3, <2>1
  <2>2. CASE price[m] # final
    <3>. DEFINE p == <<NoContext, price[m], final>>
    <3>1. moved = {p} /\ p[2] = price[m] /\ p[3] = price'[m]
      BY <1>2, <1>3, <2>2
    <3>. HIDE DEF p, moved
    <3>. QED BY <3>1
  <2>. QED BY <2>1, <2>2
<1>. QED BY <1>1, <1>4, MarketAccepted

\* A trade and a change of status leave the price.
LEMMA UnmovedTold ==
  ASSUME LogShape, NEW r \in Requests, Accept(r, NoEffects), price' = price,
         MarketTold(r.market)
  PROVE  MarketTold(r.market)'
<1>1. NoEffects.prices = {}
  BY DEF NoEffects
<1>2. {q \in NoEffects.prices : q[1] = NoContext} = {} /\ price'[r.market] = price[r.market]
  BY <1>1
<1>3. Emit(r, "accepted", NoEffects, ReplayState(r.market)')
  BY DEF Accept
<1>. QED BY <1>2, <1>3, MarketAccepted

\* Nothing was told of a market that is only now created.
LEMMA CreatedTold ==
  ASSUME LogInv, MarketShape, KnownRequests, MarketsTold, NEW n \in Created, CreateMarket(n)
  PROVE  MarketsTold'
<1>1. UNCHANGED log_vars /\ ~ Exists(n) /\ UNCHANGED <<price, cond>>
      /\ status' = [status EXCEPT ![n] = "active"] /\ n \in Markets
  BY ConstantsOK DEF CreateMarket
<1>2. CommandsOn(n) = {} /\ Told(n) = {}
  BY <1>1 DEF CommandsOn, Told, KnownRequests, Known
<1>3. DOMAIN journal[n] = {}
  BY <1>1, <1>2 DEF LogInv, EventPerOutcome
<1>4. MarketTold(n)'
  <2>1. LastAccepted(n)' = {}
    BY <1>1, <1>3 DEF LastAccepted, log_vars
  <2>2. PriceIsTold(n)
    BY <1>2 DEF MarketsTold, MarketTold, Untorn
  <2>3. PriceMoves(n)' = PriceMoves(n)
    BY <1>1 DEF PriceMoves, log_vars
  <2>4. PriceIsTold(n)'
    BY <1>1, <2>2, <2>3 DEF PriceIsTold
  <2>. QED BY <2>1, <2>4 DEF MarketTold, HashIsLive
<1>5. ASSUME NEW m \in Created, m # n, Untorn(CommandsOn(m))'
      PROVE  MarketTold(m)'
  <2>1. Untorn(CommandsOn(m))
    BY <1>1, <1>5 DEF Untorn, CommandsOn, log_vars
  <2>2. status'[m] = status[m] /\ price'[m] = price[m] /\ cond'[m] = cond[m]
        /\ journal'[m] = journal[m]
    BY <1>1, <1>5, ConstantsOK DEF MarketShape, log_vars
  <2>. QED BY <2>1, <2>2, MarketStays DEF MarketsTold
<1>. QED BY <1>4, <1>5 DEF MarketsTold

\* No event is left to tell of anything, and prices and limits are the first.
Forgotten ==
  /\ journal = [m \in Markets |-> <<>>]
  /\ \A m \in Created : price[m] = Uniform
  /\ minAsset = [a \in Accounts |-> RiskLimit]

LEMMA ForgottenTold == Forgotten => MarketsTold /\ AccountsTold
<1>. SUFFICES ASSUME Forgotten PROVE MarketsTold /\ AccountsTold
  OBVIOUS
<1>. USE DEF Forgotten
<1>1. \A m \in Markets : journal[m] = <<>> /\ DOMAIN journal[m] = {}
  BY EmptyIsSequence
<1>2. \A m \in Markets : Range(journal[m]) = {}
  BY <1>1 DEF Range
<1>3. Events = {} /\ \A m \in Markets : PriceMoves(m) = {} /\ LastAccepted(m) = {}
  BY <1>1, <1>2 DEF Events, PriceMoves, LastAccepted
<1>4. \A a : AssetMoves(a) = {}
  BY <1>3 DEF AssetMoves
<1>5. MarketsTold
  BY <1>3, LeadsNothing, ConstantsOK DEF MarketsTold, MarketTold, HashIsLive, PriceIsTold
<1>6. AccountsTold
  BY <1>4, LeadsNothing DEF AccountsTold, MinAssetIsTold
<1>. QED BY <1>5, <1>6

LEMMA RestartTold ==
  ASSUME Restart
  PROVE  MarketsTold' /\ AccountsTold'
<1>1. Forgotten'
  BY ConstantsOK DEF Restart, Resynced, Forgotten
<1>. QED BY <1>1, ForgottenTold, PTL

LEMMA MarketsToldStep ==
  ASSUME LogInv, MarketShape, KnownRequests, MarketsTold, [Next]_vars
  PROVE  MarketsTold'
<1>0. LogShape
  BY DEF LogInv
<1>1. ASSUME NEW r \in Requests,
             \/ EditApplied(r) \/ TradeApplied(r) \/ ResolutionApplied(r)
             \/ TransitionApplied(r) \/ NotApplied(r) \/ Commented(r)
      PROVE  MarketsTold'
  <2>. SUFFICES ASSUME NEW m \in Created, Untorn(CommandsOn(m))' PROVE MarketTold(m)'
    BY DEF MarketsTold
  <2>1. PICK outcome \in {"none", "accepted", "rejected"} :
          Store(r, outcome) /\ (outcome = "none" => Abandon(r)) /\ Asked(r)
    BY <1>0, <1>1, JournalKinds
  <2>2. Untorn(CommandsOn(m)) /\ (m = r.market => outcome # "none")
    BY <1>0, <2>1, TornStays
  <2>3. MarketTold(m) /\ m \in Markets /\ r.market \in Markets
    BY <2>2, ConstantsOK, RequestOK DEF MarketsTold
  <2>4. m # r.market => journal'[m] = journal[m]
    BY <1>0, <1>1, <2>3, JournalKinds
  <2>5. m = r.market => ~ Abandon(r)
    <3>1. ASSUME Abandon(r) PROVE outcome = "none"
      <4>1. Store(r, "none")
        BY <3>1 DEF Abandon
      <4>2. commands'[NextCommand].outcome = "none"
        BY <1>0, <2>1, <4>1, Stored
      <4>3. commands'[NextCommand].outcome = outcome
        BY <1>0, <2>1, Stored
      <4>. QED BY <4>2, <4>3
    <3>. QED BY <2>2, <3>1
  <2>6. CASE EditApplied(r)
    <3>1. CASE m = r.market
      BY <1>0, <2>3, <2>5, <2>6, <3>1, EditTold
    <3>2. CASE m # r.market
      <4>1. r.payload \in Edit /\ Edited(r)
        BY <2>6 DEF EditApplied, ApplyEdit, Edited
      <4>2. status'[m] = status[m] /\ price'[m] = price[m] /\ cond'[m] = cond[m]
        BY <3>2, <4>1, EditedOutside
      <4>. QED BY <2>3, <2>4, <3>2, <4>2, MarketStays
    <3>. QED BY <3>1, <3>2
  <2>7. CASE ResolutionApplied(r)
    <3>1. CASE m = r.market
      BY <1>0, <2>3, <2>7, <3>1, ResolutionTold
    <3>2. CASE m # r.market
      <4>1. status'[m] = status[m] /\ price'[m] = price[m] /\ cond'[m] = cond[m]
        BY <2>7, <3>2, ResolvedOutside DEF ResolutionApplied
      <4>. QED BY <2>3, <2>4, <3>2, <4>1, MarketStays
    <3>. QED BY <3>1, <3>2
  <2>8. CASE TradeApplied(r) \/ TransitionApplied(r)
    <3>1. CASE m = r.market
      <4>1. Accept(r, NoEffects) /\ price' = price
        BY <2>8 DEF TradeApplied, TransitionApplied, market_vars
      <4>. QED BY <1>0, <2>3, <3>1, <4>1, UnmovedTold
    <3>2. CASE m # r.market
      <4>1. status'[m] = status[m] /\ price'[m] = price[m] /\ cond'[m] = cond[m]
        BY <2>3, <2>8, <3>2 DEF TradeApplied, TransitionApplied, market_vars, MarketShape
      <4>. QED BY <2>3, <2>4, <3>2, <4>1, MarketStays
    <3>. QED BY <3>1, <3>2
  <2>9. CASE NotApplied(r) \/ Commented(r)
    <3>1. UNCHANGED market_vars
      BY <2>9 DEF NotApplied, Commented, Reject, Elsewhere
    <3>2. CASE m = r.market /\ Reject(r)
      <4>1. Emit(r, "rejected", NoEffects, <<>>)
        BY <3>2 DEF Reject
      <4>. QED BY <1>0, <2>3, <3>1, <3>2, <4>1, MarketRejected
    <3>3. CASE ~ (m = r.market /\ Reject(r))
      <4>1. journal'[m] = journal[m]
        BY <2>4, <2>5, <2>9, <3>3 DEF NotApplied, Commented
      <4>2. status'[m] = status[m] /\ price'[m] = price[m] /\ cond'[m] = cond[m]
        BY <3>1 DEF market_vars
      <4>. QED BY <2>3, <4>1, <4>2, MarketStays
    <3>. QED BY <3>2, <3>3
  <2>. QED BY <1>1, <2>6, <2>7, <2>8, <2>9
<1>2. CASE UNCHANGED vars
  <2>1. UNCHANGED <<commands, journal, status, price, cond>>
    BY <1>2 DEF vars, log_vars, market_vars
  <2>2. \A m : Untorn(CommandsOn(m))' <=> Untorn(CommandsOn(m))
    BY <2>1 DEF Untorn, CommandsOn
  <2>3. ASSUME NEW m \in Created, MarketTold(m) PROVE MarketTold(m)'
    BY <2>1, <2>3, MarketStays
  <2>. QED BY <2>2, <2>3 DEF MarketsTold
<1>. QED BY <1>1, <1>2, CreatedTold, RestartTold, StepKinds

LEMMA AccountsToldStep ==
  ASSUME LogInv, MarketShape, AccountShape, AccountsTold, [Next]_vars
  PROVE  AccountsTold'
<1>0. LogShape
  BY DEF LogInv
<1>1. ASSUME NEW r \in Requests,
             \/ EditApplied(r) \/ TradeApplied(r) \/ ResolutionApplied(r)
             \/ TransitionApplied(r) \/ NotApplied(r) \/ Commented(r)
      PROVE  AccountsTold'
  <2>. SUFFICES ASSUME NEW a \in Accounts, Untorn(CommandsOf(a))' PROVE MinAssetIsTold(a)'
    BY DEF AccountsTold
  <2>1. PICK outcome \in {"none", "accepted", "rejected"} :
          Store(r, outcome) /\ (outcome = "none" => Abandon(r)) /\ Asked(r)
    BY <1>0, <1>1, JournalKinds
  <2>2. Untorn(CommandsOf(a)) /\ (a = r.account => outcome # "none")
    BY <1>0, <2>1, TornStays
  <2>3. MinAssetIsTold(a) /\ r.market \in Markets /\ r.account \in Accounts
    BY <2>2, RequestOK DEF AccountsTold
  <2>5. a = r.account => ~ Abandon(r)
    <3>1. ASSUME Abandon(r) PROVE outcome = "none"
      <4>1. Store(r, "none")
        BY <3>1 DEF Abandon
      <4>2. commands'[NextCommand].outcome = "none"
        BY <1>0, <2>1, <4>1, Stored
      <4>3. commands'[NextCommand].outcome = outcome
        BY <1>0, <2>1, Stored
      <4>. QED BY <4>2, <4>3
    <3>. QED BY <2>2, <3>1
  <2>6. CASE EditApplied(r)
    <3>. DEFINE old == Base(r.market, r.payload.context)
                new == AsEdited(r.payload.level)
                effects == EditEffects(r, old, new)
    <3>1. Impact[old][new] \in Int
      <4>1. old \in Levels
        BY <2>3, BaseOK
      <4>2. new \in Levels
        BY <2>6, EditOK, LevelsOK DEF EditApplied
      <4>. HIDE DEF old, new
      <4>. QED BY <4>1, <4>2, ConstantsOK
    <3>2. Charge(r.account, r.market, Impact[old][new])
          /\ (Abandon(r) \/ Accept(r, effects))
      BY <2>6 DEF EditApplied, ApplyEdit
    <3>3. effects.assets = [b \in {r.account} |-> <<minAsset[b], minAsset'[b]>>]
      BY DEF EditEffects
    <3>. HIDE DEF old, new, effects
    <3>4. a # r.account => minAsset'[a] = minAsset[a]
      BY <2>3, <3>1, <3>2, ChargeOK
    <3>5. CASE Abandon(r)
      BY <2>3, <2>5, <3>4, <3>5, AccountStays DEF Abandon
    <3>6. CASE Accept(r, effects)
      <4>1. Emit(r, "accepted", effects, ReplayState(r.market)')
        BY <3>6 DEF Accept
      <4>2. IF a \in DOMAIN effects.assets
            THEN effects.assets[a] = <<minAsset[a], minAsset'[a]>>
            ELSE minAsset'[a] = minAsset[a]
        BY <3>3, <3>4
      <4>. QED BY <1>0, <2>3, <4>1, <4>2, AccountTold
    <3>. QED BY <3>2, <3>5, <3>6
  <2>7. CASE ResolutionApplied(r)
    <3>. DEFINE m == r.market
                effects == ResolutionEffects(m, PointMass(r.payload.resolve))
    <3>1. ReleaseRisk(m) /\ Emit(r, "accepted", effects, ReplayState(m)')
      BY <2>7 DEF ResolutionApplied, Accept
    <3>2. effects.assets = [b \in {d \in Accounts : m \in DOMAIN consumed[d]} |->
                              <<minAsset[b], minAsset'[b]>>]
      BY DEF ResolutionEffects
    <3>3. m \notin DOMAIN consumed[a] => minAsset'[a] = minAsset[a]
      BY <3>1, ReleaseOK
    <3>. HIDE DEF m, effects
    <3>4. IF a \in DOMAIN effects.assets
          THEN effects.assets[a] = <<minAsset[a], minAsset'[a]>>
          ELSE minAsset'[a] = minAsset[a]
      BY <3>2, <3>3
    <3>. QED BY <1>0, <2>3, <3>1, <3>4, AccountTold
  <2>8. CASE \/ TradeApplied(r) \/ TransitionApplied(r)
             \/ NotApplied(r) \/ Commented(r)
    <3>1. minAsset' = minAsset
      BY <2>8 DEF TradeApplied, TransitionApplied, NotApplied, Commented, Reject, Elsewhere,
                  account_vars
    <3>2. UNCHANGED journal \/ \E o, state : Emit(r, o, NoEffects, state)
      BY <2>8 DEF TradeApplied, TransitionApplied, NotApplied, Commented, Reject, Accept, Abandon
    <3>3. a \notin DOMAIN NoEffects.assets
      <4>1. NoEffects.assets = <<>>
        BY DEF NoEffects
      <4>. QED BY <4>1, EmptyIsSequence
    <3>4. CASE UNCHANGED journal
      BY <2>3, <3>1, <3>4, AccountStays
    <3>5. CASE \E o, state : Emit(r, o, NoEffects, state)
      BY <1>0, <2>3, <3>1, <3>3, <3>5, AccountTold
    <3>. QED BY <3>2, <3>4, <3>5
  <2>. QED BY <1>1, <2>6, <2>7, <2>8
<1>2. CASE UNCHANGED <<commands, journal, minAsset>>
  <2>1. \A a : Untorn(CommandsOf(a))' <=> Untorn(CommandsOf(a))
    BY <1>2 DEF Untorn, CommandsOf
  <2>2. ASSUME NEW a \in Accounts, MinAssetIsTold(a) PROVE MinAssetIsTold(a)'
    BY <1>2, <2>2, AccountStays
  <2>. QED BY <2>1, <2>2 DEF AccountsTold
<1>3. UNCHANGED vars \/ (\E m \in Created : CreateMarket(m)) => UNCHANGED <<commands, journal, minAsset>>
  BY DEF vars, CreateMarket, log_vars, account_vars
<1>. QED BY <1>1, <1>2, <1>3, RestartTold, StepKinds

-----------------------------------------------------------------------------
(* What the read routes join: orders and commands.  An order is of one     *)
(* command, which it tells the kind and the outcome of.                    *)

Traces(o, c) ==
  /\ o.market = c.request.market /\ o.account = c.request.account
  /\ IF IsEdit(o)
     THEN /\ c.request.payload \in Edit
          /\ c.outcome = IF ScoreIsDefined(o.old, o.new) THEN "accepted" ELSE "none"
     ELSE IsTrade(o) /\ c.request.payload \in Trade /\ c.outcome = "accepted"

OrdersTrace ==
  \A i \in DOMAIN orders :
    /\ orders[i].command \in DOMAIN commands
    /\ Traces(orders[i], commands[orders[i].command])
    /\ \A k \in DOMAIN orders : k # i => orders[k].command # orders[i].command

\* Commands and orders that are stored stay as they are.
Grows ==
  /\ \A c \in DOMAIN commands : c \in DOMAIN commands' /\ commands'[c] = commands[c]
  /\ \A i \in DOMAIN orders : i \in DOMAIN orders' /\ orders'[i] = orders[i]

LEMMA OrdersAdd ==
  ASSUME AccountShape, NEW e, orders' = Append(orders, e)
  PROVE  LET n == Len(orders) + 1
         IN  /\ DOMAIN orders' = DOMAIN orders \cup {n} /\ n \notin DOMAIN orders
             /\ orders'[n] = e
             /\ \A i \in DOMAIN orders : orders'[i] = orders[i]
BY Appended DEF AccountShape

LEMMA TraceMore ==
  ASSUME LogShape, AccountShape, OrdersTrace, NEW r \in Requests, Asked(r),
         NEW outcome \in {"none", "accepted", "rejected"}, Store(r, outcome),
         NEW e, orders' = Append(orders, e), e.command = NextCommand,
         Traces(e, [request |-> r, outcome |-> outcome])
  PROVE  OrdersTrace' /\ Grows
<1>. DEFINE n == Len(orders) + 1
            c == [request |-> r, outcome |-> outcome]
<1>1. /\ DOMAIN commands' = DOMAIN commands \cup {NextCommand} /\ NextCommand \notin DOMAIN commands
      /\ commands'[NextCommand].request = c.request /\ commands'[NextCommand].outcome = c.outcome
      /\ \A i \in DOMAIN commands : commands'[i] = commands[i]
  BY Stored
<1>2. /\ DOMAIN orders' = DOMAIN orders \cup {n} /\ n \notin DOMAIN orders /\ orders'[n] = e
      /\ \A i \in DOMAIN orders : orders'[i] = orders[i]
  BY OrdersAdd
<1>3. Traces(e, commands'[NextCommand])
  BY <1>1 DEF Traces
<1>. HIDE DEF n, c
<1>4. ASSUME NEW i \in DOMAIN orders
      PROVE  /\ orders'[i].command \in DOMAIN commands
             /\ Traces(orders'[i], commands'[orders'[i].command])
             /\ \A k \in DOMAIN orders : k # i => orders'[k].command # orders'[i].command
  BY <1>1, <1>2 DEF OrdersTrace
<1>. QED BY <1>1, <1>2, <1>3, <1>4 DEF OrdersTrace, Grows, Traces

LEMMA TraceStays ==
  ASSUME LogShape, OrdersTrace, NEW r \in Requests, Asked(r),
         NEW outcome \in {"none", "accepted", "rejected"}, Store(r, outcome), UNCHANGED orders
  PROVE  OrdersTrace' /\ Grows
<1>1. \A i \in DOMAIN commands : i \in DOMAIN commands' /\ commands'[i] = commands[i]
  BY Stored
<1>. QED BY <1>1 DEF OrdersTrace, Grows, Traces

\* What an applied edit and an applied trade add to the orders.
LEMMA EditAdds ==
  ASSUME LogShape, MarketShape, AccountShape, NEW r \in Requests, EditApplied(r)
  PROVE  LET old == Base(r.market, r.payload.context)
             new == AsEdited(r.payload.level)
         IN  /\ old \in Levels /\ new \in Levels
             /\ \E filled \in BOOLEAN :
                  LET e == EditOrder(r, old, new, filled)
                  IN  /\ orders' = Append(orders, e) /\ e \in EditOrders
                      /\ e.command = NextCommand /\ e.market = r.market /\ e.account = r.account
                      /\ e.context = r.payload.context /\ e.old = old /\ e.new = new
                      /\ IsEdit(e) /\ ~ IsTrade(e)
             /\ IF ScoreIsDefined(old, new) THEN Accept(r, EditEffects(r, old, new)) ELSE Abandon(r)
<1>. DEFINE old == Base(r.market, r.payload.context)
            new == AsEdited(r.payload.level)
<1>1. old \in Levels /\ new \in Levels /\ r.payload \in Edit /\ NextCommand \in Nat
  BY RequestOK, EditOK, BaseOK, LevelsOK, CommandIsNat DEF EditApplied
<1>2. PICK filled \in BOOLEAN : orders' = Append(orders, EditOrder(r, old, new, filled))
  BY DEF EditApplied, ApplyEdit
<1>3. IF ScoreIsDefined(old, new) THEN Accept(r, EditEffects(r, old, new)) ELSE Abandon(r)
  BY DEF EditApplied, ApplyEdit
<1>. HIDE DEF old, new
<1>. DEFINE e == EditOrder(r, old, new, filled)
<1>4. e \in EditOrders
  BY <1>1, EditOrderTyped
<1>5. /\ e.command = NextCommand /\ e.market = r.market /\ e.account = r.account
      /\ e.context = r.payload.context /\ e.old = old /\ e.new = new
  BY DEF EditOrder
<1>6. IsEdit(e) /\ ~ IsTrade(e)
  BY <1>4, KindOfOrder DEF IsEdit, IsTrade
<1>. HIDE DEF e
<1>. QED BY <1>1, <1>2, <1>3, <1>4, <1>5, <1>6 DEF old, new, e

LEMMA TradeAdds ==
  ASSUME LogShape, MarketShape, NEW r \in Requests, TradeApplied(r)
  PROVE  LET e == TradeOrder(r)
         IN  /\ orders' = Append(orders, e) /\ e \in TradeOrders
             /\ e.command = NextCommand /\ e.market = r.market /\ e.account = r.account
             /\ ~ IsEdit(e) /\ IsTrade(e)
             /\ Accept(r, NoEffects)
<1>1. r.payload \in Trade /\ NextCommand \in Nat
  BY CommandIsNat DEF TradeApplied
<1>2. TradeOrder(r) \in TradeOrders
  BY <1>1, TradeOrderTyped
<1>3. ~ IsEdit(TradeOrder(r)) /\ IsTrade(TradeOrder(r))
  BY <1>2, KindOfOrder DEF IsEdit, IsTrade
<1>4. /\ TradeOrder(r).command = NextCommand /\ TradeOrder(r).market = r.market
      /\ TradeOrder(r).account = r.account
  BY DEF TradeOrder
<1>. QED BY <1>2, <1>3, <1>4 DEF TradeApplied

LEMMA TraceStep ==
  ASSUME LogShape, MarketShape, AccountShape, OrdersTrace, [Next]_vars
  PROVE  OrdersTrace' /\ (~ Restart => Grows)
<1>1. ASSUME NEW r \in Requests, EditApplied(r) PROVE OrdersTrace' /\ Grows
  <2>. DEFINE old == Base(r.market, r.payload.context)
              new == AsEdited(r.payload.level)
              outcome == IF ScoreIsDefined(old, new) THEN "accepted" ELSE "none"
  <2>1. Asked(r) /\ Store(r, outcome) /\ outcome \in {"none", "accepted", "rejected"}
    BY <1>1, EditAdds DEF EditApplied, Accept, Record, Abandon
  <2>2. PICK e : /\ orders' = Append(orders, e) /\ e.command = NextCommand
                 /\ e.market = r.market /\ e.account = r.account
                 /\ e.old = old /\ e.new = new /\ IsEdit(e)
    BY <1>1, EditAdds
  <2>3. Traces(e, [request |-> r, outcome |-> outcome])
    BY <1>1, <2>2 DEF Traces, EditApplied
  <2>. HIDE DEF old, new, outcome
  <2>. QED BY <2>1, <2>2, <2>3, TraceMore
<1>2. ASSUME NEW r \in Requests, TradeApplied(r) PROVE OrdersTrace' /\ Grows
  <2>. DEFINE e == TradeOrder(r)
  <2>1. /\ orders' = Append(orders, e) /\ e.command = NextCommand
        /\ e.market = r.market /\ e.account = r.account /\ ~ IsEdit(e) /\ IsTrade(e)
        /\ Asked(r) /\ Store(r, "accepted") /\ r.payload \in Trade
    BY <1>2, TradeAdds DEF TradeApplied, Accept, Record
  <2>. HIDE DEF e
  <2>2. Traces(e, [request |-> r, outcome |-> "accepted"])
    BY <2>1 DEF Traces
  <2>. QED BY <2>1, <2>2, TraceMore
<1>3. ASSUME NEW r \in Requests,
             ResolutionApplied(r) \/ TransitionApplied(r) \/ NotApplied(r) \/ Commented(r)
      PROVE  OrdersTrace' /\ Grows
  <2>1. UNCHANGED orders
    BY <1>3 DEF ResolutionApplied, TransitionApplied, NotApplied, Commented, Reject, Elsewhere,
                account_vars
  <2>2. PICK outcome \in {"none", "accepted", "rejected"} : Store(r, outcome) /\ Asked(r)
    BY <1>3, JournalKinds
  <2>. QED BY <2>1, <2>2, TraceStays
<1>4. CASE UNCHANGED <<commands, orders>>
  BY <1>4 DEF OrdersTrace, Grows, Traces
<1>5. UNCHANGED vars \/ (\E m \in Created : CreateMarket(m)) => UNCHANGED <<commands, orders>>
  BY DEF vars, CreateMarket, log_vars, account_vars
<1>6. CASE Restart
  BY <1>6, EmptyIsSequence DEF Restart, OrdersTrace
<1>. QED BY <1>1, <1>2, <1>3, <1>4, <1>5, <1>6, StepKinds

-----------------------------------------------------------------------------
(* What the edits of an account cost it                                    *)

Cost(a, m) == [i \in EditsOf(a, m) |-> Impact[orders[i].old][orders[i].new]]
Consumption(a, m) == IF m \in DOMAIN consumed[a] THEN consumed[a][m] ELSE 0

EditsCharged ==
  \A a \in Accounts, m \in Markets :
    status[m] # "resolved" => Consumption(a, m) = SumFunction(Cost(a, m))

\* The orders of a market or an account, and what they are of.
LEMMA OrdersOK ==
  ASSUME AccountShape
  PROVE  /\ IsFiniteSet(DOMAIN orders) /\ DOMAIN orders \subseteq Nat \ {0}
         /\ Cardinality(DOMAIN orders) = Len(orders)
         /\ \A i \in DOMAIN orders :
              /\ orders[i].market \in Markets /\ orders[i].account \in Accounts
              /\ IsEdit(orders[i]) <=> ~ IsTrade(orders[i])
              /\ IsEdit(orders[i]) =>
                   /\ orders[i] \in EditOrders
                   /\ orders[i].old \in Levels /\ orders[i].new \in Levels
                   /\ Impact[orders[i].old][orders[i].new] \in Int
              /\ IsTrade(orders[i]) =>
                   /\ orders[i] \in TradeOrders
                   /\ orders[i].outcome \in Outcomes /\ orders[i].delta \in Int
                   /\ orders[i].price \in Levels
<1>1. DOMAIN orders = 1..Len(orders) /\ Len(orders) \in Nat
  BY Appended DEF AccountShape
<1>2. IsFiniteSet(1..Len(orders)) /\ Cardinality(1..Len(orders)) = Len(orders)
  <2>. DEFINE n == Len(orders)
  <2>1. n \in Nat
    BY <1>1
  <2>. HIDE DEF n
  <2>2. IsFiniteSet(1..n) /\ Cardinality(1..n) = n
    BY <2>1, FS_Interval
  <2>. QED BY <2>2 DEF n
<1>3. ASSUME NEW i \in DOMAIN orders
      PROVE  /\ orders[i].market \in Markets /\ orders[i].account \in Accounts
             /\ IsEdit(orders[i]) <=> ~ IsTrade(orders[i])
             /\ IsEdit(orders[i]) =>
                  /\ orders[i] \in EditOrders
                  /\ orders[i].old \in Levels /\ orders[i].new \in Levels
                  /\ Impact[orders[i].old][orders[i].new] \in Int
             /\ IsTrade(orders[i]) =>
                  /\ orders[i] \in TradeOrders
                  /\ orders[i].outcome \in Outcomes /\ orders[i].delta \in Int
                  /\ orders[i].price \in Levels
  <2>1. CASE orders[i] \in EditOrders
    <3>1. /\ orders[i].market \in Markets /\ orders[i].account \in Accounts
          /\ orders[i].old \in Levels /\ orders[i].new \in Levels
      BY <2>1 DEF EditOrders
    <3>2. Impact[orders[i].old][orders[i].new] \in Int
      BY <3>1, ConstantsOK
    <3>. QED BY <2>1, <3>1, <3>2, KindOfOrder DEF IsEdit, IsTrade
  <2>2. CASE orders[i] \in TradeOrders
    <3>1. /\ orders[i].market \in Markets /\ orders[i].account \in Accounts
          /\ orders[i].outcome \in Outcomes /\ orders[i].delta \in Int
          /\ orders[i].price \in Levels
      BY <2>2 DEF TradeOrders
    <3>. QED BY <2>2, <3>1, KindOfOrder DEF IsEdit, IsTrade
  <2>. QED BY <2>1, <2>2 DEF AccountShape
<1>4. DOMAIN orders \subseteq Nat \ {0}
  BY <1>1
<1>. QED BY <1>1, <1>2, <1>3, <1>4

LEMMA CostOK ==
  ASSUME AccountShape, NEW a, NEW m
  PROVE  /\ IsFiniteSet(EditsOf(a, m)) /\ Cost(a, m) \in [EditsOf(a, m) -> Int]
         /\ SumFunction(Cost(a, m)) \in Int
<1>1. IsFiniteSet(EditsOf(a, m)) /\ EditsOf(a, m) \subseteq DOMAIN orders
      /\ \A i \in EditsOf(a, m) : Impact[orders[i].old][orders[i].new] \in Int
  <2>1. EditsOf(a, m) \subseteq DOMAIN orders /\ \A i \in EditsOf(a, m) : IsEdit(orders[i])
    BY DEF EditsOf, OrdersOf
  <2>. QED BY <2>1, OrdersOK, FS_Subset
<1>2. Cost(a, m) \in [EditsOf(a, m) -> Int] /\ DOMAIN Cost(a, m) = EditsOf(a, m)
  BY <1>1 DEF Cost
<1>3. SumFunctionOnSet(Cost(a, m), EditsOf(a, m)) \in Int
  BY <1>1, <1>2, SumRemove
<1>. QED BY <1>1, <1>2, <1>3 DEF SumFunction

\* An order that is not an edit of the account on the market leaves its cost.
LEMMA CostStays ==
  ASSUME AccountShape, NEW e, orders' = Append(orders, e), NEW a, NEW m,
         ~ (IsEdit(e) /\ e.account = a /\ e.market = m)
  PROVE  Cost(a, m)' = Cost(a, m)
<1>. DEFINE n == Len(orders) + 1
<1>1. /\ DOMAIN orders' = DOMAIN orders \cup {n} /\ orders'[n] = e
      /\ \A i \in DOMAIN orders : orders'[i] = orders[i]
  BY OrdersAdd
<1>. HIDE DEF n
<1>2. EditsOf(a, m)' = EditsOf(a, m) /\ EditsOf(a, m) \subseteq DOMAIN orders
  BY <1>1 DEF EditsOf, OrdersOf, OrdersOn
<1>. QED BY <1>1, <1>2 DEF Cost

\* An edit of it adds its impact.
LEMMA CostMore ==
  ASSUME AccountShape, NEW e, orders' = Append(orders, e), IsEdit(e),
         Impact[e.old][e.new] \in Int
  PROVE  SumFunction(Cost(e.account, e.market)')
           = SumFunction(Cost(e.account, e.market)) + Impact[e.old][e.new]
<1>. DEFINE n == Len(orders) + 1
            S == EditsOf(e.account, e.market)
            f == Cost(e.account, e.market)
            d == Impact[e.old][e.new]
            g == [i \in S \cup {n} |-> Impact[orders'[i].old][orders'[i].new]]
<1>1. /\ DOMAIN orders' = DOMAIN orders \cup {n} /\ n \notin DOMAIN orders
      /\ orders'[n] = e
      /\ \A i \in DOMAIN orders : orders'[i] = orders[i]
  BY OrdersAdd
<1>2. /\ IsFiniteSet(S) /\ f \in [S -> Int] /\ S \subseteq DOMAIN orders
      /\ \A i \in S : f[i] = Impact[orders[i].old][orders[i].new]
  BY CostOK DEF Cost, EditsOf, OrdersOf
<1>. HIDE DEF n
<1>3. EditsOf(e.account, e.market)' = S \cup {n} /\ n \notin S
  BY <1>1, <1>2 DEF EditsOf, OrdersOf, OrdersOn
<1>4. Cost(e.account, e.market)' = g
  BY <1>3 DEF Cost
<1>5. (\A i \in S : g[i] = f[i] /\ f[i] \in Int) /\ g[n] = d /\ d \in Int
  BY <1>1, <1>2
<1>. DEFINE T == S \cup {n}
<1>6. IsFiniteSet(T) /\ n \in T /\ S = T \ {n}
  BY <1>2, <1>3, FS_AddElement
<1>7. DOMAIN g = T /\ g = [i \in T |-> g[i]]
  OBVIOUS
<1>. HIDE DEF S, f, g, d
<1>8. g \in [T -> Int]
  BY <1>5, <1>7
<1>. HIDE DEF T
<1>9. f \in [T \ {n} -> Int] /\ \A i \in T \ {n} : f[i] = g[i]
  BY <1>2, <1>5, <1>6
<1>10. SumFunction(g) = SumFunction(f) + g[n]
  BY ONLY <1>6, <1>8, <1>9, SumWithout
<1>. QED BY <1>4, <1>5, <1>10 DEF f, d

LEMMA ChargedBegins == NoAccounts => EditsCharged
<1>. SUFFICES ASSUME NoAccounts PROVE EditsCharged
  OBVIOUS
<1>1. \A a, m : EditsOf(a, m) = {}
  BY EmptyIsSequence DEF NoAccounts, EditsOf, OrdersOf
<1>2. \A a, m : Cost(a, m) = [i \in {} |-> 0]
  BY <1>1 DEF Cost
<1>3. \A a \in Accounts, m \in Markets : Consumption(a, m) = 0
  BY DEF NoAccounts, Consumption
<1>. QED BY <1>2, <1>3, NothingOwed DEF EditsCharged

\* Only a resolution resolves.
LEMMA ResolvedStays ==
  ASSUME MarketShape, NEW r \in Requests, TransitionApplied(r) \/ NotApplied(r) \/ Commented(r)
  PROVE  \A m \in Markets : status'[m] = "resolved" <=> status[m] = "resolved"
<1>1. CASE TransitionApplied(r)
  BY <1>1 DEF TransitionApplied, MarketShape
<1>2. CASE NotApplied(r) \/ Commented(r)
  BY <1>2 DEF NotApplied, Commented, Reject, Elsewhere, market_vars
<1>. QED BY <1>1, <1>2

LEMMA ChargedStep ==
  ASSUME LogShape, MarketShape, AccountShape, EditsCharged, [Next]_vars
  PROVE  EditsCharged'
<1>1. ASSUME NEW r \in Requests, EditApplied(r) PROVE EditsCharged'
  <2>. DEFINE a == r.account
              m == r.market
              old == Base(m, r.payload.context)
              new == AsEdited(r.payload.level)
              impact == Impact[old][new]
  <2>1. a \in Accounts /\ m \in Markets /\ impact \in Int
    BY <1>1, RequestOK, EditAdds, ConstantsOK
  <2>2. PICK e : /\ orders' = Append(orders, e) /\ IsEdit(e) /\ e.market = m /\ e.account = a
                 /\ Impact[e.old][e.new] = impact
    BY <1>1, EditAdds
  <2>3. Charge(a, m, impact) /\ status' = status /\ status[m] = "active"
    BY <1>1 DEF EditApplied, ApplyEdit
  <2>. HIDE DEF a, m, impact
  <2>4. /\ \A b \in Accounts \ {a} : consumed'[b] = consumed[b]
        /\ DOMAIN consumed'[a] = DOMAIN consumed[a] \cup {m}
        /\ \A n \in DOMAIN consumed'[a] : consumed'[a][n] =
             (IF n \in DOMAIN consumed[a] THEN consumed[a][n] ELSE 0) + (IF n = m THEN impact ELSE 0)
    BY <2>1, <2>3, ChargeOK
  <2>5. Consumption(a, m)' = Consumption(a, m) + impact
    BY <2>4 DEF Consumption
  <2>6. ASSUME NEW b \in Accounts, NEW n \in Markets, ~ (b = a /\ n = m)
        PROVE  Consumption(b, n)' = Consumption(b, n)
    <3>1. CASE b # a
      BY <2>4, <3>1 DEF Consumption
    <3>2. CASE b = a /\ n # m
      <4>1. n \in DOMAIN consumed[a] => consumed[a][n] \in Int
        BY <2>1, SlicesOK DEF AccountShape
      <4>. QED BY <2>4, <3>2, <4>1 DEF Consumption
    <3>. QED BY <2>6, <3>1, <3>2
  <2>7. SumFunction(Cost(a, m)') = SumFunction(Cost(a, m)) + impact
    BY <2>1, <2>2, CostMore
  <2>8. \A b \in Accounts, n \in Markets : ~ (b = a /\ n = m) => Cost(b, n)' = Cost(b, n)
    BY <2>2, CostStays
  <2>9. Consumption(a, m) = SumFunction(Cost(a, m))
    BY <2>1, <2>3 DEF EditsCharged
  <2>10. ASSUME NEW b \in Accounts, NEW n \in Markets, status'[n] # "resolved"
         PROVE  Consumption(b, n)' = SumFunction(Cost(b, n)')
    <3>1. CASE b = a /\ n = m
      BY <2>5, <2>7, <2>9, <3>1
    <3>2. CASE ~ (b = a /\ n = m)
      <4>1. Consumption(b, n)' = Consumption(b, n) /\ Cost(b, n)' = Cost(b, n)
        BY <2>6, <2>8, <3>2
      <4>. QED BY <2>3, <2>10, <4>1 DEF EditsCharged
    <3>. QED BY <3>1, <3>2
  <2>. QED BY <2>10 DEF EditsCharged
<1>2. ASSUME NEW r \in Requests, TradeApplied(r) PROVE EditsCharged'
  <2>1. /\ UNCHANGED <<status, consumed>>
        /\ \A a, m : Cost(a, m)' = Cost(a, m)
    <3>1. orders' = Append(orders, TradeOrder(r)) /\ ~ IsEdit(TradeOrder(r))
      BY <1>2, TradeAdds
    <3>. QED BY <1>2, <3>1, CostStays DEF TradeApplied, market_vars
  <2>. QED BY <2>1 DEF EditsCharged, Consumption
<1>3. ASSUME NEW r \in Requests, ResolutionApplied(r) PROVE EditsCharged'
  <2>1. /\ status' = [status EXCEPT ![r.market] = "resolved"] /\ UNCHANGED orders
        /\ ReleaseRisk(r.market)
    BY <1>3 DEF ResolutionApplied, ToResolved
  <2>2. \A n \in Markets : status'[n] = IF n = r.market THEN "resolved" ELSE status[n]
    BY <2>1 DEF MarketShape
  <2>3. \A a \in Accounts : /\ DOMAIN consumed'[a] = DOMAIN consumed[a] \ {r.market}
                            /\ \A n \in DOMAIN consumed'[a] : consumed'[a][n] = consumed[a][n]
    BY <2>1, ReleaseOK
  <2>4. \A a \in Accounts, n \in Markets : n # r.market => Consumption(a, n)' = Consumption(a, n)
    BY <2>3 DEF Consumption
  <2>5. \A a, n : Cost(a, n)' = Cost(a, n)
    BY <2>1 DEF Cost, EditsOf, OrdersOf, OrdersOn
  <2>. QED BY <2>2, <2>4, <2>5 DEF EditsCharged
<1>4. ASSUME UNCHANGED <<orders, consumed>>,
             \A m \in Markets : status'[m] = "resolved" <=> status[m] = "resolved"
      PROVE  EditsCharged'
  <2>1. \A a, m : Cost(a, m)' = Cost(a, m) /\ Consumption(a, m)' = Consumption(a, m)
    BY <1>4 DEF Cost, EditsOf, OrdersOf, OrdersOn, Consumption
  <2>. QED BY <1>4, <2>1 DEF EditsCharged
<1>5. ASSUME NEW r \in Requests, TransitionApplied(r) \/ NotApplied(r) \/ Commented(r)
      PROVE  EditsCharged'
  <2>1. UNCHANGED <<orders, consumed>>
    BY <1>5 DEF TransitionApplied, NotApplied, Commented, Reject, Elsewhere, account_vars
  <2>2. \A m \in Markets : status'[m] = "resolved" <=> status[m] = "resolved"
    BY <1>5, ResolvedStays
  <2>. QED BY <1>4, <2>1, <2>2
<1>6. ASSUME NEW m \in Created, CreateMarket(m) PROVE EditsCharged'
  <2>1. \A n \in Markets : status'[n] = "resolved" <=> status[n] = "resolved"
    BY <1>6 DEF CreateMarket, Exists, MarketShape
  <2>. QED BY <1>4, <1>6, <2>1 DEF CreateMarket, account_vars
<1>7. CASE UNCHANGED vars
  BY <1>4, <1>7 DEF vars, market_vars, account_vars
<1>8. CASE Restart
  <2>1. NoAccounts'
    BY <1>8 DEF Restart, NoAccounts
  <2>. QED BY <2>1, ChargedBegins, PTL
<1>. QED BY <1>1, <1>2, <1>3, <1>5, <1>6, <1>7, <1>8, StepKinds

-----------------------------------------------------------------------------
(* What resolved markets were resolved to, and the parents of tables       *)

Settling(m) ==
  {i \in DOMAIN commands : /\ commands[i].request.market = m
                           /\ commands[i].request.payload \in Resolution
                           /\ commands[i].outcome = "accepted"}

ResolvedBy ==
  \A m \in Markets :
    /\ status[m] = "resolved" => Settling(m) # {}
    /\ status[m] # "resolved" => Settling(m) = {}
    /\ \A i \in Settling(m) : price[m] = PointMass(commands[i].request.payload.resolve)

LEMMA OthersDoNotResolve ==
  \A p : p \in Edit \/ p \in Trade \/ p \in AdminOp \/ p \in Comment => p \notin Resolution
BY DEF Edit, Trade, Resolution, AdminOp, Comment

\* Only an accepted resolution adds to them.
LEMMA SettlingNext ==
  ASSUME LogShape, NEW r \in Requests, Asked(r),
         NEW outcome \in {"none", "accepted", "rejected"}, Store(r, outcome)
  PROVE  \A m \in Markets :
           /\ Settling(m)' = IF m = r.market /\ r.payload \in Resolution /\ outcome = "accepted"
                             THEN Settling(m) \cup {NextCommand} ELSE Settling(m)
           /\ \A i \in Settling(m) : commands'[i] = commands[i]
<1>1. /\ DOMAIN commands' = DOMAIN commands \cup {NextCommand} /\ NextCommand \notin DOMAIN commands
      /\ commands'[NextCommand].request = r /\ commands'[NextCommand].outcome = outcome
      /\ \A i \in DOMAIN commands : commands'[i] = commands[i]
  BY Stored
<1>. QED BY <1>1 DEF Settling

\* No step moves the price of a resolved market, and only a resolution resolves.
LEMMA ResolvedKept ==
  ASSUME MarketShape, [Next]_vars, ~ Restart, NEW m \in Markets
  PROVE  /\ status[m] = "resolved" => status'[m] = "resolved" /\ price'[m] = price[m]
         /\ status[m] # "resolved" /\ status'[m] = "resolved" =>
              \E r \in Requests : ResolutionApplied(r) /\ r.market = m
<1>1. ASSUME NEW r \in Requests, EditApplied(r)
      PROVE  status'[m] = status[m] /\ (status[m] = "resolved" => price'[m] = price[m])
  <2>. DEFINE p == EditedPrice(r.market, r.payload.context, AsEdited(r.payload.level))
  <2>1. UNCHANGED status /\ status[r.market] = "active"
        /\ (price' = p \/ \E j : price' = Resynced(p, j))
    BY <1>1 DEF EditApplied, ApplyEdit, MoveJoint
  <2>2. m # r.market => p[m] = price[m]
    BY DEF EditedPrice, MarketShape
  <2>3. \A j : status'[m] = "resolved" => Resynced(p, j)[m] = p[m]
    BY DEF Resynced
  <2>. HIDE DEF p
  <2>. QED BY <2>1, <2>2, <2>3
<1>2. ASSUME NEW r \in Requests, ResolutionApplied(r)
      PROVE  /\ status[m] = "resolved" => status'[m] = "resolved" /\ price'[m] = price[m]
             /\ m # r.market => status'[m] = status[m]
  <2>. DEFINE p == [price EXCEPT ![r.market] = PointMass(r.payload.resolve)]
  <2>1. /\ status' = [status EXCEPT ![r.market] = "resolved"] /\ status[r.market] # "resolved"
        /\ (price' = p \/ \E j : price' = Resynced(p, j))
    BY <1>2 DEF ResolutionApplied, ToResolved, MoveJoint
  <2>2. m # r.market => p[m] = price[m] /\ status'[m] = status[m]
    BY <2>1 DEF MarketShape
  <2>3. \A j : status'[m] = "resolved" => Resynced(p, j)[m] = p[m]
    BY DEF Resynced
  <2>. HIDE DEF p
  <2>. QED BY <2>1, <2>2, <2>3
<1>3. ASSUME NEW r \in Requests, TradeApplied(r) \/ TransitionApplied(r) \/ NotApplied(r) \/ Commented(r)
      PROVE  price' = price /\ (status'[m] = "resolved" <=> status[m] = "resolved")
  <2>1. price' = price
    BY <1>3 DEF TradeApplied, TransitionApplied, NotApplied, Commented, Reject, Elsewhere,
                market_vars
  <2>2. CASE TradeApplied(r)
    BY <2>1, <2>2 DEF TradeApplied, market_vars
  <2>. QED BY <1>3, <2>1, <2>2, ResolvedStays
<1>4. ASSUME NEW n \in Created, CreateMarket(n)
      PROVE  price' = price /\ (status'[m] = "resolved" <=> status[m] = "resolved")
  BY <1>4 DEF CreateMarket, Exists, MarketShape
<1>5. CASE UNCHANGED vars
  BY <1>5 DEF vars, market_vars
<1>. QED BY <1>1, <1>2, <1>3, <1>4, <1>5, StepKinds

LEMMA ResolvedStep ==
  ASSUME LogShape, MarketShape, ResolvedBy, [Next]_vars
  PROVE  ResolvedBy'
<1>1. ASSUME NEW r \in Requests, ResolutionApplied(r) PROVE ResolvedBy'
  <2>1. /\ Store(r, "accepted") /\ Asked(r) /\ r.payload \in Resolution
        /\ status[r.market] # "resolved" /\ status' = [status EXCEPT ![r.market] = "resolved"]
        /\ price'[r.market] = PointMass(r.payload.resolve)
    <3>. DEFINE p == [price EXCEPT ![r.market] = PointMass(r.payload.resolve)]
    <3>1. /\ status' = [status EXCEPT ![r.market] = "resolved"]
          /\ (price' = p \/ \E j : price' = Resynced(p, j))
      BY <1>1 DEF ResolutionApplied, ToResolved, MoveJoint
    <3>2. p[r.market] = PointMass(r.payload.resolve) /\ status'[r.market] = "resolved"
      BY <3>1, RequestOK DEF MarketShape
    <3>3. \A j : Resynced(p, j)[r.market] = p[r.market]
      BY <3>2, RequestOK DEF Resynced
    <3>. HIDE DEF p
    <3>. QED BY <1>1, <3>1, <3>2, <3>3 DEF ResolutionApplied, Accept, Record
  <2>2. \A m \in Markets :
           /\ Settling(m)' = IF m = r.market THEN Settling(m) \cup {NextCommand} ELSE Settling(m)
           /\ \A i \in Settling(m) : commands'[i] = commands[i]
    BY <2>1, SettlingNext
  <2>3. commands'[NextCommand].request = r
    BY <2>1, Stored
  <2>4. ASSUME NEW m \in Markets, m # r.market
        PROVE  status'[m] = status[m] /\ (status[m] = "resolved" => price'[m] = price[m])
    <3>1. ~ Restart
      <4>1. commands' # <<>>
        BY <2>1, Stored, EmptyIsSequence
      <4>. QED BY <4>1 DEF Restart
    <3>2. status'[m] = status[m]
      BY <2>1, <2>4 DEF MarketShape
    <3>. QED BY <3>1, <3>2, ResolvedKept
  <2>5. ASSUME NEW m \in Markets
        PROVE  /\ status'[m] = "resolved" => Settling(m)' # {}
               /\ status'[m] # "resolved" => Settling(m)' = {}
               /\ \A i \in Settling(m)' : price'[m] = PointMass(commands'[i].request.payload.resolve)
    <3>1. CASE m = r.market
      <4>1. Settling(m)' = {NextCommand} /\ status'[m] = "resolved"
        BY <2>1, <2>2, <3>1 DEF ResolvedBy, MarketShape
      <4>. QED BY <2>1, <2>3, <3>1, <4>1
    <3>2. CASE m # r.market
      BY <2>2, <2>4, <3>2 DEF ResolvedBy
    <3>. QED BY <3>1, <3>2
  <2>. QED BY <2>5 DEF ResolvedBy
<1>2. ASSUME ~ Restart, \A r \in Requests : ~ ResolutionApplied(r),
             \A m \in Markets : /\ Settling(m)' = Settling(m)
                                /\ \A i \in Settling(m) : commands'[i] = commands[i]
      PROVE  ResolvedBy'
  <2>1. ASSUME NEW m \in Markets
        PROVE  /\ status'[m] = "resolved" <=> status[m] = "resolved"
               /\ status[m] = "resolved" => price'[m] = price[m]
    BY <1>2, ResolvedKept
  <2>. QED BY <1>2, <2>1 DEF ResolvedBy
<1>3. ASSUME NEW r \in Requests,
             EditApplied(r) \/ TradeApplied(r) \/ TransitionApplied(r) \/ NotApplied(r) \/ Commented(r),
             \A q \in Requests : ~ ResolutionApplied(q)
      PROVE  ResolvedBy'
  <2>1. PICK outcome \in {"none", "accepted", "rejected"} : Store(r, outcome) /\ Asked(r)
    BY <1>3, JournalKinds
  <2>2. ~ (r.payload \in Resolution /\ outcome = "accepted")
    <3>1. CASE NotApplied(r)
      <4>1. Store(r, "none") \/ Store(r, "rejected")
        BY <3>1 DEF NotApplied, Reject, Record, Abandon
      <4>2. commands'[NextCommand].outcome \in {"none", "rejected"}
        BY <2>1, <4>1, Stored
      <4>3. commands'[NextCommand].outcome = outcome
        BY <2>1, Stored
      <4>. QED BY <4>2, <4>3
    <3>2. CASE ~ NotApplied(r)
      BY <1>3, <3>2, OthersDoNotResolve
         DEF EditApplied, TradeApplied, TransitionApplied, Commented
    <3>. QED BY <3>1, <3>2
  <2>3. \A m \in Markets : /\ Settling(m)' = Settling(m)
                           /\ \A i \in Settling(m) : commands'[i] = commands[i]
    BY <2>1, <2>2, SettlingNext
  <2>4. ~ Restart
    <3>1. commands' # <<>>
      BY <2>1, Stored, EmptyIsSequence
    <3>. QED BY <3>1 DEF Restart
  <2>. QED BY <1>2, <1>3, <2>3, <2>4
<1>4. ASSUME NEW m \in Created, CreateMarket(m) PROVE ResolvedBy'
  <2>1. \A n \in Markets : status'[n] = "resolved" <=> status[n] = "resolved"
    BY <1>4 DEF CreateMarket, Exists, MarketShape
  <2>2. UNCHANGED <<commands, price>>
    BY <1>4 DEF CreateMarket, log_vars
  <2>. QED BY <2>1, <2>2 DEF ResolvedBy, Settling
<1>5. CASE UNCHANGED vars
  BY <1>5 DEF vars, market_vars, log_vars, ResolvedBy, Settling
<1>6. CASE Restart
  BY <1>6, EmptyIsSequence DEF Restart, ResolvedBy, Settling
<1>. QED BY <1>1, <1>3, <1>4, <1>5, <1>6, StepKinds

ParentsExist == \A m \in Markets : \A c \in DOMAIN cond[m] : c.on \in Markets /\ Exists(c.on)

LEMMA SeedParents == \A m \in Markets : \A c \in DOMAIN SeedRows[m] : c.on \in Seeds
BY JournalAssumption

LEMMA ParentsStep ==
  ASSUME MarketShape, ParentsExist, [Next]_vars
  PROVE  ParentsExist'
<1>1. ASSUME NEW r \in Requests, EditApplied(r), ~ Restart PROVE ParentsExist'
  <2>. DEFINE c == r.payload.context
  <2>1. cond' = EditedCond(r.market, c, AsEdited(r.payload.level)) /\ c \in Contexts
        /\ KnownContext(c)
    BY <1>1, EditOK DEF EditApplied, ApplyEdit, Asked
  <2>2. c # NoContext => c.on \in Markets /\ Exists(c.on)
    BY <2>1 DEF Contexts, KnownContext
  <2>3. \A m \in Markets : DOMAIN cond'[m] \subseteq DOMAIN cond[m] \cup (IF c = NoContext THEN {} ELSE {c})
    BY <2>1 DEF EditedCond, NoRows, MarketShape
  <2>4. \A m \in Markets : Exists(m) => Exists(m)'
    BY <1>1, ExistsStays
  <2>. HIDE DEF c
  <2>. QED BY <2>2, <2>3, <2>4 DEF ParentsExist
<1>2. ASSUME ~ Restart, \A m \in Markets : DOMAIN cond'[m] \subseteq DOMAIN cond[m]
      PROVE  ParentsExist'
  <2>1. \A m \in Markets : Exists(m) => Exists(m)'
    BY <1>2, ExistsStays
  <2>. QED BY <1>2, <2>1 DEF ParentsExist
<1>3. ASSUME NEW r \in Requests, ~ Restart,
             \/ TradeApplied(r) \/ ResolutionApplied(r)
             \/ TransitionApplied(r) \/ NotApplied(r) \/ Commented(r)
      PROVE  ParentsExist'
  <2>1. cond' = [cond EXCEPT ![r.market] = NoRows] \/ cond' = cond
    BY <1>3 DEF TradeApplied, ResolutionApplied, ToResolved, TransitionApplied, NotApplied,
                Commented, Reject, Elsewhere, market_vars
  <2>2. \A m \in Markets : DOMAIN cond'[m] \subseteq DOMAIN cond[m]
    BY <2>1 DEF NoRows, MarketShape
  <2>. QED BY <1>2, <1>3, <2>2
<1>4. ASSUME (\E m \in Created : CreateMarket(m)) \/ UNCHANGED vars, ~ Restart PROVE ParentsExist'
  <2>1. cond' = cond
    BY <1>4 DEF CreateMarket, vars, market_vars
  <2>. QED BY <1>2, <1>4, <2>1
<1>5. CASE Restart
  BY <1>5, SeedParents, ConstantsOK DEF Restart, ParentsExist, Exists
<1>. QED BY <1>1, <1>3, <1>4, <1>5, StepKinds

-----------------------------------------------------------------------------
(* Where the price series of a market outside the joint ends               *)

Points(m) ==
  {i \in DOMAIN journal[m] :
     journal[m][i].accepted /\ OnSeries(commands[journal[m][i].command].request)}

\* The level a command left its market at.
Leaves(c, level) ==
  IF commands[c].request.payload \in Resolution
  THEN level = PointMass(commands[c].request.payload.resolve)
  ELSE \E i \in OrdersUnder(c) : orders[i].new = level

SeriesTold(m) ==
  \A i \in Points(m) :
    (\A k \in Points(m) : k <= i) => Leaves(journal[m][i].command, price[m])

SeriesKept == \A m \in Created : Untorn(CommandsOn(m)) => SeriesTold(m)

LEMMA LeavesStays ==
  ASSUME Grows, NEW c \in DOMAIN commands, NEW level, Leaves(c, level)
  PROVE  Leaves(c, level)'
<1>1. commands'[c] = commands[c]
  BY DEF Grows
<1>2. \A i \in OrdersUnder(c) : i \in OrdersUnder(c)' /\ orders'[i] = orders[i]
  BY DEF Grows, OrdersUnder
<1>. QED BY <1>1, <1>2 DEF Leaves

LEMMA SeriesStays ==
  ASSUME LogShape, Grows, NEW m \in Markets, SeriesTold(m),
         journal'[m] = journal[m], price'[m] = price[m]
  PROVE  SeriesTold(m)'
<1>1. \A i \in DOMAIN journal[m] : /\ journal[m][i].command \in DOMAIN commands
                                   /\ commands'[journal[m][i].command] = commands[journal[m][i].command]
  BY DEF LogShape, Grows
<1>2. Points(m)' = Points(m) /\ Points(m) \subseteq DOMAIN journal[m]
  BY <1>1 DEF Points, OnSeries
<1>3. ASSUME NEW i \in Points(m)', \A k \in Points(m)' : k <= i
      PROVE  Leaves(journal[m][i].command, price[m])'
  <2>. DEFINE c == journal[m][i].command
              level == price[m]
  <2>1. c \in DOMAIN commands /\ Leaves(c, level)
    BY <1>1, <1>2, <1>3 DEF SeriesTold
  <2>. QED BY <2>1, LeavesStays, Zenon
<1>. QED BY <1>3 DEF SeriesTold

\* One more event: a point of the series if it is accepted and moved the price.
LEMMA SeriesMore ==
  ASSUME LogShape, Grows, NEW r \in Requests, Asked(r), SeriesTold(r.market),
         NEW outcome \in {"none", "accepted", "rejected"}, Store(r, outcome),
         NEW effects, NEW state, Emit(r, outcome, effects, state),
         IF outcome = "accepted" /\ OnSeries(r)
         THEN IF r.payload \in Resolution
              THEN price'[r.market] = PointMass(r.payload.resolve)
              ELSE \E i \in DOMAIN orders' :
                     orders'[i].command = NextCommand /\ orders'[i].new = price'[r.market]
         ELSE price'[r.market] = price[r.market]
  PROVE  SeriesTold(r.market)'
<1>. DEFINE m == r.market
            n == Len(journal[m]) + 1
            onSeries == outcome = "accepted" /\ OnSeries(r)
<1>1. /\ DOMAIN journal'[m] = DOMAIN journal[m] \cup {n}
      /\ journal'[m][n].command = NextCommand
      /\ journal'[m][n].accepted = (outcome = "accepted")
      /\ \A i \in DOMAIN journal[m] : i \in Nat /\ i < n /\ journal'[m][i] = journal[m][i]
      /\ n \in Nat
  BY Emitted
<1>2. commands'[NextCommand].request = r
  BY Stored
<1>3. \A i \in DOMAIN journal[m] : /\ journal[m][i].command \in DOMAIN commands
                                   /\ commands'[journal[m][i].command] = commands[journal[m][i].command]
  BY RequestOK DEF LogShape, Grows
<1>. HIDE DEF n
<1>4. Points(m)' = Points(m) \cup (IF onSeries THEN {n} ELSE {})
      /\ Points(m) \subseteq DOMAIN journal[m]
  <2>1. \A i \in DOMAIN journal[m] : i \in Points(m)' <=> i \in Points(m)
    BY <1>1, <1>3 DEF Points, OnSeries
  <2>2. n \in Points(m)' <=> onSeries
    BY <1>1, <1>2 DEF Points, OnSeries
  <2>3. n \notin DOMAIN journal[m]
    BY <1>1
  <2>4. Points(m)' \subseteq DOMAIN journal'[m] /\ Points(m) \subseteq DOMAIN journal[m]
    BY DEF Points
  <2>. HIDE DEF onSeries
  <2>. QED BY <1>1, <2>1, <2>2, <2>3, <2>4
<1>5. ASSUME NEW i \in Points(m)', \A k \in Points(m)' : k <= i
      PROVE  Leaves(journal[m][i].command, price[m])'
  <2>1. CASE onSeries
    <3>1. i = n
      <4>1. n <= i
        BY <1>4, <1>5, <2>1
      <4>. QED BY <1>1, <1>4, <2>1, <1>5, <4>1
    <3>2. journal'[m][i].command = NextCommand
      BY <1>1, <3>1
    <3>. QED BY <1>2, <2>1, <3>2 DEF Leaves, OrdersUnder
  <2>2. CASE ~ onSeries
    <3>1. i \in DOMAIN journal[m] /\ i \in Points(m) /\ \A k \in Points(m) : k <= i
      BY <1>4, <1>5, <2>2
    <3>2. Leaves(journal[m][i].command, price[m])
      BY <3>1 DEF SeriesTold
    <3>3. journal'[m][i] = journal[m][i] /\ price'[m] = price[m]
      BY <1>1, <2>2, <3>1
    <3>. HIDE DEF m
    <3>. QED BY <1>3, <3>1, <3>2, <3>3, LeavesStays
  <2>. HIDE DEF onSeries
  <2>. QED BY <2>1, <2>2
<1>. QED BY <1>5 DEF SeriesTold

\* An accepted edit leaves what its order says, a resolution its outcome.
LEMMA EditOnSeries ==
  ASSUME LogShape, MarketShape, AccountShape, Grows, NEW r \in Requests, EditApplied(r), ~ Abandon(r),
         r.market \in Created, SeriesTold(r.market)
  PROVE  SeriesTold(r.market)'
<1>. DEFINE old == Base(r.market, r.payload.context)
            new == AsEdited(r.payload.level)
<1>1. Accept(r, EditEffects(r, old, new))
  BY DEF EditApplied, ApplyEdit
<1>2. /\ Store(r, "accepted") /\ Asked(r)
      /\ Emit(r, "accepted", EditEffects(r, old, new), ReplayState(r.market)')
  BY <1>1 DEF Accept, Record, EditApplied
<1>3. r.payload \in Edit /\ Edited(r) /\ r.payload \notin Resolution
  BY OthersDoNotResolve DEF EditApplied, ApplyEdit, Edited
<1>4. price'[r.market] = IF r.payload.context = NoContext THEN new ELSE price[r.market]
  BY <1>3, EditedOutside
<1>5. \E i \in DOMAIN orders' : orders'[i].command = NextCommand /\ orders'[i].new = new
  <2>1. PICK e : orders' = Append(orders, e) /\ e.command = NextCommand /\ e.new = new
    BY EditAdds
  <2>. QED BY <2>1, OrdersAdd
<1>6. OnSeries(r) <=> r.payload.context = NoContext
  BY <1>3 DEF OnSeries
<1>. HIDE DEF old, new
<1>. QED BY <1>2, <1>3, <1>4, <1>5, <1>6, SeriesMore

LEMMA ResolutionOnSeries ==
  ASSUME LogShape, MarketShape, Grows, NEW r \in Requests, ResolutionApplied(r),
         r.market \in Created, SeriesTold(r.market)
  PROVE  SeriesTold(r.market)'
<1>. DEFINE effects == ResolutionEffects(r.market, PointMass(r.payload.resolve))
<1>1. /\ Store(r, "accepted") /\ Asked(r) /\ r.payload \in Resolution /\ OnSeries(r)
      /\ Emit(r, "accepted", effects, ReplayState(r.market)')
      /\ ToResolved(r.market, r.payload.resolve)
  BY DEF ResolutionApplied, Accept, Record, OnSeries
<1>2. price'[r.market] = PointMass(r.payload.resolve)
  BY <1>1, ResolvedOutside
<1>. HIDE DEF effects
<1>. QED BY <1>1, <1>2, SeriesMore

LEMMA OffSeries ==
  \A r : r.payload \in Trade \/ r.payload \in AdminOp => ~ OnSeries(r)
BY DEF Edit, Trade, Resolution, AdminOp, OnSeries

LEMMA SeriesBegins ==
  ASSUME journal = [m \in Markets |-> <<>>]
  PROVE  SeriesKept
<1>1. \A m \in Created : Points(m) = {}
  BY EmptyIsSequence, ConstantsOK DEF Points
<1>. QED BY <1>1 DEF SeriesKept, SeriesTold

LEMMA SeriesStep ==
  ASSUME LogShape, MarketShape, AccountShape, OrdersTrace, SeriesKept, [Next]_vars
  PROVE  SeriesKept'
<1>1. ASSUME NEW r \in Requests, ~ Restart,
             \/ EditApplied(r) \/ TradeApplied(r) \/ ResolutionApplied(r)
             \/ TransitionApplied(r) \/ NotApplied(r) \/ Commented(r)
      PROVE  SeriesKept'
  <2>. SUFFICES ASSUME NEW m \in Created, Untorn(CommandsOn(m))' PROVE SeriesTold(m)'
    BY DEF SeriesKept
  <2>0. Grows
    BY <1>1, TraceStep
  <2>1. PICK outcome \in {"none", "accepted", "rejected"} :
          Store(r, outcome) /\ (outcome = "none" => Abandon(r)) /\ Asked(r)
    BY <1>1, JournalKinds
  <2>2. Untorn(CommandsOn(m)) /\ (m = r.market => outcome # "none")
    BY <2>1, TornStays
  <2>3. SeriesTold(m) /\ m \in Markets /\ r.market \in Markets
    BY <2>2, ConstantsOK, RequestOK DEF SeriesKept
  <2>4. m # r.market => journal'[m] = journal[m]
    BY <1>1, <2>3, JournalKinds
  <2>5. m = r.market => ~ Abandon(r)
    <3>1. ASSUME Abandon(r) PROVE outcome = "none"
      <4>1. Store(r, "none")
        BY <3>1 DEF Abandon
      <4>2. commands'[NextCommand].outcome = "none"
        BY <2>1, <4>1, Stored
      <4>3. commands'[NextCommand].outcome = outcome
        BY <2>1, Stored
      <4>. QED BY <4>2, <4>3
    <3>. QED BY <2>2, <3>1
  <2>6. CASE EditApplied(r)
    <3>1. CASE m = r.market
      BY <2>0, <2>3, <2>5, <2>6, <3>1, EditOnSeries
    <3>2. CASE m # r.market
      <4>1. r.payload \in Edit /\ Edited(r)
        BY <2>6 DEF EditApplied, ApplyEdit, Edited
      <4>2. price'[m] = price[m]
        BY <3>2, <4>1, EditedOutside
      <4>. QED BY <2>0, <2>3, <2>4, <3>2, <4>2, SeriesStays
    <3>. QED BY <3>1, <3>2
  <2>7. CASE ResolutionApplied(r)
    <3>1. CASE m = r.market
      BY <2>0, <2>3, <2>7, <3>1, ResolutionOnSeries
    <3>2. CASE m # r.market
      <4>1. price'[m] = price[m]
        BY <2>7, <3>2, ResolvedOutside DEF ResolutionApplied
      <4>. QED BY <2>0, <2>3, <2>4, <3>2, <4>1, SeriesStays
    <3>. QED BY <3>1, <3>2
  <2>8. CASE TradeApplied(r) \/ TransitionApplied(r)
    <3>1. price' = price /\ ~ OnSeries(r) /\ Accept(r, NoEffects)
      BY <2>8, OffSeries DEF TradeApplied, TransitionApplied, market_vars
    <3>2. CASE m = r.market
      <4>1. Store(r, "accepted") /\ Emit(r, "accepted", NoEffects, ReplayState(r.market)')
        BY <3>1 DEF Accept, Record
      <4>. QED BY <2>0, <2>1, <2>3, <3>1, <3>2, <4>1, SeriesMore
    <3>3. CASE m # r.market
      BY <2>0, <2>3, <2>4, <3>1, <3>3, SeriesStays
    <3>. QED BY <3>2, <3>3
  <2>9. CASE NotApplied(r) \/ Commented(r)
    <3>1. price' = price
      BY <2>9 DEF NotApplied, Commented, Reject, Elsewhere, market_vars
    <3>2. CASE m = r.market /\ Reject(r)
      <4>1. Store(r, "rejected") /\ Emit(r, "rejected", NoEffects, <<>>)
        BY <3>2 DEF Reject, Record
      <4>. QED BY <2>0, <2>1, <2>3, <3>1, <3>2, <4>1, SeriesMore
    <3>3. CASE ~ (m = r.market /\ Reject(r))
      <4>1. journal'[m] = journal[m]
        BY <2>4, <2>5, <2>9, <3>3 DEF NotApplied, Commented
      <4>. QED BY <2>0, <2>3, <3>1, <4>1, SeriesStays
    <3>. QED BY <3>2, <3>3
  <2>. QED BY <1>1, <2>6, <2>7, <2>8, <2>9
<1>2. ASSUME UNCHANGED <<commands, orders, journal, price>> PROVE SeriesKept'
  <2>1. \A m : Untorn(CommandsOn(m))' <=> Untorn(CommandsOn(m))
    BY <1>2 DEF Untorn, CommandsOn
  <2>2. Grows
    BY <1>2 DEF Grows
  <2>3. \A m \in Created : SeriesTold(m) => SeriesTold(m)'
    BY <1>2, <2>2, SeriesStays, ConstantsOK
  <2>. QED BY <2>1, <2>3 DEF SeriesKept
<1>3. UNCHANGED vars \/ (\E m \in Created : CreateMarket(m))
        => UNCHANGED <<commands, orders, journal, price>>
  BY DEF vars, CreateMarket, log_vars, account_vars, market_vars
<1>4. CASE Restart
  <2>1. (journal = [m \in Markets |-> <<>>])'
    BY <1>4 DEF Restart
  <2>. QED BY <2>1, SeriesBegins, PTL
<1>. QED BY <1>1, <1>2, <1>3, <1>4, StepKinds

-----------------------------------------------------------------------------
(* What the read routes say                                                *)

\* Every step keeps this beside JournalInv, and together they imply ReadsAgree.
ReadsInv == OrdersTrace /\ EditsCharged /\ ResolvedBy /\ ParentsExist /\ SeriesKept

\* The market, account and outcome of an order's command, and which order it is.
LEMMA TracesOK ==
  ASSUME OrdersTrace, NEW i \in DOMAIN orders
  PROVE  LET c == commands[orders[i].command]
         IN  /\ orders[i].command \in DOMAIN commands
             /\ c.request.market = orders[i].market /\ c.request.account = orders[i].account
             /\ c.request.payload \notin Comment
             /\ c.outcome \in {"none", "accepted"}
             /\ c.outcome = "none" <=>
                  IsEdit(orders[i]) /\ ~ ScoreIsDefined(orders[i].old, orders[i].new)
             /\ \A k \in OrdersUnder(orders[i].command) : k = i
<1>1. /\ orders[i].command \in DOMAIN commands
      /\ Traces(orders[i], commands[orders[i].command])
      /\ \A k \in DOMAIN orders : k # i => orders[k].command # orders[i].command
  BY DEF OrdersTrace
<1>2. commands[orders[i].command].request.payload \notin Comment
  BY <1>1, KindsDiffer DEF Traces
<1>. QED BY <1>1, <1>2 DEF Traces, OrdersUnder

\* The level an event's command left its market at, as PriceSeries reads it.
LevelLeft(e) ==
  IF commands[e.command].request.payload \in Resolution
  THEN PointMass(commands[e.command].request.payload.resolve)
  ELSE orders[CHOOSE i \in OrdersUnder(e.command) : TRUE].new

LEMMA LeavesIs ==
  ASSUME OrdersTrace, NEW e, NEW level, Leaves(e.command, level)
  PROVE  LevelLeft(e) = level
<1>1. CASE commands[e.command].request.payload \in Resolution
  BY <1>1 DEF Leaves, LevelLeft
<1>2. CASE commands[e.command].request.payload \notin Resolution
  <2>1. PICK k \in OrdersUnder(e.command) : orders[k].new = level
    BY <1>2 DEF Leaves
  <2>2. k \in DOMAIN orders /\ orders[k].command = e.command
    BY DEF OrdersUnder
  <2>3. \A i \in OrdersUnder(e.command) : i = k
    BY <2>2, TracesOK
  <2>4. (CHOOSE i \in OrdersUnder(e.command) : TRUE) = k
    BY <2>1, <2>3
  <2>. QED BY <1>2, <2>1, <2>4 DEF LevelLeft
<1>. QED BY <1>1, <1>2

LEMMA SeriesIs ==
  ASSUME NEW m \in Created
  PROVE  LET told == FromFirst(Points(m))
             points == [k \in DOMAIN told |-> AsRepriced(LevelLeft(journal[m][told[k]]))]
         IN  PriceSeries(m) = IF points = <<>> THEN <<AsRepriced(price[m])>> ELSE points
<1>1. m \notin Seeds
  BY ConstantsOK
<1>. QED BY <1>1 DEF PriceSeries, Points, LevelLeft

LEMMA SeriesEnds ==
  ASSUME LogShape, OrdersTrace, NEW m \in Created, SeriesTold(m)
  PROVE  Last(PriceSeries(m)) = AsRepriced(price[m])
<1>. DEFINE told == FromFirst(Points(m))
            n == Cardinality(Points(m))
            points == [k \in DOMAIN told |-> AsRepriced(LevelLeft(journal[m][told[k]]))]
<1>1. IsFiniteSet(Points(m)) /\ Points(m) \subseteq Int
  <2>1. DOMAIN journal[m] = 1..Len(journal[m]) /\ Len(journal[m]) \in Nat
    BY ConstantsOK, Appended DEF LogShape
  <2>2. Points(m) \subseteq 1..Len(journal[m])
    BY <2>1 DEF Points
  <2>3. IsFiniteSet(1..Len(journal[m]))
    BY <2>1, FS_Interval
  <2>. QED BY <2>1, <2>2, <2>3, FS_Subset
<1>2. /\ n \in Nat /\ told \in Seq(Points(m)) /\ Len(told) = n
      /\ n > 0 => told[n] \in Points(m) /\ \A i \in Points(m) : i <= told[n]
  BY <1>1, FromFirstIs
<1>3. PriceSeries(m) = IF points = <<>> THEN <<AsRepriced(price[m])>> ELSE points
  BY SeriesIs
<1>. HIDE DEF told, n
<1>4. DOMAIN told = 1..n
  BY <1>2
<1>5. CASE points = <<>>
  BY <1>3, <1>5 DEF Last
<1>6. CASE points # <<>>
  <2>1. n > 0
    <3>1. n = 0 => points = <<>>
      BY <1>4
    <3>. QED BY <1>2, <1>6, <3>1
  <2>2. Len(points) = n /\ points[n] = AsRepriced(LevelLeft(journal[m][told[n]]))
    BY <1>2, <1>4, <2>1
  <2>3. Leaves(journal[m][told[n]].command, price[m])
    BY <1>2, <2>1 DEF SeriesTold
  <2>4. LevelLeft(journal[m][told[n]]) = price[m]
    BY <2>3, LeavesIs
  <2>. HIDE DEF points
  <2>. QED BY <1>3, <1>6, <2>2, <2>4 DEF Last
<1>. QED BY <1>5, <1>6

\* The rows analytics join are the orders of accepted commands.
LEMMA ActivityIs ==
  ASSUME LogInv, OrdersTrace, NEW m \in Markets
  PROVE  Activity(m) = {i \in OrdersOn(m) : commands[orders[i].command].outcome = "accepted"}
<1>1. /\ {journal[m][k].command : k \in DOMAIN journal[m]} = Told(m)
      /\ \A k \in DOMAIN journal[m] :
           journal[m][k].accepted = (commands[journal[m][k].command].outcome = "accepted")
  BY DEF LogInv, EventPerOutcome
<1>2. ASSUME NEW i \in OrdersOn(m), commands[orders[i].command].outcome = "accepted"
      PROVE  \E e \in Range(journal[m]) : e.accepted /\ e.command = orders[i].command
  <2>1. i \in DOMAIN orders /\ orders[i].market = m
    BY DEF OrdersOn
  <2>2. orders[i].command \in Told(m)
    BY <1>2, <2>1, TracesOK DEF Told
  <2>3. PICK k \in DOMAIN journal[m] : journal[m][k].command = orders[i].command
    BY <1>1, <2>2
  <2>4. journal[m][k].accepted /\ journal[m][k] \in Range(journal[m])
    BY <1>1, <1>2, <2>3 DEF Range
  <2>. QED BY <2>3, <2>4
<1>3. ASSUME NEW i \in OrdersOn(m), NEW e \in Range(journal[m]), e.accepted,
             e.command = orders[i].command
      PROVE  commands[orders[i].command].outcome = "accepted"
  <2>1. PICK k \in DOMAIN journal[m] : journal[m][k] = e
    BY DEF Range
  <2>. QED BY <1>1, <1>3, <2>1
<1>. QED BY <1>2, <1>3 DEF Activity

LEMMA VolumeOK ==
  ASSUME AccountShape, NEW i \in DOMAIN orders
  PROVE  Volume(orders[i]) \in Int
<1>1. CASE IsEdit(orders[i])
  BY <1>1, OrdersOK DEF Volume
<1>2. CASE ~ IsEdit(orders[i])
  <2>1. IsTrade(orders[i]) /\ orders[i].delta \in Int /\ orders[i].price \in Int
    BY <1>2, OrdersOK, LevelsOK
  <2>2. ShareAt(orders[i].outcome, orders[i].price) \in Int
    BY <2>1, LevelsOK DEF ShareAt
  <2>3. \A x, y \in Int : x * y \in Int /\ (-x) * y \in Int
    OBVIOUS
  <2>. QED BY <1>2, <2>1, <2>2, <2>3 DEF Volume
<1>. QED BY <1>1, <1>2

LEMMA ActivityOK ==
  ASSUME AccountShape, NEW m
  PROVE  /\ IsFiniteSet(Activity(m)) /\ Activity(m) \subseteq DOMAIN orders
         /\ [i \in Activity(m) |-> Volume(orders[i])] \in [Activity(m) -> Int]
<1>1. Activity(m) \subseteq DOMAIN orders
  BY DEF Activity, OrdersOn
<1>2. \A i \in Activity(m) : Volume(orders[i]) \in Int
  BY <1>1, VolumeOK
<1>. QED BY <1>1, <1>2, OrdersOK, FS_Subset

\* What the traders of a market moved is what was moved in it.
LEMMA TradersAddUp ==
  ASSUME AccountShape, NEW m
  PROVE  SumFunction([a \in DOMAIN TopTraders(m) |-> TopTraders(m)[a].volume]) = Summary(m).volume
<1>. DEFINE S == Activity(m)
            P == {orders[i].account : i \in S}
            part == [i \in S |-> orders[i].account]
            f == [i \in S |-> Volume(orders[i])]
            h == [a \in DOMAIN TopTraders(m) |-> TopTraders(m)[a].volume]
<1>1. IsFiniteSet(S) /\ S \subseteq DOMAIN orders /\ f \in [S -> Int]
  BY ActivityOK
<1>2. part \in [S -> P]
  OBVIOUS
<1>3. IsFiniteSet(P)
  <2>1. P \subseteq Accounts
    BY <1>1, OrdersOK
  <2>. QED BY <2>1, ConstantsOK, FS_Subset
<1>4. DOMAIN h = P
  BY DEF TopTraders
<1>5. ASSUME NEW a \in P
      PROVE  h[a] = SumFunction([i \in {k \in S : part[k] = a} |-> f[i]])
  <2>1. h[a] = Totals(S \cap OrdersOf(a)).volume
    BY <1>5 DEF TopTraders
  <2>2. S \cap OrdersOf(a) = {k \in S : part[k] = a}
    BY <1>1 DEF OrdersOf
  <2>3. [i \in S \cap OrdersOf(a) |-> Volume(orders[i])] = [i \in {k \in S : part[k] = a} |-> f[i]]
    BY <2>2
  <2>. QED BY <2>1, <2>3 DEF Totals
<1>6. Summary(m).volume = SumFunction(f)
  BY DEF Summary, Totals
<1>. HIDE DEF S, P, part, f, h
<1>7. SumFunction(f) = SumFunction(h)
  BY ONLY <1>1, <1>2, <1>3, <1>4, <1>5, SumByParts
<1>. QED BY <1>6, <1>7 DEF h

\* Every order is of an accepted command or of one that failed half way.
LEMMA TradesAddUp ==
  ASSUME LogInv, AccountShape, OrdersTrace
  PROVE  LET torn == {i \in DOMAIN orders : commands[orders[i].command].outcome = "none"}
         IN  Len(orders) = SumFunction([m \in Markets |-> Summary(m).trades]) + Cardinality(torn)
<1>. DEFINE torn == {i \in DOMAIN orders : commands[orders[i].command].outcome = "none"}
            S == {i \in DOMAIN orders : commands[orders[i].command].outcome = "accepted"}
            part == [i \in S |-> orders[i].market]
            h == [m \in Markets |-> Summary(m).trades]
<1>1. IsFiniteSet(DOMAIN orders) /\ Cardinality(DOMAIN orders) = Len(orders)
  BY OrdersOK
<1>2. S \cup torn = DOMAIN orders /\ S \cap torn = {}
  BY TracesOK
<1>3. IsFiniteSet(S) /\ IsFiniteSet(torn)
  BY <1>1, FS_Subset
<1>4. part \in [S -> Markets]
  BY OrdersOK
<1>5. ASSUME NEW m \in Markets
      PROVE  h[m] = Cardinality({i \in S : part[i] = m})
  <2>1. Activity(m) = {i \in S : part[i] = m}
    BY ActivityIs DEF OrdersOn
  <2>2. h[m] = Cardinality(Activity(m))
    BY DEF Summary, Totals
  <2>. QED BY <2>1, <2>2
<1>6. DOMAIN h = Markets /\ IsFiniteSet(Markets)
  BY ConstantsOK
<1>. HIDE DEF torn, S, part, h
<1>7. Cardinality(S) = SumFunction(h)
  BY ONLY <1>3, <1>4, <1>5, <1>6, CardinalityByParts
<1>8. Cardinality(S \cup torn) = Cardinality(S) + Cardinality(torn) - Cardinality(S \cap torn)
      /\ Cardinality(S) \in Nat /\ Cardinality(torn) \in Nat
  BY <1>3, FS_Union, FS_CardinalityType
<1>9. Cardinality(S \cap torn) = 0
  BY <1>2, FS_EmptySet
<1>10. Len(orders) = SumFunction(h) + Cardinality(torn)
  BY <1>1, <1>2, <1>7, <1>8, <1>9
<1>. QED BY <1>10 DEF torn, h

LEMMA TotalsHold ==
  ASSUME LogInv, MarketShape, AccountShape, OrdersTrace
  PROVE  TotalsAgree
<1>1. PlatformStats.trades = Len(orders)
  BY DEF PlatformStats
<1>2. MarketsFor("all", FALSE) = {m \in Markets : Exists(m)}
  BY DEF MarketsFor, Wanted, Exists, MarketShape
<1>3. MarketsFor("resolved", FALSE) = {m \in Markets : status[m] = "resolved"}
  BY DEF MarketsFor, Wanted
<1>4. MarketsFor("active", FALSE) = {m \in Markets : status[m] = "active"}
  BY DEF MarketsFor, Wanted
<1>5. /\ PlatformStats.markets = Cardinality(MarketsFor("all", FALSE))
      /\ PlatformStats.resolved = Cardinality(MarketsFor("resolved", FALSE))
      /\ PlatformStats.active = Cardinality(MarketsFor("active", FALSE))
  BY <1>2, <1>3, <1>4 DEF PlatformStats
<1>. QED BY <1>1, <1>5, TradesAddUp, TradersAddUp DEF TotalsAgree

\* The score of an edit is not defined exactly where its command failed.
LEMMA PnlFailsOnce ==
  ASSUME OrdersTrace
  PROVE  PnlFailsOnceTorn
<1>. SUFFICES ASSUME NEW a \in Accounts
              PROVE  PnlView(a).code = 500 <=>
                       \E i \in CommandsOf(a) : commands[i].outcome = "none" /\ OrdersUnder(i) # {}
  BY DEF PnlFailsOnceTorn
<1>1. PnlView(a).code = 500 <=> OrdersOf(a) # {} /\ PnlRaises(a)
  <2>1. CASE OrdersOf(a) = {}
    <3>1. ~ PnlRaises(a)
      BY <2>1 DEF PnlRaises
    <3>2. PnlView(a) = NotFound
      BY <2>1, <3>1 DEF PnlView
    <3>. QED BY <2>1, <3>2 DEF NotFound
  <2>2. CASE OrdersOf(a) # {} /\ PnlRaises(a)
    BY <2>2 DEF PnlView, ServerError
  <2>3. CASE OrdersOf(a) # {} /\ ~ PnlRaises(a)
    <3>1. \A body : Ok(body).code = 200
      BY DEF Ok
    <3>2. \E body : PnlView(a) = Ok(body)
      BY <2>3, Zenon DEF PnlView
    <3>. QED BY <2>3, <3>1, <3>2
  <2>. QED BY <2>1, <2>2, <2>3
<1>2. PnlRaises(a) <=> \E i \in OrdersOf(a) : commands[orders[i].command].outcome = "none"
  BY TracesOK DEF PnlRaises, OrdersOf
<1>3. ASSUME NEW i \in OrdersOf(a), commands[orders[i].command].outcome = "none"
      PROVE  \E c \in CommandsOf(a) : commands[c].outcome = "none" /\ OrdersUnder(c) # {}
  <2>1. i \in DOMAIN orders /\ orders[i].account = a
    BY DEF OrdersOf
  <2>2. orders[i].command \in CommandsOf(a) /\ i \in OrdersUnder(orders[i].command)
    BY <2>1, TracesOK DEF CommandsOf, OrdersUnder
  <2>. QED BY <1>3, <2>2
<1>4. ASSUME NEW c \in CommandsOf(a), commands[c].outcome = "none", NEW i \in OrdersUnder(c)
      PROVE  i \in OrdersOf(a) /\ commands[orders[i].command].outcome = "none"
  <2>1. i \in DOMAIN orders /\ orders[i].command = c
    BY DEF OrdersUnder
  <2>. QED BY <1>4, <2>1, TracesOK DEF OrdersOf, CommandsOf
<1>. QED BY <1>1, <1>2, <1>3, <1>4

LEMMA CostHolds ==
  ASSUME AccountShape, EditsCharged
  PROVE  CostIsCapacity
<1>. SUFFICES ASSUME NEW a \in Accounts, PnlView(a).code = 200, RiskView(a).code = 200,
                     NEW m \in DOMAIN PnlView(a).body, status[m] # "resolved"
              PROVE  PnlView(a).body[m].editCost =
                       IF m \in DOMAIN RiskView(a).body.markets
                       THEN RiskView(a).body.markets[m] ELSE 0
  BY DEF CostIsCapacity
<1>1. PnlView(a).body = [n \in {orders[i].market : i \in OrdersOf(a)} |-> PnlRow(a, n)]
  BY DEF PnlView, NotFound, ServerError, Ok
<1>2. m \in Markets
  BY <1>1, OrdersOK DEF OrdersOf
<1>3. PnlView(a).body[m].editCost = SumFunction(Cost(a, m))
  BY <1>1 DEF PnlRow, Cost
<1>4. RiskView(a).body.markets = consumed[a]
  BY DEF RiskView, NotFound, Ok
<1>. QED BY <1>2, <1>3, <1>4 DEF EditsCharged, Consumption

LEMMA RealizedHolds ==
  ASSUME ResolvedBy
  PROVE  RealizedAtPrice
<1>. SUFFICES ASSUME NEW m \in Markets, status[m] = "resolved"
              PROVE  price[m] = Valuation(m, NoContext)
  BY DEF RealizedAtPrice
<1>1. Settling(m) # {}
      /\ \A i \in Settling(m) : price[m] = PointMass(commands[i].request.payload.resolve)
  BY DEF ResolvedBy
<1>2. Settlement(m) = commands[CHOOSE i \in Settling(m) : TRUE].request.payload.resolve
  BY DEF Settlement, Settling
<1>3. (CHOOSE i \in Settling(m) : TRUE) \in Settling(m)
  BY <1>1
<1>. QED BY <1>1, <1>2, <1>3 DEF Valuation

LEMMA ParentsHold ==
  ASSUME ParentsExist
  PROVE  ParentsAreMarkets
BY DEF ParentsExist, ParentsAreMarkets, Edges, Cpt

\* An open position, as the position view marks it; NotHeld is worth nothing.
LEMMA PositionIs ==
  ASSUME NEW a, NEW p
  PROVE  IF p \in DOMAIN exposure[a]
         THEN /\ p \in DOMAIN ExposureView(a).body
              /\ PositionsView(a).body[p] =
                   exposure[a][p] * (ShareAt(p[2], AsRepriced(price[p[1]]))
                                       - ShareAt(p[2], orders[Max(Trades(a, p[1], p[2]))].price))
         ELSE p \notin DOMAIN ExposureView(a).body
<1>. DEFINE live == [q \in DOMAIN exposure[a] |->
                       [net |-> exposure[a][q],
                        lastPrice |-> orders[Max(Trades(a, q[1], q[2]))].price]]
<1>1. CASE exposure[a] = <<>>
  <2>1. DOMAIN exposure[a] = {}
    BY <1>1, EmptyIsSequence
  <2>2. ExposureView(a).body = <<>>
    BY <1>1 DEF ExposureView, NotFound
  <2>. QED BY <2>1, <2>2, EmptyIsSequence
<1>2. CASE exposure[a] # <<>>
  <2>1. ExposureView(a) = [code |-> 200, body |-> live]
    BY <1>2 DEF ExposureView, Ok
  <2>. HIDE DEF live
  <2>2. ExposureView(a).code = 200 /\ ExposureView(a).body = live
    BY <2>1
  <2>3. DOMAIN live = DOMAIN exposure[a]
    BY DEF live
  <2>4. ASSUME p \in DOMAIN exposure[a]
        PROVE  PositionsView(a).body[p] =
                 exposure[a][p] * (ShareAt(p[2], AsRepriced(price[p[1]]))
                                     - ShareAt(p[2], orders[Max(Trades(a, p[1], p[2]))].price))
    <3>1. live[p].net = exposure[a][p]
          /\ live[p].lastPrice = orders[Max(Trades(a, p[1], p[2]))].price
      BY <2>4 DEF live
    <3>2. PositionsView(a).body[p] =
            live[p].net * (ShareAt(p[2], AsRepriced(price[p[1]])) - ShareAt(p[2], live[p].lastPrice))
      BY <2>2, <2>3, <2>4 DEF PositionsView, Ok
    <3>. QED BY <3>1, <3>2
  <2>. QED BY <2>2, <2>3, <2>4
<1>. QED BY <1>1, <1>2

\* Trades of one outcome at one price are worth their net size times a share.
LEMMA WorthIs ==
  ASSUME AccountShape, NEW a, NEW m, NEW o \in Outcomes, NEW level \in Int, NEW worth,
         DOMAIN worth = Trades(a, m, o),
         \A i \in Trades(a, m, o) : worth[i] = orders[i].delta * ShareAt(o, level)
  PROVE  /\ SumFunction(Booked(a, m, o)) \in Int /\ ShareAt(o, level) \in Int
         /\ SumFunction(worth) = ShareAt(o, level) * SumFunction(Booked(a, m, o))
<1>. DEFINE S == Trades(a, m, o)
            f == Booked(a, m, o)
            c == ShareAt(o, level)
            h == [i \in S |-> c * f[i]]
<1>1. IsFiniteSet(S) /\ f \in [S -> Int]
  BY BookedOK
<1>2. c \in Int
  BY LevelsOK DEF ShareAt
<1>3. \A i \in S : f[i] = orders[i].delta /\ f[i] \in Int
  BY <1>1 DEF Booked
<1>. HIDE DEF S, f, c
<1>4. h \in [S -> Int] /\ \A i \in S : h[i] = c * f[i]
  BY <1>2, <1>3
<1>. HIDE DEF h
<1>5. SumFunction(f) \in Int /\ SumFunction(h) = c * SumFunction(f)
  BY ONLY <1>1, <1>2, <1>4, SumTimes
<1>6. \A x, y \in Int : x * y = y * x
  OBVIOUS
<1>7. \A i \in DOMAIN worth : worth[i] = h[i]
  BY <1>2, <1>3, <1>4, <1>6 DEF S, c
<1>8. SumFunction(worth) = SumFunction(h)
  <2>1. DOMAIN worth = S /\ DOMAIN h = S
    BY <1>4 DEF S
  <2>2. SumFunctionOnSet(worth, S) = SumFunctionOnSet(h, S)
    BY <1>1, <1>7, <2>1, SumCongruent
  <2>. QED BY <2>1, <2>2 DEF SumFunction
<1>. QED BY <1>2, <1>5, <1>8 DEF f, c

LEMMA MarksHold ==
  ASSUME MarketShape, AccountShape, PositionsAgree
  PROVE  MarksAgree
<1>. SUFFICES
       ASSUME NEW a \in Accounts, NEW m \in Markets, NEW o \in Outcomes,
              LET trades == {i \in OrdersOf(a) \cap OrdersOn(m) : IsTrade(orders[i])}
              IN  /\ status[m] # "resolved"
                  /\ \A i \in trades : orders[i].outcome = o
                  /\ Cardinality({orders[i].price : i \in trades}) = 1
       PROVE  PnlRow(a, m).tradeMark - PnlRow(a, m).tradeCost =
                IF <<m, o>> \in DOMAIN ExposureView(a).body
                THEN PositionsView(a).body[<<m, o>>] ELSE 0
  BY DEF MarksAgree
<1>. DEFINE trades == {i \in OrdersOf(a) \cap OrdersOn(m) : IsTrade(orders[i])}
            prices == {orders[i].price : i \in trades}
            now == AsRepriced(Valuation(m, NoContext))
            cost == [i \in trades |-> orders[i].delta * ShareAt(orders[i].outcome, orders[i].price)]
            mark == [i \in trades |-> orders[i].delta * ShareAt(orders[i].outcome, now)]
            net == SumFunction(Booked(a, m, o))
<1>1. /\ status[m] # "resolved" /\ \A i \in trades : orders[i].outcome = o
      /\ Cardinality(prices) = 1
  OBVIOUS
<1>2. /\ trades \subseteq DOMAIN orders /\ trades = (OrdersOf(a) \cap OrdersOn(m)) \ EditsOf(a, m)
      /\ \A i \in trades : orders[i].price \in Levels
  BY OrdersOK DEF OrdersOf, OrdersOn, EditsOf
<1>3. trades = Trades(a, m, o)
  BY <1>1, OrdersOK DEF Trades, OrdersOf, OrdersOn, IsTrade
<1>4. PnlRow(a, m).tradeMark = SumFunction(mark) /\ PnlRow(a, m).tradeCost = SumFunction(cost)
  <2>. DEFINE rest == (OrdersOf(a) \cap OrdersOn(m)) \ EditsOf(a, m)
              costs(S) == [i \in S |-> orders[i].delta * ShareAt(orders[i].outcome, orders[i].price)]
              marks(S) == [i \in S |-> orders[i].delta * ShareAt(orders[i].outcome, now)]
  <2>1. /\ PnlRow(a, m).tradeMark = SumFunction(marks(rest))
        /\ PnlRow(a, m).tradeCost = SumFunction(costs(rest))
    BY DEF PnlRow
  <2>2. mark = marks(trades) /\ cost = costs(trades)
    OBVIOUS
  <2>. HIDE DEF rest, costs, marks, trades, cost, mark
  <2>. QED BY <1>2, <2>1, <2>2 DEF rest
<1>. HIDE DEF trades, cost, mark
<1>5. PICK level : prices = {level}
  <2>1. IsFiniteSet(prices)
    <3>1. prices \subseteq Levels
      BY <1>2
    <3>2. IsFiniteSet(Levels)
      <4>1. \A k \in Nat : IsFiniteSet(0..k)
        BY FS_Interval
      <4>. QED BY <4>1, LevelsOK
    <3>. HIDE DEF prices
    <3>. QED BY <3>1, <3>2, FS_Subset
  <2>. QED BY <1>1, <2>1, FS_Singleton
<1>6. level \in Levels /\ trades # {} /\ \A i \in trades : orders[i].price = level
  BY <1>2, <1>5
<1>7. now = AsRepriced(price[m]) /\ now \in Int /\ level \in Int
  <2>1. NoContext \notin DOMAIN cond[m]
    BY RowsOK DEF MarketShape
  <2>2. Valuation(m, NoContext) = price[m]
    BY <1>1, <2>1 DEF Valuation
  <2>. QED BY <1>6, <2>2, LevelsOK DEF MarketShape
<1>. HIDE DEF prices, now
<1>8. /\ net \in Int /\ ShareAt(o, level) \in Int
      /\ SumFunction(cost) = ShareAt(o, level) * net
  <2>1. DOMAIN cost = Trades(a, m, o)
    BY <1>3 DEF cost
  <2>2. \A i \in Trades(a, m, o) : cost[i] = orders[i].delta * ShareAt(o, level)
    BY <1>1, <1>3, <1>6 DEF cost
  <2>. QED BY <1>7, <2>1, <2>2, WorthIs
<1>9. /\ ShareAt(o, now) \in Int
      /\ SumFunction(mark) = ShareAt(o, now) * net
  <2>1. DOMAIN mark = Trades(a, m, o)
    BY <1>3 DEF mark
  <2>2. \A i \in Trades(a, m, o) : mark[i] = orders[i].delta * ShareAt(o, now)
    BY <1>1, <1>3 DEF mark
  <2>. QED BY <1>7, <2>1, <2>2, WorthIs
<1>10. Net(a, m, o) = net
  BY <1>1 DEF PositionsAgree
<1>11. orders[Max(Trades(a, m, o))].price = level
  <2>1. \A i \in Trades(a, m, o) : i \in Int
    BY <1>2, <1>3, OrdersOK
  <2>2. PICK last \in Trades(a, m, o) : \A i \in Trades(a, m, o) : last >= i
    <3>1. IsFiniteSet(Trades(a, m, o))
      BY BookedOK
    <3>. QED BY <1>3, <1>6, <2>1, <3>1, LargestMember
  <2>3. Max(Trades(a, m, o)) \in Trades(a, m, o)
    BY <2>1, <2>2 DEF Max
  <2>. QED BY <1>3, <1>6, <2>3
<1>. HIDE DEF net
<1>12. ShareAt(o, now) * net - ShareAt(o, level) * net
         = net * (ShareAt(o, now) - ShareAt(o, level))
  <2>1. \A x, y, z \in Int : x * z - y * z = z * (x - y)
    OBVIOUS
  <2>. QED BY <1>8, <1>9, <2>1
<1>13. CASE <<m, o>> \in DOMAIN exposure[a]
  <2>. DEFINE p == <<m, o>>
  <2>1. p[1] = m /\ p[2] = o /\ exposure[a][p] = net
    BY <1>10, <1>13 DEF Net
  <2>. HIDE DEF p
  <2>2. /\ p \in DOMAIN ExposureView(a).body
        /\ PositionsView(a).body[p] = net * (ShareAt(o, now) - ShareAt(o, level))
    BY <1>7, <1>11, <1>13, <2>1, PositionIs DEF p
  <2>. QED BY <1>4, <1>8, <1>9, <1>12, <2>2 DEF p
<1>14. CASE <<m, o>> \notin DOMAIN exposure[a]
  <2>1. net = 0
    BY <1>10, <1>14 DEF Net
  <2>2. <<m, o>> \notin DOMAIN ExposureView(a).body
    BY <1>14, PositionIs
  <2>3. SumFunction(mark) - SumFunction(cost) = 0
    BY <1>8, <1>9, <1>12, <2>1
  <2>. QED BY <1>4, <2>2, <2>3
<1>. QED BY <1>13, <1>14

\* A feed whose cursors are its places.
LEMMA NumberedPages ==
  ASSUME NEW S, NEW feed \in Seq(S), NEW limit \in Nat \ {0}, NEW pages,
         DOMAIN pages = 1..(Len(feed) + 1),
         \A c \in DOMAIN pages : pages[c] = PageFrom(feed, c, limit)
  PROVE  Read(pages, 1) = feed
<1>. DEFINE at == [c \in DOMAIN pages |-> c]
<1>1. Len(feed) \in Nat /\ 1 \in DOMAIN pages
  OBVIOUS
<1>2. at \in [DOMAIN pages -> 1..(Len(feed) + 1)] /\ \A c \in DOMAIN pages : at[c] = c
  OBVIOUS
<1>3. ASSUME NEW c \in DOMAIN pages
      PROVE  \/ pages[c].next = 0 /\ pages[c].items = SubSeq(feed, at[c], Len(feed))
             \/ \E upTo \in at[c]..(Len(feed) - 1) :
                  /\ pages[c].next \in DOMAIN pages /\ pages[c].next # 0
                  /\ at[pages[c].next] = upTo + 1
                  /\ pages[c].items = SubSeq(feed, at[c], upTo)
  <2>1. CASE pages[c].next = 0 /\ pages[c].items = SubSeq(feed, c, Len(feed))
    BY <1>2, <2>1
  <2>2. ASSUME NEW upTo \in c..(Len(feed) - 1), pages[c].next = upTo + 1,
               pages[c].items = SubSeq(feed, c, upTo)
        PROVE  /\ upTo \in at[c]..(Len(feed) - 1)
               /\ pages[c].next \in DOMAIN pages /\ pages[c].next # 0
               /\ at[pages[c].next] = upTo + 1
               /\ pages[c].items = SubSeq(feed, at[c], upTo)
    <3>1. c \in Nat /\ c >= 1 /\ upTo \in Nat
      BY <1>1
    <3>2. upTo + 1 \in DOMAIN pages /\ upTo + 1 # 0
      BY <1>1, <3>1
    <3>. HIDE DEF at
    <3>. QED BY <1>2, <2>2, <3>2
  <2>3. \/ pages[c].next = 0 /\ pages[c].items = SubSeq(feed, c, Len(feed))
        \/ \E upTo \in c..(Len(feed) - 1) :
             pages[c].next = upTo + 1 /\ pages[c].items = SubSeq(feed, c, upTo)
    BY PageFromIs
  <2>. HIDE DEF at
  <2>. QED BY <2>1, <2>2, <2>3
<1>4. at[1] = 1
  BY <1>1, <1>2
<1>. HIDE DEF at
<1>. QED BY ONLY <1>1, <1>2, <1>3, <1>4, feed \in Seq(S), ReadsAll

LEMMA PlacesOK ==
  ASSUME LogShape, NEW m, NEW S, S \subseteq CommandsOn(m)
  PROVE  IsFiniteSet(S) /\ S \subseteq Int
<1>1. DOMAIN commands = 1..Len(commands) /\ Len(commands) \in Nat
  BY Appended DEF LogShape
<1>2. S \subseteq 1..Len(commands)
  BY <1>1 DEF CommandsOn
<1>3. IsFiniteSet(1..Len(commands))
  BY <1>1, FS_Interval
<1>4. IsFiniteSet(S)
  BY ONLY <1>2, <1>3, FS_Subset
<1>5. S \subseteq Int
  BY ONLY <1>1, <1>2
<1>. QED BY <1>4, <1>5

LEMMA CommentsAreAFeed ==
  ASSUME LogShape, NEW m
  PROVE  Comments(m) \in Seq(Range(commands))
<1>. DEFINE S == {i \in CommandsOn(m) : /\ commands[i].request.payload \in Comment
                                        /\ commands[i].outcome = "accepted"}
            places == FromFirst(S)
<1>1. IsFiniteSet(S) /\ S \subseteq Int /\ S \subseteq DOMAIN commands
  BY PlacesOK DEF CommandsOn
<1>2. places \in Seq(S)
  BY <1>1, FromFirstIs
<1>3. Comments(m) = [k \in DOMAIN places |-> commands[places[k]]]
  BY DEF Comments
<1>. HIDE DEF S, places
<1>4. DOMAIN places = 1..Len(places) /\ Len(places) \in Nat
      /\ \A k \in 1..Len(places) : commands[places[k]] \in Range(commands)
  <2>1. /\ DOMAIN places = 1..Len(places) /\ Len(places) \in Nat
        /\ \A k \in 1..Len(places) : places[k] \in S
    BY ONLY <1>2
  <2>2. \A i \in S : commands[i] \in Range(commands)
    BY <1>1 DEF Range
  <2>. QED BY <2>1, <2>2
<1>. QED BY <1>3, <1>4

\* A feed whose cursors are its members, but for the first page's: a cursor c
\* is for the page from place at[c] on.
ByMember(pages, feed, at, limit) ==
  /\ at \in [DOMAIN pages -> 1..(Len(feed) + 1)]
  /\ \A k \in 1..Len(feed) : feed[k] \in DOMAIN pages /\ feed[k] # 0 /\ at[feed[k]] = k + 1
  /\ \A c \in DOMAIN pages :
       LET page == PageFrom(feed, at[c], limit)
       IN  pages[c] = [items |-> page.items,
                       next |-> IF page.next = 0 THEN 0 ELSE Last(page.items)]

LEMMA MemberPages ==
  ASSUME NEW S, NEW feed \in Seq(S), NEW limit \in Nat \ {0}, NEW pages, NEW at,
         ByMember(pages, feed, at, limit), NEW first \in DOMAIN pages, at[first] = 1
  PROVE  Read(pages, first) = feed
<1>0. /\ at \in [DOMAIN pages -> 1..(Len(feed) + 1)]
      /\ \A k \in 1..Len(feed) : feed[k] \in DOMAIN pages /\ feed[k] # 0 /\ at[feed[k]] = k + 1
  BY DEF ByMember
<1>1. ASSUME NEW c \in DOMAIN pages
      PROVE  \/ pages[c].next = 0 /\ pages[c].items = SubSeq(feed, at[c], Len(feed))
             \/ \E upTo \in at[c]..(Len(feed) - 1) :
                  /\ pages[c].next \in DOMAIN pages /\ pages[c].next # 0
                  /\ at[pages[c].next] = upTo + 1
                  /\ pages[c].items = SubSeq(feed, at[c], upTo)
  <2>. DEFINE from == at[c]
              p == PageFrom(feed, from, limit)
  <2>1. pages[c] = [items |-> p.items, next |-> IF p.next = 0 THEN 0 ELSE Last(p.items)]
    BY DEF ByMember
  <2>2. from \in 1..(Len(feed) + 1) /\ Len(feed) \in Nat
    BY <1>0
  <2>. HIDE DEF from
  <2>3. \/ p.next = 0 /\ p.items = SubSeq(feed, from, Len(feed))
        \/ \E upTo \in from..(Len(feed) - 1) :
             p.next = upTo + 1 /\ p.items = SubSeq(feed, from, upTo)
    BY ONLY feed \in Seq(S), limit \in Nat \ {0}, <2>2, PageFromIs
  <2>. HIDE DEF p
  <2>4. /\ pages[c].items = p.items
        /\ pages[c].next = IF p.next = 0 THEN 0 ELSE Last(p.items)
    BY ONLY <2>1
  <2>5. ASSUME NEW upTo \in from..(Len(feed) - 1), p.next = upTo + 1,
               p.items = SubSeq(feed, from, upTo)
        PROVE  /\ pages[c].next = feed[upTo] /\ pages[c].items = SubSeq(feed, from, upTo)
               /\ upTo \in 1..Len(feed)
    <3>1. upTo \in 1..Len(feed) /\ p.next # 0
      BY ONLY <2>2, <2>5, upTo \in from..(Len(feed) - 1)
    <3>2. Last(SubSeq(feed, from, upTo)) = feed[upTo]
      BY ONLY feed \in Seq(S), <2>2, <3>1, upTo \in from..(Len(feed) - 1) DEF Last
    <3>. QED BY <2>4, <2>5, <3>1, <3>2
  <2>6. CASE p.next = 0 /\ p.items = SubSeq(feed, from, Len(feed))
    BY <2>4, <2>6 DEF from
  <2>7. CASE \E upTo \in from..(Len(feed) - 1) :
               p.next = upTo + 1 /\ p.items = SubSeq(feed, from, upTo)
    <3>1. PICK upTo \in from..(Len(feed) - 1) :
            p.next = upTo + 1 /\ p.items = SubSeq(feed, from, upTo)
      BY <2>7
    <3>2. /\ pages[c].next = feed[upTo] /\ pages[c].items = SubSeq(feed, from, upTo)
          /\ upTo \in 1..Len(feed)
      BY <2>5, <3>1
    <3>3. feed[upTo] \in DOMAIN pages /\ feed[upTo] # 0 /\ at[feed[upTo]] = upTo + 1
      BY <1>0, <3>2
    <3>. QED BY ONLY <3>2, <3>3, upTo \in from..(Len(feed) - 1) DEF from
  <2>. QED BY <2>3, <2>6, <2>7
<1>. QED
  BY ONLY feed \in Seq(S), <1>0, <1>1, first \in DOMAIN pages, at[first] = 1, ReadsAll

\* The place of a trade in its feed, which is where the next page starts from.
LEMMA TradesAreRead ==
  ASSUME NEW S, IsFiniteSet(S), S \subseteq Nat \ {0}, NEW limit \in Nat \ {0}
  PROVE  LET feed == FromLast(S)
             start(c) == IF c = 0 THEN 1 ELSE 1 + (CHOOSE k \in DOMAIN feed : feed[k] = c)
             page(c) == PageFrom(feed, start(c), limit)
         IN  Read([c \in {0} \cup S |->
                     [items |-> page(c).items,
                      next |-> IF page(c).next = 0 THEN 0 ELSE Last(page(c).items)]], 0) = feed
<1>. DEFINE feed == FromLast(S)
            n == Len(feed)
            place(c) == CHOOSE k \in DOMAIN feed : feed[k] = c
            start(c) == IF c = 0 THEN 1 ELSE 1 + place(c)
            page(c) == PageFrom(feed, start(c), limit)
            pages == [c \in {0} \cup S |->
                        [items |-> page(c).items,
                         next |-> IF page(c).next = 0 THEN 0 ELSE Last(page(c).items)]]
            at == [c \in DOMAIN pages |-> start(c)]
<1>2. /\ feed \in Seq(S) /\ n \in Nat /\ DOMAIN feed = 1..n
      /\ \A i \in S : \E k \in 1..n : feed[k] = i
      /\ \A k, l \in 1..n : feed[k] = feed[l] => k = l
  <2>1. S \subseteq Int
    OBVIOUS
  <2>2. /\ feed \in Seq(S) /\ n = Cardinality(S)
        /\ \A i \in S : \E k \in 1..Cardinality(S) : feed[k] = i
        /\ \A k, l \in 1..Cardinality(S) : feed[k] = feed[l] => k = l
    BY <2>1, FromLastIs
  <2>. HIDE DEF feed
  <2>3. n \in Nat /\ DOMAIN feed = 1..n
    BY <2>2
  <2>. QED BY <2>2, <2>3
<1>. HIDE DEF feed
<1>3. \A k \in 1..n : place(feed[k]) = k /\ feed[k] \in S
  BY <1>2
<1>4. \A c \in S : place(c) \in 1..n
  BY <1>2
<1>5. DOMAIN pages = {0} \cup S /\ 0 \in DOMAIN pages
  OBVIOUS
<1>. HIDE DEF place
<1>6. at \in [DOMAIN pages -> 1..(n + 1)] /\ at[0] = 1
  <2>1. \A c \in {0} \cup S : start(c) \in 1..(n + 1)
    BY <1>2, <1>4
  <2>2. DOMAIN at = DOMAIN pages /\ \A c \in DOMAIN pages : at[c] = start(c)
    OBVIOUS
  <2>3. at = [c \in DOMAIN at |-> at[c]]
    OBVIOUS
  <2>. HIDE DEF at, pages
  <2>4. start(0) = 1
    OBVIOUS
  <2>. HIDE DEF start
  <2>. QED BY <1>5, <2>1, <2>2, <2>3, <2>4
<1>7. \A c \in DOMAIN pages :
        LET p == PageFrom(feed, at[c], limit)
        IN  pages[c] = [items |-> p.items, next |-> IF p.next = 0 THEN 0 ELSE Last(p.items)]
  <2>1. \A c \in DOMAIN pages : at[c] = start(c)
    OBVIOUS
  <2>. HIDE DEF at, start
  <2>. QED BY <2>1
<1>8. \A k \in 1..n : feed[k] \in DOMAIN pages /\ feed[k] # 0 /\ at[feed[k]] = k + 1
  <2>1. \A c \in S : c \in DOMAIN pages /\ at[c] = 1 + place(c) /\ c # 0
    OBVIOUS
  <2>. HIDE DEF at, pages
  <2>2. ASSUME NEW k \in 1..n
        PROVE  feed[k] \in DOMAIN pages /\ feed[k] # 0 /\ at[feed[k]] = k + 1
    <3>1. feed[k] \in S /\ place(feed[k]) = k /\ k \in Nat
      BY <1>2, <1>3
    <3>2. 1 + place(feed[k]) = k + 1
      BY <3>1
    <3>. HIDE DEF n
    <3>. QED BY ONLY <2>1, <3>1, <3>2
  <2>. QED BY <2>2
<1>. HIDE DEF at, pages
<1>9. ByMember(pages, feed, at, limit)
  BY <1>6, <1>7, <1>8 DEF ByMember
<1>10. Read(pages, 0) = feed
  BY ONLY <1>2, <1>5, <1>6, <1>9, limit \in Nat \ {0}, MemberPages
<1>. QED BY <1>10 DEF pages, feed, place

LEMMA PagesHold ==
  ASSUME LogShape, AccountShape
  PROVE  PagesAreComplete
<1>. SUFFICES
       ASSUME NEW m \in Markets, NEW limit \in 1..2
       PROVE  /\ Read([c \in 1..(Len(journal[m]) + 1) |-> EventsPage(m, c, limit)], 1) = journal[m]
              /\ Read([c \in 1..(Len(Comments(m)) + 1) |-> CommentsPage(m, c, limit)], 1) = Comments(m)
              /\ Read([c \in {0} \cup TradesOn(m) |-> TradesPage(m, c, limit)], 0) = TradesFeed(m)
  BY DEF PagesAreComplete
<1>0. limit \in Nat \ {0}
  OBVIOUS
<1>1. Read([c \in 1..(Len(journal[m]) + 1) |-> EventsPage(m, c, limit)], 1) = journal[m]
  <2>. DEFINE feed == journal[m]
              pages == [c \in 1..(Len(feed) + 1) |-> EventsPage(m, c, limit)]
  <2>1. PICK S : feed \in Seq(S)
    BY DEF LogShape, IsSequence
  <2>2. DOMAIN pages = 1..(Len(feed) + 1)
        /\ \A c \in DOMAIN pages : pages[c] = PageFrom(feed, c, limit)
    BY DEF EventsPage
  <2>. HIDE DEF feed, pages
  <2>3. Read(pages, 1) = feed
    BY ONLY <1>0, <2>1, <2>2, NumberedPages
  <2>. QED BY <2>3 DEF pages, feed
<1>2. Read([c \in 1..(Len(Comments(m)) + 1) |-> CommentsPage(m, c, limit)], 1) = Comments(m)
  <2>. DEFINE feed == Comments(m)
              pages == [c \in 1..(Len(feed) + 1) |-> CommentsPage(m, c, limit)]
              S == Range(commands)
  <2>1. feed \in Seq(S)
    BY CommentsAreAFeed
  <2>2. DOMAIN pages = 1..(Len(feed) + 1)
        /\ \A c \in DOMAIN pages : pages[c] = PageFrom(feed, c, limit)
    BY DEF CommentsPage
  <2>. HIDE DEF feed, pages, S
  <2>3. Read(pages, 1) = feed
    BY ONLY <1>0, <2>1, <2>2, NumberedPages
  <2>. QED BY <2>3 DEF pages, feed
<1>3. Read([c \in {0} \cup TradesOn(m) |-> TradesPage(m, c, limit)], 0) = TradesFeed(m)
  <2>1. TradesOn(m) \subseteq DOMAIN orders
    BY DEF TradesOn, OrdersOn
  <2>2. IsFiniteSet(TradesOn(m)) /\ TradesOn(m) \subseteq Nat \ {0}
    BY <2>1, OrdersOK, FS_Subset
  <2>. QED BY <1>0, <2>2, TradesAreRead DEF TradesPage, TradesFeed
<1>. QED BY <1>1, <1>2, <1>3

LEMMA ReadsInit == Init => ReadsInv
<1>. SUFFICES ASSUME Init PROVE ReadsInv
  OBVIOUS
<1>1. NoAccounts
  BY DEF Init, NoAccounts
<1>2. OrdersTrace
  BY EmptyIsSequence DEF Init, OrdersTrace
<1>3. ResolvedBy
  BY EmptyIsSequence DEF Init, ResolvedBy, Settling
<1>4. ParentsExist
  BY SeedParents, ConstantsOK DEF Init, ParentsExist, Exists
<1>5. SeriesKept
  BY SeriesBegins DEF Init
<1>. QED BY <1>1, <1>2, <1>3, <1>4, <1>5, ChargedBegins DEF ReadsInv

LEMMA ReadsNext ==
  ASSUME LogShape, MarketShape, AccountShape, ReadsInv, [Next]_vars
  PROVE  ReadsInv'
BY TraceStep, ChargedStep, ResolvedStep, ParentsStep, SeriesStep DEF ReadsInv

LEMMA ReadsFollow ==
  ASSUME LogInv, MarketShape, AccountShape, PositionsAgree, ReadsInv
  PROVE  ReadsAgree
<1>1. LogShape
  BY DEF LogInv
<1>2. SeriesIsCurrent
  BY <1>1, SeriesEnds DEF SeriesIsCurrent, ReadsInv, SeriesKept
<1>3. TotalsAgree
  BY TotalsHold DEF ReadsInv
<1>4. AccountViewsAgree
  BY PnlFailsOnce, CostHolds, MarksHold, RealizedHolds DEF AccountViewsAgree, ReadsInv
<1>5. ParentsAreMarkets /\ PagesAreComplete
  BY <1>1, ParentsHold, PagesHold DEF ReadsInv
<1>. QED BY <1>2, <1>3, <1>4, <1>5 DEF ReadsAgree

-----------------------------------------------------------------------------
(* The theorems                                                            *)

\* Every step keeps this, and it implies every invariant proved here.
JournalInv ==
  LogInv /\ MakerInv /\ RiskInv /\ PositionsAgree /\ KnownRequests /\ PriceDriftsOnlyByRefusal

LEMMA JournalInit == Init => JournalInv
<1>. SUFFICES ASSUME Init PROVE JournalInv
  OBVIOUS
<1>1. NoAccounts
  BY DEF Init, NoAccounts
<1>2. MarketShape /\ MakerShape
  <2>1. Uniform \in Levels /\ Uniform \in Beliefs
    BY DEF Uniform, Levels, Beliefs, Zero, One
  <2>. QED BY <2>1, SeedRowsOK DEF Init, MarketShape, MakerShape
<1>3. JointIsSaved
  BY DEF Init, JointIsSaved
<1>4. SettledByResolution
  BY DEF Init, SettledByResolution, Settled, Damaged, Uniform, Zero, One, Lost
<1>5. restarts \in 0..MaxRestarts
  BY ConstantsOK DEF Init
<1>6. KnownRequests
  BY EmptyIsSequence DEF Init, KnownRequests
<1>7. PriceDriftsOnlyByRefusal
  <2>1. \A m \in Seeds : price[m] = AsRepriced(joint[m])
    BY ConstantsOK DEF Init, AsRepriced, Uniform, Speck, Tiny
  <2>. QED BY <2>1 DEF PriceDriftsOnlyByRefusal
<1>. QED BY <1>1, <1>2, <1>3, <1>4, <1>5, <1>6, <1>7, LogInit, RiskBegins, PositionsBegin
     DEF JournalInv, MakerInv

LEMMA JournalNext == JournalInv /\ [Next]_vars => JournalInv'
<1>. SUFFICES ASSUME JournalInv, [Next]_vars PROVE JournalInv'
  OBVIOUS
<1>0. /\ LogInv /\ MakerInv /\ RiskInv /\ PositionsAgree /\ KnownRequests
      /\ PriceDriftsOnlyByRefusal /\ LogShape /\ MarketShape /\ MakerShape
      /\ restarts \in 0..MaxRestarts /\ IsSequence(orders)
  BY DEF JournalInv, LogInv, MakerInv, RiskInv, AccountShape
<1>1. LogInv'
  BY <1>0, LogStep
<1>2. MakerInv'
  BY <1>0, MarketsTyped, JointStep, RestartsCounted DEF MakerInv
<1>3. RiskInv' /\ PositionsAgree'
  BY <1>0, RiskStep, PositionsStep
<1>4. KnownRequests'
  BY <1>0, KnownStep
<1>5. PriceDriftsOnlyByRefusal'
  BY <1>0, DriftStep
<1>. QED BY <1>1, <1>2, <1>3, <1>4, <1>5 DEF JournalInv

LEMMA JournalAlways == Spec => []JournalInv
BY JournalInit, JournalNext, PTL DEF Spec

LEMMA TypesFollow == JournalInv => TypeOK
<1>. SUFFICES ASSUME JournalInv PROVE TypeOK
  OBVIOUS
<1>1. /\ LogShape /\ MarketShape /\ MakerShape /\ AccountShape /\ restarts \in 0..MaxRestarts
  BY DEF JournalInv, LogInv, MakerInv, RiskInv
<1>2. \A m \in Markets : /\ DOMAIN cond[m] \subseteq Contexts \ {NoContext}
                         /\ \A c \in DOMAIN cond[m] : cond[m][c] \in Levels
  BY <1>1, RowsOK DEF MarketShape
<1>3. \A a \in Accounts : DOMAIN consumed[a] \subseteq Markets /\ Range(consumed[a]) \subseteq Int
  BY <1>1, SlicesOK DEF AccountShape, Range
<1>4. \A a \in Accounts : /\ DOMAIN exposure[a] \subseteq Markets \X Outcomes
                          /\ \A p \in DOMAIN exposure[a] :
                               exposure[a][p] \in (-MaxPosition)..MaxPosition \ {0}
  BY <1>1, PositionsOK DEF AccountShape, Position
<1>. QED BY <1>1, <1>2, <1>3, <1>4 DEF TypeOK, LogShape, MarketShape, MakerShape, AccountShape

\* TypeOK: every price, row, belief, charge and position stays in its range,
\* and every key and event names a stored command.
THEOREM TypeCorrect == Spec => []TypeOK
BY JournalAlways, TypesFollow, PTL

\* OutcomesAreRecordedOnce: whatever fails half way, restarts or is retried, a
\* recorded outcome has one event and one key, and a retry is told of it,
\* unless it is an edit of a market that now stands at certainty.
THEOREM OutcomesRecordedOnce == Spec => []OutcomesAreRecordedOnce
<1>1. JournalInv => OutcomesAreRecordedOnce
  BY RetriesTold DEF JournalInv, LogInv, MakerInv, OutcomesAreRecordedOnce
<1>. QED BY <1>1, JournalAlways, PTL

\* AccountsFollowOrders: the account read models agree with the orders, and
\* the solvency check lets nothing past but what it does not look at.
THEOREM AccountsFollow == Spec => []AccountsFollowOrders
<1>1. PositionsAgree => PositionsMatchTrades
  BY DEF PositionsAgree, PositionsMatchTrades, Booked
<1>2. JournalInv => AccountsFollowOrders
  BY <1>1 DEF JournalInv, RiskInv, AccountsFollowOrders
<1>. QED BY <1>2, JournalAlways, PTL

\* PriceDriftsOnlyByRefusal: an open seed market shows the joint's marginal,
\* unless the joint refused its edit and filled none since.
THEOREM DriftOnlyByRefusal == Spec => []PriceDriftsOnlyByRefusal
<1>1. JournalInv => PriceDriftsOnlyByRefusal
  BY DEF JournalInv
<1>. QED BY <1>1, JournalAlways, PTL

\* SettledStaysSettled: what the joint was conditioned on stays, through trades
\* of other markets and restarts; only resolving it anew after one loses it.
THEOREM SettledStays == Spec => SettledStaysSettled
<1>1. JournalInv /\ [Next]_vars => [SettledKept]_vars
  BY JointStep DEF JournalInv
<1>2. SettledStaysSettled <=> [][SettledKept]_vars
  BY DEF SettledStaysSettled, SettledKept
<1>. QED BY <1>1, <1>2, JournalAlways, PTL DEF Spec

\* JournalTellsAll: the replay hash of a market outside the joint, the moves of
\* its price and those of every account's minAsset lead to what is there now,
\* unless a command of theirs failed half way.
THEOREM JournalSuffices == Spec => []JournalTellsAll
<1>1. Init => MarketsTold /\ AccountsTold
  <2>1. Init => Forgotten
    BY ConstantsOK DEF Init, Forgotten
  <2>. QED BY <2>1, ForgottenTold
<1>2. JournalInv /\ MarketsTold /\ AccountsTold /\ [Next]_vars => (MarketsTold /\ AccountsTold)'
  BY MarketsToldStep, AccountsToldStep DEF JournalInv, LogInv, MakerInv, RiskInv
<1>3. MarketsTold /\ AccountsTold => JournalTellsAll
  BY DEF MarketsTold, MarketTold, AccountsTold, JournalTellsAll
<1>. QED BY <1>1, <1>2, <1>3, JournalAlways, PTL DEF Spec

\* ReadsAgree: what the read routes work out from the journal, the orders, the
\* commands and the account read models agrees wherever two of them tell of the
\* same thing, and a client that follows the cursors reads every feed whole.
THEOREM RoutesAgree == Spec => []ReadsAgree
<1>1. JournalInv /\ ReadsInv /\ [Next]_vars => ReadsInv'
  BY ReadsNext DEF JournalInv, LogInv, MakerInv, RiskInv
<1>2. JournalInv /\ ReadsInv => ReadsAgree
  BY ReadsFollow DEF JournalInv, MakerInv, RiskInv
<1>. QED BY <1>1, <1>2, ReadsInit, JournalAlways, PTL DEF Spec
=============================================================================
