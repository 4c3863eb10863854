--------------------------- MODULE ExchangeProofs ----------------------------
(***************************************************************************)
(* Exchange.tla for any number of users, services, pull requests, requests *)
(* and crashes: who owns an account, what a crash cannot take back, and    *)
(* what repeated callbacks and webhooks cannot do twice.                   *)
(***************************************************************************)
EXTENDS Exchange, TLAPS

LEMMA ConstantsOK ==
  /\ None \notin States /\ None \notin Identity
  /\ Cap \in Nat /\ LastDay \in Nat /\ MaxAccounts \in Nat /\ MaxKeys \in Nat
  /\ MaxMarkets \in Nat /\ MaxEdits \in Nat /\ MaxLogins \in Nat
  /\ MaxRequests \in Nat /\ MaxCrashes \in Nat
BY ExchangeAssumption

-----------------------------------------------------------------------------
(* Types.  What each operator on a snapshot makes of it.                   *)

\* create_account: the counter goes up to what was reserved.
LEMMA WithAccountTyped ==
  ASSUME NEW s \in Snapshots, s.accounts < MaxAccounts, NEW amount \in Nat
  PROVE  /\ WithAccount(s, amount) \in Snapshots
         /\ s.accounts + 1 \in 1..MaxAccounts
         /\ WithAccount(s, amount) =
              [s EXCEPT !.accounts = s.accounts + 1,
                        !.minted = [s.minted EXCEPT ![s.accounts + 1] = amount]]
<1>1. s.accounts + 1 \in 1..MaxAccounts /\ s.accounts + 1 \in 0..MaxAccounts
  BY ConstantsOK DEF Snapshots
<1>2. [s.minted EXCEPT ![s.accounts + 1] = amount] \in [1..MaxAccounts -> Nat]
  BY <1>1 DEF Snapshots
<1>. QED BY <1>1, <1>2 DEF Snapshots, WithAccount

\* An owner gets an identity.
LEMMA OwnerTyped ==
  ASSUME NEW s \in Snapshots, NEW o \in Owners, NEW id \in Identity
  PROVE  /\ [s EXCEPT !.owner[o] = id] \in Snapshots
         /\ [s EXCEPT !.owner[o] = id].owner[o] = id
<1>1. [s.owner EXCEPT ![o] = id] \in [Owners -> Identity \cup {None}]
  BY DEF Snapshots
<1>. QED BY <1>1 DEF Snapshots

LEMMA AddMarketTyped ==
  ASSUME NEW s \in Snapshots, NEW venue \in {"amm", "book"},
         NEW by \in PRs \cup Owners \cup {None}, NEW deadline \in Nat, day \in Days
  PROVE  AddMarket(s, venue, by, deadline) \in Snapshots
<1>. DEFINE m == [venue |-> venue, by |-> by, since |-> day, deadline |-> deadline,
                  status |-> "open"]
<1>1. m \in Market
  BY DEF Market
<1>2. Append(s.markets, m) \in Seq(Market)
  BY <1>1 DEF Snapshots
<1>. QED BY <1>2 DEF Snapshots, AddMarket

LEMMA EndingTyped ==
  ASSUME NEW s \in Snapshots, NEW which, NEW status \in {"open", "resolved", "void"}
  PROVE  /\ Ending(s, which, status) \in Snapshots
         /\ DOMAIN Ending(s, which, status).markets = DOMAIN s.markets
         /\ \A i \in DOMAIN s.markets :
              LET m == Ending(s, which, status).markets[i]
                  n == s.markets[i]
              IN  m.venue = n.venue /\ m.by = n.by /\ m.since = n.since
<1>. DEFINE ms == [i \in DOMAIN s.markets |->
                     IF i \in which THEN [s.markets[i] EXCEPT !.status = status]
                     ELSE s.markets[i]]
<1>1. s.markets \in Seq(Market)
  BY DEF Snapshots
<1>2. ASSUME NEW i \in DOMAIN s.markets
      PROVE  LET n == [s.markets[i] EXCEPT !.status = status]
             IN  /\ s.markets[i] \in Market /\ n \in Market
                 /\ n.venue = s.markets[i].venue /\ n.by = s.markets[i].by
                 /\ n.since = s.markets[i].since
  <2>1. s.markets[i] \in Market
    BY <1>1
  <2>. QED BY <2>1 DEF Market
<1>3. ms \in Seq(Market)
  <2>1. DOMAIN s.markets = 1..Len(s.markets) /\ Len(s.markets) \in Nat
    BY <1>1
  <2>2. ms \in [1..Len(s.markets) -> Market]
    BY <1>2, <2>1
  <2>. HIDE DEF ms
  <2>. QED BY <2>1, <2>2
<1>4. Ending(s, which, status) = [s EXCEPT !.markets = ms]
  BY DEF Ending
<1>. HIDE DEF ms
<1>5. Ending(s, which, status) \in Snapshots /\ Ending(s, which, status).markets = ms
  BY <1>3, <1>4 DEF Snapshots
<1>. QED BY <1>2, <1>5 DEF ms

LEMMA SaveTyped ==
  ASSUME NEW s \in Snapshots, raw \in Nat, Save(s)
  PROVE  disk' \in Snapshots
BY DEF Save, Snapshots

\* The part of TypeOK that is not the exchange's own state.
NewsTyped ==
  /\ keys \in 0..MaxKeys /\ unsent \subseteq Answers
  /\ told \in [Owners -> Identity \cup {None}] /\ cut \subseteq Owners
  /\ edits \in Nat /\ granted \in [1..MaxAccounts -> Nat]

LEMMA SilentTyped == TypeOK /\ Silently => NewsTyped'
BY DEF TypeOK, Silently, NewsTyped, answers

\* What a handler that succeeds leaves of the types.
LEMMA ServedTyped ==
  ASSUME TypeOK, NEW s \in Snapshots, Served(s), NewsTyped'
  PROVE  TypeOK'
<1>1. disk' \in Snapshots
  BY SaveTyped DEF TypeOK, Served
<1>2. served' \in 0..MaxRequests
  BY ConstantsOK DEF TypeOK, Served, Counted
<1>. QED BY <1>1, <1>2 DEF TypeOK, Served, NewsTyped, world

LEMMA OneMore ==
  ASSUME NEW f \in [1..MaxAccounts -> Nat], NEW a \in 1..MaxAccounts
  PROVE  [f EXCEPT ![a] = @ + 1] \in [1..MaxAccounts -> Nat]
OBVIOUS

\* Login: who is new gets an account, who is known a new key.
LEMMA AuthenticatedTyped ==
  ASSUME NEW s \in Snapshots, NEW u \in Users, NEW key \in 1..MaxKeys,
         s.owner[u] = None => s.accounts < MaxAccounts
  PROVE  /\ Authenticated(s, u, key) \in Snapshots
         /\ Authenticated(s, u, key).owner[u] \in Identity
<1>1. u \in Owners
  BY DEF Owners
<1>2. CASE s.owner[u] = None
  <2>1. WithAccount(s, 1) \in Snapshots /\ s.accounts + 1 \in 1..MaxAccounts
    BY <1>2, WithAccountTyped
  <2>2. [account |-> s.accounts + 1, key |-> key] \in Identity
    BY <2>1 DEF Identity
  <2>3. Authenticated(s, u, key) = [WithAccount(s, 1) EXCEPT
          !.owner[u] = [account |-> s.accounts + 1, key |-> key]]
    BY <1>2 DEF Authenticated
  <2>. QED BY <1>1, <2>1, <2>2, <2>3, OwnerTyped
<1>3. CASE s.owner[u] # None
  <2>1. s.owner[u] \in Identity
    BY <1>1, <1>3 DEF Snapshots
  <2>2. [s.owner[u] EXCEPT !.key = key] \in Identity
    BY <2>1 DEF Identity
  <2>3. Authenticated(s, u, key) = [s EXCEPT !.owner[u] = [s.owner[u] EXCEPT !.key = key]]
    BY <1>3 DEF Authenticated, Rotated
  <2>. QED BY <1>1, <2>2, <2>3, OwnerTyped
<1>. QED BY <1>2, <1>3

LEMMA AnswerTyped ==
  ASSUME TypeOK, NEW o \in Owners, NEW id \in Identity, Answer(o, id),
         UNCHANGED <<edits, granted>>
  PROVE  NewsTyped'
<1>1. keys' \in 0..MaxKeys
  BY ConstantsOK DEF TypeOK, Answer
<1>2. [owner |-> o, identity |-> id] \in Answers
  BY DEF Answers
<1>. QED BY <1>1, <1>2 DEF TypeOK, Answer, NewsTyped

\* The steps that leave the exchange's state, the file and what was told alone:
\* the login state and the world outside.
Elsewhere ==
  \/ \E s \in States :
       LoginStart(s) \/ StateExpires(s) \/ (\E u \in Users : Callback(s, u))
  \/ \E u \in Users :
       DevicePoll(u) \/ (\E s \in States \cup {None} : GithubFails(s, u))
  \/ \E p \in PRs : PrOpened(p) \/ PrClosed(p)
  \/ Midnight
  \/ UNCHANGED vars

Quiet ==
  /\ UNCHANGED <<live, raw, enabled, disk, up>>
  /\ Silently

LEMMA QuietSteps ==
  ASSUME Elsewhere
  PROVE  Quiet
<1>1. ASSUME NEW s \in States, LoginStart(s) \/ StateExpires(s) \/ (\E u \in Users : Callback(s, u))
      PROVE  Quiet
  <2>1. ASSUME NEW u \in Users, Callback(s, u) PROVE Quiet
    BY <2>1 DEF Quiet, Callback, LoginBegins
  <2>2. CASE LoginStart(s) \/ StateExpires(s)
    BY <2>2 DEF Quiet, LoginStart, StateExpires
  <2>. QED BY <1>1, <2>1, <2>2
<1>2. ASSUME NEW u \in Users, DevicePoll(u) \/ (\E s \in States \cup {None} : GithubFails(s, u))
      PROVE  Quiet
  <2>1. ASSUME NEW s, GithubFails(s, u) PROVE Quiet
    BY <2>1 DEF Quiet, GithubFails
  <2>2. CASE DevicePoll(u)
    BY <2>2 DEF Quiet, DevicePoll, LoginBegins
  <2>. QED BY <1>2, <2>1, <2>2
<1>3. ASSUME NEW p \in PRs, PrOpened(p) \/ PrClosed(p)
      PROVE  Quiet
  BY <1>3 DEF Quiet, PrOpened, PrClosed, Outside
<1>4. CASE Midnight
  BY <1>4 DEF Quiet, Midnight, Outside
<1>5. CASE UNCHANGED vars
  BY <1>5 DEF Quiet, vars, Silently
<1>. QED BY <1>1, <1>2, <1>3, <1>4, <1>5 DEF Elsewhere

\* What a step can be; the lemmas below take one kind each.
LEMMA StepKinds ==
  ASSUME [Next]_vars
  PROVE  \/ Elsewhere
         \/ \E u \in Users, s \in States \cup {None} : LoginEnds(s, u)
         \/ \E n \in Services, amount \in {0, 1} : CreateServiceAccount(n, amount)
         \/ \E n \in Services : CreateServiceAccountBadly(n)
         \/ \E r \in unsent : Answered(r)
         \/ CreateAccount
         \/ \E a \in 1..MaxAccounts : AdminMint(a)
         \/ \E p \in PRs : DeliverOpened(p)
         \/ \E u \in Owners, venue \in {"amm", "book"}, d \in Deadlines : SelfServe(u, venue, d)
         \/ \E venue \in {"amm", "book"}, d \in Deadlines : ByAdmin(venue, d)
         \/ \E which \in SUBSET DOMAIN live.markets, status \in {"open", "resolved", "void"} :
              Served(Ending(live, which, status)) /\ Silently
         \/ Reconcile
         \/ \E on \in BOOLEAN : Track(on)
         \/ EditJoint
         \/ Crash
         \/ \E seeds \in BOOLEAN : Start(seeds)
<1>1. ASSUME NEW p \in PRs, DeliverClosed(p)
      PROVE  \E which \in SUBSET DOMAIN live.markets, status \in {"open", "resolved", "void"} :
               Served(Ending(live, which, status)) /\ Silently
  BY <1>1 DEF DeliverClosed, OpenMarketsOf
<1>2. ASSUME NEW i \in DOMAIN live.markets, NEW byAdmin, NEW status \in {"open", "resolved", "void"},
             Settle(i, byAdmin, status) \/ SettleBook(i, byAdmin, status) \/ Override(i, status)
      PROVE  \E which \in SUBSET DOMAIN live.markets :
               Served(Ending(live, which, status)) /\ Silently
  <2>1. {i} \in SUBSET DOMAIN live.markets
    OBVIOUS
  <2>2. Served(Ending(live, {i}, status)) /\ Silently
    BY <1>2 DEF Settle, SettleBook, Override, SettleMarket
  <2>. QED BY <2>1, <2>2
<1>3. CASE Next
  <2>1. ASSUME NEW i \in DOMAIN live.markets,
               \/ \E byAdmin \in BOOLEAN, status \in {"resolved", "void"} :
                    Settle(i, byAdmin, status) \/ SettleBook(i, byAdmin, status)
               \/ \E status \in {"open", "resolved", "void"} : Override(i, status)
        PROVE  \E which \in SUBSET DOMAIN live.markets, status \in {"open", "resolved", "void"} :
                 Served(Ending(live, which, status)) /\ Silently
    BY <1>2, <2>1
  <2>2. ASSUME NEW d \in Deadlines,
               \/ \E u \in Owners : CreateUserMarket(u, d) \/ CreateBookMarket(u, d)
               \/ AdminCreateMarket(d) \/ AdminCreateBookMarket(d)
        PROVE  \E venue \in {"amm", "book"} :
                 ByAdmin(venue, d) \/ \E u \in Owners : SelfServe(u, venue, d)
    BY <2>2 DEF CreateUserMarket, CreateBookMarket, AdminCreateMarket, AdminCreateBookMarket
  <2>. QED BY <1>1, <1>3, <2>1, <2>2 DEF Next, Elsewhere
<1>4. CASE UNCHANGED vars
  BY <1>4 DEF Elsewhere
<1>. QED BY <1>3, <1>4

LEMMA ElsewhereTyped ==
  ASSUME TypeOK, Elsewhere
  PROVE  TypeOK'
<1>0. ASSUME NEW s, NEW u, LoginStart(s) \/ StateExpires(s) \/ LoginBegins(s, u) \/ GithubFails(s, u)
      PROVE  Silently /\ UNCHANGED <<world, served, crashes, live, disk, raw, enabled, up>>
  BY <1>0 DEF LoginStart, StateExpires, LoginBegins, GithubFails
<1>1. ASSUME Silently, UNCHANGED <<served, crashes, live, disk, raw, enabled, up>>,
             issued' \subseteq States, asking' \subseteq (States \cup {None}) \X Users,
             github' \in [PRs -> {"none", "open", "closed"}], day' \in Days,
             used' \in [States \cup {None} -> Nat]
      PROVE  TypeOK'
  <2>1. NewsTyped'
    BY <1>1, SilentTyped
  <2>. QED BY <1>1, <2>1 DEF TypeOK, NewsTyped
<1>2. ASSUME NEW s \in States, LoginStart(s) \/ StateExpires(s) PROVE TypeOK'
  <2>1. issued' \subseteq States /\ UNCHANGED <<asking, used, world>>
    BY <1>2 DEF TypeOK, LoginStart, StateExpires
  <2>2. Silently /\ UNCHANGED <<served, crashes, live, disk, raw, enabled, up>>
    BY <1>0, <1>2
  <2>. QED BY <1>1, <2>1, <2>2 DEF TypeOK, world
<1>3. ASSUME NEW s \in States \cup {None}, NEW u \in Users, LoginBegins(s, u),
             issued' \subseteq States
      PROVE  TypeOK'
  <2>1. used' \in [States \cup {None} -> Nat]
    BY <1>3 DEF TypeOK, LoginBegins
  <2>2. asking' \subseteq (States \cup {None}) \X Users
    BY <1>3 DEF TypeOK, LoginBegins
  <2>3. Silently /\ UNCHANGED <<world, served, crashes, live, disk, raw, enabled, up>>
    BY <1>0, <1>3
  <2>. QED BY <1>1, <1>3, <2>1, <2>2, <2>3 DEF TypeOK, world
<1>4. ASSUME NEW s \in States, NEW u \in Users, Callback(s, u) PROVE TypeOK'
  <2>1. issued' \subseteq States
    BY <1>4 DEF TypeOK, Callback
  <2>. QED BY <1>3, <1>4, <2>1 DEF Callback
<1>5. ASSUME NEW u \in Users, DevicePoll(u) PROVE TypeOK'
  <2>1. issued' \subseteq States
    BY <1>5 DEF TypeOK, DevicePoll
  <2>. QED BY <1>3, <1>5, <2>1 DEF DevicePoll
<1>6. ASSUME NEW s, NEW u, GithubFails(s, u) PROVE TypeOK'
  <2>1. asking' \subseteq (States \cup {None}) \X Users /\ UNCHANGED <<issued, used>>
    BY <1>6 DEF TypeOK, GithubFails
  <2>2. Silently /\ UNCHANGED <<world, served, crashes, live, disk, raw, enabled, up>>
    BY <1>0, <1>6
  <2>. QED BY <1>1, <2>1, <2>2 DEF TypeOK, world
<1>7. ASSUME Outside, github' \in [PRs -> {"none", "open", "closed"}], day' \in Days
      PROVE  TypeOK'
  BY <1>1, <1>7 DEF TypeOK, Outside
<1>8. ASSUME NEW p \in PRs, PrOpened(p) \/ PrClosed(p) PROVE TypeOK'
  <2>1. github' \in [PRs -> {"none", "open", "closed"}] /\ day' \in Days /\ Outside
    BY <1>8 DEF TypeOK, PrOpened, PrClosed
  <2>. QED BY <1>7, <2>1
<1>9. ASSUME Midnight PROVE TypeOK'
  <2>1. day' \in Days
    BY <1>9, ConstantsOK DEF TypeOK, Midnight, Days
  <2>. QED BY <1>7, <1>9, <2>1 DEF TypeOK, Midnight
<1>10. CASE UNCHANGED vars
  BY <1>10 DEF TypeOK, vars, answers, world
<1>. QED BY <1>2, <1>4, <1>5, <1>6, <1>8, <1>9, <1>10 DEF Elsewhere

LEMMA HandlerTyped ==
  ASSUME TypeOK,
         \/ \E u \in Users, s \in States \cup {None} : LoginEnds(s, u)
         \/ \E n \in Services, amount \in {0, 1} : CreateServiceAccount(n, amount)
         \/ \E n \in Services : CreateServiceAccountBadly(n)
         \/ \E r \in unsent : Answered(r)
         \/ CreateAccount
         \/ \E a \in 1..MaxAccounts : AdminMint(a)
  PROVE  TypeOK'
<1>0. keys < MaxKeys => keys + 1 \in 1..MaxKeys
  BY ConstantsOK DEF TypeOK
<1>1. ASSUME NEW u \in Users, NEW s \in States \cup {None}, LoginEnds(s, u) PROVE TypeOK'
  <2>. DEFINE after == Authenticated(live, u, keys + 1)
  <2>1. keys < MaxKeys /\ u \in Owners /\ (live.owner[u] = None => live.accounts < MaxAccounts)
    BY <1>1 DEF LoginEnds, Owners, Answer
  <2>2. after \in Snapshots /\ after.owner[u] \in Identity
    BY <1>0, <2>1, AuthenticatedTyped DEF TypeOK
  <2>3. live' = after /\ Save(after) /\ Answer(u, after.owner[u]) /\ Counted
        /\ asking' = asking \ {<<s, u>>}
        /\ UNCHANGED <<raw, enabled, issued, up, world, edits, granted, used, crashes>>
    BY <1>1 DEF LoginEnds
  <2>. HIDE DEF after
  <2>4. disk' \in Snapshots
    BY <2>2, <2>3, SaveTyped DEF TypeOK
  <2>5. NewsTyped'
    BY <2>1, <2>2, <2>3, AnswerTyped
  <2>6. served' \in 0..MaxRequests
    BY <2>3, ConstantsOK DEF TypeOK, Counted
  <2>. QED BY <2>2, <2>3, <2>4, <2>5, <2>6 DEF TypeOK, NewsTyped, world
<1>2. ASSUME NEW n \in Services, NEW amount \in {0, 1}, CreateServiceAccount(n, amount) PROVE TypeOK'
  <2>. DEFINE id == [account |-> live.accounts + 1, key |-> keys + 1]
              after == [WithAccount(live, amount) EXCEPT !.owner[n] = id]
  <2>1. keys < MaxKeys /\ n \in Owners /\ live.accounts < MaxAccounts /\ amount \in Nat
        /\ Answer(n, id) /\ Served(after) /\ UNCHANGED <<edits, granted>>
    BY <1>2 DEF CreateServiceAccount, Owners, Answer
  <2>2. WithAccount(live, amount) \in Snapshots /\ live.accounts + 1 \in 1..MaxAccounts
    BY <2>1, WithAccountTyped DEF TypeOK
  <2>3. id \in Identity
    BY <1>0, <2>1, <2>2 DEF Identity
  <2>. HIDE DEF id
  <2>4. after \in Snapshots
    BY <2>1, <2>2, <2>3, OwnerTyped
  <2>. HIDE DEF after
  <2>. QED BY <2>1, <2>3, <2>4, AnswerTyped, ServedTyped
<1>3. ASSUME NEW n \in Services, CreateServiceAccountBadly(n) PROVE TypeOK'
  <2>1. WithAccount(live, 0) \in Snapshots
    BY <1>3, WithAccountTyped DEF TypeOK, CreateServiceAccountBadly
  <2>2. served' \in 0..MaxRequests
    BY <1>3, ConstantsOK DEF TypeOK, CreateServiceAccountBadly, Counted
  <2>3. NewsTyped'
    BY <1>3, SilentTyped DEF CreateServiceAccountBadly
  <2>. QED BY <1>3, <2>1, <2>2, <2>3 DEF TypeOK, CreateServiceAccountBadly, NewsTyped, world
<1>4. ASSUME NEW r \in unsent, Answered(r) PROVE TypeOK'
  <2>1. r.owner \in Owners /\ r.identity \in Identity
    BY DEF TypeOK, Answers
  <2>2. told' \in [Owners -> Identity \cup {None}]
    BY <1>4, <2>1 DEF TypeOK, Answered
  <2>. QED BY <1>4, <2>2 DEF TypeOK, Answered, world
<1>5. ASSUME CreateAccount PROVE TypeOK'
  <2>1. WithAccount(live, 0) \in Snapshots
    BY <1>5, WithAccountTyped DEF TypeOK, CreateAccount
  <2>. QED BY <1>5, <2>1, ServedTyped, SilentTyped DEF CreateAccount
<1>6. ASSUME NEW a \in 1..MaxAccounts, AdminMint(a) PROVE TypeOK'
  <2>1. [live.minted EXCEPT ![a] = @ + 1] \in [1..MaxAccounts -> Nat]
    <3>1. live.minted \in [1..MaxAccounts -> Nat]
      BY DEF TypeOK, Snapshots
    <3>. QED BY <3>1, OneMore
  <2>2. [live EXCEPT !.minted[a] = @ + 1] \in Snapshots
    BY <2>1 DEF TypeOK, Snapshots
  <2>3. granted' \in [1..MaxAccounts -> Nat]
    BY <1>6 DEF TypeOK, AdminMint
  <2>4. NewsTyped'
    BY <1>6, <2>3 DEF TypeOK, AdminMint, NewsTyped, answers
  <2>. QED BY <1>6, <2>2, <2>4, ServedTyped DEF AdminMint
<1>. QED BY <1>1, <1>2, <1>3, <1>4, <1>5, <1>6

LEMMA MarketTyped ==
  ASSUME TypeOK,
         \/ \E p \in PRs : DeliverOpened(p)
         \/ \E u \in Owners, venue \in {"amm", "book"}, d \in Deadlines : SelfServe(u, venue, d)
         \/ \E venue \in {"amm", "book"}, d \in Deadlines : ByAdmin(venue, d)
         \/ \E which \in SUBSET DOMAIN live.markets, status \in {"open", "resolved", "void"} :
              Served(Ending(live, which, status)) /\ Silently
         \/ Reconcile
         \/ \E on \in BOOLEAN : Track(on)
         \/ EditJoint
  PROVE  TypeOK'
<1>0. /\ live \in Snapshots /\ day \in Days /\ raw \in Nat
      /\ \A d \in Days : d + 1 \in Nat
      /\ \A d \in Deadlines : d \in Nat
  BY ConstantsOK DEF TypeOK, Days, Deadlines
<1>1. ASSUME NEW venue \in {"amm", "book"}, NEW by \in PRs \cup Owners \cup {None}, NEW d \in Nat,
             Served(AddMarket(live, venue, by, d)), Silently
      PROVE  TypeOK'
  <2>1. AddMarket(live, venue, by, d) \in Snapshots
    BY <1>0, AddMarketTyped
  <2>. QED BY <1>1, <2>1, ServedTyped, SilentTyped
<1>2. ASSUME NEW p \in PRs, DeliverOpened(p) PROVE TypeOK'
  BY <1>0, <1>1, <1>2 DEF DeliverOpened
<1>3. ASSUME NEW u \in Owners, NEW venue \in {"amm", "book"}, NEW d \in Deadlines,
             SelfServe(u, venue, d)
      PROVE  TypeOK'
  BY <1>0, <1>1, <1>3 DEF SelfServe
<1>4. ASSUME NEW venue \in {"amm", "book"}, NEW d \in Deadlines, ByAdmin(venue, d) PROVE TypeOK'
  BY <1>0, <1>1, <1>4 DEF ByAdmin
<1>5. ASSUME NEW which, NEW status \in {"open", "resolved", "void"},
             Served(Ending(live, which, status)), Silently
      PROVE  TypeOK'
  <2>1. Ending(live, which, status) \in Snapshots
    BY <1>0, EndingTyped
  <2>. QED BY <1>5, <2>1, ServedTyped, SilentTyped
<1>6. ASSUME Reconcile PROVE TypeOK'
  <2>. DEFINE after == Ending(live, ExpiredIn(live), "void")
  <2>1. after \in Snapshots
    BY <1>0, EndingTyped
  <2>2. live' = after /\ Save(after) /\ Silently
        /\ UNCHANGED <<raw, enabled, issued, asking, up, world, used, served, crashes>>
    BY <1>6 DEF Reconcile
  <2>. HIDE DEF after
  <2>3. disk' \in Snapshots /\ NewsTyped'
    BY <1>0, <2>1, <2>2, SaveTyped, SilentTyped
  <2>. QED BY <2>1, <2>2, <2>3 DEF TypeOK, NewsTyped, world
<1>7. ASSUME NEW on \in BOOLEAN, Track(on) PROVE TypeOK'
  <2>1. [live EXCEPT !.tracked = on] \in Snapshots
    BY <1>0 DEF Snapshots
  <2>. QED BY <1>7, <2>1, ServedTyped, SilentTyped DEF Track
<1>8. ASSUME EditJoint PROVE TypeOK'
  <2>1. [live EXCEPT !.joint = @ + 1] \in Snapshots
    BY <1>0 DEF Snapshots
  <2>2. NewsTyped'
    BY <1>8 DEF TypeOK, EditJoint, NewsTyped, answers
  <2>. QED BY <1>8, <2>1, <2>2, ServedTyped DEF EditJoint
<1>. QED BY <1>2, <1>3, <1>4, <1>5, <1>6, <1>7, <1>8

LEMMA CrashTyped ==
  ASSUME TypeOK, Crash
  PROVE  TypeOK'
<1>1. crashes' \in 0..MaxCrashes
  BY ConstantsOK DEF TypeOK, Crash
<1>2. unsent' \subseteq Answers /\ cut' \subseteq Owners
  BY DEF TypeOK, Crash
<1>. QED BY <1>1, <1>2 DEF TypeOK, Crash, world

LEMMA StartTyped ==
  ASSUME TypeOK, NEW seeds \in BOOLEAN, Start(seeds)
  PROVE  TypeOK'
<1>. DEFINE read == [disk EXCEPT !.joint = IF seeds THEN @ ELSE 0]
            loaded == Ending(read, ExpiredIn(disk), "void")
<1>1. read \in Snapshots /\ disk \in Snapshots /\ disk.joint \in Nat
  BY DEF TypeOK, Snapshots
<1>2. loaded \in Snapshots
  <2>. HIDE DEF read
  <2>. QED BY <1>1, EndingTyped
<1>3. /\ live' = loaded /\ raw' = disk.joint /\ enabled' = seeds /\ up' = TRUE
      /\ disk' = disk \/ disk' = [loaded EXCEPT !.joint = disk.joint]
      /\ UNCHANGED <<issued, asking, world, used, served, crashes>> /\ Silently
  BY DEF Start
<1>. HIDE DEF loaded
<1>4. disk' \in Snapshots /\ NewsTyped'
  BY <1>1, <1>2, <1>3, SilentTyped DEF Snapshots
<1>. QED BY <1>1, <1>2, <1>3, <1>4 DEF TypeOK, NewsTyped, world

LEMMA InitTyped == Init => TypeOK
BY ConstantsOK DEF Init, TypeOK, Snapshots, Empty, Market, Days

LEMMA NextTyped == TypeOK /\ [Next]_vars => TypeOK'
BY StepKinds, ElsewhereTyped, HandlerTyped, MarketTyped, CrashTyped, StartTyped

\* Every reachable state of the exchange is well typed, its file included:
\* whatever handlers fail, the counters stay within what was reserved and a
\* snapshot is a snapshot (api.py, persistence.py).
THEOREM TypeCorrect == Spec => []TypeOK
BY InitTyped, NextTyped, PTL DEF Spec

-----------------------------------------------------------------------------
(* What was told is on disk.                                               *)

\* An identity o was told once, or will be when its answer arrives: it is of the
\* account o has, and its key is no newer than the one on disk.
Known(o, identity) ==
  /\ disk.owner[o] # None
  /\ disk.owner[o].account = identity.account
  /\ identity.key <= disk.owner[o].key

\* Of an owner's identities the one on disk is the newest, and its answer is with
\* the owner, on its way, or cut off.
Newest ==
  /\ \A o \in Owners :
       /\ disk.owner[o] # None => disk.owner[o].key <= keys
       /\ told[o] # None => Known(o, told[o])
       /\ \/ disk.owner[o] = told[o]
          \/ [owner |-> o, identity |-> disk.owner[o]] \in unsent
          \/ o \in cut
  /\ \A r \in unsent : Known(r.owner, r.identity)

\* AnsweredIsSaved, and why it stays: memory has the same owners and markets
\* as the file, and the joint section either too or, while the venue does not
\* run, what the process was started with.
Agreement ==
  /\ Newest
  /\ disk.markets = live.markets /\ disk.joint = edits
  /\ live.owner = disk.owner
  /\ up => IF enabled THEN live.joint = edits ELSE raw = edits

\* The parts of a snapshot that Save does not touch.
LEMMA SavedFields ==
  ASSUME NEW s \in Snapshots, Save(s)
  PROVE  /\ disk'.owner = s.owner /\ disk'.markets = s.markets
         /\ disk'.accounts = s.accounts /\ disk'.minted = s.minted
         /\ disk'.joint = IF enabled THEN s.joint ELSE raw
BY DEF Save, Snapshots

LEMMA NewestStays ==
  ASSUME Newest, disk'.owner = disk.owner, UNCHANGED answers
  PROVE  Newest'
BY DEF Newest, Known, answers

LEMMA KeysAreNumbers == \A identity \in Identity : identity.key \in Nat /\ identity # None
BY ConstantsOK DEF Identity

\* A new key is newer than all, and of the account its owner has.
LEMMA AnswerIsNewest ==
  ASSUME TypeOK, Newest, NEW o \in Owners, NEW id \in Identity, Answer(o, id),
         id.key = keys + 1,
         disk.owner[o] # None => id.account = disk.owner[o].account,
         disk'.owner = [disk.owner EXCEPT ![o] = id]
  PROVE  Newest'
<1>0. /\ disk.owner \in [Owners -> Identity \cup {None}] /\ keys \in Nat /\ id # None
      /\ told' = told /\ keys' = keys + 1 /\ cut' = cut \ {o}
      /\ unsent' = unsent \cup {[owner |-> o, identity |-> id]}
      /\ \A identity \in Identity : identity.key \in Nat
  <2>1. disk.owner \in [Owners -> Identity \cup {None}]
    BY DEF TypeOK, Snapshots
  <2>2. keys \in Nat
    BY ConstantsOK DEF TypeOK
  <2>. QED BY <2>1, <2>2, KeysAreNumbers DEF Answer
<1>1. disk'.owner[o] = id /\ \A p \in Owners \ {o} : disk'.owner[p] = disk.owner[p]
  BY <1>0
<1>2. ASSUME NEW p \in Owners, disk.owner[p] # None
      PROVE  /\ disk.owner[p].key <= keys /\ disk.owner[p].key \in Nat
             /\ disk'.owner[p] # None /\ disk'.owner[p].key <= keys + 1
             /\ disk'.owner[p].account = disk.owner[p].account
             /\ disk.owner[p].key <= disk'.owner[p].key
  <2>1. disk.owner[p].key <= keys /\ disk.owner[p].key \in Nat
    BY <1>0, <1>2 DEF Newest
  <2>2. CASE p = o
    BY <1>0, <1>1, <1>2, <2>1, <2>2
  <2>3. CASE p # o
    BY <1>0, <1>1, <1>2, <2>1, <2>3
  <2>. QED BY <2>1, <2>2, <2>3
<1>3. ASSUME NEW p \in Owners, NEW identity \in Identity, Known(p, identity)
      PROVE  Known(p, identity)'
  <2>1. /\ disk.owner[p] # None /\ disk.owner[p].account = identity.account
        /\ identity.key <= disk.owner[p].key /\ identity.key \in Nat
    BY <1>0, <1>3 DEF Known
  <2>2. disk'.owner[p].key \in Nat
    BY <1>0, <1>1, <2>1
  <2>3. /\ disk'.owner[p] # None /\ disk'.owner[p].account = identity.account
        /\ identity.key <= disk'.owner[p].key
    BY <1>2, <2>1, <2>2
  <2>. QED BY <2>3 DEF Known
<1>4. ASSUME NEW p \in Owners
      PROVE  /\ disk'.owner[p] # None => disk'.owner[p].key <= keys'
             /\ \/ disk'.owner[p] = told'[p]
                \/ [owner |-> p, identity |-> disk'.owner[p]] \in unsent'
                \/ p \in cut'
  <2>1. CASE p = o
    BY <1>0, <1>1, <2>1
  <2>2. CASE p # o
    BY <1>0, <1>1, <1>2, <2>2 DEF Newest
  <2>. QED BY <2>1, <2>2
<1>5. ASSUME NEW p \in Owners, told'[p] # None PROVE Known(p, told[p])'
  <2>1. told[p] \in Identity /\ Known(p, told[p])
    BY <1>0, <1>5 DEF TypeOK, Newest
  <2>2. told'[p] = told[p]
    BY <1>0
  <2>. QED BY <1>3, <2>1, <2>2 DEF Known
<1>6. ASSUME NEW r \in unsent' PROVE Known(r.owner, r.identity)'
  <2>1. CASE r \in unsent
    <3>1. r.owner \in Owners /\ r.identity \in Identity /\ Known(r.owner, r.identity)
      BY <2>1 DEF TypeOK, Answers, Newest
    <3>. QED BY <1>3, <3>1
  <2>2. CASE r = [owner |-> o, identity |-> id]
    <3>1. r.owner = o /\ r.identity = id
      BY <2>2
    <3>. QED BY <1>0, <1>1, <3>1 DEF Known
  <2>. QED BY <1>0, <2>1, <2>2
<1>. QED BY <1>4, <1>5, <1>6 DEF Newest

\* Who has the newest key keeps it, whichever answer arrives last.
LEMMA AnsweredIsNewest ==
  ASSUME TypeOK, Newest, NEW r \in unsent, Answered(r)
  PROVE  Newest'
<1>0. /\ r.owner \in Owners /\ r.identity \in Identity
      /\ told \in [Owners -> Identity \cup {None}]
      /\ disk.owner \in [Owners -> Identity \cup {None}]
      /\ \A identity \in Identity : identity.key \in Nat
      /\ None \notin Identity
      /\ unsent' = unsent \ {r} /\ UNCHANGED <<disk, keys, cut>>
  BY ConstantsOK, KeysAreNumbers DEF TypeOK, Answers, Answered, Snapshots
<1>1. Known(r.owner, r.identity)
  BY DEF Newest
<1>2. /\ \A o \in Owners \ {r.owner} : told'[o] = told[o]
      /\ \/ told'[r.owner] = r.identity
         \/ /\ told'[r.owner] = told[r.owner] /\ told[r.owner] # None
            /\ told[r.owner].key > r.identity.key
  BY <1>0 DEF Answered
<1>3. ASSUME NEW o \in Owners, told'[o] # None PROVE Known(o, told[o])'
  <2>1. Known(o, told'[o])
    BY <1>1, <1>2, <1>3 DEF Newest
  <2>. QED BY <1>0, <2>1 DEF Known
<1>4. ASSUME NEW o \in Owners
      PROVE  \/ disk.owner[o] = told'[o]
             \/ [owner |-> o, identity |-> disk.owner[o]] \in unsent'
             \/ o \in cut
  <2>1. CASE o # r.owner
    <3>1. [owner |-> o, identity |-> disk.owner[o]] # r
      BY <2>1
    <3>. QED BY <1>0, <1>2, <2>1, <3>1 DEF Newest
  <2>2. CASE o = r.owner /\ disk.owner[o] = told[o]
    <3>1. r.identity.key <= disk.owner[o].key /\ r.identity.account = disk.owner[o].account
          /\ disk.owner[o] \in Identity
      BY <1>0, <1>1, <2>2 DEF Known
    <3>2. CASE told'[o] = r.identity /\ ~ (told[o].key > r.identity.key)
      <4>1. r.identity.key = disk.owner[o].key
        BY <1>0, <2>2, <3>1, <3>2
      <4>2. r.identity = disk.owner[o]
        BY <1>0, <3>1, <4>1 DEF Identity
      <4>. QED BY <3>2, <4>2
    <3>3. CASE told'[o] = told[o]
      BY <2>2, <3>3
    <3>4. told'[o] = told[o] \/ (told'[o] = r.identity /\ ~ (told[o].key > r.identity.key))
      <4>1. told[o] # None
        BY <1>0, <2>2, <3>1
      <4>. QED BY <1>0, <2>2, <4>1 DEF Answered
    <3>. QED BY <3>2, <3>3, <3>4
  <2>3. CASE o = r.owner /\ [owner |-> o, identity |-> disk.owner[o]] \in unsent
             /\ [owner |-> o, identity |-> disk.owner[o]] # r
    BY <1>0, <2>3
  <2>4. CASE o = r.owner /\ [owner |-> o, identity |-> disk.owner[o]] = r
    <3>1. r.identity = disk.owner[o]
      BY <2>4
    <3>2. ASSUME told[o] # None PROVE ~ (told[o].key > r.identity.key)
      <4>1. told[o].key <= disk.owner[o].key /\ told[o].key \in Nat /\ disk.owner[o].key \in Nat
        BY <1>0, <3>1, <3>2 DEF Newest, Known
      <4>. QED BY <3>1, <4>1
    <3>3. told'[o] = r.identity
      BY <1>2, <2>4, <3>2
    <3>. QED BY <3>1, <3>3
  <2>5. \/ disk.owner[o] = told[o]
        \/ [owner |-> o, identity |-> disk.owner[o]] \in unsent
        \/ o \in cut
    BY DEF Newest
  <2>. QED BY <2>1, <2>2, <2>3, <2>4, <2>5
<1>5. \A q \in unsent' : Known(q.owner, q.identity)'
  BY <1>0 DEF Newest, Known
<1>6. \A o \in Owners : disk'.owner[o] # None => disk'.owner[o].key <= keys'
  BY <1>0 DEF Newest
<1>7. \A o \in Owners : \/ disk'.owner[o] = told'[o]
                        \/ [owner |-> o, identity |-> disk'.owner[o]] \in unsent'
                        \/ o \in cut'
  BY <1>0, <1>4
<1>. QED BY <1>3, <1>5, <1>6, <1>7 DEF Newest

LEMMA CrashAgrees ==
  ASSUME Agreement, Crash
  PROVE  Agreement'
<1>1. /\ unsent' = {} /\ up' = FALSE /\ UNCHANGED <<live, disk, keys, told, edits>>
      /\ cut' = cut \cup {o \in Owners : [owner |-> o, identity |-> disk.owner[o]] \in unsent}
  BY DEF Crash
<1>2. Newest'
  BY <1>1 DEF Agreement, Newest, Known
<1>. QED BY <1>1, <1>2 DEF Agreement

\* A step that saves, and changes no owner and not the joint section.
LEMMA SilentlyAgrees ==
  ASSUME TypeOK, Agreement, live' \in Snapshots, Save(live'), up, UNCHANGED <<raw, enabled, up>>,
         live'.owner = live.owner, live'.joint = live.joint, UNCHANGED <<answers, edits>>
  PROVE  Agreement'
<1>1. /\ disk'.owner = live'.owner /\ disk'.markets = live'.markets
      /\ disk'.joint = IF enabled THEN live'.joint ELSE raw
  BY SavedFields
<1>2. Newest'
  BY <1>1, NewestStays DEF Agreement
<1>. QED BY <1>1, <1>2 DEF Agreement

\* A step that saves a new key.
LEMMA AnswerAgrees ==
  ASSUME TypeOK, Agreement, live' \in Snapshots, Save(live'), up, UNCHANGED <<raw, enabled, up>>,
         NEW o \in Owners, NEW id \in Identity, Answer(o, id), id.key = keys + 1,
         live.owner[o] # None => id.account = live.owner[o].account,
         live'.owner = [live.owner EXCEPT ![o] = id], live'.joint = live.joint, UNCHANGED edits
  PROVE  Agreement'
<1>1. /\ disk'.owner = live'.owner /\ disk'.markets = live'.markets
      /\ disk'.joint = IF enabled THEN live'.joint ELSE raw
  BY SavedFields
<1>2. Newest'
  BY <1>1, AnswerIsNewest DEF Agreement
<1>. QED BY <1>1, <1>2 DEF Agreement

LEMMA AgreementStep ==
  ASSUME TypeOK, Agreement, [Next]_vars
  PROVE  Agreement'
<1>0. TypeOK' /\ live \in Snapshots /\ live' \in Snapshots /\ disk \in Snapshots
  BY NextTyped DEF TypeOK
<1>1. CASE Elsewhere
  <2>1. UNCHANGED <<live, raw, enabled, disk, up, answers, edits>>
    BY <1>1, QuietSteps DEF Quiet, Silently
  <2>. QED BY <2>1, NewestStays DEF Agreement
<1>2. ASSUME NEW u \in Users, NEW s \in States \cup {None}, LoginEnds(s, u) PROVE Agreement'
  <2>. DEFINE after == Authenticated(live, u, keys + 1)
  <2>0. keys + 1 \in 1..MaxKeys /\ u \in Owners
        /\ (live.owner[u] = None => live.accounts < MaxAccounts)
    BY <1>2, ConstantsOK DEF LoginEnds, Answer, TypeOK, Owners
  <2>1. after.joint = live.joint /\ after.owner = [live.owner EXCEPT ![u] = after.owner[u]]
    BY <1>0 DEF Authenticated, Rotated, WithAccount, Snapshots, Owners
  <2>2. after.owner[u] \in Identity
    BY <1>0, <2>0, AuthenticatedTyped
  <2>3. /\ after.owner[u].key = keys + 1
        /\ live.owner[u] # None => after.owner[u].account = live.owner[u].account
    <3>1. CASE live.owner[u] = None
      <4>1. WithAccount(live, 1).owner = live.owner
        BY <1>0 DEF WithAccount, Snapshots
      <4>. QED BY <1>0, <2>0, <3>1, <4>1 DEF Authenticated, WithAccount, Snapshots
    <3>2. CASE live.owner[u] # None
      <4>1. live.owner[u] \in Identity /\ live.owner \in [Owners -> Identity \cup {None}]
        BY <1>0, <2>0, <3>2 DEF Snapshots
      <4>2. after = [live EXCEPT !.owner[u].key = keys + 1]
        BY <3>2 DEF Authenticated, Rotated
      <4>3. after.owner[u] = [live.owner[u] EXCEPT !.key = keys + 1]
        BY <1>0, <2>0, <4>1, <4>2 DEF Snapshots
      <4>. QED BY <4>1, <4>3 DEF Identity
    <3>. QED BY <3>1, <3>2
  <2>4. /\ live' = after /\ Save(after) /\ up /\ UNCHANGED <<raw, enabled, up, edits>>
        /\ Answer(u, after.owner[u])
    BY <1>2 DEF LoginEnds
  <2>. HIDE DEF after
  <2>. QED BY <1>0, <2>0, <2>1, <2>2, <2>3, <2>4, AnswerAgrees
<1>3. ASSUME NEW n \in Services, NEW amount \in {0, 1}, CreateServiceAccount(n, amount)
      PROVE  Agreement'
  <2>. DEFINE id == [account |-> live.accounts + 1, key |-> keys + 1]
  <2>1. /\ up /\ Save(live') /\ UNCHANGED <<raw, enabled, up, edits>> /\ Answer(n, id)
        /\ live' = [WithAccount(live, amount) EXCEPT !.owner[n] = id]
        /\ live.owner[n] = None /\ live.accounts < MaxAccounts /\ keys < MaxKeys
    BY <1>3 DEF CreateServiceAccount, Served, Answer
  <2>2. id \in Identity /\ id.key = keys + 1 /\ n \in Owners
    <3>1. live.accounts + 1 \in 1..MaxAccounts
      BY <1>0, <2>1, WithAccountTyped, 0 \in Nat
    <3>2. keys + 1 \in 1..MaxKeys
      BY <2>1, ConstantsOK DEF TypeOK
    <3>. QED BY <3>1, <3>2 DEF Identity, Owners
  <2>. HIDE DEF id
  <2>3. live'.joint = live.joint /\ live'.owner = [live.owner EXCEPT ![n] = id]
    BY <1>0, <2>1 DEF WithAccount, Snapshots
  <2>. QED BY <1>0, <2>1, <2>2, <2>3, AnswerAgrees
<1>4. ASSUME NEW s, Served(s), UNCHANGED <<answers, edits>>,
             s.owner = live.owner, s.joint = live.joint
      PROVE  Agreement'
  BY <1>0, <1>4, SilentlyAgrees DEF Served
<1>5. CASE CreateAccount
  <2>1. WithAccount(live, 0).owner = live.owner /\ WithAccount(live, 0).joint = live.joint
    BY <1>0 DEF WithAccount, Snapshots
  <2>. QED BY <1>4, <1>5, <2>1 DEF CreateAccount, Silently
<1>6. ASSUME NEW n \in Services, CreateServiceAccountBadly(n) PROVE Agreement'
  <2>1. WithAccount(live, 0).owner = live.owner /\ WithAccount(live, 0).joint = live.joint
        /\ WithAccount(live, 0).markets = live.markets
    BY <1>0 DEF WithAccount, Snapshots
  <2>2. live' = WithAccount(live, 0) /\ UNCHANGED <<raw, enabled, disk, up, answers, edits>>
    BY <1>6 DEF CreateServiceAccountBadly, Silently
  <2>3. Newest'
    BY <2>2, NewestStays DEF Agreement
  <2>. QED BY <2>1, <2>2, <2>3 DEF Agreement
<1>7. ASSUME NEW r \in unsent, Answered(r) PROVE Agreement'
  <2>1. Newest'
    BY <1>7, AnsweredIsNewest DEF Agreement
  <2>. QED BY <1>7, <2>1 DEF Agreement, Answered
<1>8. ASSUME NEW a \in 1..MaxAccounts, AdminMint(a) PROVE Agreement'
  <2>1. /\ [live EXCEPT !.minted[a] = @ + 1].owner = live.owner
        /\ [live EXCEPT !.minted[a] = @ + 1].joint = live.joint
    BY <1>0 DEF Snapshots
  <2>. QED BY <1>4, <1>8, <2>1 DEF AdminMint
<1>9. ASSUME NEW venue, NEW by, NEW d, Served(AddMarket(live, venue, by, d)), Silently
      PROVE  Agreement'
  <2>1. /\ AddMarket(live, venue, by, d).owner = live.owner
        /\ AddMarket(live, venue, by, d).joint = live.joint
    BY <1>0 DEF AddMarket, Snapshots
  <2>. QED BY <1>4, <1>9, <2>1 DEF Silently
<1>10. ASSUME NEW which, NEW status
       PROVE  Ending(live, which, status).owner = live.owner
              /\ Ending(live, which, status).joint = live.joint
  BY <1>0 DEF Ending, Snapshots
<1>11. ASSUME NEW which, NEW status, Served(Ending(live, which, status)), Silently
       PROVE  Agreement'
  BY <1>4, <1>10, <1>11 DEF Silently
<1>12. CASE Reconcile
  <2>. DEFINE after == Ending(live, ExpiredIn(live), "void")
  <2>1. live' = after /\ Save(after) /\ up /\ UNCHANGED <<raw, enabled, up, answers, edits>>
    BY <1>12 DEF Reconcile, Silently
  <2>2. after.owner = live.owner /\ after.joint = live.joint
    BY <1>10
  <2>. HIDE DEF after
  <2>. QED BY <1>0, <2>1, <2>2, SilentlyAgrees
<1>13. ASSUME NEW on \in BOOLEAN, Track(on) PROVE Agreement'
  <2>1. /\ [live EXCEPT !.tracked = on].owner = live.owner
        /\ [live EXCEPT !.tracked = on].joint = live.joint
    BY <1>0 DEF Snapshots
  <2>. QED BY <1>4, <1>13, <2>1 DEF Track, Silently
<1>14. CASE EditJoint
  <2>1. /\ enabled /\ up /\ Save(live') /\ UNCHANGED <<raw, enabled, up, answers>>
        /\ live' = [live EXCEPT !.joint = live.joint + 1] /\ edits' = edits + 1
    BY <1>14 DEF EditJoint, Served
  <2>2. /\ live'.owner = live.owner /\ live'.joint = live.joint + 1
        /\ live'.markets = live.markets
    BY <1>0, <2>1 DEF Snapshots
  <2>3. /\ disk'.owner = live'.owner /\ disk'.markets = live'.markets
        /\ disk'.joint = live'.joint
    BY <1>0, <2>1, SavedFields
  <2>4. Newest'
    BY <2>1, <2>2, <2>3, NewestStays DEF Agreement
  <2>. QED BY <2>1, <2>2, <2>3, <2>4 DEF Agreement
<1>15. ASSUME NEW p \in PRs, DeliverOpened(p) PROVE Agreement'
  BY <1>9, <1>15 DEF DeliverOpened
<1>16. ASSUME NEW u, NEW venue, NEW d, SelfServe(u, venue, d) \/ ByAdmin(venue, d) PROVE Agreement'
  BY <1>9, <1>16 DEF SelfServe, ByAdmin
<1>17. ASSUME NEW seeds \in BOOLEAN, Start(seeds) PROVE Agreement'
  <2>. DEFINE read == [disk EXCEPT !.joint = IF seeds THEN @ ELSE 0]
              loaded == Ending(read, ExpiredIn(disk), "void")
  <2>1. /\ live' = loaded /\ raw' = disk.joint /\ enabled' = seeds /\ UNCHANGED <<answers, edits>>
        /\ IF ExpiredIn(disk) = {} THEN disk' = disk ELSE disk' = [loaded EXCEPT !.joint = disk.joint]
    BY <1>17 DEF Start, Silently
  <2>2. read \in Snapshots /\ read.owner = disk.owner /\ read.markets = disk.markets
        /\ read.joint = IF seeds THEN disk.joint ELSE 0
    BY <1>0 DEF Snapshots
  <2>. HIDE DEF read
  <2>3. loaded.owner = disk.owner /\ loaded.joint = IF seeds THEN disk.joint ELSE 0
    BY <2>2 DEF Ending, Snapshots
  <2>4. loaded \in Snapshots
    BY <2>2, EndingTyped
  <2>5. ExpiredIn(disk) = {} => loaded.markets = disk.markets
    <3>1. ASSUME ExpiredIn(disk) = {} PROVE loaded.markets = [i \in DOMAIN disk.markets |-> disk.markets[i]]
      BY <2>2, <3>1 DEF Ending, Snapshots
    <3>2. disk.markets = [i \in DOMAIN disk.markets |-> disk.markets[i]]
      BY <1>0 DEF Snapshots
    <3>. QED BY <3>1, <3>2
  <2>. HIDE DEF loaded
  <2>6. /\ disk'.owner = disk.owner /\ disk'.joint = disk.joint
        /\ live'.owner = disk'.owner /\ disk'.markets = live'.markets
    <3>1. CASE ExpiredIn(disk) = {}
      BY <2>1, <2>3, <2>5, <3>1
    <3>2. CASE ExpiredIn(disk) # {}
      BY <2>1, <2>3, <2>4, <3>2 DEF Snapshots
    <3>. QED BY <3>1, <3>2
  <2>7. Newest'
    BY <2>1, <2>6, NewestStays DEF Agreement
  <2>. QED BY <2>1, <2>3, <2>6, <2>7 DEF Agreement
<1>18. CASE Crash
  BY <1>18, CrashAgrees
<1>. QED BY <1>1, <1>2, <1>3, <1>5, <1>6, <1>7, <1>8, <1>11, <1>12, <1>13, <1>14, <1>15, <1>16,
            <1>17, <1>18, StepKinds

\* The account and the newest key of each owner, every market and the joint
\* venue's section survive a crash at any moment (persistence.py, api.py:246),
\* also while the exchange runs without the joint venue.  What is on disk and not
\* with its owner is a newer key whose answer is on its way or was cut off.
THEOREM AnswersSurvive == Spec => []AnsweredIsSaved
<1>1. Init => Agreement
  BY DEF Init, Agreement, Newest, Empty
<1>2. TypeOK /\ Agreement /\ [Next]_vars => Agreement'
  BY AgreementStep
<1>3. Agreement => AnsweredIsSaved
  BY DEF Agreement, Newest, Known, AnsweredIsSaved
<1>. QED BY <1>1, <1>2, <1>3, TypeCorrect, PTL DEF Spec

-----------------------------------------------------------------------------
(* Accounts.  The invariant bounds what was given away: no owner has an    *)
(* account beyond the counter nor a key beyond those made, so the next of  *)
(* either is nobody's, and nothing was minted to it.                       *)

OwnedOnce(s, k, g) ==
  /\ \A o, other \in OwnersIn(s) :
       o # other => /\ s.owner[o].account # s.owner[other].account
                    /\ s.owner[o].key # s.owner[other].key
  /\ \A o \in OwnersIn(s) : s.owner[o].account <= s.accounts /\ s.owner[o].key <= k
  /\ \A u \in Users \cap OwnersIn(s) :
       s.minted[s.owner[u].account] = 1 + g[s.owner[u].account]
  /\ \A a \in 1..MaxAccounts :
       /\ s.minted[a] > g[a] => \E o \in OwnersIn(s) : s.owner[o].account = a
       /\ a > s.accounts => g[a] = 0

LEMMA StillOwned ==
  ASSUME NEW s \in Snapshots, NEW t \in Snapshots, NEW k \in Nat, NEW j \in Nat, k <= j,
         NEW g, OwnedOnce(s, k, g),
         t.owner = s.owner, t.accounts = s.accounts, t.minted = s.minted
  PROVE  OwnedOnce(t, j, g)
<1>1. OwnersIn(t) = OwnersIn(s)
  BY DEF OwnersIn
<1>2. \A o \in OwnersIn(s) : s.owner[o].key \in Nat
  BY ConstantsOK DEF OwnersIn, Snapshots, Identity
<1>. QED BY <1>1, <1>2 DEF OwnedOnce

LEMMA WithAccountFields ==
  ASSUME NEW s \in Snapshots, s.accounts < MaxAccounts, NEW amount \in Nat
  PROVE  LET t == WithAccount(s, amount)
         IN  /\ t \in Snapshots /\ s.accounts + 1 \in 1..MaxAccounts
             /\ t.owner = s.owner /\ t.accounts = s.accounts + 1
             /\ t.minted = [s.minted EXCEPT ![s.accounts + 1] = amount]
<1>1. /\ WithAccount(s, amount) \in Snapshots /\ s.accounts + 1 \in 1..MaxAccounts
      /\ WithAccount(s, amount) =
              [s EXCEPT !.accounts = s.accounts + 1,
                        !.minted = [s.minted EXCEPT ![s.accounts + 1] = amount]]
  BY WithAccountTyped
<1>. QED BY <1>1 DEF Snapshots

\* An account without an owner starts with nothing minted to it.
LEMMA UnownedAccount ==
  ASSUME NEW s \in Snapshots, s.accounts < MaxAccounts, NEW k \in Nat,
         NEW g \in [1..MaxAccounts -> Nat], OwnedOnce(s, k, g)
  PROVE  OwnedOnce(WithAccount(s, 0), k, g)
<1>. DEFINE t == WithAccount(s, 0)
<1>1. /\ s.accounts + 1 \in 1..MaxAccounts
      /\ t.owner = s.owner /\ t.accounts = s.accounts + 1
      /\ t.minted = [s.minted EXCEPT ![s.accounts + 1] = 0]
  BY WithAccountFields
<1>. HIDE DEF t
<1>2. OwnersIn(t) = OwnersIn(s)
  BY <1>1 DEF OwnersIn
<1>3. \A o \in OwnersIn(s) : s.owner[o].account \in 1..MaxAccounts
  BY DEF OwnersIn, Snapshots, Identity
<1>4. s.minted \in [1..MaxAccounts -> Nat] /\ s.accounts \in Nat /\ MaxAccounts \in Nat
  BY ConstantsOK DEF Snapshots
<1>5. \A a \in 1..MaxAccounts : t.minted[a] = IF a = s.accounts + 1 THEN 0 ELSE s.minted[a]
  BY <1>1, <1>4
<1>6. ASSUME NEW a \in 1..MaxAccounts
      PROVE  /\ t.minted[a] > g[a] => \E o \in OwnersIn(t) : t.owner[o].account = a
             /\ a > t.accounts => g[a] = 0
  <2>1. g[a] \in Nat /\ s.minted[a] \in Nat
    BY <1>4
  <2>2. t.minted[a] > g[a] => s.minted[a] > g[a]
    BY <1>5, <2>1
  <2>3. a > t.accounts => a > s.accounts
    BY <1>1, <1>4
  <2>. QED BY <1>1, <1>2, <2>2, <2>3 DEF OwnedOnce
<1>7. \A u \in Users \cap OwnersIn(t) :
        t.minted[t.owner[u].account] = 1 + g[t.owner[u].account]
  BY <1>1, <1>2, <1>3, <1>4, <1>5 DEF OwnedOnce
<1>8. OwnedOnce(t, k, g)
  BY <1>1, <1>2, <1>3, <1>4, <1>6, <1>7 DEF OwnedOnce
<1>. QED BY <1>8 DEF t

\* A new owner gets the next account and the next key, a user also the credits.
LEMMA NewOwner ==
  ASSUME NEW s \in Snapshots, s.accounts < MaxAccounts, NEW k \in Nat,
         NEW g \in [1..MaxAccounts -> Nat], OwnedOnce(s, k, g),
         NEW o \in Owners, s.owner[o] = None, k < MaxKeys,
         NEW amount \in {0, 1}, o \in Users => amount = 1
  PROVE  OwnedOnce([WithAccount(s, amount) EXCEPT
                      !.owner[o] = [account |-> s.accounts + 1, key |-> k + 1]], k + 1, g)
<1>. DEFINE id == [account |-> s.accounts + 1, key |-> k + 1]
            t == [WithAccount(s, amount) EXCEPT !.owner[o] = id]
<1>0. id.account = s.accounts + 1 /\ id.key = k + 1 /\ id \in Identity
  <2>1. k + 1 \in 1..MaxKeys /\ s.accounts + 1 \in 1..MaxAccounts
    BY ConstantsOK DEF Snapshots
  <2>. QED BY <2>1 DEF Identity
<1>1. /\ s.accounts + 1 \in 1..MaxAccounts
      /\ t.owner = [s.owner EXCEPT ![o] = id] /\ t.accounts = s.accounts + 1
      /\ t.minted = [s.minted EXCEPT ![s.accounts + 1] = amount]
  <2>. DEFINE w == WithAccount(s, amount)
  <2>1. /\ w \in Snapshots /\ w.owner = s.owner /\ w.accounts = s.accounts + 1
        /\ w.minted = [s.minted EXCEPT ![s.accounts + 1] = amount]
        /\ s.accounts + 1 \in 1..MaxAccounts
    <3>1. amount \in Nat
      OBVIOUS
    <3>. HIDE DEF id, t
    <3>. QED BY ONLY <3>1, s \in Snapshots, s.accounts < MaxAccounts, WithAccountFields
  <2>. HIDE DEF w, id
  <2>2. t = [w EXCEPT !.owner[o] = id]
    BY DEF w
  <2>. HIDE DEF t
  <2>. QED BY <2>1, <2>2 DEF Snapshots
<1>. HIDE DEF t, id
<1>2. OwnersIn(t) = OwnersIn(s) \cup {o} /\ o \notin OwnersIn(s)
  BY <1>0, <1>1, ConstantsOK DEF OwnersIn, Snapshots
<1>3. t.owner[o] = id /\ \A other \in OwnersIn(s) : t.owner[other] = s.owner[other]
  BY <1>1, <1>2 DEF OwnersIn, Snapshots
<1>4. \A other \in OwnersIn(s) : s.owner[other].account \in 1..MaxAccounts
                                 /\ s.owner[other].key \in Nat
  BY ConstantsOK DEF OwnersIn, Snapshots, Identity
<1>5. s.minted \in [1..MaxAccounts -> Nat] /\ s.accounts \in Nat /\ MaxAccounts \in Nat
  BY ConstantsOK DEF Snapshots
<1>5a. g[s.accounts + 1] = 0
  <2>1. s.accounts + 1 > s.accounts
    BY <1>5
  <2>. QED BY <1>1, <2>1 DEF OwnedOnce
<1>6. \A p, q \in OwnersIn(t) : p # q => /\ t.owner[p].account # t.owner[q].account
                                         /\ t.owner[p].key # t.owner[q].key
  <2>1. ASSUME NEW p \in OwnersIn(s)
        PROVE  t.owner[p].account # t.owner[o].account /\ t.owner[p].key # t.owner[o].key
    <3>1. s.owner[p].account <= s.accounts /\ s.owner[p].key <= k
      BY DEF OwnedOnce
    <3>2. s.owner[p].account \in Nat /\ s.owner[p].key \in Nat /\ s.accounts \in Nat
      BY <1>4, <1>5
    <3>3. s.owner[p].account # s.accounts + 1 /\ s.owner[p].key # k + 1
      BY <3>1, <3>2
    <3>. QED BY <1>0, <1>3, <3>3
  <2>2. ASSUME NEW p \in OwnersIn(s), NEW q \in OwnersIn(s), p # q
        PROVE  /\ t.owner[p].account # t.owner[q].account
               /\ t.owner[p].key # t.owner[q].key
    BY <1>3, <2>2 DEF OwnedOnce
  <2>. QED BY <1>2, <2>1, <2>2
<1>7. \A p \in OwnersIn(t) : t.owner[p].account <= t.accounts /\ t.owner[p].key <= k + 1
  <2>1. ASSUME NEW p \in OwnersIn(s)
        PROVE  t.owner[p].account <= t.accounts /\ t.owner[p].key <= k + 1
    <3>1. s.owner[p].account <= s.accounts /\ s.owner[p].key <= k
      BY DEF OwnedOnce
    <3>2. t.owner[p] = s.owner[p] /\ t.accounts = s.accounts + 1
      BY <1>1, <1>3
    <3>3. s.owner[p].account \in Nat /\ s.owner[p].key \in Nat
      BY <1>4
    <3>. QED BY <1>5, <3>1, <3>2, <3>3
  <2>2. t.owner[o].account <= t.accounts /\ t.owner[o].key <= k + 1
    BY <1>0, <1>1, <1>3, <1>5
  <2>. QED BY <1>2, <2>1, <2>2
<1>8. \A u \in Users \cap OwnersIn(t) :
        t.minted[t.owner[u].account] = 1 + g[t.owner[u].account]
  <2>1. ASSUME o \in Users PROVE t.minted[t.owner[o].account] = 1 + g[t.owner[o].account]
    <3>1. t.minted[s.accounts + 1] = 1
      BY <1>1, <1>5, <2>1
    <3>. QED BY <1>0, <1>3, <1>5a, <3>1
  <2>2. ASSUME NEW u \in Users \cap OwnersIn(s)
        PROVE  t.minted[t.owner[u].account] = 1 + g[t.owner[u].account]
    <3>1. s.owner[u].account \in 1..MaxAccounts /\ s.owner[u].account <= s.accounts
          /\ s.minted[s.owner[u].account] = 1 + g[s.owner[u].account]
      BY <1>4, <2>2 DEF OwnedOnce
    <3>2. t.owner[u] = s.owner[u] /\ s.owner[u].account # s.accounts + 1
      BY <1>3, <1>5, <3>1
    <3>. QED BY <1>1, <1>5, <3>1, <3>2
  <2>. QED BY <1>2, <2>1, <2>2
<1>9. ASSUME NEW a \in 1..MaxAccounts
      PROVE  /\ t.minted[a] > g[a] => \E p \in OwnersIn(t) : t.owner[p].account = a
             /\ a > t.accounts => g[a] = 0
  <2>1. ASSUME t.minted[a] > g[a], a # s.accounts + 1
        PROVE  \E p \in OwnersIn(t) : t.owner[p].account = a
    <3>1. s.minted[a] > g[a]
      BY <1>1, <1>5, <2>1
    <3>2. PICK p \in OwnersIn(s) : s.owner[p].account = a
      BY <3>1 DEF OwnedOnce
    <3>. QED BY <1>2, <1>3, <3>2
  <2>2. o \in OwnersIn(t) /\ t.owner[o].account = s.accounts + 1
    BY <1>0, <1>2, <1>3
  <2>3. a > t.accounts => g[a] = 0
    <3>1. a > t.accounts => a > s.accounts
      BY <1>1, <1>5
    <3>. QED BY <3>1 DEF OwnedOnce
  <2>. QED BY <2>1, <2>2, <2>3
<1>10. OwnedOnce(t, k + 1, g)
  BY <1>6, <1>7, <1>8, <1>9 DEF OwnedOnce
<1>. QED BY <1>10 DEF t, id

\* create_user for a known user
LEMMA NewKey ==
  ASSUME NEW s \in Snapshots, NEW k \in Nat, NEW g, OwnedOnce(s, k, g),
         NEW o \in Owners, s.owner[o] # None, k < MaxKeys
  PROVE  OwnedOnce(Rotated(s, o, k + 1), k + 1, g)
<1>. DEFINE id == [s.owner[o] EXCEPT !.key = k + 1]
            t == Rotated(s, o, k + 1)
<1>0. /\ id.account = s.owner[o].account /\ id.key = k + 1 /\ id # None
      /\ o \in OwnersIn(s)
  <2>1. s.owner[o] \in Identity /\ o \in OwnersIn(s)
    BY DEF Snapshots, OwnersIn
  <2>2. k + 1 \in 1..MaxKeys
    BY ConstantsOK
  <2>3. id \in Identity
    BY <2>1, <2>2 DEF Identity
  <2>. QED BY <2>1, <2>3, ConstantsOK DEF Identity
<1>1. t.owner = [s.owner EXCEPT ![o] = id] /\ t.accounts = s.accounts /\ t.minted = s.minted
  BY DEF Rotated, Snapshots
<1>. HIDE DEF t, id
<1>2. OwnersIn(t) = OwnersIn(s)
  BY <1>0, <1>1 DEF OwnersIn, Snapshots
<1>3. t.owner[o] = id /\ \A other \in OwnersIn(s) \ {o} : t.owner[other] = s.owner[other]
  BY <1>1 DEF OwnersIn, Snapshots
<1>4. \A other \in OwnersIn(s) : s.owner[other].key \in Nat
  BY ConstantsOK DEF OwnersIn, Snapshots, Identity
<1>5. OwnedOnce(t, k + 1, g)
  BY <1>0, <1>1, <1>2, <1>3, <1>4 DEF OwnedOnce
<1>. QED BY <1>5 DEF t

\* admin_mint
LEMMA Granted ==
  ASSUME NEW s \in Snapshots, NEW k \in Nat, NEW g \in [1..MaxAccounts -> Nat],
         OwnedOnce(s, k, g), NEW a \in 1..MaxAccounts, a <= s.accounts
  PROVE  OwnedOnce([s EXCEPT !.minted[a] = @ + 1], k, [g EXCEPT ![a] = @ + 1])
<1>. DEFINE t == [s EXCEPT !.minted[a] = @ + 1]
            h == [g EXCEPT ![a] = @ + 1]
<1>1. t.owner = s.owner /\ t.accounts = s.accounts
      /\ t.minted = [s.minted EXCEPT ![a] = s.minted[a] + 1]
  BY DEF Snapshots
<1>2. s.minted \in [1..MaxAccounts -> Nat] /\ s.accounts \in Nat
  BY ConstantsOK DEF Snapshots
<1>3. ASSUME NEW c \in 1..MaxAccounts
      PROVE  /\ s.minted[c] \in Nat /\ g[c] \in Nat
             /\ t.minted[c] = IF c = a THEN s.minted[c] + 1 ELSE s.minted[c]
             /\ h[c] = IF c = a THEN g[c] + 1 ELSE g[c]
  <2>1. t.minted[c] = IF c = a THEN s.minted[c] + 1 ELSE s.minted[c]
    <3>. HIDE DEF t
    <3>. QED BY ONLY <1>1, <1>2, c \in 1..MaxAccounts, a \in 1..MaxAccounts
  <2>2. h[c] = IF c = a THEN g[c] + 1 ELSE g[c]
    OBVIOUS
  <2>. HIDE DEF t, h
  <2>. QED BY <1>2, <2>1, <2>2
<1>4. \A o \in OwnersIn(s) : s.owner[o].account \in 1..MaxAccounts
  BY DEF OwnersIn, Snapshots, Identity
<1>. HIDE DEF t, h
<1>5. OwnersIn(t) = OwnersIn(s)
  BY <1>1 DEF OwnersIn
<1>6. \A u \in Users \cap OwnersIn(t) :
        t.minted[t.owner[u].account] = 1 + h[t.owner[u].account]
  <2>1. ASSUME NEW u \in Users \cap OwnersIn(s)
        PROVE  t.minted[s.owner[u].account] = 1 + h[s.owner[u].account]
    <3>. DEFINE c == s.owner[u].account
    <3>1. s.minted[c] = 1 + g[c] /\ c \in 1..MaxAccounts
      BY <1>4 DEF OwnedOnce
    <3>. HIDE DEF c
    <3>2. t.minted[c] = 1 + h[c]
      BY <1>3, <3>1
    <3>. QED BY <3>2 DEF c
  <2>. QED BY <1>1, <1>5, <2>1
<1>7. ASSUME NEW c \in 1..MaxAccounts
      PROVE  /\ t.minted[c] > h[c] => \E o \in OwnersIn(t) : t.owner[o].account = c
             /\ c > t.accounts => h[c] = 0
  <2>1. t.minted[c] > h[c] => s.minted[c] > g[c]
    BY <1>3
  <2>2. c > t.accounts => h[c] = g[c]
    BY <1>1, <1>2, <1>3
  <2>. QED BY <1>1, <1>5, <2>1, <2>2 DEF OwnedOnce
<1>8. OwnedOnce(t, k, h)
  BY <1>1, <1>5, <1>6, <1>7 DEF OwnedOnce
<1>. QED BY <1>8 DEF t, h

BothOwned == OwnedOnce(live, keys, granted) /\ OwnedOnce(disk, keys, granted)

\* A handler that succeeds saves what it changed.
LEMMA SavedIsOwned ==
  ASSUME TypeOK, TypeOK', Save(live'), OwnedOnce(live', keys', granted')
  PROVE  BothOwned'
<1>1. live' \in Snapshots /\ disk' \in Snapshots /\ keys' \in Nat
  BY ConstantsOK DEF TypeOK
<1>2. disk'.owner = live'.owner /\ disk'.accounts = live'.accounts /\ disk'.minted = live'.minted
  BY <1>1, SavedFields
<1>3. OwnedOnce(disk', keys', granted')
  BY <1>1, <1>2, StillOwned
<1>. QED BY <1>3 DEF BothOwned

LEMMA OwnershipStep ==
  ASSUME TypeOK, BothOwned, [Next]_vars
  PROVE  BothOwned'
<1>0. /\ TypeOK' /\ live \in Snapshots /\ live' \in Snapshots /\ disk \in Snapshots
      /\ disk' \in Snapshots /\ keys \in Nat /\ keys' \in Nat
      /\ keys \in 0..MaxKeys /\ granted \in [1..MaxAccounts -> Nat]
  <2>1. TypeOK'
    BY NextTyped
  <2>2. keys \in 0..MaxKeys /\ keys' \in 0..MaxKeys
    BY <2>1 DEF TypeOK
  <2>3. keys \in Nat /\ keys' \in Nat
    BY <2>2, ConstantsOK
  <2>. QED BY <2>1, <2>2, <2>3 DEF TypeOK
<1>1. ASSUME UNCHANGED <<live, disk, keys, granted>> PROVE BothOwned'
  BY <1>1 DEF BothOwned
<1>1a. CASE Elsewhere
  BY <1>1, <1>1a, QuietSteps DEF Quiet, Silently, answers
<1>1b. ASSUME NEW r, Answered(r) PROVE BothOwned'
  BY <1>1, <1>1b DEF Answered
<1>1c. CASE Crash
  BY <1>1, <1>1c DEF Crash
<1>2. ASSUME live'.owner = live.owner, live'.accounts = live.accounts, live'.minted = live.minted,
             Save(live'), UNCHANGED <<keys, granted>>
      PROVE  BothOwned'
  <2>1. OwnedOnce(live', keys', granted')
    BY <1>0, <1>2, StillOwned DEF BothOwned
  <2>. QED BY <1>0, <2>1, <1>2, SavedIsOwned
<1>3. ASSUME NEW u \in Users, NEW s \in States \cup {None}, LoginEnds(s, u) PROVE BothOwned'
  <2>1. /\ live' = Authenticated(live, u, keys + 1) /\ Save(live') /\ granted' = granted
        /\ keys' = keys + 1 /\ keys < MaxKeys /\ u \in Owners
        /\ live.owner[u] = None => live.accounts < MaxAccounts
    BY <1>3 DEF LoginEnds, Answer, Owners
  <2>2. CASE live.owner[u] = None
    <3>1. live' = [WithAccount(live, 1) EXCEPT
                     !.owner[u] = [account |-> live.accounts + 1, key |-> keys + 1]]
      BY <2>1, <2>2 DEF Authenticated
    <3>2. OwnedOnce(live, keys, granted) /\ live.accounts < MaxAccounts /\ 1 \in {0, 1}
      BY <2>1, <2>2 DEF BothOwned
    <3>3. OwnedOnce([WithAccount(live, 1) EXCEPT
                      !.owner[u] = [account |-> live.accounts + 1, key |-> keys + 1]],
                    keys + 1, granted)
      BY <1>0, <2>1, <2>2, <3>2, NewOwner
    <3>. QED BY <1>0, <2>1, <3>1, <3>3, SavedIsOwned
  <2>3. CASE live.owner[u] # None
    <3>1. OwnedOnce(live', keys', granted')
      BY <1>0, <2>1, <2>3, NewKey DEF BothOwned, Authenticated
    <3>. QED BY <1>0, <2>1, <3>1, SavedIsOwned
  <2>. QED BY <2>2, <2>3
<1>4. ASSUME NEW n \in Services, NEW amount \in {0, 1}, CreateServiceAccount(n, amount)
      PROVE  BothOwned'
  <2>1. /\ live' = [WithAccount(live, amount) EXCEPT
                      !.owner[n] = [account |-> live.accounts + 1, key |-> keys + 1]]
        /\ Save(live') /\ live.owner[n] = None /\ live.accounts < MaxAccounts
        /\ keys' = keys + 1 /\ keys < MaxKeys /\ granted' = granted
    BY <1>4 DEF CreateServiceAccount, Served, Answer
  <2>2. n \in Owners /\ n \notin Users
    BY ExchangeAssumption DEF Owners
  <2>3. OwnedOnce(live', keys', granted')
    BY <1>0, <2>1, <2>2, NewOwner DEF BothOwned
  <2>. QED BY <1>0, <2>1, <2>3, SavedIsOwned
<1>5. ASSUME NEW n \in Services, CreateServiceAccountBadly(n) PROVE BothOwned'
  <2>1. live' = WithAccount(live, 0) /\ live.accounts < MaxAccounts
        /\ UNCHANGED <<disk, keys, granted>>
    BY <1>5 DEF CreateServiceAccountBadly, Silently, answers
  <2>2. OwnedOnce(live', keys, granted)
    BY <1>0, <2>1, UnownedAccount DEF BothOwned
  <2>. QED BY <2>1, <2>2 DEF BothOwned
<1>6. CASE CreateAccount
  <2>1. live' = WithAccount(live, 0) /\ live.accounts < MaxAccounts /\ Save(live')
        /\ UNCHANGED <<keys, granted>>
    BY <1>6 DEF CreateAccount, Served, Silently, answers
  <2>2. OwnedOnce(live', keys', granted')
    BY <1>0, <2>1, UnownedAccount DEF BothOwned
  <2>. QED BY <1>0, <2>1, <2>2, SavedIsOwned
<1>7. ASSUME NEW a \in 1..MaxAccounts, AdminMint(a) PROVE BothOwned'
  <2>1. /\ live' = [live EXCEPT !.minted[a] = @ + 1] /\ Save(live') /\ a <= live.accounts
        /\ granted' = [granted EXCEPT ![a] = @ + 1] /\ keys' = keys
    BY <1>7 DEF AdminMint, Served, answers
  <2>2. OwnedOnce([live EXCEPT !.minted[a] = @ + 1], keys, [granted EXCEPT ![a] = @ + 1])
    BY <1>0, <2>1, Granted DEF BothOwned
  <2>. QED BY <1>0, <2>1, <2>2, SavedIsOwned
<1>8. ASSUME NEW venue, NEW by, NEW d, Served(AddMarket(live, venue, by, d)), Silently
      PROVE  BothOwned'
  <2>1. live' = AddMarket(live, venue, by, d) /\ Save(live') /\ UNCHANGED <<keys, granted>>
    BY <1>8 DEF Served, Silently, answers
  <2>2. live'.owner = live.owner /\ live'.accounts = live.accounts /\ live'.minted = live.minted
    BY <1>0, <2>1 DEF AddMarket, Snapshots
  <2>. QED BY <1>2, <2>1, <2>2
<1>9. ASSUME NEW s \in Snapshots, NEW which, NEW status
      PROVE  LET t == Ending(s, which, status)
             IN  t.owner = s.owner /\ t.accounts = s.accounts /\ t.minted = s.minted
  BY DEF Ending, Snapshots
<1>10. ASSUME NEW which, NEW status, live' = Ending(live, which, status), Save(live'), Silently
       PROVE  BothOwned'
  BY <1>0, <1>2, <1>9, <1>10 DEF Silently, answers
<1>11. CASE Reconcile
  BY <1>10, <1>11 DEF Reconcile
<1>12. ASSUME NEW on \in BOOLEAN, Track(on) PROVE BothOwned'
  <2>1. live' = [live EXCEPT !.tracked = on] /\ Save(live') /\ UNCHANGED <<keys, granted>>
    BY <1>12 DEF Track, Served, Silently, answers
  <2>2. live'.owner = live.owner /\ live'.accounts = live.accounts /\ live'.minted = live.minted
    BY <1>0, <2>1 DEF Snapshots
  <2>. QED BY <1>2, <2>1, <2>2
<1>13. CASE EditJoint
  <2>1. live' = [live EXCEPT !.joint = @ + 1] /\ Save(live') /\ UNCHANGED <<keys, granted>>
    BY <1>13 DEF EditJoint, Served, answers
  <2>2. live'.owner = live.owner /\ live'.accounts = live.accounts /\ live'.minted = live.minted
    BY <1>0, <2>1 DEF Snapshots
  <2>. QED BY <1>2, <2>1, <2>2
<1>14. ASSUME NEW p \in PRs, DeliverOpened(p) PROVE BothOwned'
  BY <1>8, <1>14 DEF DeliverOpened
<1>15. ASSUME NEW u, NEW venue, NEW d, SelfServe(u, venue, d) \/ ByAdmin(venue, d) PROVE BothOwned'
  BY <1>8, <1>15 DEF SelfServe, ByAdmin
<1>16. ASSUME NEW seeds \in BOOLEAN, Start(seeds) PROVE BothOwned'
  <2>. DEFINE read == [disk EXCEPT !.joint = IF seeds THEN @ ELSE 0]
              loaded == Ending(read, ExpiredIn(disk), "void")
  <2>1. /\ live' = loaded /\ UNCHANGED <<keys, granted>>
        /\ IF ExpiredIn(disk) = {} THEN disk' = disk ELSE disk' = [loaded EXCEPT !.joint = disk.joint]
    BY <1>16 DEF Start, Silently, answers
  <2>2. /\ read \in Snapshots /\ read.owner = disk.owner /\ read.accounts = disk.accounts
        /\ read.minted = disk.minted
    BY <1>0 DEF Snapshots
  <2>. HIDE DEF read
  <2>3. /\ loaded.owner = disk.owner /\ loaded.accounts = disk.accounts
        /\ loaded.minted = disk.minted
    BY <1>9, <2>2
  <2>. HIDE DEF loaded
  <2>4. disk'.owner = disk.owner /\ disk'.accounts = disk.accounts /\ disk'.minted = disk.minted
    BY <1>0, <2>1, <2>3 DEF Snapshots
  <2>. QED BY <1>0, <2>1, <2>3, <2>4, StillOwned DEF BothOwned
<1>17. ASSUME NEW which, NEW status, Served(Ending(live, which, status)), Silently
       PROVE  BothOwned'
  BY <1>10, <1>17 DEF Served
<1>. QED BY <1>1a, <1>1b, <1>1c, <1>3, <1>4, <1>5, <1>6, <1>7, <1>11, <1>12, <1>13, <1>14, <1>15,
            <1>16, <1>17, StepKinds

\* A state that is still issued has begun no login, and taking it is what
\* begins one.
StatesAreSpent ==
  \A s \in States : used[s] <= 1 /\ (s \in issued => used[s] = 0)

LEMMA StatesStep ==
  ASSUME TypeOK, StatesAreSpent, [Next]_vars
  PROVE  StatesAreSpent'
<1>0. used \in [States \cup {None} -> Nat] /\ None \notin States
  BY ConstantsOK DEF TypeOK
<1>1. ASSUME UNCHANGED used, issued' \subseteq issued
      PROVE  StatesAreSpent'
  BY <1>1 DEF StatesAreSpent
<1>2. ASSUME NEW s \in States, LoginStart(s) PROVE StatesAreSpent'
  BY <1>2 DEF StatesAreSpent, LoginStart
<1>3. ASSUME NEW s \in States, NEW u \in Users, Callback(s, u) PROVE StatesAreSpent'
  <2>1. used' = [used EXCEPT ![s] = @ + 1] /\ s \in issued /\ issued' = issued \ {s}
    BY <1>3 DEF Callback, LoginBegins
  <2>2. used[s] = 0
    BY <2>1 DEF StatesAreSpent
  <2>. QED BY <1>0, <2>1, <2>2 DEF StatesAreSpent
<1>4. ASSUME NEW u \in Users, DevicePoll(u) PROVE StatesAreSpent'
  <2>1. used' = [used EXCEPT ![None] = @ + 1] /\ issued' = issued
    BY <1>4 DEF DevicePoll, LoginBegins
  <2>. QED BY <1>0, <2>1 DEF StatesAreSpent
<1>5. CASE Elsewhere
  <2>1. ASSUME NEW s \in States, StateExpires(s) PROVE StatesAreSpent'
    BY <1>1, <2>1 DEF StateExpires
  <2>2. ASSUME NEW s, NEW u, GithubFails(s, u) PROVE StatesAreSpent'
    BY <1>1, <2>2 DEF GithubFails
  <2>3. ASSUME NEW p \in PRs, PrOpened(p) \/ PrClosed(p) PROVE StatesAreSpent'
    BY <1>1, <2>3 DEF PrOpened, PrClosed, Outside
  <2>4. CASE Midnight
    BY <1>1, <2>4 DEF Midnight, Outside
  <2>5. CASE UNCHANGED vars
    BY <1>1, <2>5 DEF vars
  <2>. QED BY <1>2, <1>3, <1>4, <1>5, <2>1, <2>2, <2>3, <2>4, <2>5 DEF Elsewhere
<1>6. ASSUME NEW s, Served(s) PROVE StatesAreSpent'
  BY <1>1, <1>6 DEF Served
<1>7. ASSUME NEW u, NEW s, LoginEnds(s, u) PROVE StatesAreSpent'
  BY <1>1, <1>7 DEF LoginEnds
<1>8. ASSUME NEW n, CreateServiceAccountBadly(n) PROVE StatesAreSpent'
  BY <1>1, <1>8 DEF CreateServiceAccountBadly
<1>9. ASSUME NEW seeds, Start(seeds) PROVE StatesAreSpent'
  BY <1>1, <1>9 DEF Start
<1>10. CASE Reconcile
  BY <1>1, <1>10 DEF Reconcile
<1>11. CASE Crash
  BY <1>1, <1>11 DEF Crash
<1>12. ASSUME NEW r, Answered(r) PROVE StatesAreSpent'
  BY <1>1, <1>12 DEF Answered
<1>13. ASSUME \/ \E n \in Services, amount \in {0, 1} : CreateServiceAccount(n, amount)
              \/ CreateAccount
              \/ \E a \in 1..MaxAccounts : AdminMint(a)
              \/ \E p \in PRs : DeliverOpened(p)
              \/ \E u \in Owners, venue \in {"amm", "book"}, d \in Deadlines :
                   SelfServe(u, venue, d)
              \/ \E venue \in {"amm", "book"}, d \in Deadlines : ByAdmin(venue, d)
              \/ \E on \in BOOLEAN : Track(on)
              \/ EditJoint
       PROVE  \E s : Served(s)
  BY <1>13 DEF CreateServiceAccount, CreateAccount, AdminMint, DeliverOpened, SelfServe, ByAdmin,
               Track, EditJoint
<1>. QED BY <1>5, <1>6, <1>7, <1>8, <1>9, <1>10, <1>11, <1>12, <1>13, StepKinds

\* No OAuth state begins two logins (auth_github_callback pops it before it
\* awaits), no two owners share an account or a key, each GitHub user got the
\* welcome credits exactly once, and only what admin_mint put there lies in an
\* account that nobody can open (core/auth.py create_user, api.py
\* _authenticate_github_identity, admin_create_account, admin_mint), however
\* logins, failed requests and crashes interleave.
THEOREM AccountsStayOwnedOnce == Spec => []AccountsAreOwnedOnce
<1>0. Init => StatesAreSpent
  BY DEF Init, StatesAreSpent
<1>1. ASSUME Init PROVE BothOwned
  <2>1. live = Empty /\ disk = Empty /\ \A o \in Owners : Empty.owner[o] = None
    BY <1>1 DEF Init, Empty
  <2>2. OwnersIn(Empty) = {} /\ \A a \in 1..MaxAccounts : Empty.minted[a] = 0 /\ granted[a] = 0
    BY <1>1, <2>1 DEF OwnersIn, Empty, Init
  <2>. QED BY <2>1, <2>2 DEF BothOwned, OwnedOnce
<1>2. TypeOK /\ BothOwned /\ StatesAreSpent /\ [Next]_vars => (BothOwned /\ StatesAreSpent)'
  BY OwnershipStep, StatesStep
<1>3. BothOwned /\ StatesAreSpent => AccountsAreOwnedOnce
  <2>1. ASSUME NEW s, OwnedOnce(s, keys, granted)
        PROVE  /\ \A o \in OwnersIn(s) : \A other \in OwnersIn(s) \ {o} :
                    /\ s.owner[o].account # s.owner[other].account
                    /\ s.owner[o].key # s.owner[other].key
               /\ \A o \in OwnersIn(s) : s.owner[o].account <= s.accounts
               /\ \A u \in Users \cap OwnersIn(s) :
                    s.minted[s.owner[u].account] = 1 + granted[s.owner[u].account]
               /\ \A a \in 1..MaxAccounts :
                    s.minted[a] > granted[a] => \E o \in OwnersIn(s) : s.owner[o].account = a
    BY <2>1 DEF OwnedOnce
  <2>. QED BY <2>1 DEF BothOwned, StatesAreSpent, AccountsAreOwnedOnce
<1>. QED BY <1>0, <1>1, <1>2, <1>3, TypeCorrect, PTL DEF Spec

-----------------------------------------------------------------------------
(* Webhooks.  A pull request has one market of a day in memory, and on disk  *)
(* the same, so a restart forgets none.                                      *)

\* One market for a pull request and a day.
DayMarketsDiffer(markets) ==
  \A i, j \in DOMAIN markets :
    /\ markets[i].by \in PRs
    /\ markets[i].by = markets[j].by /\ markets[i].since = markets[j].since
    => i = j

\* Whatever a settlement leaves, the markets stay those they were.
LEMMA EndingKeepsMarkets ==
  ASSUME NEW s \in Snapshots, NEW which, NEW status \in {"open", "resolved", "void"},
         DayMarketsDiffer(s.markets)
  PROVE  DayMarketsDiffer(Ending(s, which, status).markets)
BY EndingTyped DEF DayMarketsDiffer

\* A market is added that is no pull request's, or whose pull request has none
\* of today.
LEMMA AddingKeepsMarkets ==
  ASSUME NEW s \in Snapshots, DayMarketsDiffer(s.markets), NEW venue, NEW by, NEW deadline,
         by \in PRs =>
           \A i \in DOMAIN s.markets : ~ (s.markets[i].by = by /\ s.markets[i].since = day)
  PROVE  DayMarketsDiffer(AddMarket(s, venue, by, deadline).markets)
<1>. DEFINE m == [venue |-> venue, by |-> by, since |-> day, deadline |-> deadline, status |-> "open"]
            ms == Append(s.markets, m)
            n == Len(s.markets) + 1
<1>1. AddMarket(s, venue, by, deadline).markets = ms
  BY DEF AddMarket, Snapshots
<1>2. s.markets \in Seq(Market) /\ DOMAIN s.markets = 1..Len(s.markets) /\ Len(s.markets) \in Nat
  BY DEF Snapshots
<1>3. m.by = by /\ m.since = day
  OBVIOUS
<1>. HIDE DEF m
<1>4. /\ DOMAIN ms = DOMAIN s.markets \cup {n} /\ n \notin DOMAIN s.markets
      /\ ms[n] = m /\ \A i \in DOMAIN s.markets : ms[i] = s.markets[i]
  BY <1>2
<1>. HIDE DEF ms, n
<1>5. DayMarketsDiffer(ms)
  BY <1>3, <1>4 DEF DayMarketsDiffer
<1>. QED BY <1>1, <1>5

LEMMA MarketsStep ==
  ASSUME TypeOK, Agreement, DayMarketsDiffer(live.markets), [Next]_vars
  PROVE  DayMarketsDiffer(live'.markets)
<1>0. live \in Snapshots /\ disk \in Snapshots /\ disk.markets = live.markets
  BY DEF TypeOK, Agreement
<1>1. CASE Elsewhere
  BY <1>1, QuietSteps DEF Quiet
<1>2. ASSUME live'.markets = live.markets PROVE DayMarketsDiffer(live'.markets)
  BY <1>2
<1>3. ASSUME NEW u \in Users, NEW s \in States \cup {None}, LoginEnds(s, u)
      PROVE  live'.markets = live.markets
  BY <1>0, <1>3 DEF LoginEnds, Authenticated, Rotated, WithAccount, Snapshots
<1>4. ASSUME NEW n \in Services, NEW amount \in {0, 1}, CreateServiceAccount(n, amount)
      PROVE  live'.markets = live.markets
  BY <1>0, <1>4 DEF CreateServiceAccount, Served, WithAccount, Snapshots
<1>5. ASSUME NEW n \in Services, CreateServiceAccountBadly(n) PROVE live'.markets = live.markets
  BY <1>0, <1>5 DEF CreateServiceAccountBadly, WithAccount, Snapshots
<1>6. CreateAccount => live'.markets = live.markets
  BY <1>0 DEF CreateAccount, Served, WithAccount, Snapshots
<1>7. ASSUME NEW a, AdminMint(a) PROVE live'.markets = live.markets
  BY <1>0, <1>7 DEF AdminMint, Served, Snapshots
<1>8. ASSUME NEW on, Track(on) PROVE live'.markets = live.markets
  BY <1>0, <1>8 DEF Track, Served, Snapshots
<1>9. EditJoint => live'.markets = live.markets
  BY <1>0 DEF EditJoint, Served, Snapshots
<1>10. (\E r \in unsent : Answered(r)) \/ Crash => live'.markets = live.markets
  BY DEF Answered, Crash
<1>11. ASSUME NEW p \in PRs, DeliverOpened(p) PROVE DayMarketsDiffer(live'.markets)
  <2>1. live' = AddMarket(live, "amm", p, day + 1) /\ ~ Exists(p)
    BY <1>11 DEF DeliverOpened, Served
  <2>. QED BY <1>0, <2>1, AddingKeepsMarkets DEF Exists
<1>12. ASSUME NEW venue, NEW by, by \notin PRs, NEW d, Served(AddMarket(live, venue, by, d))
       PROVE  DayMarketsDiffer(live'.markets)
  BY <1>0, <1>12, AddingKeepsMarkets DEF Served
<1>13. ASSUME NEW u \in Owners, NEW venue, NEW d, SelfServe(u, venue, d) \/ ByAdmin(venue, d)
       PROVE  DayMarketsDiffer(live'.markets)
  BY <1>12, <1>13, ExchangeAssumption DEF SelfServe, ByAdmin
<1>14. ASSUME NEW venue, NEW d, ByAdmin(venue, d) PROVE DayMarketsDiffer(live'.markets)
  BY <1>12, <1>14, ExchangeAssumption DEF ByAdmin
<1>15. ASSUME NEW which, NEW status \in {"open", "resolved", "void"},
              Served(Ending(live, which, status))
       PROVE  DayMarketsDiffer(live'.markets)
  BY <1>0, <1>15, EndingKeepsMarkets DEF Served
<1>16. CASE Reconcile
  BY <1>0, <1>16, EndingKeepsMarkets DEF Reconcile
<1>17. ASSUME NEW seeds \in BOOLEAN, Start(seeds) PROVE DayMarketsDiffer(live'.markets)
  <2>. DEFINE read == [disk EXCEPT !.joint = IF seeds THEN @ ELSE 0]
  <2>1. live' = Ending(read, ExpiredIn(disk), "void")
    BY <1>17 DEF Start
  <2>2. read \in Snapshots /\ read.markets = live.markets
    BY <1>0 DEF Snapshots
  <2>. HIDE DEF read
  <2>. QED BY <2>1, <2>2, EndingKeepsMarkets
<1>. QED BY <1>1, <1>2, <1>3, <1>4, <1>5, <1>6, <1>7, <1>8, <1>9, <1>10, <1>11, <1>13, <1>14,
            <1>15, <1>16, <1>17, StepKinds

\* A webhook that is repeated or late opens no second market for a pull request
\* and a day (_handle_pr_opened): with the markets read back as they were, a
\* restart in between makes no difference.
THEOREM RetriesAreHarmless == Spec => []RedeliveryIsHarmless
<1>1. Init => Agreement /\ DayMarketsDiffer(live.markets)
  BY DEF Init, Agreement, Newest, DayMarketsDiffer, Empty
<1>2. TypeOK /\ Agreement /\ DayMarketsDiffer(live.markets) /\ [Next]_vars
      => (Agreement /\ DayMarketsDiffer(live.markets))'
  BY AgreementStep, MarketsStep
<1>3. DayMarketsDiffer(live.markets) => RedeliveryIsHarmless
  BY DEF DayMarketsDiffer, RedeliveryIsHarmless
<1>. QED BY <1>1, <1>2, <1>3, TypeCorrect, PTL DEF Spec
=============================================================================
