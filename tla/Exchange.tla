------------------------------- MODULE Exchange -------------------------------
(***************************************************************************)
(* exchange/core/api.py around the venues: who owns an account and which   *)
(* API key opens it (core/auth.py), the life of markets that are opened    *)
(* and closed by GitHub webhooks, by their creator, by an admin or by      *)
(* their deadline, and the snapshot (core/persistence.py) that all of it   *)
(* is restored from.                                                       *)
(*                                                                         *)
(* A handler holds app.state.lock and awaits nothing while it does, so it  *)
(* is one step; a login releases it while GitHub is asked. A handler saves *)
(* when it succeeds; what a failed one changed stays in memory. The answer *)
(* leaves after the save, and a crash may keep it from the client: that is *)
(* modelled for the answers that carry an API key, which is told only      *)
(* once.                                                                   *)
(*                                                                         *)
(* Trading inside a market, with the AMM's and the escrows' own accounts,  *)
(* is AmmMarket, OrderBook, JointVenue and BatchRound; of the joint venue  *)
(* only the version of its section is kept. The category and metadata of a *)
(* market an admin opens are taken to name no pull request and no creator. *)
(***************************************************************************)
EXTENDS Integers, FiniteSets, Sequences, Functions

CONSTANTS
  Users,        \* GitHub users
  Services,     \* names of service accounts
  States,       \* OAuth states issued by secrets.token_urlsafe
  PRs,          \* pull requests of the tracked repository
  None,
  Cap,          \* USER_MARKET_CAP
  LastDay,      \* bound: days
  MaxAccounts,  \* bound: accounts
  MaxKeys,      \* bound: API keys made
  MaxMarkets,   \* bound: markets
  MaxEdits,     \* bound: versions of the joint section
  MaxLogins,    \* bound: logins begun
  MaxRequests,  \* bound: requests that are served
  MaxCrashes    \* bound: crashes

Owners == Users \cup Services
Days == 0..LastDay
Deadlines == 0..LastDay + 1   \* LastDay + 1: none that comes
Identity == [account : 1..MaxAccounts, key : 1..MaxKeys]
Answers == [owner : Owners, identity : Identity]

ASSUME ExchangeAssumption ==
  /\ IsFiniteSet(Users) /\ IsFiniteSet(Services) /\ Users \cap Services = {}
  /\ IsFiniteSet(States) /\ IsFiniteSet(PRs) /\ PRs \cap Owners = {}
  /\ None \notin Owners \cup PRs \cup States \cup Identity
  /\ {Cap, LastDay, MaxAccounts, MaxKeys, MaxMarkets, MaxEdits, MaxLogins,
     MaxRequests, MaxCrashes} \subseteq Nat

VARIABLES
  live,      \* app.state, as far as it is saved
  raw,       \* app.state.venues: the joint section the process was started with
  enabled,   \* EXCHANGE_SEEDS_PATH is set: there is a joint venue
  issued,    \* app.state.github_oauth_states
  asking,    \* logins whose code (by its OAuth state) or device is being shown to GitHub
  disk,      \* the snapshot
  up,        \* the exchange is running
  keys,      \* secrets.token_urlsafe: API keys made so far
  unsent,    \* answers with a key that are saved and not yet with their client
  told,      \* the newest account and key each owner was told
  github,    \* external: the pull requests
  day,       \* the date
  cut,       \* history: owners whose last answer a crash kept from them
  edits,     \* history: trades on the joint venue
  granted,   \* history: what admins minted to each account
  used,      \* history: logins begun with each OAuth state, and with a device
  served,    \* history: requests served
  crashes    \* history: crashes so far

answers == <<keys, unsent, told, cut>>
world == <<github, day>>
vars == <<live, raw, enabled, issued, asking, disk, up, answers, world, edits, granted,
          used, served, crashes>>

-----------------------------------------------------------------------------

\* by is the pull request, the creator or, None, an admin; deadline the first day
\* on which the market is over.  Which outcome it is resolved to is left to the
\* market modules.
Market ==
  [venue : {"amm", "book"}, by : PRs \cup Owners \cup {None}, since : Days, deadline : Nat,
   status : {"open", "resolved", "void"}]

Snapshots ==
  [accounts : 0..MaxAccounts,                        \* the account counter
   minted   : [1..MaxAccounts -> Nat],               \* in units of INITIAL_CREDITS
   owner    : [Owners -> Identity \cup {None}],      \* users and local_users
   tracked  : BOOLEAN,                               \* tracked_repos has it enabled
   markets  : Seq(Market),
   joint    : Nat]                                   \* venues["joint"]; 0: no section

TypeOK ==
  /\ {live, disk} \subseteq Snapshots
  /\ raw \in Nat /\ enabled \in BOOLEAN /\ up \in BOOLEAN
  /\ issued \subseteq States /\ asking \subseteq (States \cup {None}) \X Users
  /\ keys \in 0..MaxKeys /\ unsent \subseteq Answers
  /\ told \in [Owners -> Identity \cup {None}] /\ cut \subseteq Owners
  /\ edits \in Nat /\ granted \in [1..MaxAccounts -> Nat]
  /\ github \in [PRs -> {"none", "open", "closed"}]
  /\ day \in Days /\ used \in [States \cup {None} -> Nat]
  /\ served \in 0..MaxRequests /\ crashes \in 0..MaxCrashes

Empty ==
  [accounts |-> 0, minted |-> [a \in 1..MaxAccounts |-> 0],
   owner |-> [o \in Owners |-> None], tracked |-> FALSE, markets |-> <<>>, joint |-> 0]

Init ==
  /\ live = Empty /\ disk = Empty /\ raw = 0
  /\ enabled \in BOOLEAN /\ up = TRUE
  /\ issued = {} /\ asking = {}
  /\ keys = 0 /\ unsent = {} /\ told = [o \in Owners |-> None] /\ cut = {}
  /\ edits = 0 /\ granted = [a \in 1..MaxAccounts |-> 0]
  /\ github = [p \in PRs |-> "none"]
  /\ day = 0 /\ used = [s \in States \cup {None} |-> 0]
  /\ served = 0 /\ crashes = 0

\* Mutant: without a joint venue the section is written empty.
SaveErasing(s) == disk' = [s EXCEPT !.joint = IF enabled THEN @ ELSE 0]
\* _save: a joint venue that is not running leaves the section it was loaded
\* with, the "no-erase passthrough".
Save(s) == disk' = [s EXCEPT !.joint = IF enabled THEN @ ELSE raw]

Counted == served < MaxRequests /\ served' = served + 1

\* A handler that succeeds; login state and the world outside are not its.
Served(s) ==
  /\ up
  /\ live' = s /\ Save(s)
  /\ Counted
  /\ UNCHANGED <<raw, enabled, issued, asking, up, world, used, crashes>>

\* ... and has no key to tell.
Silently == UNCHANGED <<answers, edits, granted>>

-----------------------------------------------------------------------------
(* Accounts and keys                                                       *)

\* Mutant: the id that was reserved is skipped.
WithAccountSkipping(s, amount) ==
  [s EXCEPT !.accounts = @ + 2, !.minted[s.accounts + 1] = amount]

\* create_account, and mint if there is something to mint.
WithAccount(s, amount) ==
  [s EXCEPT !.accounts = @ + 1, !.minted[s.accounts + 1] = amount]

\* auth_github_login
LoginStart(s) ==
  /\ up /\ s \notin issued /\ used[s] = 0
  /\ issued' = issued \cup {s}
  /\ UNCHANGED <<live, raw, enabled, asking, disk, up, world, used, served, crashes>>
  /\ Silently

\* _prune_github_oauth_states
StateExpires(s) ==
  /\ s \in issued
  /\ issued' = issued \ {s}
  /\ UNCHANGED <<live, raw, enabled, asking, disk, up, world, used, served, crashes>>
  /\ Silently

\* Who u is GitHub will say; the client shows a code or a device.
LoginBegins(s, u) ==
  /\ SumFunction(used) < MaxLogins
  /\ asking' = asking \cup {<<s, u>>}
  /\ used' = [used EXCEPT ![s] = @ + 1]
  /\ UNCHANGED <<live, raw, enabled, disk, up, world, served, crashes>>
  /\ Silently

\* auth_github_callback up to its await: the state is taken first.
Callback(s, u) ==
  /\ up /\ s \in issued
  /\ issued' = issued \ {s}
  /\ LoginBegins(s, u)

\* External: GitHub refuses, or does not answer in time; a 502.
GithubFails(s, u) ==
  /\ <<s, u>> \in asking
  /\ asking' = asking \ {<<s, u>>}
  /\ UNCHANGED <<live, raw, enabled, issued, disk, up, world, used, served, crashes>>
  /\ Silently

\* create_user: a known user keeps its account and gets a new key.
Rotated(s, u, key) == [s EXCEPT !.owner[u].key = key]

AuthenticatedAnew(s, u, key) ==   \* mutant: who is known was looked up before the await
  [WithAccount(s, 1) EXCEPT !.owner[u] = [account |-> s.accounts + 1, key |-> key]]

\* _authenticate_github_identity, under the lock
Authenticated(s, u, key) ==
  IF s.owner[u] # None THEN Rotated(s, u, key)
  ELSE [WithAccount(s, 1) EXCEPT !.owner[u] = [account |-> s.accounts + 1, key |-> key]]

\* A new key is made, and its answer is on its way.
Answer(o, identity) ==
  /\ keys < MaxKeys /\ keys' = keys + 1
  /\ unsent' = unsent \cup {[owner |-> o, identity |-> identity]}
  /\ cut' = cut \ {o}
  /\ UNCHANGED told

\* The rest of the callback, or of auth_device_poll, once GitHub has answered,
\* up to the save.
LoginEnds(s, u) ==
  LET after == Authenticated(live, u, keys + 1)
  IN  /\ up /\ <<s, u>> \in asking
      /\ live.owner[u] = None => live.accounts < MaxAccounts
      /\ live' = after /\ Save(after)
      /\ Answer(u, after.owner[u])
      /\ asking' = asking \ {<<s, u>>}
      /\ Counted
      /\ UNCHANGED <<raw, enabled, issued, up, world, edits, granted, used, crashes>>

\* The response reaches its client.  Answers may overtake each other: who was told
\* a newer key keeps it.
Answered(r) ==
  /\ up /\ r \in unsent
  /\ unsent' = unsent \ {r}
  /\ told' = IF told[r.owner] # None /\ told[r.owner].key > r.identity.key THEN told
             ELSE [told EXCEPT ![r.owner] = r.identity]
  /\ UNCHANGED <<live, raw, enabled, issued, asking, disk, up, keys, cut, world, edits,
                 granted, used, served, crashes>>

\* auth_device_poll up to its last await: GitHub has confirmed the device.
DevicePoll(u) ==
  /\ up /\ UNCHANGED issued
  /\ LoginBegins(None, u)

\* admin_create_service_account with initial credits, or none
CreateServiceAccount(n, amount) ==
  LET identity == [account |-> live.accounts + 1, key |-> keys + 1]
  IN  /\ live.owner[n] = None        \* 409 username_taken
      /\ live.accounts < MaxAccounts
      /\ Answer(n, identity)
      /\ Served([WithAccount(live, amount) EXCEPT !.owner[n] = identity])
      /\ UNCHANGED <<edits, granted>>

\* ... with credits that are no number: the account is there already.
CreateServiceAccountBadly(n) ==
  /\ up /\ live.owner[n] = None
  /\ live.accounts < MaxAccounts
  /\ live' = WithAccount(live, 0)
  /\ Counted
  /\ UNCHANGED <<raw, enabled, issued, asking, disk, up, world, used, crashes>> /\ Silently

\* admin_create_account: one without an owner, the treasury's for instance
CreateAccount ==
  /\ live.accounts < MaxAccounts
  /\ Served(WithAccount(live, 0)) /\ Silently

\* admin_mint, to any account there is
AdminMint(a) ==
  /\ a <= live.accounts
  /\ Served([live EXCEPT !.minted[a] = @ + 1])
  /\ granted' = [granted EXCEPT ![a] = @ + 1]
  /\ UNCHANGED <<answers, edits>>

-----------------------------------------------------------------------------
(* Markets                                                                 *)

IsOpen(m) == m.status = "open"

AddMarket(s, venue, by, deadline) ==
  [s EXCEPT !.markets = Append(@,
     [venue |-> venue, by |-> by, since |-> day, deadline |-> deadline,
      status |-> "open"])]

\* What a settlement leaves of the markets it is for.
Ending(s, which, status) ==
  [s EXCEPT !.markets =
     [i \in DOMAIN @ |-> IF i \in which THEN [@[i] EXCEPT !.status = status] ELSE @[i]]]

\* Mutant: only an open market counts as already there.
ExistsOpen(p) ==
  \E i \in DOMAIN live.markets :
    live.markets[i].by = p /\ live.markets[i].since = day /\ IsOpen(live.markets[i])

\* category_id: one market for a pull request and a day, whatever became of it.
Exists(p) ==
  \E i \in DOMAIN live.markets : live.markets[i].by = p /\ live.markets[i].since = day

\* _handle_pr_opened, for every delivery of the webhook, whose signature is taken
\* to be right; open until midnight.
DeliverOpened(p) ==
  /\ github[p] # "none"
  /\ live.tracked /\ ~ Exists(p)
  /\ Len(live.markets) < MaxMarkets
  /\ Served(AddMarket(live, "amm", p, day + 1)) /\ Silently

OpenMarketsOf(p) ==
  {i \in DOMAIN live.markets : live.markets[i].by = p /\ IsOpen(live.markets[i])}

\* _handle_pr_closed: every open market of the pull request, also of other days.
DeliverClosed(p) ==
  /\ github[p] = "closed"
  /\ live.tracked /\ OpenMarketsOf(p) # {}
  /\ Served(Ending(live, OpenMarketsOf(p), "resolved")) /\ Silently

\* _creator_open_market_count: AMM and book markets together
CreatorOpen(s, u) ==
  Cardinality({i \in DOMAIN s.markets : s.markets[i].by = u /\ IsOpen(s.markets[i])})

\* _enforce_creator_cap
UnderCap(u) == CreatorOpen(live, u) < Cap

\* A self-serve market; its deadline is in the future.
SelfServe(u, venue, deadline) ==
  /\ live.owner[u] # None
  /\ deadline > day /\ UnderCap(u)
  /\ Len(live.markets) < MaxMarkets
  /\ Served(AddMarket(live, venue, u, deadline)) /\ Silently

\* create_user_market
CreateUserMarket(u, deadline) == SelfServe(u, "amm", deadline)

\* create_book_market, by a user
CreateBookMarket(u, deadline) == SelfServe(u, "book", deadline)

\* What an admin asks for is taken as it comes: a deadline in the past, none, or
\* one that cannot be read, which is none.
ByAdmin(venue, deadline) ==
  /\ Len(live.markets) < MaxMarkets
  /\ Served(AddMarket(live, venue, None, deadline)) /\ Silently

\* admin_create_market
AdminCreateMarket(deadline) == ByAdmin("amm", deadline)

\* create_book_market, by an admin
AdminCreateBookMarket(deadline) == ByAdmin("book", deadline)

\* metadata["resolver"]["type"] is "creator"
ForCreator(m) == m.by \in Owners

\* _authorize_market_resolver: a creator settles its own market, once it is over.
MaySettle(m) == ForCreator(m) /\ m.deadline <= day

\* An admin may settle any open market at any time.
SettleMarket(i, byAdmin, status) ==
  /\ IsOpen(live.markets[i])
  /\ byAdmin \/ MaySettle(live.markets[i])
  /\ Served(Ending(live, {i}, status)) /\ Silently

OnBook(m) == m.venue = "book"

\* resolve_market and void_market
Settle(i, byAdmin, status) == ~ OnBook(live.markets[i]) /\ SettleMarket(i, byAdmin, status)

\* resolve_book_market and void_book_market
SettleBook(i, byAdmin, status) == OnBook(live.markets[i]) /\ SettleMarket(i, byAdmin, status)

\* admin_override_status, on an AMM market in which nobody has traded.
Override(i, status) ==
  /\ ~ OnBook(live.markets[i]) /\ live.markets[i].status # status
  /\ Served(Ending(live, {i}, status)) /\ Silently

\* A market the reconcile loop looks at: one of app.state.me, whose creator does
\* not settle it.
Swept(m) == ~ OnBook(m) /\ ~ ForCreator(m)

ExpiredLater(s) ==   \* mutant: a market is over after its deadline only
  {i \in DOMAIN s.markets :
     Swept(s.markets[i]) /\ IsOpen(s.markets[i]) /\ s.markets[i].deadline < day}

\* The markets a pass of the reconcile loop voids.
ExpiredIn(s) ==
  {i \in DOMAIN s.markets :
     Swept(s.markets[i]) /\ IsOpen(s.markets[i]) /\ s.markets[i].deadline <= day}

\* _reconcile_expired_markets_once
Reconcile ==
  LET after == Ending(live, ExpiredIn(live), "void")
  IN  /\ up /\ ExpiredIn(live) # {}
      /\ live' = after /\ Save(after)
      /\ UNCHANGED <<raw, enabled, issued, asking, up, world, used, served, crashes>>
      /\ Silently

\* admin_add_repo, enabled, and admin_delete_repo, or admin_add_repo, disabled
Track(on) ==
  /\ live.tracked # on
  /\ Served([live EXCEPT !.tracked = on]) /\ Silently

\* A trade on the joint venue.
EditJoint ==
  /\ enabled /\ live.joint < MaxEdits
  /\ Served([live EXCEPT !.joint = @ + 1])
  /\ edits' = edits + 1
  /\ UNCHANGED <<answers, granted>>

-----------------------------------------------------------------------------
(* The world outside                                                       *)

Outside ==
  /\ UNCHANGED <<live, raw, enabled, issued, asking, disk, up, used, served, crashes>>
  /\ Silently

\* External: a pull request is opened, and merged or closed.  GitHub's webhook
\* of it arrives any number of times, late, overtaken by the next, or never.
PrOpened(p) ==
  /\ github[p] = "none"
  /\ github' = [github EXCEPT ![p] = "open"]
  /\ Outside /\ UNCHANGED day

PrClosed(p) ==
  /\ github[p] = "open"
  /\ github' = [github EXCEPT ![p] = "closed"]
  /\ Outside /\ UNCHANGED day

Midnight ==
  /\ day < LastDay /\ day' = day + 1
  /\ Outside /\ UNCHANGED github

\* A request that did not get to its save might as well not have begun; one that
\* did may not be answered.
Crash ==
  /\ up /\ crashes < MaxCrashes
  /\ up' = FALSE /\ crashes' = crashes + 1
  /\ issued' = {} /\ asking' = {} /\ unsent' = {}
  /\ cut' = cut \cup {o \in Owners : [owner |-> o, identity |-> disk.owner[o]] \in unsent}
  /\ UNCHANGED <<live, raw, enabled, disk, keys, told, world, edits, granted, used, served>>

\* lifespan: the snapshot is loaded, with or without a joint venue, and a pass
\* over expired markets is made before the first request.
Start(seeds) ==
  LET which  == ExpiredIn(disk)
      loaded == Ending([disk EXCEPT !.joint = IF seeds THEN @ ELSE 0], which, "void")
  IN  /\ ~ up
      /\ up' = TRUE /\ enabled' = seeds
      /\ raw' = disk.joint /\ live' = loaded
      /\ IF which = {} THEN UNCHANGED disk
         ELSE disk' = [loaded EXCEPT !.joint = disk.joint]
      /\ UNCHANGED <<issued, asking, world, used, served, crashes>>
      /\ Silently

Next ==
  \/ \E s \in States :
       \/ LoginStart(s) \/ StateExpires(s)
       \/ \E u \in Users : Callback(s, u)
  \/ \E u \in Users :
       \/ DevicePoll(u)
       \/ \E s \in States \cup {None} : GithubFails(s, u) \/ LoginEnds(s, u)
  \/ \E n \in Services :
       \/ \E amount \in {0, 1} : CreateServiceAccount(n, amount)
       \/ CreateServiceAccountBadly(n)
  \/ \E r \in unsent : Answered(r)
  \/ CreateAccount
  \/ \E a \in 1..MaxAccounts : AdminMint(a)
  \/ \E p \in PRs :
       \/ DeliverOpened(p) \/ DeliverClosed(p)
       \/ PrOpened(p) \/ PrClosed(p)
  \/ \E d \in Deadlines :
       \/ \E u \in Owners : CreateUserMarket(u, d) \/ CreateBookMarket(u, d)
       \/ AdminCreateMarket(d) \/ AdminCreateBookMarket(d)
  \/ \E i \in DOMAIN live.markets :
       \/ \E byAdmin \in BOOLEAN, status \in {"resolved", "void"} :
            Settle(i, byAdmin, status) \/ SettleBook(i, byAdmin, status)
       \/ \E status \in {"open", "resolved", "void"} : Override(i, status)
  \/ Reconcile
  \/ \E on \in BOOLEAN : Track(on)
  \/ EditJoint
  \/ Midnight \/ Crash
  \/ \E seeds \in BOOLEAN : Start(seeds)

\* The reconcile loop runs as long as the exchange does (its body is inside a
\* try), and systemd starts the exchange again (Restart=on-failure).
Spec ==
  Init /\ [][Next]_vars /\ WF_vars(Reconcile) /\ WF_vars(\E seeds \in BOOLEAN : Start(seeds))

-----------------------------------------------------------------------------
(* Properties                                                              *)

OwnersIn(s) == {o \in Owners : s.owner[o] # None}

\* However logins, repeated callbacks, failed requests and crashes interleave,
\* no OAuth state begins two logins, no two owners share an account or a key, a
\* GitHub user got the welcome credits exactly once, and only what an admin
\* minted lies in an account that nobody can open.
AccountsAreOwnedOnce ==
  /\ \A s \in States : used[s] <= 1
  /\ \A s \in {live, disk} :
       /\ \A o \in OwnersIn(s) : \A other \in OwnersIn(s) \ {o} :
            /\ s.owner[o].account # s.owner[other].account
            /\ s.owner[o].key # s.owner[other].key
       /\ \A o \in OwnersIn(s) : s.owner[o].account <= s.accounts
       /\ \A u \in Users \cap OwnersIn(s) :
            s.minted[s.owner[u].account] = 1 + granted[s.owner[u].account]
       /\ \A a \in 1..MaxAccounts :
            s.minted[a] > granted[a] => \E o \in OwnersIn(s) : s.owner[o].account = a

\* What a client was told survives a crash at any moment: the account of each
\* owner and its last key, unless a newer key is saved whose answer is still on
\* its way or was lost in a crash; every market as it stands; and the joint
\* venue's section, also while the exchange runs without that venue.
AnsweredIsSaved ==
  /\ \A o \in Owners :
       /\ told[o] # None =>
            disk.owner[o] # None /\ disk.owner[o].account = told[o].account
       /\ \/ disk.owner[o] = told[o]
          \/ [owner |-> o, identity |-> disk.owner[o]] \in unsent
          \/ o \in cut
  /\ disk.markets = live.markets
  /\ disk.joint = edits

\* "Idempotency": a repeated or late webhook opens no second market for a pull
\* request on one day, also after the first was settled or voided, or the
\* exchange started again.
RedeliveryIsHarmless ==
  \A i, j \in DOMAIN live.markets :
    LET m == live.markets[i]
        n == live.markets[j]
    IN  m.by \in PRs /\ m.by = n.by /\ m.since = n.since => i = j

Overdue(s, i) ==
  /\ i \in DOMAIN s.markets
  /\ s.markets[i].venue = "amm" /\ ~ ForCreator(s.markets[i])
  /\ s.markets[i].status = "open" /\ s.markets[i].deadline <= day

\* An AMM market that no creator settles does not stay open, in memory or on disk,
\* for ever after its deadline, although the webhook that should have settled it
\* is lost or overtaken, the exchange was down when the deadline passed, or an
\* admin opened the market with a deadline gone by, or again after it.  Of an
\* admin's market on the book nothing is said: it waits for an admin.
ExpiredMarketsEnd ==
  \A i \in 1..MaxMarkets : Overdue(live, i) ~> ~ Overdue(live, i) /\ ~ Overdue(disk, i)
=============================================================================
