----------------------------- MODULE RiskEngine -----------------------------
(***************************************************************************)
(* exchange/core/risk_engine.py: the accounts, their locks, and the        *)
(* transaction log that exchange/core/api.py bounds by compaction in       *)
(* _save().  One action per public method.  Every method runs inside one   *)
(* handler of the single asyncio loop, so it is one step; a method that    *)
(* raises does so before it changes anything and is no step at all.        *)
(***************************************************************************)
EXTENDS Ledger, Feeds, SequencesExt

CONSTANTS
  Accounts,      \* account ids that may be created
  LockKeys,      \* the locks an account may hold: (market, lock_type) or order
  Amounts,       \* credit amounts a caller passes
  Payouts,       \* payouts a settlement passes
  LogCeiling,    \* TX_LOG_CEILING: _save compacts a log longer than this (0: never)
  LogKeep,       \* TX_LOG_KEEP: entries a compaction leaves alone
  MaxTx          \* bound on the transaction ids a behaviour uses

ASSUME RiskEngineAssumption ==
  /\ IsFiniteSet(Accounts) /\ IsFiniteSet(LockKeys)
  /\ Amounts \subseteq Nat \ {0}
  /\ Payouts \subseteq Int
  /\ LogCeiling \in Nat /\ LogKeep \in Nat /\ MaxTx \in Nat

VARIABLES
  accounts,      \* RiskEngine.accounts: the ids created so far
  ledger,        \* balances and locks
  log,           \* RiskEngine.transactions
  txSeq,         \* the "tx" counter of models.next_id
  mintedBase,    \* RiskEngine._minted_base
  everMinted     \* history: every credit ever minted

vars == <<accounts, ledger, log, txSeq, mintedBase, everMinted>>

Reasons == {"mint", "move", "settlement", "checkpoint"}

Transaction ==
  [id : Nat, account : Accounts, available : Int, frozen : Int, reason : Reasons]

TypeOK ==
  /\ accounts \subseteq Accounts
  /\ ledger \in Ledgers(Accounts, LockKeys)
  /\ log \in Seq(Transaction)
  /\ txSeq \in Nat
  /\ mintedBase \in Int
  /\ everMinted \in Nat

Init ==
  /\ accounts = {}
  /\ ledger = EmptyLedger(Accounts, LockKeys)
  /\ log = <<>>
  /\ txSeq = 0
  /\ mintedBase = 0
  /\ everMinted = 0

-----------------------------------------------------------------------------
(* Transaction.new takes the next id; the entry goes to the end of the log. *)

Tx(n, a, da, df, reason) ==
  [id |-> txSeq + n, account |-> a, available |-> da, frozen |-> df, reason |-> reason]

Post(entries) ==
  /\ txSeq + Len(entries) <= MaxTx
  /\ log' = log \o entries
  /\ txSeq' = txSeq + Len(entries)

CreateAccount(a) ==
  /\ a \notin accounts
  /\ accounts' = accounts \cup {a}
  /\ UNCHANGED <<ledger, log, txSeq, mintedBase, everMinted>>

MintCredits(a, x) ==
  /\ a \in accounts
  /\ ledger' = Mint(ledger, a, x)
  /\ Post(<<Tx(1, a, x, 0, "mint")>>)
  /\ everMinted' = everMinted + x
  /\ UNCHANGED <<accounts, mintedBase>>

LockCredits(a, k, x) ==
  /\ a \in accounts
  /\ ~ HasLock(ledger, a, k)
  /\ CanPay(ledger, a, x)
  /\ ledger' = Freeze(ledger, a, k, x)
  /\ Post(<<Tx(1, a, -x, x, "move")>>)
  /\ UNCHANGED <<accounts, mintedBase, everMinted>>

IncreaseLock(a, k, x) ==
  /\ a \in accounts
  /\ HasLock(ledger, a, k)
  /\ CanPay(ledger, a, x)
  /\ ledger' = Freeze(ledger, a, k, x)
  /\ Post(<<Tx(1, a, -x, x, "move")>>)
  /\ UNCHANGED <<accounts, mintedBase, everMinted>>

\* decrease_lock, and release_lock when x is the whole lock
DecreaseOrRelease(a, k, x) ==
  /\ a \in accounts
  /\ CanDecrease(ledger, a, k, x)
  /\ ledger' = DecreaseLock(ledger, a, k, x)
  /\ Post(<<Tx(1, a, x, -x, "move")>>)
  /\ UNCHANGED <<accounts, mintedBase, everMinted>>

Settle(a, k, payout) ==
  /\ a \in accounts
  /\ HasLock(ledger, a, k)
  /\ ledger' = SettleLock(ledger, a, k, payout)
  /\ Post(<<Tx(1, a, payout, -ledger.locks[a][k], "settlement")>>)
  /\ UNCHANGED <<accounts, mintedBase, everMinted>>

Transfer(a, b, x) ==
  /\ a \in accounts /\ b \in accounts
  /\ CanPay(ledger, a, x)
  /\ ledger' = TransferAvailable(ledger, a, b, x)
  /\ Post(<<Tx(1, a, -x, 0, "move"), Tx(2, b, x, 0, "move")>>)
  /\ UNCHANGED <<accounts, mintedBase, everMinted>>

TransferLocked(a, k, b, j, x) ==
  /\ a \in accounts /\ b \in accounts
  /\ CanDecrease(ledger, a, k, x)
  /\ ledger' = TransferFrozen(ledger, a, k, b, j, x)
  /\ Post(<<Tx(1, a, 0, -x, "move"), Tx(2, b, 0, x, "move")>>)
  /\ UNCHANGED <<accounts, mintedBase, everMinted>>

-----------------------------------------------------------------------------
(* compact_transactions: every entry but the last `keep` is folded into one *)
(* checkpoint per account, in the order the accounts first appear.          *)

Deltas(entries, a, Field(_)) ==
  SumFunction([i \in DOMAIN entries |->
                 IF entries[i].account = a THEN Field(entries[i]) ELSE 0])

AvailableDelta(tx) == tx.available
FrozenDelta(tx) == tx.frozen

EntriesOf(entries, a) == {i \in DOMAIN entries : entries[i].account = a}

\* Mutants: a checkpoint with its first entry's id, and one that forgets the
\* frozen deltas.
CheckpointFirstId(dropped, a) ==
  [id |-> dropped[Min(EntriesOf(dropped, a))].id, account |-> a,
   available |-> Deltas(dropped, a, AvailableDelta),
   frozen |-> Deltas(dropped, a, FrozenDelta), reason |-> "checkpoint"]
CheckpointAvailableOnly(dropped, a) ==
  [CheckpointFirstId(dropped, a) EXCEPT
     !.id = dropped[Max(EntriesOf(dropped, a))].id, !.frozen = 0]

Checkpoint(dropped, a) ==
  [id        |-> dropped[Max(EntriesOf(dropped, a))].id,
   account   |-> a,
   available |-> Deltas(dropped, a, AvailableDelta),
   frozen    |-> Deltas(dropped, a, FrozenDelta),
   reason    |-> "checkpoint"]

\* Where an account appears for the first time, in order.
FirstEntries(entries) ==
  {i \in DOMAIN entries : \A j \in 1..(i - 1) : entries[j].account # entries[i].account}

Ascending(S) ==
  CHOOSE p \in SetToSeqs(S) : \A i, j \in DOMAIN p : i < j => p[i] < p[j]

Checkpoints(dropped) ==
  LET order == Ascending(FirstEntries(dropped))
  IN  [i \in DOMAIN order |-> Checkpoint(dropped, dropped[order[i]].account)]

CompactedLog(entries, keep) ==
  LET cutoff == Len(entries) - keep
  IN  Checkpoints(SubSeq(entries, 1, cutoff)) \o SubSeq(entries, cutoff + 1, Len(entries))

MintedIn(entries) ==
  SumFunction([i \in DOMAIN entries |->
                 IF entries[i].reason = "mint" THEN entries[i].available ELSE 0])

\* _save() compacts an over-long log; keep_recent at or above the length is a
\* no-op of compact_transactions.  A handler calls any number of the methods
\* above before its one _save(), and one that raises never reaches it, so any
\* number of method calls may come between two compactions.
Compact ==
  /\ LogCeiling > 0
  /\ Len(log) > LogCeiling
  /\ Len(log) > LogKeep
  /\ log' = CompactedLog(log, LogKeep)
  /\ mintedBase' = mintedBase + MintedIn(SubSeq(log, 1, Len(log) - LogKeep))
  /\ UNCHANGED <<accounts, ledger, txSeq, everMinted>>

-----------------------------------------------------------------------------
(* The activity page                                                       *)

\* An entry as the page shows it, with its account's balances after it, added up
\* from zero.
Row(entries, i) ==
  LET a    == entries[i].account
      upTo == SubSeq(entries, 1, i)
  IN  [id             |-> entries[i].id,
       account        |-> a,
       availableAfter |-> Deltas(upTo, a, AvailableDelta),
       frozenAfter    |-> Deltas(upTo, a, FrozenDelta)]

\* The entries at some places of the log, the newest first.
NewestFirst(entries, places) ==
  [k \in 1..Cardinality(places) |-> Row(entries, NthLast(places, k))]

\* _build_account_activity
Activity(entries, a) == NewestFirst(entries, EntriesOf(entries, a))

\* get_my_activity: at most `limit` entries older than the cursor, and the cursor
\* to go on from; no cursor is 0.
ActivityPage(a, limit, before) ==
  LET older == NewestFirst(log, {i \in EntriesOf(log, a) : before = 0 \/ log[i].id < before})
      shown == SubSeq(older, 1, Min({limit, Len(older)}))
  IN  [entries |-> shown,
       next    |-> IF Len(older) > limit THEN Last(shown).id ELSE 0]

-----------------------------------------------------------------------------
Next ==
  \/ Compact
  \/ \E a \in Accounts :
       \/ CreateAccount(a)
       \/ \E x \in Amounts :
            \/ MintCredits(a, x)
            \/ \E b \in Accounts : Transfer(a, b, x)
       \/ \E k \in LockKeys :
            \/ \E payout \in Payouts : Settle(a, k, payout)
            \/ \E x \in Amounts :
                 \/ LockCredits(a, k, x)
                 \/ IncreaseLock(a, k, x)
                 \/ DecreaseOrRelease(a, k, x)
                 \/ \E b \in Accounts, j \in LockKeys : TransferLocked(a, k, b, j, x)

Spec == Init /\ [][Next]_vars

-----------------------------------------------------------------------------
(* Properties *)

\* The invariant of the module docstring (risk_engine.py:11): an account's
\* frozen balance is the sum of its locks after any sequence of mutations,
\* including the two-account transfer_frozen and a settlement that pays a
\* different amount than it unlocks.
FrozenIsSumOfLocks == FrozenMatchesLocks(ledger)

\* The balances next to the newest entry of an account's activity page are its
\* real balances, whatever was compacted.
ActivityMatchesBalances ==
  \A a \in accounts :
    LET activity == Activity(log, a)
        newest   == IF activity = <<>> THEN [availableAfter |-> 0, frozenAfter |-> 0]
                    ELSE Head(activity)
    IN  /\ newest.availableAfter = ledger.available[a]
        /\ newest.frozenAfter = ledger.frozen[a]

\* total_minted(): the compacted base and the mints still in the log together
\* count every credit ever minted, exactly once.
MintedSurvivesCompaction == mintedBase + MintedIn(log) = everMinted

\* Whoever follows the cursors from the first page to the last reads every entry
\* once, also across the checkpoints of two compactions.
AllPages(a, limit) ==
  LET OnePage(read, i) ==
        LET page == ActivityPage(a, limit, read.next)
        IN  IF read.ended THEN read
            ELSE [entries |-> read.entries \o page.entries, next |-> page.next,
                  ended |-> page.next = 0]
  IN  FoldLeft(OnePage, [entries |-> <<>>, next |-> 0, ended |-> FALSE],
               [i \in 1..(Len(log) + 1) |-> i]).entries

PagesAreComplete ==
  \A a \in accounts, limit \in 1..2 : AllPages(a, limit) = Activity(log, a)

\* Whatever was compacted, and however often, the log explains the balances, the
\* mint total and the history that the activity page and total_minted() show.
LogExplainsBalances ==
  ActivityMatchesBalances /\ MintedSurvivesCompaction /\ PagesAreComplete

\* A balance the activity page has shown next to a transaction id is shown
\* next to that id for ever after: neither an appended entry nor a compaction
\* changes the running balance at an entry that stays, and a checkpoint reads
\* as its account's balance at the cut-off.
Shown(entries) == UNION {Range(Activity(entries, a)) : a \in accounts}

ShownBalancesStay ==
  [][\A shown \in Shown(log), later \in Shown(log') :
       shown.id = later.id => shown = later]_vars

\* "The only way money enters" (RiskEngine.mint): a step that changes the
\* number of credits in the system is a mint of that many, or a settlement
\* whose payout differs from the lock it releases.
OnlyMintsAndSettlementsMoveTheTotal ==
  [][Credits(ledger') # Credits(ledger) =>
       \/ Credits(ledger') - Credits(ledger) = everMinted' - everMinted
       \/ \E a \in Accounts, k \in LockKeys, p \in Payouts : Settle(a, k, p)]_vars
=============================================================================
