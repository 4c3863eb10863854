-------------------------- MODULE RiskEngineProofs --------------------------
(***************************************************************************)
(* RiskEngine.tla's typing, the invariant of its locks, what moves the     *)
(* number of credits, and what the transaction log says of the balances    *)
(* through every compaction, for every finite set of accounts and locks,   *)
(* every amount and payout, and every log ceiling.                         *)
(***************************************************************************)
EXTENDS RiskEngine, LedgerProofs

\* The ledger is typed and its frozen balances match its locks.
\* FrozenIsSumOfLocks alone is not inductive: that a lock is a natural number
\* is what makes SumFunction add up.
SheetInvariant == SoundLedger(ledger, Accounts, LockKeys)

LEMMA ConstantsOK ==
  /\ IsFiniteSet(Accounts) /\ IsFiniteSet(LockKeys)
  /\ \A x \in Amounts : x \in Nat /\ x \in Int /\ x # 0
  /\ \A x \in Payouts : x \in Int
BY RiskEngineAssumption

LEMMA InitSheet == Init => SheetInvariant
BY ConstantsOK, EmptyLedgerIsSound DEF Init, SheetInvariant, SoundLedger

\* A step is of one of these kinds; each lemma below takes one of them.
LEMMA StepKinds ==
  ASSUME [Next]_vars
  PROVE  \/ UNCHANGED <<ledger, everMinted>>
         \/ \E a \in Accounts, x \in Amounts : MintCredits(a, x)
         \/ \E a \in Accounts, k \in LockKeys, p \in Payouts : Settle(a, k, p)
         \/ \E a, b \in Accounts, x \in Amounts : Transfer(a, b, x)
         \/ \E a \in Accounts, k \in LockKeys, x \in Amounts :
              \/ LockCredits(a, k, x)
              \/ IncreaseLock(a, k, x)
              \/ DecreaseOrRelease(a, k, x)
         \/ \E a, b \in Accounts, k, j \in LockKeys, x \in Amounts : TransferLocked(a, k, b, j, x)
<1>1. CASE Next
  BY <1>1 DEF Next, Compact, CreateAccount
<1>2. CASE UNCHANGED vars
  BY <1>2 DEF vars
<1>. QED BY <1>1, <1>2

\* Every step but a mint and a settlement keeps the credits in the system, a
\* mint adds what it mints, and all of them keep the sheet sound.
LEMMA StepSheet ==
  ASSUME SheetInvariant, everMinted \in Nat, [Next]_vars
  PROVE  /\ SheetInvariant'
         /\ \/ Credits(ledger') - Credits(ledger) = everMinted' - everMinted
            \/ \E a \in Accounts, k \in LockKeys, p \in Payouts : Settle(a, k, p)
            \/ Credits(ledger') = Credits(ledger)
<1>. USE DEF SheetInvariant
<1>0. /\ IsFiniteSet(Accounts) /\ IsFiniteSet(LockKeys)
  BY ConstantsOK
<1>1. CASE UNCHANGED <<ledger, everMinted>>
  BY <1>1
<1>2. ASSUME NEW a \in Accounts, NEW x \in Amounts, MintCredits(a, x)
      PROVE  /\ SheetInvariant'
             /\ Credits(ledger') - Credits(ledger) = everMinted' - everMinted
  <2>1. ledger' = Mint(ledger, a, x) /\ everMinted' = everMinted + x /\ x \in Int
    BY <1>2, ConstantsOK DEF MintCredits
  <2>2. SheetInvariant' /\ Credits(ledger') = Credits(ledger) + x
    BY <1>0, <2>1, MintIsSound
  <2>3. Credits(ledger) \in Int
    BY <1>0, CreditsInt DEF Credits
  <2>. QED BY <2>1, <2>2, <2>3
<1>3. ASSUME NEW a \in Accounts, NEW k \in LockKeys, NEW p \in Payouts, Settle(a, k, p)
      PROVE  SheetInvariant'
  <2>1. ledger' = SettleLock(ledger, a, k, p) /\ p \in Int
    BY <1>3, ConstantsOK DEF Settle
  <2>. QED BY ONLY <1>0, <2>1, SheetInvariant, a \in Accounts, k \in LockKeys, SettleIsSound
              DEF SheetInvariant
<1>4. ASSUME NEW a \in Accounts, NEW b \in Accounts, NEW x \in Amounts, Transfer(a, b, x)
      PROVE  SheetInvariant' /\ Credits(ledger') = Credits(ledger)
  <2>1. ledger' = TransferAvailable(ledger, a, b, x) /\ x \in Int
    BY <1>4, ConstantsOK DEF Transfer
  <2>. QED BY <1>0, <2>1, TransferAvailableIsSound
<1>5. ASSUME NEW a \in Accounts, NEW k \in LockKeys, NEW x \in Amounts,
             LockCredits(a, k, x) \/ IncreaseLock(a, k, x)
      PROVE  SheetInvariant' /\ Credits(ledger') = Credits(ledger)
  <2>1. ledger' = Freeze(ledger, a, k, x) /\ x \in Int /\ x \in Nat
    BY <1>5, ConstantsOK DEF LockCredits, IncreaseLock
  <2>2. ledger.locks[a][k] + x \in Nat
    BY <2>1, SoundFields
  <2>. QED BY <1>0, <2>1, <2>2, FreezeIsSound
<1>6. ASSUME NEW a \in Accounts, NEW k \in LockKeys, NEW x \in Amounts,
             DecreaseOrRelease(a, k, x)
      PROVE  SheetInvariant' /\ Credits(ledger') = Credits(ledger)
  <2>1. ledger' = DecreaseLock(ledger, a, k, x) /\ x \in Int /\ x <= ledger.locks[a][k]
    BY <1>6, ConstantsOK DEF DecreaseOrRelease, CanDecrease
  <2>. QED BY <1>0, <2>1, DecreaseIsSound
<1>7. ASSUME NEW a \in Accounts, NEW b \in Accounts, NEW k \in LockKeys, NEW j \in LockKeys,
             NEW x \in Amounts, TransferLocked(a, k, b, j, x)
      PROVE  SheetInvariant' /\ Credits(ledger') = Credits(ledger)
  <2>1. ledger' = TransferFrozen(ledger, a, k, b, j, x) /\ x \in Nat /\ x <= ledger.locks[a][k]
    BY <1>7, ConstantsOK DEF TransferLocked, CanDecrease
  <2>. QED BY <1>0, <2>1, TransferFrozenIsSound
<1>. QED BY <1>1, <1>2, <1>3, <1>4, <1>5, <1>6, <1>7, StepKinds

-----------------------------------------------------------------------------
(* The transaction log: what a compaction makes is a log again.            *)

\* A non-empty finite set of integers has a largest member.
LEMMA HasMax ==
  ASSUME NEW S, IsFiniteSet(S), \A z \in S : z \in Int, S # {}
  PROVE  Max(S) \in S /\ \A y \in S : Max(S) >= y
<1>. DEFINE Above(x) == {y \in S : y > x}
            T == {Above(x) : x \in S}
<1>1. PICK t \in T : \A u \in T : u \subseteq t => u = t
  <2>1. T \in SUBSET SUBSET S /\ T # {}
    OBVIOUS
  <2>. HIDE DEF T
  <2>. QED BY ONLY <2>1, IsFiniteSet(S), MinimalSubset
<1>2. PICK x \in S : t = Above(x)
  OBVIOUS
<1>3. ASSUME NEW y \in S, y > x PROVE FALSE
  <2>1. x \in Int /\ y \in Int /\ \A z \in S : z \in Int
    OBVIOUS
  <2>2. Above(y) \subseteq Above(x) /\ y \in Above(x) /\ y \notin Above(y)
    <3>1. ASSUME NEW z \in S, z > y PROVE z > x
      <4>1. z \in Int
        BY <2>1
      <4>. QED BY ONLY <1>3, <2>1, <3>1, <4>1
    <3>2. Above(y) \subseteq Above(x)
      BY ONLY <3>1
    <3>. QED BY <1>3, <2>1, <3>2
  <2>3. Above(y) \in T
    OBVIOUS
  <2>. HIDE DEF T, Above
  <2>. QED BY <1>1, <1>2, <2>2, <2>3
<1>4. \A y \in S : x >= y
  <2>1. x \in Int /\ \A z \in S : z \in Int
    OBVIOUS
  <2>. QED BY <1>3, <2>1
<1>. QED BY <1>4 DEF Max

\* A finite set of integers has an ascending enumeration.
LEMMA HasEnumeration ==
  ASSUME NEW S, IsFiniteSet(S), \A z \in S : z \in Int
  PROVE  \E p \in [1..Cardinality(S) -> S] :
           \A i, j \in 1..Cardinality(S) : i < j => p[i] < p[j]
<1>. DEFINE Sorted(s) == \E p \in [1..Cardinality(s) -> s] :
                           \A i, j \in 1..Cardinality(s) : i < j => p[i] < p[j]
            T == {s \in SUBSET S : ~ Sorted(s)}
<1>1. SUFFICES ASSUME T # {} PROVE FALSE
  OBVIOUS
<1>2. PICK s \in T : \A u \in T : u \subseteq s => u = s
  <2>1. T \in SUBSET SUBSET S
    OBVIOUS
  <2>. HIDE DEF T
  <2>. QED BY ONLY <1>1, <2>1, IsFiniteSet(S), MinimalSubset
<1>3. IsFiniteSet(s) /\ \A z \in s : z \in Int
  <2>1. s \in SUBSET S
    OBVIOUS
  <2>2. IsFiniteSet(s)
    BY ONLY <2>1, IsFiniteSet(S), FS_Subset
  <2>. QED BY <2>1, <2>2
<1>4. CASE s = {}
  <2>1. Cardinality(s) = 0
    BY <1>4, FS_EmptySet
  <2>2. [i \in 1..0 |-> i] \in [1..0 -> s] /\ \A i \in 1..0 : FALSE
    OBVIOUS
  <2>3. Sorted(s)
    BY ONLY <2>1, <2>2
  <2>. QED BY <1>2, <2>3
<1>5. CASE s # {}
  <2>. DEFINE m == Max(s)
              r == s \ {m}
              n == Cardinality(r)
  <2>1. m \in s /\ \A y \in s : m >= y
    BY <1>3, <1>5, HasMax
  <2>2. Sorted(r)
    <3>1. r \in SUBSET S /\ r \subseteq s /\ r # s
      BY <2>1
    <3>. HIDE DEF Sorted, r
    <3>. QED BY <1>2, <3>1
  <2>3. n \in Nat /\ Cardinality(s) = n + 1
    <3>1. IsFiniteSet(r) /\ Cardinality(r) = Cardinality(s) - 1
      BY <1>3, <2>1, FS_RemoveElement
    <3>2. Cardinality(s) \in Nat /\ Cardinality(r) \in Nat
      BY <1>3, <3>1, FS_CardinalityType
    <3>. QED BY <3>1, <3>2
  <2>4. PICK p \in [1..n -> r] : \A i, j \in 1..n : i < j => p[i] < p[j]
    BY <2>2
  <2>. HIDE DEF m, n
  <2>. DEFINE q == [i \in 1..(n + 1) |-> IF i = n + 1 THEN m ELSE p[i]]
  <2>5. q \in [1..(n + 1) -> s]
    BY <2>1, <2>3, <2>4
  <2>6. ASSUME NEW i \in 1..(n + 1), NEW j \in 1..(n + 1), i < j
        PROVE  q[i] < q[j]
    <3>1. i \in 1..n /\ q[i] = p[i] /\ p[i] \in s /\ p[i] # m
      BY <2>3, <2>4, <2>6
    <3>2. CASE j = n + 1
      <4>1. q[j] = m /\ m >= p[i] /\ m \in Int /\ p[i] \in Int
        BY <1>3, <2>1, <3>1, <3>2
      <4>. QED BY <3>1, <4>1
    <3>3. CASE j # n + 1
      BY <2>3, <2>4, <2>6, <3>1, <3>3
    <3>. QED BY <3>2, <3>3
  <2>7. Sorted(s)
    <3>. HIDE DEF q
    <3>. QED BY <2>3, <2>5, <2>6
  <2>. HIDE DEF Sorted
  <2>. QED BY <1>2, <2>7
<1>. QED BY <1>4, <1>5

\* So Ascending, which chooses one, returns one.
LEMMA AscendingIsSorted ==
  ASSUME NEW S, IsFiniteSet(S), \A z \in S : z \in Int
  PROVE  /\ Ascending(S) \in [1..Cardinality(S) -> S]
         /\ \A i, j \in 1..Cardinality(S) : i < j => Ascending(S)[i] < Ascending(S)[j]
<1>. DEFINE n == Cardinality(S)
            Good(p) == \A i, j \in DOMAIN p : i < j => p[i] < p[j]
<1>1. n \in Nat
  BY FS_CardinalityType
<1>2. PICK p \in [1..n -> S] : \A i, j \in 1..n : i < j => p[i] < p[j]
  BY HasEnumeration
<1>. HIDE DEF n
<1>3. p \in SetToSeqs(S) /\ Good(p)
  <2>1. \A i, j \in 1..n : i # j => p[i] # p[j]
    <3>1. \A i, j \in 1..n : i # j => i < j \/ j < i
      BY <1>1
    <3>2. \A i \in 1..n : p[i] \in Int
      OBVIOUS
    <3>. QED BY <1>2, <3>1, <3>2
  <2>. QED BY <1>2, <2>1 DEF SetToSeqs, n
<1>4. Ascending(S) \in SetToSeqs(S) /\ Good(Ascending(S))
  <2>. HIDE DEF Good
  <2>1. Ascending(S) = CHOOSE q \in SetToSeqs(S) : Good(q)
    BY DEF Ascending, Good
  <2>. QED BY <1>3, <2>1
<1>5. Ascending(S) \in [1..n -> S]
  BY <1>4 DEF SetToSeqs, n
<1>. QED BY <1>4, <1>5 DEF n

\* A finite sum of integers is an integer.
LEMMA SumInt ==
  ASSUME NEW S, IsFiniteSet(S), NEW f \in [S -> Int]
  PROVE  SumFunction(f) \in Int
<1>1. SumFunctionOnSet(f, S) \in Int
  BY SumRemove
<1>. QED BY <1>1 DEF SumFunction

\* The fields of an entry.
LEMMA EntryTyped ==
  ASSUME NEW entries \in Seq(Transaction), NEW i \in DOMAIN entries
  PROVE  /\ entries[i] \in Transaction
         /\ entries[i].id \in Nat /\ entries[i].account \in Accounts
         /\ entries[i].available \in Int /\ entries[i].frozen \in Int
<1>. DEFINE e == entries[i]
<1>1. e \in Transaction
  <2>. DEFINE T == Transaction
  <2>1. entries \in Seq(T)
    OBVIOUS
  <2>. HIDE DEF T
  <2>2. entries[i] \in T
    BY <2>1
  <2>. QED BY <2>2 DEF T
<1>. HIDE DEF e
<1>2. /\ e.id \in Nat /\ e.account \in Accounts
      /\ e.available \in Int /\ e.frozen \in Int
  BY ONLY <1>1 DEF Transaction
<1>. QED BY <1>1, <1>2 DEF e

\* Both delta sums of a log, and the mints in it, are integers.
LEMMA LogSums ==
  ASSUME NEW entries \in Seq(Transaction), NEW a
  PROVE  /\ Deltas(entries, a, AvailableDelta) \in Int
         /\ Deltas(entries, a, FrozenDelta) \in Int
         /\ MintedIn(entries) \in Int
<1>. DEFINE D == DOMAIN entries
            av == [i \in D |-> IF entries[i].account = a THEN AvailableDelta(entries[i]) ELSE 0]
            fr == [i \in D |-> IF entries[i].account = a THEN FrozenDelta(entries[i]) ELSE 0]
            mi == [i \in D |-> IF entries[i].reason = "mint" THEN entries[i].available ELSE 0]
<1>1. IsFiniteSet(D)
  <2>1. D = 1..Len(entries) /\ Len(entries) \in Int /\ 1 \in Int
    OBVIOUS
  <2>. HIDE DEF D
  <2>. QED BY ONLY <2>1, FS_Interval
<1>2. \A i \in D : entries[i].available \in Int /\ entries[i].frozen \in Int
  BY EntryTyped
<1>3. av \in [D -> Int] /\ fr \in [D -> Int] /\ mi \in [D -> Int]
  <2>. HIDE DEF D
  <2>. QED BY <1>2 DEF AvailableDelta, FrozenDelta
<1>4. SumFunction(av) \in Int /\ SumFunction(fr) \in Int /\ SumFunction(mi) \in Int
  <2>. HIDE DEF D, av, fr, mi
  <2>. QED BY ONLY <1>1, <1>3, SumInt
<1>. QED BY <1>4 DEF Deltas, MintedIn

\* The checkpoint of an account that occurs in the log is a transaction.
LEMMA CheckpointTyped ==
  ASSUME NEW dropped \in Seq(Transaction), NEW a \in Accounts,
         \E i \in DOMAIN dropped : dropped[i].account = a
  PROVE  Checkpoint(dropped, a) \in Transaction
<1>. DEFINE E == EntriesOf(dropped, a)
<1>1. E # {} /\ \A z \in E : z \in Int /\ z \in DOMAIN dropped
  BY DEF EntriesOf
<1>2. IsFiniteSet(E)
  <2>1. DOMAIN dropped = 1..Len(dropped) /\ Len(dropped) \in Int /\ 1 \in Int
    OBVIOUS
  <2>2. IsFiniteSet(1..Len(dropped))
    BY ONLY <2>1, FS_Interval
  <2>3. E \in SUBSET (1..Len(dropped))
    BY <2>1 DEF EntriesOf
  <2>. QED BY ONLY <2>2, <2>3, FS_Subset
<1>3. Max(E) \in DOMAIN dropped
  <2>. HIDE DEF E
  <2>1. Max(E) \in E
    BY ONLY <1>1, <1>2, HasMax
  <2>. QED BY <1>1, <2>1
<1>4. dropped[Max(E)].id \in Nat
  <2>. DEFINE m == Max(E)
  <2>1. m \in DOMAIN dropped
    BY <1>3
  <2>. HIDE DEF m
  <2>2. dropped[m].id \in Nat
    BY <2>1, EntryTyped
  <2>. QED BY <2>2 DEF m
<1>. QED BY <1>4, LogSums DEF Checkpoint, Transaction, Reasons

\* A compaction of a log is a log.
LEMMA CompactedLogTyped ==
  ASSUME NEW entries \in Seq(Transaction), NEW keep \in Nat, keep < Len(entries)
  PROVE  CompactedLog(entries, keep) \in Seq(Transaction)
<1>. DEFINE cutoff == Len(entries) - keep
            dropped == SubSeq(entries, 1, cutoff)
            F == FirstEntries(dropped)
            order == Ascending(F)
            n == Cardinality(F)
<1>1. cutoff \in 1..Len(entries)
  OBVIOUS
<1>2. dropped \in Seq(Transaction)
  BY <1>1
<1>3. SubSeq(entries, cutoff + 1, Len(entries)) \in Seq(Transaction)
  BY <1>1
<1>. HIDE DEF cutoff, dropped
<1>4. F \subseteq DOMAIN dropped /\ \A z \in F : z \in Int
  BY <1>2 DEF FirstEntries
<1>5. IsFiniteSet(F) /\ n \in Nat
  <2>1. DOMAIN dropped = 1..Len(dropped) /\ Len(dropped) \in Int /\ 1 \in Int
    BY <1>2
  <2>2. IsFiniteSet(1..Len(dropped))
    BY ONLY <2>1, FS_Interval
  <2>3. F \in SUBSET (1..Len(dropped))
    BY <1>4, <2>1
  <2>. HIDE DEF F
  <2>4. IsFiniteSet(F)
    BY ONLY <2>2, <2>3, FS_Subset
  <2>. QED BY ONLY <2>4, FS_CardinalityType
<1>6. order \in [1..n -> F]
  <2>. HIDE DEF F
  <2>. QED BY ONLY <1>4, <1>5, AscendingIsSorted
<1>7. Checkpoints(dropped) \in Seq(Transaction)
  <2>1. \A i \in 1..n : order[i] \in DOMAIN dropped
    BY <1>4, <1>6
  <2>2. ASSUME NEW i \in 1..n
        PROVE  Checkpoint(dropped, dropped[order[i]].account) \in Transaction
    <3>. DEFINE d == order[i]
    <3>1. d \in DOMAIN dropped
      BY <2>1
    <3>. HIDE DEF d
    <3>2. dropped[d].account \in Accounts
      BY <1>2, <3>1, EntryTyped
    <3>3. Checkpoint(dropped, dropped[d].account) \in Transaction
      BY <1>2, <3>1, <3>2, CheckpointTyped
    <3>. QED BY <3>3 DEF d
  <2>3. DOMAIN order = 1..n
    BY <1>6
  <2>4. Checkpoints(dropped) = [i \in 1..n |-> Checkpoint(dropped, dropped[order[i]].account)]
    BY <2>3 DEF Checkpoints
  <2>. HIDE DEF order, F, n
  <2>. QED BY <1>5, <2>2, <2>4
<1>. QED BY <1>3, <1>7 DEF CompactedLog, cutoff, dropped

\* Appending what a method posts leaves a log.
LEMMA PostTyped ==
  ASSUME log \in Seq(Transaction), txSeq \in Nat, NEW entries \in Seq(Transaction),
         Post(entries)
  PROVE  log' \in Seq(Transaction) /\ txSeq' \in Nat
<1>1. Len(entries) \in Nat
  OBVIOUS
<1>. QED BY <1>1 DEF Post

LEMMA TxTyped ==
  ASSUME txSeq \in Nat, NEW n \in Nat, NEW a \in Accounts, NEW da \in Int, NEW df \in Int,
         NEW reason \in {"mint", "move", "settlement"}
  PROVE  Tx(n, a, da, df, reason) \in Transaction
BY DEF Tx, Transaction, Reasons
-----------------------------------------------------------------------------
(* The theorems of the types and the locks.                                *)

\* TypeOK and the frozen balances together are inductive.
IInv == TypeOK /\ FrozenIsSumOfLocks

LEMMA IInvSheet == IInv => SheetInvariant
BY DEF IInv, TypeOK, FrozenIsSumOfLocks, SheetInvariant, SoundLedger

LEMMA SheetTyped == SheetInvariant => ledger \in Ledgers(Accounts, LockKeys) /\ FrozenIsSumOfLocks
BY DEF FrozenIsSumOfLocks, SheetInvariant, SoundLedger

\* The parts of TypeOK besides the ledger.
LogTyped ==
  /\ accounts \subseteq Accounts
  /\ log \in Seq(Transaction)
  /\ txSeq \in Nat
  /\ mintedBase \in Int
  /\ everMinted \in Nat

LEMMA StepLog ==
  ASSUME LogTyped, SheetInvariant, [Next]_vars
  PROVE  LogTyped'
<1>1. /\ \A a \in Accounts, k \in LockKeys : ledger.locks[a][k] \in Int
      /\ 1 \in Nat /\ 2 \in Nat /\ 0 \in Int
  BY SoundFields DEF SheetInvariant
<1>2. CASE UNCHANGED vars
  BY <1>2 DEF LogTyped, vars
<1>3. CASE Compact
  <2>1. CompactedLog(log, LogKeep) \in Seq(Transaction)
    <3>1. LogKeep \in Nat /\ LogKeep < Len(log) /\ log \in Seq(Transaction)
      BY <1>3, RiskEngineAssumption DEF Compact, LogTyped
    <3>. QED BY <3>1, CompactedLogTyped
  <2>2. MintedIn(SubSeq(log, 1, Len(log) - LogKeep)) \in Int
    <3>1. SubSeq(log, 1, Len(log) - LogKeep) \in Seq(Transaction)
      BY <1>3, RiskEngineAssumption DEF Compact, LogTyped
    <3>. QED BY <3>1, LogSums
  <2>. QED BY <1>3, <2>1, <2>2 DEF Compact, LogTyped
<1>4. ASSUME NEW a \in Accounts, CreateAccount(a) PROVE LogTyped'
  BY <1>4 DEF CreateAccount, LogTyped
<1>5. ASSUME NEW a \in Accounts, NEW x \in Amounts, MintCredits(a, x) PROVE LogTyped'
  <2>1. x \in Nat /\ x \in Int
    BY ConstantsOK
  <2>2. <<Tx(1, a, x, 0, "mint")>> \in Seq(Transaction)
    BY <1>1, <2>1, TxTyped DEF LogTyped
  <2>3. log' \in Seq(Transaction) /\ txSeq' \in Nat
    BY <1>5, <2>2, PostTyped DEF MintCredits, LogTyped
  <2>. QED BY <1>5, <2>1, <2>3 DEF MintCredits, LogTyped
<1>6. ASSUME NEW a \in Accounts, NEW k \in LockKeys, NEW p \in Payouts, Settle(a, k, p)
      PROVE  LogTyped'
  <2>1. p \in Int /\ -ledger.locks[a][k] \in Int
    BY <1>1, ConstantsOK
  <2>2. <<Tx(1, a, p, -ledger.locks[a][k], "settlement")>> \in Seq(Transaction)
    BY <1>1, <2>1, TxTyped DEF LogTyped
  <2>3. log' \in Seq(Transaction) /\ txSeq' \in Nat
    BY <1>6, <2>2, PostTyped DEF Settle, LogTyped
  <2>. QED BY <1>6, <2>3 DEF Settle, LogTyped
<1>7. ASSUME NEW a \in Accounts, NEW da \in Int, NEW df \in Int,
             Post(<<Tx(1, a, da, df, "move")>>), UNCHANGED <<accounts, mintedBase, everMinted>>
      PROVE  LogTyped'
  <2>1. <<Tx(1, a, da, df, "move")>> \in Seq(Transaction)
    BY <1>1, TxTyped DEF LogTyped
  <2>2. log' \in Seq(Transaction) /\ txSeq' \in Nat
    BY <1>7, <2>1, PostTyped DEF LogTyped
  <2>. QED BY <1>7, <2>2 DEF LogTyped
<1>8. ASSUME NEW a \in Accounts, NEW b \in Accounts,
             NEW d1 \in Int, NEW d2 \in Int, NEW d3 \in Int, NEW d4 \in Int,
             Post(<<Tx(1, a, d1, d2, "move"), Tx(2, b, d3, d4, "move")>>),
             UNCHANGED <<accounts, mintedBase, everMinted>>
      PROVE  LogTyped'
  <2>1. <<Tx(1, a, d1, d2, "move"), Tx(2, b, d3, d4, "move")>> \in Seq(Transaction)
    <3>1. Tx(1, a, d1, d2, "move") \in Transaction /\ Tx(2, b, d3, d4, "move") \in Transaction
      BY <1>1, TxTyped DEF LogTyped
    <3>. QED BY ONLY <3>1
  <2>2. log' \in Seq(Transaction) /\ txSeq' \in Nat
    BY <1>8, <2>1, PostTyped DEF LogTyped
  <2>. QED BY <1>8, <2>2 DEF LogTyped
<1>9. ASSUME NEW a \in Accounts, NEW k \in LockKeys, NEW x \in Amounts,
             \/ LockCredits(a, k, x) \/ IncreaseLock(a, k, x) \/ DecreaseOrRelease(a, k, x)
      PROVE  LogTyped'
  <2>1. x \in Int /\ -x \in Int
    BY ConstantsOK
  <2>2. \/ Post(<<Tx(1, a, -x, x, "move")>>)
        \/ Post(<<Tx(1, a, x, -x, "move")>>)
    BY <1>9 DEF LockCredits, IncreaseLock, DecreaseOrRelease
  <2>3. UNCHANGED <<accounts, mintedBase, everMinted>>
    BY <1>9 DEF LockCredits, IncreaseLock, DecreaseOrRelease
  <2>. QED BY <1>7, <2>1, <2>2, <2>3
<1>10. ASSUME NEW a \in Accounts, NEW b \in Accounts, NEW x \in Amounts,
              \/ Transfer(a, b, x)
              \/ \E k, j \in LockKeys : TransferLocked(a, k, b, j, x)
       PROVE  LogTyped'
  <2>1. x \in Int /\ -x \in Int
    BY ConstantsOK
  <2>2. \/ Post(<<Tx(1, a, -x, 0, "move"), Tx(2, b, x, 0, "move")>>)
        \/ Post(<<Tx(1, a, 0, -x, "move"), Tx(2, b, 0, x, "move")>>)
    BY <1>10 DEF Transfer, TransferLocked
  <2>3. UNCHANGED <<accounts, mintedBase, everMinted>>
    BY <1>10 DEF Transfer, TransferLocked
  <2>. QED BY <1>1, <1>8, <2>1, <2>2, <2>3
<1>. QED BY <1>2, <1>3, <1>4, <1>5, <1>6, <1>9, <1>10 DEF Next

LEMMA InitLog == Init => LogTyped
BY DEF Init, LogTyped

LEMMA IInvParts == IInv <=> LogTyped /\ SheetInvariant
BY DEF IInv, TypeOK, LogTyped, FrozenIsSumOfLocks, SheetInvariant, SoundLedger

\* Every reachable state has well-typed variables (compaction included: what it
\* writes is a log) and frozen balances that are the sums of the locks.
THEOREM InvariantHolds == Spec => []IInv
<1>1. Init => IInv
  BY InitLog, InitSheet, IInvParts
<1>2. IInv /\ [Next]_vars => IInv'
  <2>1. SUFFICES ASSUME IInv, [Next]_vars PROVE IInv'
    OBVIOUS
  <2>2. LogTyped /\ SheetInvariant /\ everMinted \in Nat
    BY <2>1, IInvParts DEF LogTyped
  <2>3. LogTyped' /\ SheetInvariant'
    BY <2>1, <2>2, StepLog, StepSheet
  <2>4. IInv' <=> LogTyped' /\ SheetInvariant'
    BY DEF IInv, TypeOK, LogTyped, FrozenIsSumOfLocks, SheetInvariant, SoundLedger
  <2>. QED BY <2>3, <2>4
<1>. QED BY <1>1, <1>2, PTL DEF Spec

\* The type invariant of the engine's state, transaction log included.
THEOREM TypeCorrect == Spec => []TypeOK
<1>1. IInv => TypeOK
  BY DEF IInv
<1>. QED BY <1>1, InvariantHolds, PTL

\* The docstring's invariant (risk_engine.py:11): after any sequence of
\* mutations every frozen balance is the sum of the account's locks.
THEOREM FrozenIsSum == Spec => []FrozenIsSumOfLocks
<1>1. IInv => FrozenIsSumOfLocks
  BY DEF IInv
<1>. QED BY <1>1, InvariantHolds, PTL

\* Credits enter by mint and enter or leave by settlement, and by nothing else:
\* every other method of the engine only moves them (risk_engine.py).
THEOREM CreditsMoveOnlySo == Spec => OnlyMintsAndSettlementsMoveTheTotal
<1>1. IInv /\ [Next]_vars
        => [Credits(ledger') # Credits(ledger) =>
             \/ Credits(ledger') - Credits(ledger) = everMinted' - everMinted
             \/ \E a \in Accounts, k \in LockKeys, p \in Payouts : Settle(a, k, p)]_vars
  <2>1. SUFFICES ASSUME IInv, [Next]_vars
                 PROVE  Credits(ledger') # Credits(ledger) =>
                          \/ Credits(ledger') - Credits(ledger) = everMinted' - everMinted
                          \/ \E a \in Accounts, k \in LockKeys, p \in Payouts : Settle(a, k, p)
    OBVIOUS
  <2>2. SheetInvariant /\ everMinted \in Nat
    BY <2>1, IInvParts DEF LogTyped
  <2>. QED BY <2>1, <2>2, StepSheet
<1>. QED BY <1>1, InvariantHolds, PTL DEF Spec, OnlyMintsAndSettlementsMoveTheTotal
-----------------------------------------------------------------------------
(* What an account's entries add up to, part by part.                      *)

\* The deltas of an account, entry by entry, available and frozen, and the mints.
Moves(entries, a) ==
  [i \in DOMAIN entries |-> IF entries[i].account = a THEN entries[i].available ELSE 0]
Holds(entries, a) ==
  [i \in DOMAIN entries |-> IF entries[i].account = a THEN entries[i].frozen ELSE 0]
Mints(entries) ==
  [i \in DOMAIN entries |-> IF entries[i].reason = "mint" THEN entries[i].available ELSE 0]

LEMMA LogIs ==
  ASSUME NEW entries \in Seq(Transaction)
  PROVE  /\ Len(entries) \in Nat /\ DOMAIN entries = 1..Len(entries)
         /\ \A a : /\ Moves(entries, a) \in [1..Len(entries) -> Int]
                   /\ Holds(entries, a) \in [1..Len(entries) -> Int]
                   /\ Deltas(entries, a, AvailableDelta) = SumFunction(Moves(entries, a))
                   /\ Deltas(entries, a, FrozenDelta) = SumFunction(Holds(entries, a))
         /\ Mints(entries) \in [1..Len(entries) -> Int]
         /\ MintedIn(entries) = SumFunction(Mints(entries))
<1>1. Len(entries) \in Nat /\ DOMAIN entries = 1..Len(entries)
  OBVIOUS
<1>2. \A i \in DOMAIN entries : entries[i].available \in Int /\ entries[i].frozen \in Int
  BY EntryTyped
<1>3. Mints(entries) \in [1..Len(entries) -> Int]
  BY <1>1, <1>2 DEF Mints
<1>4. MintedIn(entries) = SumFunction(Mints(entries))
  BY DEF Mints, MintedIn
<1>5. ASSUME NEW a
      PROVE  /\ Moves(entries, a) \in [1..Len(entries) -> Int]
             /\ Holds(entries, a) \in [1..Len(entries) -> Int]
             /\ Deltas(entries, a, AvailableDelta) = SumFunction(Moves(entries, a))
             /\ Deltas(entries, a, FrozenDelta) = SumFunction(Holds(entries, a))
  <2>1. Moves(entries, a) \in [1..Len(entries) -> Int]
    BY <1>1, <1>2 DEF Moves
  <2>2. Holds(entries, a) \in [1..Len(entries) -> Int]
    BY <1>1, <1>2 DEF Holds
  <2>3. Deltas(entries, a, AvailableDelta) = SumFunction(Moves(entries, a))
    BY DEF Deltas, AvailableDelta, Moves
  <2>4. Deltas(entries, a, FrozenDelta) = SumFunction(Holds(entries, a))
    BY DEF Deltas, FrozenDelta, Holds
  <2>. QED BY <2>1, <2>2, <2>3, <2>4
<1>. QED BY <1>1, <1>3, <1>4, <1>5

\* The sum of the first k of a list of numbers.
SumTo(f, k) == SumFunction(Part(f, k))

\* The part of a sum that lies behind the first m terms.
LEMMA SumSplits ==
  ASSUME NEW m \in Nat, NEW n \in Nat, NEW f \in [1..(m + n) -> Int], NEW g \in [1..n -> Int],
         \A i \in 1..n : f[m + i] = g[i]
  PROVE  \A k \in 0..n : /\ SumTo(f, m) \in Int /\ SumTo(g, k) \in Int
                         /\ SumTo(f, m + k) = SumTo(f, m) + SumTo(g, k)
<1>. DEFINE S == {k \in 0..n : /\ SumTo(f, m) \in Int /\ SumTo(g, k) \in Int
                               /\ SumTo(f, m + k) = SumTo(f, m) + SumTo(g, k)}
<1>1. 0 \in S
  <2>1. SumTo(g, 0) = 0
    BY PartSums DEF SumTo
  <2>2. SumTo(f, m) \in Int
    <3>1. Part(f, m) \in [1..m -> Int] /\ IsFiniteSet(1..m)
      BY FS_Interval DEF Part
    <3>. QED BY ONLY <3>1, SumInt DEF SumTo
  <2>. QED BY <2>1, <2>2
<1>2. ASSUME NEW k \in 0..(n - 1), k \in S PROVE k + 1 \in S
  <2>1. SumTo(g, k + 1) = SumTo(g, k) + g[k + 1] /\ SumTo(g, k) \in Int
    BY PartSums DEF SumTo
  <2>2. SumTo(f, (m + k) + 1) = SumTo(f, m + k) + f[(m + k) + 1] /\ SumTo(f, m + k) \in Int
    <3>1. m + k \in 0..((m + n) - 1) /\ m + n \in Nat
      OBVIOUS
    <3>2. \A j \in 0..((m + n) - 1) : /\ SumTo(f, j) \in Int
                                      /\ SumTo(f, j + 1) = SumTo(f, j) + f[j + 1]
      <4>. DEFINE t == m + n
      <4>1. f \in [1..t -> Int] /\ t \in Nat
        OBVIOUS
      <4>. HIDE DEF t
      <4>. QED BY ONLY <4>1, PartSums DEF SumTo, t
    <3>. QED BY ONLY <3>1, <3>2
  <2>3. f[(m + k) + 1] = g[k + 1] /\ g[k + 1] \in Int
    <3>1. k + 1 \in 1..n /\ m + (k + 1) = (m + k) + 1
      OBVIOUS
    <3>. QED BY <3>1
  <2>4. m + (k + 1) = (m + k) + 1 /\ k + 1 \in 0..n
    OBVIOUS
  <2>5. SumTo(f, m) \in Int /\ SumTo(f, m + k) = SumTo(f, m) + SumTo(g, k)
    BY <1>2
  <2>. QED BY <2>1, <2>2, <2>3, <2>4, <2>5
<1>3. \A k \in 0..n : k \in S
  <2>. HIDE DEF S
  <2>. QED BY <1>1, <1>2, UpTo
<1>. QED BY <1>3

\* Terms that are zero add nothing.
LEMMA SumWhereNotZero ==
  ASSUME NEW S, IsFiniteSet(S), NEW T \in SUBSET S, NEW f \in [S -> Int],
         \A x \in S \ T : f[x] = 0
  PROVE  SumFunction([x \in T |-> f[x]]) = SumFunction(f)
<1>. DEFINE g == [x \in T |-> f[x]]
<1>1. g \in [T -> Int] /\ \A x \in T : g[x] = f[x]
  OBVIOUS
<1>. HIDE DEF g
<1>2. SumFunction(f) = SumFunction(g)
  BY <1>1, SumSupport
<1>. QED BY <1>2 DEF g

LEMMA SumRests ==
  ASSUME NEW n \in Nat, NEW m \in 0..n, NEW f, f \in [1..n -> Int],
         \A i \in (m + 1)..n : f[i] = 0
  PROVE  SumTo(f, m) = SumFunction(f) /\ SumFunction(f) \in Int
<1>. DEFINE S == 1..n
            T == 1..m
<1>1. T \in SUBSET S /\ f \in [S -> Int] /\ \A i \in S \ T : f[i] = 0
  OBVIOUS
<1>2. IsFiniteSet(S)
  BY FS_Interval
<1>3. SumFunction([i \in T |-> f[i]]) = SumFunction(f)
  <2>. HIDE DEF S, T
  <2>. QED BY ONLY <1>1, <1>2, SumWhereNotZero
<1>4. SumFunction(f) \in Int
  <2>. HIDE DEF S
  <2>. QED BY <1>1, <1>2, SumInt
<1>. QED BY <1>3, <1>4 DEF SumTo, Part

\* Two lists of numbers, one behind the other.
Joined(f, m, g, n, h, l) ==
  /\ m \in Nat /\ n \in Nat /\ l = m + n
  /\ f \in [1..m -> Int] /\ g \in [1..n -> Int] /\ h \in [1..l -> Int]
  /\ \A i \in 1..m : h[i] = f[i]
  /\ \A i \in 1..n : h[m + i] = g[i]

LEMMA SumJoined ==
  ASSUME NEW m, NEW n, NEW f, NEW g, NEW l, NEW h, Joined(f, m, g, n, h, l)
  PROVE  /\ \A k \in 0..m : SumTo(h, k) = SumTo(f, k)
         /\ \A k \in 0..n : SumTo(h, m + k) = SumFunction(f) + SumTo(g, k)
         /\ SumFunction(h) = SumFunction(f) + SumFunction(g)
         /\ SumFunction(f) \in Int /\ SumFunction(g) \in Int
<1>. USE DEF Joined
<1>1. ASSUME NEW k \in 0..m PROVE SumTo(h, k) = SumTo(f, k)
  <2>1. Part(h, k) = Part(f, k)
    BY DEF Part
  <2>. QED BY <2>1 DEF SumTo
<1>2. SumTo(f, m) = SumFunction(f) /\ SumTo(g, n) = SumFunction(g) /\ SumTo(h, l) = SumFunction(h)
  <2>1. Part(f, m) = f /\ Part(g, n) = g /\ Part(h, l) = h
    BY DEF Part
  <2>. QED BY <2>1 DEF SumTo
<1>3. \A k \in 0..n : /\ SumTo(h, m) \in Int /\ SumTo(g, k) \in Int
                      /\ SumTo(h, m + k) = SumTo(h, m) + SumTo(g, k)
  <2>1. h \in [1..(m + n) -> Int]
    OBVIOUS
  <2>. QED BY <2>1, SumSplits
<1>4. SumTo(h, m) = SumFunction(f)
  BY <1>1, <1>2
<1>5. n \in 0..n
  OBVIOUS
<1>. QED BY <1>1, <1>2, <1>3, <1>4, <1>5

\* Two logs, one behind the other.
Behind(s, t, r) ==
  /\ r \in Seq(Transaction) /\ Len(r) = Len(s) + Len(t)
  /\ \A i \in 1..Len(s) : r[i] = s[i]
  /\ \A i \in 1..Len(t) : r[Len(s) + i] = t[i]
  /\ SumFunction(Mints(r)) = SumFunction(Mints(s)) + SumFunction(Mints(t))
  /\ \A a :
       /\ \A k \in 0..Len(s) : /\ SumTo(Moves(r, a), k) = SumTo(Moves(s, a), k)
                               /\ SumTo(Holds(r, a), k) = SumTo(Holds(s, a), k)
       /\ \A k \in 0..Len(t) :
            /\ SumTo(Moves(r, a), Len(s) + k) = SumFunction(Moves(s, a)) + SumTo(Moves(t, a), k)
            /\ SumTo(Holds(r, a), Len(s) + k) = SumFunction(Holds(s, a)) + SumTo(Holds(t, a), k)
       /\ SumFunction(Moves(r, a)) = SumFunction(Moves(s, a)) + SumFunction(Moves(t, a))
       /\ SumFunction(Holds(r, a)) = SumFunction(Holds(s, a)) + SumFunction(Holds(t, a))

LEMMA LogJoined ==
  ASSUME NEW s, s \in Seq(Transaction), NEW t, t \in Seq(Transaction), NEW r, r = s \o t
  PROVE  Behind(s, t, r)
<1>. DEFINE m == Len(s)
            n == Len(t)
            l == Len(r)
<1>1. /\ r \in Seq(Transaction) /\ l = m + n /\ m \in Nat /\ n \in Nat
      /\ \A i \in 1..m : r[i] = s[i]
      /\ \A i \in 1..n : r[m + i] = t[i]
  OBVIOUS
<1>2. DOMAIN r = 1..l /\ DOMAIN s = 1..m /\ DOMAIN t = 1..n
  BY <1>1
<1>0. m \in Nat /\ n \in Nat /\ l \in Nat /\ l = m + n
  BY <1>1
<1>3. SumFunction(Mints(r)) = SumFunction(Mints(s)) + SumFunction(Mints(t))
  <2>1. /\ Mints(r) \in [1..l -> Int] /\ Mints(s) \in [1..m -> Int] /\ Mints(t) \in [1..n -> Int]
    BY <1>1, LogIs
  <2>2. /\ \A i \in 1..m : Mints(r)[i] = Mints(s)[i]
        /\ \A i \in 1..n : Mints(r)[m + i] = Mints(t)[i]
    BY <1>1, <1>2 DEF Mints
  <2>. DEFINE f == Mints(s)
              g == Mints(t)
              h == Mints(r)
  <2>3. f \in [1..m -> Int] /\ g \in [1..n -> Int] /\ h \in [1..l -> Int]
    BY <2>1
  <2>4. (\A i \in 1..m : h[i] = f[i]) /\ \A i \in 1..n : h[m + i] = g[i]
    BY <2>2
  <2>. HIDE DEF m, n, l, f, g, h
  <2>5. /\ \A k \in 0..m : SumTo(h, k) = SumTo(f, k)
        /\ \A k \in 0..n : SumTo(h, m + k) = SumFunction(f) + SumTo(g, k)
        /\ SumFunction(h) = SumFunction(f) + SumFunction(g)
    <3>1. Joined(f, m, g, n, h, l)
      BY ONLY <1>0, <2>3, <2>4 DEF Joined
    <3>. QED BY ONLY <3>1, SumJoined
  <2>. QED BY <2>5 DEF f, g, h
<1>4. ASSUME NEW a
      PROVE  /\ \A k \in 0..m : SumTo(Moves(r, a), k) = SumTo(Moves(s, a), k)
             /\ \A k \in 0..n : SumTo(Moves(r, a), m + k) = SumFunction(Moves(s, a)) + SumTo(Moves(t, a), k)
             /\ SumFunction(Moves(r, a)) = SumFunction(Moves(s, a)) + SumFunction(Moves(t, a))
  <2>1. /\ Moves(r, a) \in [1..l -> Int] /\ Moves(s, a) \in [1..m -> Int]
        /\ Moves(t, a) \in [1..n -> Int]
    BY <1>1, LogIs
  <2>2. /\ \A i \in 1..m : Moves(r, a)[i] = Moves(s, a)[i]
        /\ \A i \in 1..n : Moves(r, a)[m + i] = Moves(t, a)[i]
    BY <1>1, <1>2 DEF Moves
  <2>. DEFINE f == Moves(s, a)
              g == Moves(t, a)
              h == Moves(r, a)
  <2>3. f \in [1..m -> Int] /\ g \in [1..n -> Int] /\ h \in [1..l -> Int]
    BY <2>1
  <2>4. (\A i \in 1..m : h[i] = f[i]) /\ \A i \in 1..n : h[m + i] = g[i]
    BY <2>2
  <2>. HIDE DEF m, n, l, f, g, h
  <2>5. /\ \A k \in 0..m : SumTo(h, k) = SumTo(f, k)
        /\ \A k \in 0..n : SumTo(h, m + k) = SumFunction(f) + SumTo(g, k)
        /\ SumFunction(h) = SumFunction(f) + SumFunction(g)
    <3>1. Joined(f, m, g, n, h, l)
      BY ONLY <1>0, <2>3, <2>4 DEF Joined
    <3>. QED BY ONLY <3>1, SumJoined
  <2>. QED BY <2>5 DEF f, g, h
<1>5. ASSUME NEW a
      PROVE  /\ \A k \in 0..m : SumTo(Holds(r, a), k) = SumTo(Holds(s, a), k)
             /\ \A k \in 0..n : SumTo(Holds(r, a), m + k) = SumFunction(Holds(s, a)) + SumTo(Holds(t, a), k)
             /\ SumFunction(Holds(r, a)) = SumFunction(Holds(s, a)) + SumFunction(Holds(t, a))
  <2>1. /\ Holds(r, a) \in [1..l -> Int] /\ Holds(s, a) \in [1..m -> Int]
        /\ Holds(t, a) \in [1..n -> Int]
    BY <1>1, LogIs
  <2>2. /\ \A i \in 1..m : Holds(r, a)[i] = Holds(s, a)[i]
        /\ \A i \in 1..n : Holds(r, a)[m + i] = Holds(t, a)[i]
    BY <1>1, <1>2 DEF Holds
  <2>. DEFINE f == Holds(s, a)
              g == Holds(t, a)
              h == Holds(r, a)
  <2>3. f \in [1..m -> Int] /\ g \in [1..n -> Int] /\ h \in [1..l -> Int]
    BY <2>1
  <2>4. (\A i \in 1..m : h[i] = f[i]) /\ \A i \in 1..n : h[m + i] = g[i]
    BY <2>2
  <2>. HIDE DEF m, n, l, f, g, h
  <2>5. /\ \A k \in 0..m : SumTo(h, k) = SumTo(f, k)
        /\ \A k \in 0..n : SumTo(h, m + k) = SumFunction(f) + SumTo(g, k)
        /\ SumFunction(h) = SumFunction(f) + SumFunction(g)
    <3>1. Joined(f, m, g, n, h, l)
      BY ONLY <1>0, <2>3, <2>4 DEF Joined
    <3>. QED BY ONLY <3>1, SumJoined
  <2>. QED BY <2>5 DEF f, g, h
<1>. QED BY <1>1, <1>3, <1>4, <1>5 DEF Behind

\* What the page shows next to an entry.
LEMMA RowIs ==
  ASSUME NEW entries \in Seq(Transaction), NEW i \in DOMAIN entries
  PROVE  LET a == entries[i].account
         IN  Row(entries, i) = [id             |-> entries[i].id,
                                account        |-> a,
                                availableAfter |-> SumTo(Moves(entries, a), i),
                                frozenAfter    |-> SumTo(Holds(entries, a), i)]
<1>. DEFINE a == entries[i].account
            upTo == SubSeq(entries, 1, i)
<1>1. /\ i \in 1..Len(entries) /\ Len(entries) \in Nat /\ upTo \in Seq(Transaction)
      /\ DOMAIN upTo = 1..i /\ \A j \in 1..i : upTo[j] = entries[j] /\ j \in DOMAIN entries
  OBVIOUS
<1>. HIDE DEF upTo, a
<1>2. Moves(upTo, a) = Part(Moves(entries, a), i) /\ Holds(upTo, a) = Part(Holds(entries, a), i)
  BY <1>1 DEF Moves, Holds, Part
<1>3. /\ Deltas(upTo, a, AvailableDelta) = SumFunction(Moves(upTo, a))
      /\ Deltas(upTo, a, FrozenDelta) = SumFunction(Holds(upTo, a))
  BY <1>1, LogIs
<1>4. /\ Deltas(upTo, a, AvailableDelta) = SumTo(Moves(entries, a), i)
      /\ Deltas(upTo, a, FrozenDelta) = SumTo(Holds(entries, a), i)
  BY <1>2, <1>3 DEF SumTo
<1>. QED BY <1>4 DEF Row, upTo, a

-----------------------------------------------------------------------------
(* Compaction: one checkpoint stands for an account's entries.             *)

\* A list of numbers of which at most the k-th is not zero.
LEMMA SumOfOne ==
  ASSUME NEW n \in Nat, NEW k \in 1..n, NEW f, f \in [1..n -> Int],
         \A i \in 1..n : i # k => f[i] = 0
  PROVE  SumFunction(f) = f[k] /\ SumTo(f, k) = f[k]
<1>. DEFINE e == Part(f, k - 1)
<1>1. k - 1 \in 0..n /\ k - 1 \in 0..(n - 1) /\ (k - 1) + 1 = k /\ k \in 0..n
  OBVIOUS
<1>2. SumFunction(e) = 0
  <2>1. e \in [1..(k - 1) -> Int] /\ (\A i \in 1..(k - 1) : e[i] = 0) /\ IsFiniteSet(1..(k - 1))
    BY FS_Interval DEF Part
  <2>. HIDE DEF e
  <2>. QED BY <2>1, SumZero
<1>3. SumTo(f, k) = SumFunction(e) + f[k]
  <2>1. SumFunction(Part(f, (k - 1) + 1)) = SumFunction(Part(f, k - 1)) + f[(k - 1) + 1]
    BY <1>1, PartSums
  <2>. QED BY <1>1, <2>1 DEF SumTo
<1>4. SumTo(f, k) = SumFunction(f)
  <2>1. \A i \in (k + 1)..n : f[i] = 0
    OBVIOUS
  <2>. QED BY <1>1, <2>1, SumRests
<1>5. f[k] \in Int
  OBVIOUS
<1>. QED BY <1>2, <1>3, <1>4, <1>5

\* Nothing but zeros.
LEMMA SumOfZeros ==
  ASSUME NEW n \in Nat, NEW f, f \in [1..n -> Int], \A i \in 1..n : f[i] = 0
  PROVE  SumFunction(f) = 0
<1>1. IsFiniteSet(1..n)
  BY FS_Interval
<1>. QED BY <1>1, SumZero

\* The places of an account's entries: a finite set of numbers, with a first and
\* a last unless it is empty.
LEMMA EntriesAre ==
  ASSUME NEW entries \in Seq(Transaction), NEW a
  PROVE  /\ EntriesOf(entries, a) \subseteq 1..Len(entries)
         /\ EntriesOf(entries, a) \subseteq Int /\ IsFiniteSet(EntriesOf(entries, a))
         /\ EntriesOf(entries, a) # {} =>
              /\ Max(EntriesOf(entries, a)) \in EntriesOf(entries, a)
              /\ \A i \in EntriesOf(entries, a) : i <= Max(EntriesOf(entries, a))
              /\ \E i \in EntriesOf(entries, a) : \A j \in EntriesOf(entries, a) : i <= j
<1>. DEFINE E == EntriesOf(entries, a)
            T == {0 - i : i \in E}
<1>1. Len(entries) \in Nat /\ E \subseteq 1..Len(entries) /\ E \subseteq Int
  <2>1. Len(entries) \in Nat /\ DOMAIN entries = 1..Len(entries)
    OBVIOUS
  <2>. QED BY <2>1 DEF EntriesOf
<1>. HIDE DEF E
<1>2. IsFiniteSet(1..Len(entries))
  BY <1>1, FS_Interval
<1>3. IsFiniteSet(E)
  BY <1>1, <1>2, FS_Subset
<1>4. IsFiniteSet(T) /\ T \subseteq Int
  <2>. DEFINE W == (0 - Len(entries))..0
  <2>1. T \in SUBSET W /\ W \subseteq Int
    BY <1>1
  <2>2. IsFiniteSet(W)
    BY <1>1, FS_Interval
  <2>. HIDE DEF T, W
  <2>3. IsFiniteSet(T)
    BY ONLY <2>1, <2>2, FS_Subset
  <2>. QED BY <2>1, <2>3
<1>5. ASSUME E # {}
      PROVE  Max(E) \in E /\ \A i \in E : i <= Max(E)
  <2>1. \A z \in E : z \in Int
    BY <1>1
  <2>2. Max(E) \in E /\ \A y \in E : Max(E) >= y
    BY <1>3, <1>5, <2>1, HasMax
  <2>3. Max(E) \in Int
    BY <2>1, <2>2
  <2>. QED BY <2>1, <2>2, <2>3
<1>6. ASSUME E # {}
      PROVE  \E i \in E : \A j \in E : i <= j
  <2>1. T # {}
    BY <1>6
  <2>2. PICK x \in T : \A y \in T : x >= y
    <3>. HIDE DEF T
    <3>. QED BY <1>4, <2>1, LargestMember
  <2>3. PICK i \in E : x = 0 - i
    BY <2>2
  <2>4. ASSUME NEW j \in E PROVE i <= j
    <3>1. 0 - j \in T /\ i \in Int /\ j \in Int
      BY <1>1, <2>3
    <3>2. x >= 0 - j
      BY <2>2, <3>1
    <3>. QED BY <2>3, <3>1, <3>2
  <2>. QED BY <2>4
<1>. QED BY <1>1, <1>3, <1>5, <1>6 DEF E

\* The checkpoints of a compaction: one for each account, with the last id of its
\* entries.
LEMMA CheckpointsAre ==
  ASSUME NEW dropped \in Seq(Transaction)
  PROVE  LET cps == Checkpoints(dropped)
         IN  /\ cps \in Seq(Transaction)
             /\ \A k \in DOMAIN cps :
                  /\ cps[k] = Checkpoint(dropped, cps[k].account)
                  /\ EntriesOf(dropped, cps[k].account) # {}
                  /\ cps[k].account \in Accounts
             /\ \A k, l \in DOMAIN cps : k # l => cps[k].account # cps[l].account
             /\ \A a : EntriesOf(dropped, a) # {} => \E k \in DOMAIN cps : cps[k].account = a
<1>. DEFINE cps == Checkpoints(dropped)
            F == FirstEntries(dropped)
            n == Cardinality(F)
            order == Ascending(F)
<1>1. Len(dropped) \in Nat /\ DOMAIN dropped = 1..Len(dropped)
      /\ \A i \in DOMAIN dropped : dropped[i].account \in Accounts
  BY EntryTyped
<1>2. F \subseteq 1..Len(dropped) /\ \A z \in F : z \in Int
  BY <1>1 DEF FirstEntries
<1>3. IsFiniteSet(F) /\ n \in Nat
  <2>1. IsFiniteSet(1..Len(dropped))
    BY <1>1, FS_Interval
  <2>. HIDE DEF F
  <2>2. IsFiniteSet(F)
    BY <1>2, <2>1, FS_Subset
  <2>. QED BY <2>2, FS_CardinalityType
<1>4. /\ order \in [1..n -> F]
      /\ \A i, j \in 1..n : i < j => order[i] < order[j]
  <2>. HIDE DEF F
  <2>. QED BY <1>2, <1>3, AscendingIsSorted
<1>5. DOMAIN order = 1..n
  BY <1>4
<1>6. cps = [k \in 1..n |-> Checkpoint(dropped, dropped[order[k]].account)]
  BY <1>5 DEF Checkpoints
<1>. HIDE DEF cps
<1>7. \A k \in 1..n : order[k] \in DOMAIN dropped /\ order[k] \in F
                      /\ dropped[order[k]].account \in Accounts
  BY <1>1, <1>2, <1>4
<1>. HIDE DEF order, n
<1>8. ASSUME NEW k \in 1..n
      PROVE  /\ cps[k] = Checkpoint(dropped, cps[k].account) /\ cps[k] \in Transaction
             /\ cps[k].account = dropped[order[k]].account
             /\ EntriesOf(dropped, cps[k].account) # {}
             /\ cps[k].account \in Accounts
  <2>. DEFINE d == order[k]
              b == dropped[d].account
  <2>1. d \in DOMAIN dropped /\ b \in Accounts
    BY <1>7
  <2>2. d \in EntriesOf(dropped, b)
    BY <2>1 DEF EntriesOf
  <2>3. cps[k] = Checkpoint(dropped, b)
    BY <1>6
  <2>. HIDE DEF d
  <2>4. cps[k] \in Transaction
    <3>1. \E i \in DOMAIN dropped : dropped[i].account = b
      BY <2>1
    <3>. HIDE DEF b
    <3>. QED BY <2>1, <2>3, <3>1, CheckpointTyped
  <2>. HIDE DEF b
  <2>5. cps[k].account = b
    BY <2>3 DEF Checkpoint
  <2>. QED BY <2>1, <2>2, <2>3, <2>4, <2>5 DEF b, d
<1>9. cps \in Seq(Transaction) /\ DOMAIN cps = 1..n
  <2>1. cps \in [1..n -> Transaction]
    BY <1>6, <1>8
  <2>. QED BY <1>3, <2>1
<1>10. ASSUME NEW k \in 1..n, NEW l \in 1..n, k # l
       PROVE  cps[k].account # cps[l].account
  <2>1. ASSUME NEW i \in 1..n, NEW j \in 1..n, i < j
        PROVE  cps[i].account # cps[j].account
    <3>. DEFINE d == order[i]
                e == order[j]
    <3>1. d \in DOMAIN dropped /\ e \in F /\ d < e /\ d \in Int /\ e \in Int
      BY <1>2, <1>4, <1>7, <2>1
    <3>2. /\ cps[i].account = dropped[d].account /\ cps[j].account = dropped[e].account
      BY <1>8
    <3>. HIDE DEF d, e
    <3>3. d \in 1..(e - 1)
      BY <1>1, <3>1
    <3>4. dropped[d].account # dropped[e].account
      BY <3>1, <3>3 DEF FirstEntries
    <3>. QED BY <3>2, <3>4
  <2>2. k < l \/ l < k
    BY <1>10, <1>3
  <2>. QED BY <2>1, <2>2
<1>11. ASSUME NEW a, EntriesOf(dropped, a) # {}
       PROVE  \E k \in 1..n : cps[k].account = a
  <2>1. PICK i \in EntriesOf(dropped, a) : \A j \in EntriesOf(dropped, a) : i <= j
    BY <1>11, EntriesAre
  <2>2. i \in DOMAIN dropped /\ dropped[i].account = a /\ i \in Int
    BY <1>1, <2>1 DEF EntriesOf
  <2>3. i \in F
    <3>1. ASSUME NEW j \in 1..(i - 1) PROVE dropped[j].account # a
      <4>1. j \in DOMAIN dropped /\ ~ (i <= j)
        BY <1>1, <2>2
      <4>2. j \notin EntriesOf(dropped, a)
        BY <2>1, <4>1
      <4>. QED BY <4>1, <4>2 DEF EntriesOf
    <3>. QED BY <2>2, <3>1 DEF FirstEntries
  <2>4. PICK k \in 1..n : order[k] = i
    <3>1. order \in Injection(1..n, F)
      <4>1. \A p, q \in 1..n : p # q => p < q \/ q < p
        BY <1>3
      <4>2. \A p \in 1..n : order[p] \in Int
        BY <1>2, <1>7
      <4>3. \A p, q \in 1..n : order[p] = order[q] => p = q
        BY <1>4, <4>1, <4>2
      <4>. QED BY <1>4, <4>3 DEF Injection, IsInjective
    <3>2. Cardinality(1..n) = Cardinality(F)
      BY <1>3, FS_Interval DEF n
    <3>3. order \in Surjection(1..n, F)
      BY <1>3, <3>1, <3>2, FS_Injection
    <3>. QED BY <2>3, <3>3 DEF Surjection
  <2>5. cps[k].account = dropped[i].account
    BY <1>8, <2>4
  <2>. QED BY <2>2, <2>5
<1>. QED BY <1>8, <1>9, <1>10, <1>11 DEF cps
\* The checkpoints add up to what they stand for, account by account, each at its
\* own place; and none of them is a mint.
LEMMA CheckpointSums ==
  ASSUME NEW dropped \in Seq(Transaction), NEW cps, cps = Checkpoints(dropped)
  PROVE  /\ \A a : /\ SumFunction(Moves(cps, a)) = SumFunction(Moves(dropped, a))
                   /\ SumFunction(Holds(cps, a)) = SumFunction(Holds(dropped, a))
         /\ \A k \in DOMAIN cps :
              LET a == cps[k].account
              IN  /\ SumTo(Moves(cps, a), k) = SumFunction(Moves(dropped, a))
                  /\ SumTo(Holds(cps, a), k) = SumFunction(Holds(dropped, a))
         /\ SumFunction(Mints(cps)) = 0
<1>. DEFINE n == Len(cps)
<1>1. /\ cps \in Seq(Transaction)
      /\ \A k \in DOMAIN cps : /\ cps[k] = Checkpoint(dropped, cps[k].account)
                               /\ EntriesOf(dropped, cps[k].account) # {}
      /\ \A k, l \in DOMAIN cps : k # l => cps[k].account # cps[l].account
      /\ \A a : EntriesOf(dropped, a) # {} => \E k \in DOMAIN cps : cps[k].account = a
  BY CheckpointsAre
<1>2. n \in Nat /\ DOMAIN cps = 1..n
  BY <1>1
<1>. HIDE DEF n
<1>3. ASSUME NEW k \in 1..n
      PROVE  /\ cps[k].available = SumFunction(Moves(dropped, cps[k].account))
             /\ cps[k].frozen = SumFunction(Holds(dropped, cps[k].account))
             /\ cps[k].reason = "checkpoint"
  <2>. DEFINE a == cps[k].account
  <2>1. cps[k] = Checkpoint(dropped, a)
    BY <1>1, <1>2
  <2>. HIDE DEF a
  <2>2. /\ cps[k].available = Deltas(dropped, a, AvailableDelta)
        /\ cps[k].frozen = Deltas(dropped, a, FrozenDelta)
        /\ cps[k].reason = "checkpoint"
    BY <2>1 DEF Checkpoint
  <2>3. /\ Deltas(dropped, a, AvailableDelta) = SumFunction(Moves(dropped, a))
        /\ Deltas(dropped, a, FrozenDelta) = SumFunction(Holds(dropped, a))
    BY LogIs
  <2>. QED BY <2>2, <2>3 DEF a
<1>4. ASSUME NEW a
      PROVE  /\ Moves(cps, a) \in [1..n -> Int] /\ Holds(cps, a) \in [1..n -> Int]
             /\ \A i \in 1..n : /\ Moves(cps, a)[i] = IF cps[i].account = a THEN cps[i].available ELSE 0
                                /\ Holds(cps, a)[i] = IF cps[i].account = a THEN cps[i].frozen ELSE 0
  <2>1. Moves(cps, a) \in [1..n -> Int] /\ Holds(cps, a) \in [1..n -> Int]
    BY <1>1, LogIs DEF n
  <2>. QED BY <1>2, <2>1 DEF Moves, Holds
<1>5. ASSUME NEW k \in 1..n, NEW a, a = cps[k].account
      PROVE  /\ SumFunction(Moves(cps, a)) = SumFunction(Moves(dropped, a))
             /\ SumFunction(Holds(cps, a)) = SumFunction(Holds(dropped, a))
             /\ SumTo(Moves(cps, a), k) = SumFunction(Moves(dropped, a))
             /\ SumTo(Holds(cps, a), k) = SumFunction(Holds(dropped, a))
  <2>. DEFINE f == Moves(cps, a)
              h == Holds(cps, a)
  <2>1. /\ f \in [1..n -> Int] /\ h \in [1..n -> Int]
        /\ \A i \in 1..n : i # k => f[i] = 0 /\ h[i] = 0
        /\ f[k] = SumFunction(Moves(dropped, a))
        /\ h[k] = SumFunction(Holds(dropped, a))
    <3>1. f \in [1..n -> Int] /\ h \in [1..n -> Int]
      BY <1>4
    <3>2. \A i \in 1..n : i # k => cps[i].account # a
      BY <1>1, <1>2, <1>5
    <3>3. \A i \in 1..n : i # k => f[i] = 0 /\ h[i] = 0
      BY <1>4, <3>2
    <3>4. f[k] = cps[k].available /\ h[k] = cps[k].frozen
      BY <1>4, <1>5
    <3>5. /\ cps[k].available = SumFunction(Moves(dropped, a))
          /\ cps[k].frozen = SumFunction(Holds(dropped, a))
      BY <1>3, <1>5
    <3>. QED BY <3>1, <3>3, <3>4, <3>5
  <2>. HIDE DEF f, h
  <2>2. SumFunction(f) = f[k] /\ SumTo(f, k) = f[k]
    BY <1>2, <2>1, SumOfOne
  <2>3. SumFunction(h) = h[k] /\ SumTo(h, k) = h[k]
    BY <1>2, <2>1, SumOfOne
  <2>. QED BY <2>1, <2>2, <2>3 DEF f, h
<1>6. ASSUME NEW a, \A k \in 1..n : cps[k].account # a
      PROVE  /\ SumFunction(Moves(cps, a)) = SumFunction(Moves(dropped, a))
             /\ SumFunction(Holds(cps, a)) = SumFunction(Holds(dropped, a))
  <2>. DEFINE f == Moves(cps, a)
              h == Holds(cps, a)
              f1 == Moves(dropped, a)
              h1 == Holds(dropped, a)
              m == Len(dropped)
  <2>1. f \in [1..n -> Int] /\ h \in [1..n -> Int] /\ \A i \in 1..n : f[i] = 0 /\ h[i] = 0
    BY <1>4, <1>6
  <2>2. EntriesOf(dropped, a) = {}
    BY <1>1, <1>2, <1>6
  <2>3. /\ m \in Nat /\ f1 \in [1..m -> Int] /\ h1 \in [1..m -> Int]
        /\ \A i \in 1..m : f1[i] = 0 /\ h1[i] = 0
    <3>1. m \in Nat /\ DOMAIN dropped = 1..m /\ f1 \in [1..m -> Int] /\ h1 \in [1..m -> Int]
      BY LogIs
    <3>2. \A i \in 1..m : dropped[i].account # a
      BY <2>2, <3>1 DEF EntriesOf
    <3>. QED BY <3>1, <3>2 DEF Moves, Holds
  <2>. HIDE DEF f, h, f1, h1, m
  <2>4. SumFunction(f) = 0 /\ SumFunction(h) = 0
    BY <1>2, <2>1, SumOfZeros
  <2>5. SumFunction(f1) = 0 /\ SumFunction(h1) = 0
    BY <2>3, SumOfZeros
  <2>. QED BY <2>4, <2>5 DEF f, h, f1, h1
<1>7. SumFunction(Mints(cps)) = 0
  <2>. DEFINE f == Mints(cps)
  <2>1. f \in [1..n -> Int] /\ \A i \in 1..n : f[i] = 0
    BY <1>1, <1>2, <1>3, LogIs DEF Mints, n
  <2>. HIDE DEF f
  <2>. QED BY <1>2, <2>1, SumOfZeros DEF f
<1>8. ASSUME NEW a
      PROVE  /\ SumFunction(Moves(cps, a)) = SumFunction(Moves(dropped, a))
             /\ SumFunction(Holds(cps, a)) = SumFunction(Holds(dropped, a))
  BY <1>5, <1>6
<1>. QED BY <1>2, <1>5, <1>7, <1>8

-----------------------------------------------------------------------------
(* A log that stands for another.                                          *)

\* Every entry of `new` is or sums up one of `old`, has its id and account, and is
\* shown with the same balances; the entries of an account keep their order.
Stands(new, old, origin) ==
  /\ origin \in [DOMAIN new -> DOMAIN old]
  /\ \A i \in DOMAIN new :
       LET a == new[i].account
       IN  /\ new[i].id = old[origin[i]].id /\ a = old[origin[i]].account
           /\ SumTo(Moves(new, a), i) = SumTo(Moves(old, a), origin[i])
           /\ SumTo(Holds(new, a), i) = SumTo(Holds(old, a), origin[i])
  /\ \A i, j \in DOMAIN new : i # j => origin[i] # origin[j]
  /\ \A i, j \in DOMAIN new :
       i < j /\ new[i].account = new[j].account => origin[i] < origin[j]

\* What a compaction makes of a log: a log that stands for it, in which every
\* account's deltas add up to the same, and which lacks the mints it dropped.
LEMMA CompactionIs ==
  ASSUME NEW entries \in Seq(Transaction), NEW keep \in Nat, keep < Len(entries)
  PROVE  LET new     == CompactedLog(entries, keep)
             dropped == SubSeq(entries, 1, Len(entries) - keep)
         IN  /\ \E origin : Stands(new, entries, origin)
             /\ \A a : /\ SumFunction(Moves(new, a)) = SumFunction(Moves(entries, a))
                       /\ SumFunction(Holds(new, a)) = SumFunction(Holds(entries, a))
             /\ MintedIn(entries) = MintedIn(dropped) + MintedIn(new)
<1>. DEFINE cut     == Len(entries) - keep
            dropped == SubSeq(entries, 1, cut)
            kept    == SubSeq(entries, cut + 1, Len(entries))
            cps     == Checkpoints(dropped)
            new     == CompactedLog(entries, keep)
            n       == Len(cps)
<1>1. /\ cut \in Nat /\ cut \in 1..Len(entries) /\ Len(entries) = cut + keep
      /\ dropped \in Seq(Transaction) /\ kept \in Seq(Transaction)
      /\ Len(dropped) = cut /\ Len(kept) = keep
      /\ \A i \in 1..cut : dropped[i] = entries[i]
      /\ \A i \in 1..keep : kept[i] = entries[cut + i]
  OBVIOUS
<1>2. entries = dropped \o kept
  <2>. HIDE DEF dropped, kept, cut
  <2>. DEFINE r == dropped \o kept
  <2>1. /\ r \in Seq(Transaction) /\ Len(r) = cut + keep
        /\ \A i \in 1..cut : r[i] = dropped[i]
        /\ \A i \in 1..keep : r[cut + i] = kept[i]
    <3>1. r = dropped \o kept
      OBVIOUS
    <3>. HIDE DEF r
    <3>2. /\ r \in Seq(Transaction) /\ Len(r) = Len(dropped) + Len(kept)
          /\ \A i \in 1..Len(dropped) : r[i] = dropped[i]
          /\ \A i \in 1..Len(kept) : r[Len(dropped) + i] = kept[i]
      <4>1. Behind(dropped, kept, r)
        BY <1>1, <3>1, LogJoined
      <4>. QED BY <4>1 DEF Behind
    <3>. QED BY <1>1, <3>2
  <2>. HIDE DEF r
  <2>2. ASSUME NEW i \in 1..(cut + keep) PROVE r[i] = entries[i]
    <3>1. CASE i <= cut
      <4>1. i \in 1..cut
        BY <1>1, <3>1
      <4>. QED BY <1>1, <2>1, <4>1
    <3>2. CASE ~(i <= cut)
      <4>1. i - cut \in 1..keep /\ cut + (i - cut) = i
        BY <1>1, <3>2
      <4>2. r[cut + (i - cut)] = entries[cut + (i - cut)]
        BY <1>1, <2>1, <4>1
      <4>. QED BY <4>1, <4>2
    <3>. QED BY <3>1, <3>2
  <2>3. r = entries
    <3>1. Len(r) = Len(entries) /\ \A i \in 1..Len(entries) : r[i] = entries[i]
      BY <1>1, <2>1, <2>2
    <3>. QED BY <2>1, <3>1
  <2>. QED BY <2>3 DEF r
<1>3. new = cps \o kept
  BY DEF CompactedLog
<1>4. /\ cps \in Seq(Transaction) /\ n \in Nat /\ DOMAIN cps = 1..n
      /\ \A k \in 1..n : /\ cps[k] = Checkpoint(dropped, cps[k].account)
                         /\ EntriesOf(dropped, cps[k].account) # {}
      /\ \A k, l \in 1..n : k # l => cps[k].account # cps[l].account
  <2>. HIDE DEF dropped
  <2>1. cps \in Seq(Transaction)
    BY <1>1, CheckpointsAre
  <2>2. n \in Nat /\ DOMAIN cps = 1..n
    <3>. HIDE DEF cps
    <3>. QED BY <2>1
  <2>3. /\ \A k \in DOMAIN cps : /\ cps[k] = Checkpoint(dropped, cps[k].account)
                                /\ EntriesOf(dropped, cps[k].account) # {}
        /\ \A k, l \in DOMAIN cps : k # l => cps[k].account # cps[l].account
    BY <1>1, CheckpointsAre
  <2>. HIDE DEF cps
  <2>. QED BY <2>1, <2>2, <2>3
<1>12. Behind(cps, kept, new)
  <2>. HIDE DEF cps, kept, new
  <2>. QED BY <1>1, <1>3, <1>4, LogJoined
<1>13. Behind(dropped, kept, entries)
  <2>. HIDE DEF dropped, kept
  <2>. QED BY <1>1, <1>2, LogJoined
<1>5. /\ new \in Seq(Transaction) /\ Len(new) = n + keep /\ DOMAIN new = 1..(n + keep)
      /\ \A i \in 1..n : new[i] = cps[i]
      /\ \A i \in 1..keep : new[n + i] = kept[i]
  <2>. HIDE DEF cps, kept, new
  <2>1. /\ new \in Seq(Transaction) /\ Len(new) = n + keep
        /\ \A i \in 1..n : new[i] = cps[i]
        /\ \A i \in 1..keep : new[n + i] = kept[i]
    <3>1. /\ new \in Seq(Transaction) /\ Len(new) = Len(cps) + Len(kept)
          /\ \A i \in 1..Len(cps) : new[i] = cps[i]
          /\ \A i \in 1..Len(kept) : new[Len(cps) + i] = kept[i]
      BY <1>12 DEF Behind
    <3>. QED BY <1>1, <3>1 DEF n
  <2>2. DOMAIN new = 1..Len(new)
    BY <2>1
  <2>. QED BY <2>1, <2>2
<1>6. /\ SumFunction(Mints(new)) = SumFunction(Mints(cps)) + SumFunction(Mints(kept))
      /\ \A a : /\ \A k \in 0..n : /\ SumTo(Moves(new, a), k) = SumTo(Moves(cps, a), k)
                                   /\ SumTo(Holds(new, a), k) = SumTo(Holds(cps, a), k)
                /\ \A k \in 0..keep :
                     /\ SumTo(Moves(new, a), n + k) =
                          SumFunction(Moves(cps, a)) + SumTo(Moves(kept, a), k)
                     /\ SumTo(Holds(new, a), n + k) =
                          SumFunction(Holds(cps, a)) + SumTo(Holds(kept, a), k)
                /\ SumFunction(Moves(new, a)) = SumFunction(Moves(cps, a)) + SumFunction(Moves(kept, a))
                /\ SumFunction(Holds(new, a)) = SumFunction(Holds(cps, a)) + SumFunction(Holds(kept, a))
  <2>. HIDE DEF cps, kept, new
  <2>. QED BY <1>1, <1>12 DEF n, Behind
<1>7. /\ SumFunction(Mints(entries)) = SumFunction(Mints(dropped)) + SumFunction(Mints(kept))
      /\ \A a : /\ \A k \in 0..cut : /\ SumTo(Moves(entries, a), k) = SumTo(Moves(dropped, a), k)
                                     /\ SumTo(Holds(entries, a), k) = SumTo(Holds(dropped, a), k)
                /\ \A k \in 0..keep :
                     /\ SumTo(Moves(entries, a), cut + k) =
                          SumFunction(Moves(dropped, a)) + SumTo(Moves(kept, a), k)
                     /\ SumTo(Holds(entries, a), cut + k) =
                          SumFunction(Holds(dropped, a)) + SumTo(Holds(kept, a), k)
                /\ SumFunction(Moves(entries, a)) =
                     SumFunction(Moves(dropped, a)) + SumFunction(Moves(kept, a))
                /\ SumFunction(Holds(entries, a)) =
                     SumFunction(Holds(dropped, a)) + SumFunction(Holds(kept, a))
  <2>. HIDE DEF dropped, kept, cut
  <2>. QED BY <1>1, <1>13 DEF Behind
<1>8. /\ \A a : /\ SumFunction(Moves(cps, a)) = SumFunction(Moves(dropped, a))
                /\ SumFunction(Holds(cps, a)) = SumFunction(Holds(dropped, a))
      /\ \A k \in 1..n :
           LET a == cps[k].account
           IN  /\ SumTo(Moves(cps, a), k) = SumFunction(Moves(dropped, a))
               /\ SumTo(Holds(cps, a), k) = SumFunction(Holds(dropped, a))
      /\ SumFunction(Mints(cps)) = 0
  <2>1. dropped \in Seq(Transaction) /\ cps = Checkpoints(dropped)
    BY <1>1
  <2>. HIDE DEF dropped, cps, n
  <2>. QED BY <1>4, <2>1, CheckpointSums
<1>9. MintedIn(entries) = MintedIn(dropped) + MintedIn(new)
  <2>1. /\ MintedIn(entries) = SumFunction(Mints(entries))
        /\ MintedIn(dropped) = SumFunction(Mints(dropped)) /\ SumFunction(Mints(dropped)) \in Int
        /\ MintedIn(kept) = SumFunction(Mints(kept)) /\ SumFunction(Mints(kept)) \in Int
        /\ MintedIn(new) = SumFunction(Mints(new))
    <3>. HIDE DEF dropped, kept, new
    <3>1. MintedIn(dropped) \in Int /\ MintedIn(kept) \in Int
      BY <1>1, LogSums
    <3>. QED BY <1>1, <1>5, <3>1, LogIs
  <2>. HIDE DEF dropped, kept, new, cps
  <2>. QED BY <1>6, <1>7, <1>8, <2>1
<1>10. \A a : /\ SumFunction(Moves(new, a)) = SumFunction(Moves(entries, a))
              /\ SumFunction(Holds(new, a)) = SumFunction(Holds(entries, a))
  <2>. HIDE DEF dropped, kept, new, cps
  <2>. QED BY <1>6, <1>7, <1>8
<1>11. \E origin : Stands(new, entries, origin)
  <2>. DEFINE last(k) == Max(EntriesOf(dropped, cps[k].account))
              origin == [j \in 1..(n + keep) |-> IF j <= n THEN last(j) ELSE cut + (j - n)]
  <2>. HIDE DEF dropped, kept, new, cps, n, cut
  <2>1. ASSUME NEW k \in 1..n
        PROVE  /\ last(k) \in 1..cut /\ dropped[last(k)].account = cps[k].account
               /\ dropped[last(k)].id = cps[k].id
               /\ SumTo(Moves(dropped, cps[k].account), last(k)) =
                    SumFunction(Moves(dropped, cps[k].account))
               /\ SumTo(Holds(dropped, cps[k].account), last(k)) =
                    SumFunction(Holds(dropped, cps[k].account))
    <3>. DEFINE a == cps[k].account
                E == EntriesOf(dropped, a)
                m == Max(E)
    <3>0. E # {} /\ cps[k] = Checkpoint(dropped, a)
      BY <1>4
    <3>1. E \subseteq 1..cut /\ m \in E /\ \A i \in E : i <= m
      BY <1>1, <3>0, EntriesAre
    <3>2. DOMAIN dropped = 1..cut
      BY <1>1
    <3>. HIDE DEF a
    <3>3. m \in 1..cut /\ dropped[m].account = a
      BY <3>1 DEF EntriesOf
    <3>4. cps[k].id = dropped[m].id
      BY <3>0 DEF Checkpoint
    <3>5. \A i \in (m + 1)..cut : dropped[i].account # a
      <4>. HIDE DEF m
      <4>1. ASSUME NEW i \in (m + 1)..cut, dropped[i].account = a PROVE FALSE
        <5>1. i \in 1..cut /\ ~(i <= m)
          BY <1>1, <3>3
        <5>2. i \in E
          BY <3>2, <4>1, <5>1 DEF EntriesOf
        <5>. QED BY <3>1, <5>1, <5>2
      <4>. QED BY <4>1
    <3>. DEFINE f == Moves(dropped, a)
                h == Holds(dropped, a)
    <3>6. f \in [1..cut -> Int] /\ h \in [1..cut -> Int]
      BY <1>1, LogIs
    <3>. HIDE DEF m
    <3>7. \A i \in (m + 1)..cut : f[i] = 0 /\ h[i] = 0
      <4>1. \A i \in (m + 1)..cut : i \in 1..cut
        BY <1>1, <3>3
      <4>. QED BY <3>2, <3>5, <4>1 DEF Moves, Holds
    <3>. HIDE DEF f, h
    <3>8. SumTo(f, m) = SumFunction(f)
      <4>1. m \in 0..cut
        BY <3>3
      <4>. QED BY ONLY <1>1, <4>1, <3>6, <3>7, SumRests
    <3>9. SumTo(h, m) = SumFunction(h)
      <4>1. m \in 0..cut
        BY <3>3
      <4>. QED BY ONLY <1>1, <4>1, <3>6, <3>7, SumRests
    <3>. QED BY <3>3, <3>4, <3>8, <3>9 DEF f, h, m, a
  <2>. HIDE DEF last
  <2>2. DOMAIN entries = 1..(cut + keep) /\ \A i \in 1..cut : entries[i] = dropped[i]
    BY <1>1
  <2>3. ASSUME NEW j \in 1..n
        PROVE  /\ origin[j] = last(j) /\ origin[j] \in 1..cut
               /\ new[j] = cps[j] /\ entries[origin[j]] = dropped[last(j)]
    BY <1>4, <1>5, <2>1, <2>2
  <2>4. ASSUME NEW j \in 1..(n + keep), ~(j <= n)
        PROVE  /\ origin[j] = cut + (j - n) /\ j - n \in 1..keep /\ n + (j - n) = j
               /\ origin[j] \in (cut + 1)..(cut + keep)
               /\ new[j] = kept[j - n] /\ new[j] = entries[origin[j]]
    <3>1. j - n \in 1..keep /\ n + (j - n) = j
      BY <1>4, <2>4
    <3>2. origin[j] = cut + (j - n)
      BY <2>4
    <3>3. new[n + (j - n)] = kept[j - n] /\ kept[j - n] = entries[cut + (j - n)]
      BY <1>1, <1>5, <3>1
    <3>. QED BY <1>1, <3>1, <3>2, <3>3
  <2>5. origin \in [1..(n + keep) -> 1..(cut + keep)]
    <3>1. ASSUME NEW j \in 1..(n + keep) PROVE origin[j] \in 1..(cut + keep)
      <4>1. CASE j <= n
        <5>1. j \in 1..n
          BY <1>4, <4>1
        <5>2. origin[j] \in 1..cut
          BY <2>3, <5>1
        <5>3. \A x \in 1..cut : x \in 1..(cut + keep)
          BY <1>1
        <5>. HIDE DEF origin
        <5>. QED BY <5>2, <5>3
      <4>2. CASE ~(j <= n)
        BY <1>1, <2>4, <4>2
      <4>. QED BY <4>1, <4>2
    <3>2. origin = [j \in 1..(n + keep) |-> origin[j]]
      OBVIOUS
    <3>. HIDE DEF origin
    <3>. QED BY <3>1, <3>2
  <2>6. ASSUME NEW j \in 1..(n + keep), NEW a, a = new[j].account
        PROVE  /\ new[j].id = entries[origin[j]].id /\ a = entries[origin[j]].account
               /\ SumTo(Moves(new, a), j) = SumTo(Moves(entries, a), origin[j])
               /\ SumTo(Holds(new, a), j) = SumTo(Holds(entries, a), origin[j])
    <3>1. CASE j <= n
      <4>1. j \in 1..n /\ j \in 0..n
        BY <1>4, <3>1
      <4>2. /\ origin[j] = last(j) /\ new[j] = cps[j] /\ entries[origin[j]] = dropped[last(j)]
            /\ last(j) \in 0..cut
        <5>1. last(j) \in 1..cut
          BY <2>1, <4>1
        <5>2. \A x \in 1..cut : x \in 0..cut
          BY <1>1
        <5>3. last(j) \in 0..cut
          BY <5>1, <5>2
        <5>. QED BY <2>3, <4>1, <5>3
      <4>3. /\ SumTo(Moves(new, a), j) = SumTo(Moves(cps, a), j)
            /\ SumTo(Holds(new, a), j) = SumTo(Holds(cps, a), j)
        BY <1>6, <4>1
      <4>4. /\ SumTo(Moves(cps, a), j) = SumFunction(Moves(dropped, a))
            /\ SumTo(Holds(cps, a), j) = SumFunction(Holds(dropped, a))
        BY <1>8, <2>6, <4>1, <4>2
      <4>5. /\ SumTo(Moves(dropped, a), last(j)) = SumFunction(Moves(dropped, a))
            /\ SumTo(Holds(dropped, a), last(j)) = SumFunction(Holds(dropped, a))
            /\ dropped[last(j)].account = a /\ dropped[last(j)].id = cps[j].id
        BY <2>1, <2>6, <4>1, <4>2
      <4>6. /\ SumTo(Moves(entries, a), last(j)) = SumTo(Moves(dropped, a), last(j))
            /\ SumTo(Holds(entries, a), last(j)) = SumTo(Holds(dropped, a), last(j))
        BY <1>7, <4>2
      <4>. QED BY <4>2, <4>3, <4>4, <4>5, <4>6
    <3>2. CASE ~(j <= n)
      <4>. DEFINE k == j - n
      <4>1. /\ origin[j] = cut + k /\ k \in 0..keep /\ n + k = j /\ new[j] = entries[origin[j]]
        BY <2>4, <3>2
      <4>. HIDE DEF k
      <4>2. /\ SumTo(Moves(new, a), n + k) = SumFunction(Moves(cps, a)) + SumTo(Moves(kept, a), k)
            /\ SumTo(Holds(new, a), n + k) = SumFunction(Holds(cps, a)) + SumTo(Holds(kept, a), k)
        BY <1>6, <4>1
      <4>3. /\ SumTo(Moves(entries, a), cut + k) =
                 SumFunction(Moves(dropped, a)) + SumTo(Moves(kept, a), k)
            /\ SumTo(Holds(entries, a), cut + k) =
                 SumFunction(Holds(dropped, a)) + SumTo(Holds(kept, a), k)
        BY <1>7, <4>1
      <4>4. /\ SumFunction(Moves(cps, a)) = SumFunction(Moves(dropped, a))
            /\ SumFunction(Holds(cps, a)) = SumFunction(Holds(dropped, a))
        BY <1>8
      <4>. QED BY <2>6, <4>1, <4>2, <4>3, <4>4
    <3>. QED BY <3>1, <3>2
  <2>7. ASSUME NEW i \in 1..(n + keep), NEW j \in 1..(n + keep), i < j
        PROVE  /\ origin[i] # origin[j]
               /\ new[i].account = new[j].account => origin[i] < origin[j]
    <3>0. i \in Int /\ j \in Int
      BY <1>4
    <3>1. CASE j <= n
      <4>1. i \in 1..n /\ j \in 1..n /\ i # j
        BY <1>4, <2>7, <3>1
      <4>2. new[i].account # new[j].account
        BY <1>4, <2>3, <4>1
      <4>3. entries[origin[i]].account = new[i].account /\ entries[origin[j]].account = new[j].account
        BY <2>6
      <4>. QED BY <4>2, <4>3
    <3>2. CASE ~(j <= n) /\ i <= n
      <4>1. origin[i] \in 1..cut
        <5>1. i \in 1..n
          BY <1>4, <3>2
        <5>. QED BY <2>3, <5>1
      <4>2. origin[j] \in (cut + 1)..(cut + keep)
        BY <2>4, <3>2
      <4>3. \A x \in 1..cut, y \in (cut + 1)..(cut + keep) : x < y /\ x # y
        BY <1>1
      <4>. QED BY <4>1, <4>2, <4>3
    <3>3. CASE ~(j <= n) /\ ~(i <= n)
      <4>1. origin[i] = cut + (i - n) /\ origin[j] = cut + (j - n)
        BY <2>4, <3>3
      <4>. HIDE DEF origin
      <4>. QED BY <1>1, <1>4, <2>7, <4>1
    <3>. QED BY <3>1, <3>2, <3>3
  <2>8. \A i, j \in 1..(n + keep) : i # j => i < j \/ j < i
    BY <1>4
  <2>9. DOMAIN new = 1..(n + keep)
    BY <1>5
  <2>. HIDE DEF origin
  <2>. QED BY <2>2, <2>5, <2>6, <2>7, <2>8, <2>9 DEF Stands
<1>. QED BY <1>9, <1>10, <1>11
-----------------------------------------------------------------------------
(* The log accounts for the balances.                                      *)

\* Ids are taken from the counter, each once, and an account's entries are in the
\* order of theirs.
Stamped(entries, n) ==
  /\ \A i \in DOMAIN entries : entries[i].id \in 1..n
  /\ \A i, j \in DOMAIN entries : i # j => entries[i].id # entries[j].id
  /\ \A i, j \in DOMAIN entries :
       i < j /\ entries[i].account = entries[j].account => entries[i].id < entries[j].id

\* An account's deltas add up to its balances, and the mints, dropped or not, to
\* what was minted.
Totals ==
  /\ \A a \in Accounts : /\ SumFunction(Moves(log, a)) = ledger.available[a]
                         /\ SumFunction(Holds(log, a)) = ledger.frozen[a]
  /\ mintedBase + SumFunction(Mints(log)) = everMinted

\* The inductive invariant of the log.  LogExplainsBalances alone says nothing of
\* the ids, on which the cursor of the page and the order of its rows rest.
Accounted == Stamped(log, txSeq) /\ Totals

LEMMA InitAccounted == Init => Accounted
<1>1. SUFFICES ASSUME Init PROVE Accounted
  OBVIOUS
<1>2. log = <<>> /\ log \in Seq(Transaction) /\ DOMAIN log = {} /\ Len(log) = 0
  BY <1>1 DEF Init
<1>3. \A a : /\ SumFunction(Moves(log, a)) = 0 /\ SumFunction(Holds(log, a)) = 0
  <2>1. \A a : Moves(log, a) \in [1..0 -> Int] /\ Holds(log, a) \in [1..0 -> Int]
    BY <1>2, LogIs
  <2>. QED BY <2>1, SumOfZeros
<1>4. SumFunction(Mints(log)) = 0
  <2>. DEFINE f == Mints(log)
  <2>1. f \in [1..0 -> Int] /\ (\A i \in 1..0 : f[i] = 0) /\ 0 \in Nat
    BY <1>2, LogIs
  <2>. HIDE DEF f
  <2>2. SumFunction(f) = 0
    BY <2>1, SumOfZeros
  <2>. QED BY <2>2 DEF f
<1>5. \A a \in Accounts : ledger.available[a] = 0 /\ ledger.frozen[a] = 0
  BY <1>1 DEF Init, EmptyLedger
<1>6. Stamped(log, txSeq)
  BY <1>2 DEF Stamped
<1>. QED BY <1>1, <1>3, <1>4, <1>5, <1>6 DEF Init, Accounted, Totals

\* What a list of one entry adds up to.
LEMMA OneEntry ==
  ASSUME NEW e, e \in Transaction
  PROVE  /\ <<e>> \in Seq(Transaction)
         /\ \A a : /\ SumFunction(Moves(<<e>>, a)) = IF e.account = a THEN e.available ELSE 0
                   /\ SumFunction(Holds(<<e>>, a)) = IF e.account = a THEN e.frozen ELSE 0
         /\ SumFunction(Mints(<<e>>)) = IF e.reason = "mint" THEN e.available ELSE 0
<1>. DEFINE s == <<e>>
<1>1. s \in Seq(Transaction) /\ Len(s) = 1 /\ DOMAIN s = 1..1 /\ s[1] = e /\ 1 \in 1..1
  <2>. HIDE DEF s
  <2>1. s = <<e>>
    BY DEF s
  <2>. QED BY <2>1
<1>. HIDE DEF s
<1>2. ASSUME NEW f, f \in [1..1 -> Int] PROVE SumFunction(f) = f[1]
  <2>1. \A i \in 1..1 : i # 1 => f[i] = 0
    OBVIOUS
  <2>2. 1 \in Nat
    OBVIOUS
  <2>. QED BY ONLY <1>1, <1>2, <2>1, <2>2, SumOfOne
<1>3. ASSUME NEW a
      PROVE  /\ SumFunction(Moves(s, a)) = IF e.account = a THEN e.available ELSE 0
             /\ SumFunction(Holds(s, a)) = IF e.account = a THEN e.frozen ELSE 0
  <2>1. Moves(s, a) \in [1..1 -> Int] /\ Holds(s, a) \in [1..1 -> Int]
    BY <1>1, LogIs
  <2>2. SumFunction(Moves(s, a)) = Moves(s, a)[1] /\ SumFunction(Holds(s, a)) = Holds(s, a)[1]
    BY <1>2, <2>1
  <2>. QED BY <1>1, <2>2 DEF Moves, Holds
<1>4. SumFunction(Mints(s)) = IF e.reason = "mint" THEN e.available ELSE 0
  <2>1. Mints(s) \in [1..1 -> Int]
    BY <1>1, LogIs
  <2>2. SumFunction(Mints(s)) = Mints(s)[1]
    BY <1>2, <2>1
  <2>. QED BY <1>1, <2>2 DEF Mints
<1>. QED BY <1>1, <1>3, <1>4 DEF s

\* Posting entries with the next ids: they are behind the log, and the ids are new.
LEMMA PostStamps ==
  ASSUME LogTyped, Stamped(log, txSeq), NEW entries, entries \in Seq(Transaction), Post(entries),
         \A i \in DOMAIN entries : entries[i].id = txSeq + i
  PROVE  Behind(log, entries, log') /\ Stamped(log', txSeq')
<1>1. log \in Seq(Transaction) /\ txSeq \in Nat /\ log' = log \o entries /\ txSeq' = txSeq + Len(entries)
  BY DEF LogTyped, Post
<1>2. Behind(log, entries, log')
  BY <1>1, LogJoined
<1>. DEFINE m == Len(log)
            n == Len(entries)
<1>3. /\ m \in Nat /\ n \in Nat /\ DOMAIN log = 1..m /\ DOMAIN entries = 1..n
      /\ DOMAIN log' = 1..(m + n)
      /\ \A i \in 1..m : log'[i] = log[i]
      /\ \A i \in 1..n : log'[m + i] = entries[i]
  BY <1>1, <1>2 DEF Behind
<1>. HIDE DEF m, n
<1>4. ASSUME NEW i \in 1..(m + n)
      PROVE  \/ i \in 1..m /\ log'[i] = log[i] /\ log'[i].id \in 1..txSeq
             \/ i > m /\ log'[i].id = txSeq + (i - m) /\ log'[i].id \in (txSeq + 1)..(txSeq + n)
  <2>1. CASE i <= m
    <3>1. i \in 1..m
      BY <1>3, <2>1
    <3>. QED BY <1>3, <3>1 DEF Stamped
  <2>2. CASE ~(i <= m)
    <3>1. i - m \in 1..n /\ m + (i - m) = i
      BY <1>3, <2>2
    <3>2. log'[m + (i - m)] = entries[i - m] /\ entries[i - m].id = txSeq + (i - m)
      BY <1>3, <3>1
    <3>3. log'[i].id = txSeq + (i - m)
      BY <3>1, <3>2
    <3>. QED BY <1>1, <1>3, <2>2, <3>1, <3>3
  <2>. QED BY <2>1, <2>2
<1>5. \A i \in 1..(m + n) : log'[i].id \in 1..(txSeq + n)
  <2>1. \A x \in 1..txSeq : x \in 1..(txSeq + n)
    BY <1>1, <1>3
  <2>2. \A x \in (txSeq + 1)..(txSeq + n) : x \in 1..(txSeq + n)
    BY <1>1, <1>3
  <2>. QED BY <1>4, <2>1, <2>2
<1>6. ASSUME NEW i \in 1..(m + n), NEW j \in 1..(m + n), i < j
      PROVE  /\ log'[i].id # log'[j].id
             /\ log'[i].account = log'[j].account => log'[i].id < log'[j].id
  <2>1. CASE j \in 1..m
    <3>1. i \in 1..m /\ i # j
      BY <1>3, <1>6, <2>1
    <3>. QED BY <1>3, <1>6, <2>1, <3>1 DEF Stamped
  <2>2. CASE j \notin 1..m /\ i \in 1..m
    <3>1. log'[i].id \in 1..txSeq
      BY <1>3, <2>2 DEF Stamped
    <3>2. log'[j].id \in (txSeq + 1)..(txSeq + n)
      BY <1>4, <2>2
    <3>3. \A x \in 1..txSeq, y \in (txSeq + 1)..(txSeq + n) : x < y /\ x # y
      BY <1>1, <1>3
    <3>. QED BY <3>1, <3>2, <3>3
  <2>3. CASE j \notin 1..m /\ i \notin 1..m
    <3>1. log'[i].id = txSeq + (i - m) /\ log'[j].id = txSeq + (j - m)
      BY <1>4, <2>3
    <3>. QED BY <1>1, <1>3, <1>6, <3>1
  <2>. QED BY <2>1, <2>2, <2>3
<1>7. \A i, j \in 1..(m + n) : i # j => i < j \/ j < i
  BY <1>3
<1>8. Stamped(log', txSeq')
  <2>1. DOMAIN log' = 1..(m + n) /\ txSeq' = txSeq + n
    BY <1>1, <1>3 DEF n
  <2>2. \A i \in DOMAIN log' : log'[i].id \in 1..txSeq'
    BY <1>5, <2>1
  <2>3. \A i, j \in DOMAIN log' : i # j => log'[i].id # log'[j].id
    BY <1>6, <1>7, <2>1
  <2>4. \A i, j \in DOMAIN log' :
          i < j /\ log'[i].account = log'[j].account => log'[i].id < log'[j].id
    BY <1>6, <2>1
  <2>. QED BY <2>2, <2>3, <2>4 DEF Stamped
<1>. QED BY <1>2, <1>8

\* A log that stands for a stamped one is stamped.
LEMMA StandsStamped ==
  ASSUME NEW new, NEW old, NEW origin, NEW n, Stands(new, old, origin), Stamped(old, n)
  PROVE  Stamped(new, n)
BY DEF Stands, Stamped

LEMMA CompactAccounted ==
  ASSUME LogTyped, Accounted, Compact
  PROVE  Accounted' /\ \E origin : Stands(log', log, origin)
<1>. DEFINE dropped == SubSeq(log, 1, Len(log) - LogKeep)
<1>1. /\ log \in Seq(Transaction) /\ LogKeep \in Nat /\ LogKeep < Len(log) /\ mintedBase \in Int
      /\ dropped \in Seq(Transaction)
  BY RiskEngineAssumption DEF LogTyped, Compact
<1>2. /\ log' = CompactedLog(log, LogKeep) /\ mintedBase' = mintedBase + MintedIn(dropped)
      /\ UNCHANGED <<ledger, txSeq, everMinted>>
  BY DEF Compact
<1>3. /\ \E origin : Stands(log', log, origin)
      /\ \A a : /\ SumFunction(Moves(log', a)) = SumFunction(Moves(log, a))
                /\ SumFunction(Holds(log', a)) = SumFunction(Holds(log, a))
      /\ MintedIn(log) = MintedIn(dropped) + MintedIn(log')
  BY <1>1, <1>2, CompactionIs
<1>4. Stamped(log', txSeq')
  BY <1>2, <1>3, StandsStamped DEF Accounted
<1>5. log' \in Seq(Transaction)
  BY <1>1, <1>2, CompactedLogTyped
<1>. HIDE DEF dropped
<1>6. mintedBase' + SumFunction(Mints(log')) = everMinted'
  <2>1. SumFunction(Mints(log)) = MintedIn(log) /\ SumFunction(Mints(log')) = MintedIn(log')
    BY <1>1, <1>5, LogIs
  <2>2. MintedIn(log') \in Int /\ MintedIn(dropped) \in Int /\ MintedIn(log) \in Int
    BY <1>1, <1>5, LogSums
  <2>. QED BY <1>1, <1>2, <1>3, <2>1, <2>2 DEF Accounted, Totals
<1>. QED BY <1>2, <1>3, <1>4, <1>6 DEF Accounted, Totals
\* What the page shows next to an id that is already taken, it showed before.
Keeps(old, new, n) ==
  \A j \in DOMAIN new : new[j].id \in 1..n =>
    \E i \in DOMAIN old :
      LET a == new[j].account
      IN  /\ old[i].id = new[j].id /\ old[i].account = a
          /\ SumTo(Moves(new, a), j) = SumTo(Moves(old, a), i)
          /\ SumTo(Holds(new, a), j) = SumTo(Holds(old, a), i)

LEMMA PostKeeps ==
  ASSUME NEW entries, entries \in Seq(Transaction), txSeq \in Nat, log \in Seq(Transaction),
         Behind(log, entries, log'), \A i \in DOMAIN entries : entries[i].id = txSeq + i
  PROVE  Keeps(log, log', txSeq)
<1>. DEFINE m == Len(log)
            n == Len(entries)
<1>1. /\ m \in Nat /\ n \in Nat /\ DOMAIN log = 1..m /\ DOMAIN entries = 1..n
      /\ DOMAIN log' = 1..(m + n)
      /\ \A i \in 1..m : log'[i] = log[i]
      /\ \A i \in 1..n : log'[m + i] = entries[i]
      /\ \A a : \A k \in 0..m : /\ SumTo(Moves(log', a), k) = SumTo(Moves(log, a), k)
                                /\ SumTo(Holds(log', a), k) = SumTo(Holds(log, a), k)
  BY DEF Behind
<1>. HIDE DEF m, n
<1>2. ASSUME NEW j \in 1..(m + n), log'[j].id \in 1..txSeq, NEW a, a = log'[j].account
      PROVE  /\ j \in 1..m /\ log[j] = log'[j]
             /\ SumTo(Moves(log', a), j) = SumTo(Moves(log, a), j)
             /\ SumTo(Holds(log', a), j) = SumTo(Holds(log, a), j)
  <2>1. ASSUME ~(j <= m) PROVE FALSE
    <3>1. j - m \in 1..n /\ m + (j - m) = j
      BY <1>1, <2>1
    <3>2. log'[m + (j - m)] = entries[j - m] /\ entries[j - m].id = txSeq + (j - m)
      BY <1>1, <3>1
    <3>3. txSeq + (j - m) \in 1..txSeq
      BY <1>2, <3>1, <3>2
    <3>. QED BY <1>1, <3>1, <3>3
  <2>2. j \in 1..m /\ j \in 0..m
    BY <1>1, <2>1
  <2>. QED BY <1>1, <2>2
<1>. QED BY <1>1, <1>2 DEF Keeps

LEMMA StandsKeeps ==
  ASSUME NEW new, NEW old, NEW origin, Stands(new, old, origin)
  PROVE  \A n : Keeps(old, new, n)
<1>1. ASSUME NEW j \in DOMAIN new, NEW a, a = new[j].account
      PROVE  /\ origin[j] \in DOMAIN old
             /\ old[origin[j]].id = new[j].id /\ old[origin[j]].account = a
             /\ SumTo(Moves(new, a), j) = SumTo(Moves(old, a), origin[j])
             /\ SumTo(Holds(new, a), j) = SumTo(Holds(old, a), origin[j])
  BY <1>1 DEF Stands
<1>. QED BY <1>1 DEF Keeps

\* The effect of a list of entries on the balances it is posted with.
Explains(entries) ==
  /\ entries \in Seq(Transaction)
  /\ \A i \in DOMAIN entries : entries[i].id = txSeq + i
  /\ Post(entries)
  /\ \A c \in Accounts :
       /\ ledger'.available[c] = ledger.available[c] + SumFunction(Moves(entries, c))
       /\ ledger'.frozen[c] = ledger.frozen[c] + SumFunction(Holds(entries, c))
  /\ mintedBase' = mintedBase /\ everMinted' = everMinted + SumFunction(Mints(entries))

LEMMA ExplainedStep ==
  ASSUME LogTyped, Accounted, NEW entries, Explains(entries)
  PROVE  Accounted' /\ Keeps(log, log', txSeq)
<1>. USE DEF Explains
<1>1. Behind(log, entries, log') /\ Stamped(log', txSeq')
  BY PostStamps DEF Accounted
<1>2. Keeps(log, log', txSeq)
  BY <1>1, PostKeeps DEF LogTyped
<1>3. /\ SumFunction(Mints(log')) = SumFunction(Mints(log)) + SumFunction(Mints(entries))
      /\ \A a : /\ SumFunction(Moves(log', a)) = SumFunction(Moves(log, a)) + SumFunction(Moves(entries, a))
                /\ SumFunction(Holds(log', a)) = SumFunction(Holds(log, a)) + SumFunction(Holds(entries, a))
  BY <1>1 DEF Behind
<1>4. /\ \A c \in Accounts : /\ SumFunction(Moves(log, c)) = ledger.available[c]
                             /\ SumFunction(Holds(log, c)) = ledger.frozen[c]
      /\ mintedBase + SumFunction(Mints(log)) = everMinted
  BY DEF Accounted, Totals
<1>5. mintedBase' + SumFunction(Mints(log')) = everMinted'
  <2>1. MintedIn(log) \in Int /\ MintedIn(entries) \in Int /\ mintedBase \in Int
    BY LogSums DEF LogTyped
  <2>2. MintedIn(log) = SumFunction(Mints(log)) /\ MintedIn(entries) = SumFunction(Mints(entries))
    BY LogIs DEF LogTyped
  <2>. QED BY <1>3, <1>4, <2>1, <2>2
<1>6. \A c \in Accounts : /\ SumFunction(Moves(log', c)) = ledger'.available[c]
                          /\ SumFunction(Holds(log', c)) = ledger'.frozen[c]
  BY <1>3, <1>4
<1>. QED BY <1>1, <1>2, <1>5, <1>6 DEF Accounted, Totals

\* A method that posts one entry, and one that posts two.
LEMMA OneExplains ==
  ASSUME txSeq \in Nat, NEW a \in Accounts, NEW da \in Int, NEW df \in Int,
         NEW reason \in {"mint", "move", "settlement"}, Post(<<Tx(1, a, da, df, reason)>>),
         \A c \in Accounts :
           /\ ledger'.available[c] = ledger.available[c] + (IF c = a THEN da ELSE 0)
           /\ ledger'.frozen[c] = ledger.frozen[c] + (IF c = a THEN df ELSE 0),
         mintedBase' = mintedBase, everMinted' = everMinted + (IF reason = "mint" THEN da ELSE 0)
  PROVE  \E entries : Explains(entries)
<1>. DEFINE e == Tx(1, a, da, df, reason)
<1>1. e \in Transaction
  <2>1. 1 \in Nat
    OBVIOUS
  <2>. QED BY <2>1, TxTyped
<1>2. /\ e.id = txSeq + 1 /\ e.account = a /\ e.available = da /\ e.frozen = df
      /\ e.reason = reason
  BY DEF Tx
<1>3. Post(<<e>>)
  OBVIOUS
<1>. HIDE DEF e
<1>4. <<e>> \in Seq(Transaction) /\ \A i \in DOMAIN <<e>> : <<e>>[i].id = txSeq + i
  BY <1>1, <1>2
<1>5. /\ \A c : /\ SumFunction(Moves(<<e>>, c)) = IF c = a THEN da ELSE 0
                /\ SumFunction(Holds(<<e>>, c)) = IF c = a THEN df ELSE 0
      /\ SumFunction(Mints(<<e>>)) = IF reason = "mint" THEN da ELSE 0
  <2>1. /\ \A c : /\ SumFunction(Moves(<<e>>, c)) = IF e.account = c THEN e.available ELSE 0
                  /\ SumFunction(Holds(<<e>>, c)) = IF e.account = c THEN e.frozen ELSE 0
        /\ SumFunction(Mints(<<e>>)) = IF e.reason = "mint" THEN e.available ELSE 0
    BY <1>1, OneEntry
  <2>. QED BY <1>2, <2>1
<1>6. Explains(<<e>>)
  BY <1>3, <1>4, <1>5 DEF Explains
<1>. QED BY <1>6

LEMMA TwoExplain ==
  ASSUME txSeq \in Nat, NEW a \in Accounts, NEW b \in Accounts,
         NEW d1 \in Int, NEW d2 \in Int, NEW d3 \in Int, NEW d4 \in Int,
         Post(<<Tx(1, a, d1, d2, "move"), Tx(2, b, d3, d4, "move")>>),
         \A c \in Accounts :
           /\ ledger'.available[c] =
                ledger.available[c] + ((IF c = a THEN d1 ELSE 0) + (IF c = b THEN d3 ELSE 0))
           /\ ledger'.frozen[c] =
                ledger.frozen[c] + ((IF c = a THEN d2 ELSE 0) + (IF c = b THEN d4 ELSE 0)),
         mintedBase' = mintedBase, everMinted' = everMinted, everMinted \in Nat
  PROVE  \E entries : Explains(entries)
<1>. DEFINE e == Tx(1, a, d1, d2, "move")
            f == Tx(2, b, d3, d4, "move")
<1>1. e \in Transaction /\ f \in Transaction
  <2>1. 1 \in Nat /\ 2 \in Nat
    OBVIOUS
  <2>. QED BY <2>1, TxTyped
<1>2. /\ e.id = txSeq + 1 /\ e.account = a /\ e.available = d1 /\ e.frozen = d2
      /\ f.id = txSeq + 2 /\ f.account = b /\ f.available = d3 /\ f.frozen = d4
      /\ e.reason = "move" /\ f.reason = "move"
  BY DEF Tx
<1>. DEFINE r == <<e, f>>
<1>3. Post(r)
  OBVIOUS
<1>. HIDE DEF e, f
<1>4. r \in Seq(Transaction) /\ r = <<e>> \o <<f>> /\ <<e>> \in Seq(Transaction) /\ <<f>> \in Seq(Transaction)
  <2>1. r \in Seq(Transaction) /\ <<e>> \in Seq(Transaction) /\ <<f>> \in Seq(Transaction)
    BY <1>1
  <2>2. r = <<e>> \o <<f>>
    <3>. DEFINE p == <<e>>
                q == <<f>>
                t == p \o q
    <3>1. /\ r \in Seq(Transaction) /\ Len(r) = 2 /\ r[1] = e /\ r[2] = f
          /\ p \in Seq(Transaction) /\ Len(p) = 1 /\ p[1] = e
          /\ q \in Seq(Transaction) /\ Len(q) = 1 /\ q[1] = f
      BY <1>1
    <3>. HIDE DEF r, p, q
    <3>2. t \in Seq(Transaction) /\ Len(t) = 2 /\ t[1] = e /\ t[2] = f
      <4>1. Behind(p, q, t)
        BY <3>1, LogJoined
      <4>2. t \in Seq(Transaction) /\ Len(t) = Len(p) + Len(q) /\ 1 \in 1..Len(p) /\ 1 \in 1..Len(q)
        BY <3>1, <4>1 DEF Behind
      <4>3. t[1] = p[1] /\ t[Len(p) + 1] = q[1]
        BY <4>1, <4>2 DEF Behind
      <4>. HIDE DEF t
      <4>. QED BY <3>1, <4>2, <4>3
    <3>. HIDE DEF t
    <3>3. r = t
      BY <3>1, <3>2
    <3>. QED BY <3>3 DEF t, p, q
  <2>. QED BY <2>1, <2>2
<1>5. \A i \in DOMAIN r : r[i].id = txSeq + i
  <2>1. DOMAIN r = {1, 2} /\ r[1] = e /\ r[2] = f
    OBVIOUS
  <2>. HIDE DEF r
  <2>. QED BY <1>2, <2>1
<1>6. Behind(<<e>>, <<f>>, r)
  <2>. HIDE DEF r
  <2>. QED BY <1>4, LogJoined
<1>. HIDE DEF r
<1>7. /\ \A c : /\ SumFunction(Moves(<<e>>, c)) = IF e.account = c THEN e.available ELSE 0
                /\ SumFunction(Holds(<<e>>, c)) = IF e.account = c THEN e.frozen ELSE 0
      /\ SumFunction(Mints(<<e>>)) = IF e.reason = "mint" THEN e.available ELSE 0
  BY <1>1, OneEntry
<1>8. /\ \A c : /\ SumFunction(Moves(<<f>>, c)) = IF f.account = c THEN f.available ELSE 0
                /\ SumFunction(Holds(<<f>>, c)) = IF f.account = c THEN f.frozen ELSE 0
      /\ SumFunction(Mints(<<f>>)) = IF f.reason = "mint" THEN f.available ELSE 0
  BY <1>1, OneEntry
<1>9. /\ \A c : /\ SumFunction(Moves(r, c)) = (IF c = a THEN d1 ELSE 0) + (IF c = b THEN d3 ELSE 0)
                /\ SumFunction(Holds(r, c)) = (IF c = a THEN d2 ELSE 0) + (IF c = b THEN d4 ELSE 0)
      /\ SumFunction(Mints(r)) = 0
  <2>1. /\ SumFunction(Mints(r)) = SumFunction(Mints(<<e>>)) + SumFunction(Mints(<<f>>))
        /\ \A c : /\ SumFunction(Moves(r, c)) = SumFunction(Moves(<<e>>, c)) + SumFunction(Moves(<<f>>, c))
                  /\ SumFunction(Holds(r, c)) = SumFunction(Holds(<<e>>, c)) + SumFunction(Holds(<<f>>, c))
    BY <1>6 DEF Behind
  <2>2. SumFunction(Mints(r)) = 0
    BY <1>2, <1>7, <1>8, <2>1
  <2>3. ASSUME NEW c
        PROVE  /\ SumFunction(Moves(r, c)) = (IF c = a THEN d1 ELSE 0) + (IF c = b THEN d3 ELSE 0)
               /\ SumFunction(Holds(r, c)) = (IF c = a THEN d2 ELSE 0) + (IF c = b THEN d4 ELSE 0)
    <3>1. /\ SumFunction(Moves(<<e>>, c)) = IF c = a THEN d1 ELSE 0
          /\ SumFunction(Holds(<<e>>, c)) = IF c = a THEN d2 ELSE 0
      BY <1>2, <1>7
    <3>2. /\ SumFunction(Moves(<<f>>, c)) = IF c = b THEN d3 ELSE 0
          /\ SumFunction(Holds(<<f>>, c)) = IF c = b THEN d4 ELSE 0
      BY <1>2, <1>8
    <3>. QED BY <2>1, <3>1, <3>2
  <2>. QED BY <2>2, <2>3
<1>10. everMinted' = everMinted + SumFunction(Mints(r))
  BY <1>9
<1>11. \A c \in Accounts :
         /\ ledger'.available[c] = ledger.available[c] + SumFunction(Moves(r, c))
         /\ ledger'.frozen[c] = ledger.frozen[c] + SumFunction(Holds(r, c))
  BY <1>9
<1>12. Explains(r)
  BY <1>3, <1>4, <1>5, <1>10, <1>11 DEF Explains
<1>. QED BY <1>12
\* Each method's effect on the balances, as its entries tell it.
LEMMA StepAccounted ==
  ASSUME IInv, Accounted, [Next]_vars
  PROVE  Accounted' /\ Keeps(log, log', txSeq)
<1>0. /\ LogTyped /\ SheetInvariant /\ txSeq \in Nat /\ everMinted \in Nat
      /\ ledger \in Ledgers(Accounts, LockKeys)
  BY IInvParts, SheetTyped DEF LogTyped
<1>1. /\ ledger.available \in [Accounts -> Int] /\ ledger.frozen \in [Accounts -> Int]
      /\ \A c \in Accounts : ledger.available[c] \in Int /\ ledger.frozen[c] \in Int
      /\ \A c \in Accounts, k \in LockKeys : ledger.locks[c][k] \in Int
      /\ ledger = [available |-> ledger.available, frozen |-> ledger.frozen, locks |-> ledger.locks]
  BY <1>0, SoundFields DEF SheetInvariant, Ledgers
<1>2. CASE UNCHANGED <<log, ledger, txSeq, mintedBase, everMinted>>
  <2>1. Keeps(log, log', txSeq)
    BY <1>2 DEF Keeps
  <2>2. Accounted'
    BY <1>2 DEF Accounted, Totals
  <2>. QED BY <2>1, <2>2
<1>3. CASE Compact
  BY <1>0, <1>3, CompactAccounted, StandsKeeps
<1>4. ASSUME NEW entries, Explains(entries) PROVE Accounted' /\ Keeps(log, log', txSeq)
  BY <1>0, <1>4, ExplainedStep
<1>5. ASSUME NEW a \in Accounts, NEW x \in Amounts, MintCredits(a, x)
      PROVE  \E entries : Explains(entries)
  <2>1. /\ x \in Int /\ 0 \in Int /\ "mint" \in {"mint", "move", "settlement"}
        /\ ledger' = Mint(ledger, a, x) /\ Post(<<Tx(1, a, x, 0, "mint")>>)
        /\ mintedBase' = mintedBase /\ everMinted' = everMinted + x
    BY <1>5, ConstantsOK DEF MintCredits
  <2>2. \A c \in Accounts :
          /\ ledger'.available[c] = ledger.available[c] + (IF c = a THEN x ELSE 0)
          /\ ledger'.frozen[c] = ledger.frozen[c] + (IF c = a THEN 0 ELSE 0)
    BY <1>1, <2>1 DEF Mint
  <2>. QED BY <1>0, <2>1, <2>2, OneExplains
<1>6. ASSUME NEW a \in Accounts, NEW k \in LockKeys, NEW p \in Payouts, Settle(a, k, p)
      PROVE  \E entries : Explains(entries)
  <2>. DEFINE y == -ledger.locks[a][k]
  <2>1. /\ p \in Int /\ y \in Int /\ "settlement" \in {"mint", "move", "settlement"}
        /\ ledger' = SettleLock(ledger, a, k, p) /\ Post(<<Tx(1, a, p, y, "settlement")>>)
        /\ mintedBase' = mintedBase /\ everMinted' = everMinted + 0
    BY <1>0, <1>1, <1>6, ConstantsOK DEF Settle
  <2>2. \A c \in Accounts :
          /\ ledger'.available[c] = ledger.available[c] + (IF c = a THEN p ELSE 0)
          /\ ledger'.frozen[c] = ledger.frozen[c] + (IF c = a THEN y ELSE 0)
    BY <1>1, <2>1 DEF SettleLock
  <2>. HIDE DEF y
  <2>. QED BY <1>0, <2>1, <2>2, OneExplains
<1>7. ASSUME NEW a \in Accounts, NEW k \in LockKeys, NEW x \in Amounts,
             LockCredits(a, k, x) \/ IncreaseLock(a, k, x)
      PROVE  \E entries : Explains(entries)
  <2>. DEFINE y == -x
  <2>1. /\ x \in Int /\ y \in Int /\ "move" \in {"mint", "move", "settlement"}
        /\ ledger' = Freeze(ledger, a, k, x) /\ Post(<<Tx(1, a, y, x, "move")>>)
        /\ mintedBase' = mintedBase /\ everMinted' = everMinted + 0
    BY <1>0, <1>7, ConstantsOK DEF LockCredits, IncreaseLock
  <2>2. \A c \in Accounts :
          /\ ledger'.available[c] = ledger.available[c] + (IF c = a THEN y ELSE 0)
          /\ ledger'.frozen[c] = ledger.frozen[c] + (IF c = a THEN x ELSE 0)
    BY <1>1, <2>1 DEF Freeze
  <2>. HIDE DEF y
  <2>. QED BY <1>0, <2>1, <2>2, OneExplains
<1>8. ASSUME NEW a \in Accounts, NEW k \in LockKeys, NEW x \in Amounts, DecreaseOrRelease(a, k, x)
      PROVE  \E entries : Explains(entries)
  <2>. DEFINE y == -x
  <2>1. /\ x \in Int /\ y \in Int /\ "move" \in {"mint", "move", "settlement"}
        /\ ledger' = DecreaseLock(ledger, a, k, x) /\ Post(<<Tx(1, a, x, y, "move")>>)
        /\ mintedBase' = mintedBase /\ everMinted' = everMinted + 0
    BY <1>0, <1>8, ConstantsOK DEF DecreaseOrRelease
  <2>2. \A c \in Accounts :
          /\ ledger'.available[c] = ledger.available[c] + (IF c = a THEN x ELSE 0)
          /\ ledger'.frozen[c] = ledger.frozen[c] + (IF c = a THEN y ELSE 0)
    BY <1>1, <2>1 DEF DecreaseLock
  <2>. HIDE DEF y
  <2>. QED BY <1>0, <2>1, <2>2, OneExplains
<1>9. ASSUME NEW f \in [Accounts -> Int], NEW a \in Accounts, NEW b \in Accounts, NEW x \in Int
      PROVE  \A c \in Accounts :
               Move(f, a, b, x)[c] = f[c] + ((IF c = a THEN -x ELSE 0) + (IF c = b THEN x ELSE 0))
  <2>. DEFINE g == [f EXCEPT ![a] = @ - x]
  <2>1. g \in [Accounts -> Int] /\ \A c \in Accounts : g[c] = f[c] + (IF c = a THEN -x ELSE 0)
    OBVIOUS
  <2>. HIDE DEF g
  <2>2. Move(f, a, b, x) = [g EXCEPT ![b] = @ + x]
    BY DEF Move, g
  <2>3. \A c \in Accounts : [g EXCEPT ![b] = @ + x][c] = g[c] + (IF c = b THEN x ELSE 0)
    BY <2>1
  <2>. QED BY <2>1, <2>2, <2>3
<1>10. ASSUME NEW a \in Accounts, NEW b \in Accounts, NEW x \in Amounts, Transfer(a, b, x)
       PROVE  \E entries : Explains(entries)
  <2>. DEFINE y == -x
  <2>1. /\ x \in Int /\ y \in Int /\ 0 \in Int
        /\ ledger' = TransferAvailable(ledger, a, b, x)
        /\ Post(<<Tx(1, a, y, 0, "move"), Tx(2, b, x, 0, "move")>>)
        /\ mintedBase' = mintedBase /\ everMinted' = everMinted
    BY <1>10, ConstantsOK DEF Transfer
  <2>2. ledger'.available = Move(ledger.available, a, b, x) /\ ledger'.frozen = ledger.frozen
    BY <1>1, <2>1 DEF TransferAvailable
  <2>3. \A c \in Accounts :
          /\ ledger'.available[c] =
               ledger.available[c] + ((IF c = a THEN y ELSE 0) + (IF c = b THEN x ELSE 0))
          /\ ledger'.frozen[c] =
               ledger.frozen[c] + ((IF c = a THEN 0 ELSE 0) + (IF c = b THEN 0 ELSE 0))
    <3>1. \A c \in Accounts :
            ledger'.available[c] =
              ledger.available[c] + ((IF c = a THEN y ELSE 0) + (IF c = b THEN x ELSE 0))
      BY <1>1, <1>9, <2>1, <2>2
    <3>. QED BY <1>1, <2>2, <3>1
  <2>. HIDE DEF y
  <2>. QED BY <1>0, <2>1, <2>3, TwoExplain
<1>11. ASSUME NEW a \in Accounts, NEW b \in Accounts, NEW k \in LockKeys, NEW j \in LockKeys,
              NEW x \in Amounts, TransferLocked(a, k, b, j, x)
       PROVE  \E entries : Explains(entries)
  <2>. DEFINE y == -x
  <2>1. /\ x \in Int /\ y \in Int /\ 0 \in Int
        /\ ledger' = TransferFrozen(ledger, a, k, b, j, x)
        /\ Post(<<Tx(1, a, 0, y, "move"), Tx(2, b, 0, x, "move")>>)
        /\ mintedBase' = mintedBase /\ everMinted' = everMinted
    BY <1>11, ConstantsOK DEF TransferLocked
  <2>2. ledger'.frozen = Move(ledger.frozen, a, b, x) /\ ledger'.available = ledger.available
    BY <1>1, <2>1 DEF TransferFrozen
  <2>3. \A c \in Accounts :
          /\ ledger'.available[c] =
               ledger.available[c] + ((IF c = a THEN 0 ELSE 0) + (IF c = b THEN 0 ELSE 0))
          /\ ledger'.frozen[c] =
               ledger.frozen[c] + ((IF c = a THEN y ELSE 0) + (IF c = b THEN x ELSE 0))
    <3>1. \A c \in Accounts :
            ledger'.frozen[c] =
              ledger.frozen[c] + ((IF c = a THEN y ELSE 0) + (IF c = b THEN x ELSE 0))
      BY <1>1, <1>9, <2>1, <2>2
    <3>. QED BY <1>1, <2>2, <3>1
  <2>. HIDE DEF y
  <2>. QED BY <1>0, <2>1, <2>3, TwoExplain
<1>12. CASE \/ UNCHANGED vars
            \/ \E a \in Accounts : CreateAccount(a)
  BY <1>2, <1>12 DEF vars, CreateAccount
<1>. QED BY <1>3, <1>4, <1>5, <1>6, <1>7, <1>8, <1>10, <1>11, <1>12 DEF Next

\* The log accounts for the balances in every reachable state.
THEOREM LogAccounts == Spec => [](IInv /\ Accounted)
<1>1. Init => IInv /\ Accounted
  BY InitLog, InitSheet, IInvParts, InitAccounted
<1>2. IInv /\ Accounted /\ [Next]_vars => Accounted'
  BY StepAccounted
<1>. QED BY <1>1, <1>2, InvariantHolds, PTL DEF Spec
-----------------------------------------------------------------------------
(* What the page shows.                                                    *)

\* An account's rows: the number of its entries, from the newest down.
LEMMA ActivityIs ==
  ASSUME NEW entries \in Seq(Transaction), NEW a, NEW E, E = EntriesOf(entries, a)
  PROVE  /\ E \subseteq 1..Len(entries) /\ E \subseteq Int /\ IsFiniteSet(E)
         /\ Cardinality(E) \in 0..Len(entries)
         /\ Activity(entries, a) = [k \in 1..Cardinality(E) |-> Row(entries, NthLast(E, k))]
         /\ \A k \in 1..Cardinality(E) : NthLast(E, k) \in E
<1>1. E \subseteq 1..Len(entries) /\ E \subseteq Int /\ IsFiniteSet(E)
  BY EntriesAre
<1>2. Cardinality(E) \in 0..Len(entries)
  <2>1. Len(entries) \in Nat
    OBVIOUS
  <2>2. IsFiniteSet(1..Len(entries)) /\ Cardinality(1..Len(entries)) = Len(entries)
    BY <2>1, FS_Interval
  <2>3. Cardinality(E) <= Len(entries) /\ Cardinality(E) \in Nat
    BY <1>1, <2>2, FS_Subset, FS_CardinalityType
  <2>. QED BY <2>1, <2>3
<1>3. Activity(entries, a) = [k \in 1..Cardinality(E) |-> Row(entries, NthLast(E, k))]
  BY DEF Activity, NewestFirst
<1>4. \A k \in 1..Cardinality(E) : NthLast(E, k) \in E
  BY <1>1, NthLastIs
<1>. QED BY <1>1, <1>2, <1>3, <1>4

\* The newest row shows the sums of all of the account's deltas.
LEMMA NewestRow ==
  ASSUME LogTyped, Accounted, NEW a \in accounts
  PROVE  LET activity == Activity(log, a)
             newest   == IF activity = <<>> THEN [availableAfter |-> 0, frozenAfter |-> 0]
                         ELSE Head(activity)
         IN  /\ newest.availableAfter = ledger.available[a]
             /\ newest.frozenAfter = ledger.frozen[a]
<1>. DEFINE E == EntriesOf(log, a)
            n == Cardinality(E)
            activity == Activity(log, a)
            f == Moves(log, a)
            h == Holds(log, a)
            l == Len(log)
<1>1. /\ l \in Nat /\ DOMAIN log = 1..l /\ f \in [1..l -> Int] /\ h \in [1..l -> Int]
      /\ log \in Seq(Transaction)
  BY LogIs DEF LogTyped
<1>2. /\ E \subseteq 1..l /\ E \subseteq Int /\ IsFiniteSet(E) /\ n \in 0..l
      /\ activity = [k \in 1..n |-> Row(log, NthLast(E, k))]
  BY <1>1, ActivityIs
<1>3. \A i \in 1..l : i \in E <=> log[i].account = a
  BY <1>1 DEF EntriesOf
<1>4. \A i \in 1..l : i \notin E => f[i] = 0 /\ h[i] = 0
  BY <1>1, <1>3 DEF Moves, Holds
<1>5. SumFunction(f) = ledger.available[a] /\ SumFunction(h) = ledger.frozen[a]
  <2>1. a \in Accounts
    BY DEF LogTyped
  <2>. QED BY <2>1 DEF Accounted, Totals
<1>. HIDE DEF E, n, activity, f, h, l
<1>6. CASE n = 0
  <2>1. activity = <<>>
    BY <1>2, <1>6
  <2>2. E = {}
    BY <1>2, <1>6, FS_EmptySet DEF n
  <2>3. SumFunction(f) = 0
    BY <1>1, <1>4, <2>2, SumOfZeros
  <2>4. SumFunction(h) = 0
    BY <1>1, <1>4, <2>2, SumOfZeros
  <2>. QED BY <1>5, <2>1, <2>3, <2>4 DEF activity
<1>7. CASE n # 0
  <2>. DEFINE m == NthLast(E, 1)
  <2>1. 1 \in 1..n
    BY <1>2, <1>7
  <2>2. m \in E /\ \A i \in E : i <= m
    <3>1. m \in E /\ \A k, q \in 1..n : k < q => NthLast(E, k) > NthLast(E, q)
      BY <1>2, <2>1, NthLastIs DEF n
    <3>2. ASSUME NEW i \in E PROVE i <= m
      <4>1. PICK k \in 1..n : NthLast(E, k) = i
        BY <1>2, NthLastIs DEF n
      <4>2. k = 1 \/ 1 < k
        BY <4>1
      <4>3. m \in Int /\ i \in Int
        BY <1>2, <3>1
      <4>4. CASE k = 1
        BY <4>1, <4>3, <4>4
      <4>5. CASE 1 < k
        BY <2>1, <3>1, <4>1, <4>3, <4>5
      <4>. QED BY <4>2, <4>4, <4>5
    <3>. QED BY <3>1, <3>2
  <2>3. activity # <<>> /\ Head(activity) = Row(log, m)
    BY <1>2, <2>1
  <2>. HIDE DEF m
  <2>4. m \in 1..l /\ m \in 0..l /\ m \in DOMAIN log /\ log[m].account = a
    BY <1>1, <1>2, <1>3, <2>2
  <2>5. \A i \in (m + 1)..l : i \in 1..l /\ i \notin E
    BY <1>1, <2>2, <2>4
  <2>6. \A i \in (m + 1)..l : f[i] = 0 /\ h[i] = 0
    BY <1>4, <2>5
  <2>7. SumTo(f, m) = SumFunction(f)
    BY ONLY <1>1, <2>4, <2>6, SumRests
  <2>8. SumTo(h, m) = SumFunction(h)
    BY ONLY <1>1, <2>4, <2>6, SumRests
  <2>9. /\ Head(activity).availableAfter = SumTo(f, m)
        /\ Head(activity).frozenAfter = SumTo(h, m)
    <3>1. Row(log, m) = [id |-> log[m].id, account |-> a,
                         availableAfter |-> SumTo(f, m), frozenAfter |-> SumTo(h, m)]
      BY <1>1, <2>4, RowIs DEF f, h
    <3>. QED BY <2>3, <3>1
  <2>. QED BY <1>5, <2>3, <2>7, <2>8, <2>9 DEF activity
<1>. QED BY <1>6, <1>7

\* The count of the credits ever minted.
LEMMA MintedCounted ==
  ASSUME LogTyped, Accounted
  PROVE  MintedSurvivesCompaction
<1>1. MintedIn(log) = SumFunction(Mints(log))
  BY LogIs DEF LogTyped
<1>. QED BY <1>1 DEF Accounted, Totals, MintedSurvivesCompaction

\* A row of a log, by its place.
LEMMA ShownIs ==
  ASSUME NEW entries \in Seq(Transaction), NEW row \in Shown(entries)
  PROVE  \E i \in DOMAIN entries :
           /\ row = [id |-> entries[i].id, account |-> entries[i].account,
                     availableAfter |-> SumTo(Moves(entries, entries[i].account), i),
                     frozenAfter |-> SumTo(Holds(entries, entries[i].account), i)]
<1>1. PICK a \in accounts : row \in Range(Activity(entries, a))
  BY DEF Shown
<1>. DEFINE E == EntriesOf(entries, a)
            n == Cardinality(E)
<1>2. /\ E \subseteq 1..Len(entries)
      /\ Activity(entries, a) = [k \in 1..n |-> Row(entries, NthLast(E, k))]
      /\ \A k \in 1..n : NthLast(E, k) \in E
  BY ActivityIs
<1>. HIDE DEF E, n
<1>3. PICK k \in 1..n : row = Row(entries, NthLast(E, k))
  BY <1>1, <1>2 DEF Range
<1>4. NthLast(E, k) \in DOMAIN entries
  <2>1. DOMAIN entries = 1..Len(entries)
    OBVIOUS
  <2>. QED BY <1>2, <2>1
<1>. QED BY <1>3, <1>4, RowIs
-----------------------------------------------------------------------------
(* Page after page.                                                        *)

\* What has been read of an account's rows after the first s of them, and at the
\* end; the step of AllPages; and its walk.
Underway(rows, s) ==
  [entries |-> Part(rows, s), next |-> IF s = 0 THEN 0 ELSE rows[s].id, ended |-> FALSE]
ReadAll(rows) == [entries |-> rows, next |-> 0, ended |-> TRUE]

NextPage(a, limit, read) ==
  LET page == ActivityPage(a, limit, read.next)
  IN  IF read.ended THEN read
      ELSE [entries |-> read.entries \o page.entries, next |-> page.next,
            ended |-> page.next = 0]

IsReading(g, a, limit, n) ==
  g = [S \in SUBSET Turns(n) |->
         IF S = {} THEN [entries |-> <<>>, next |-> 0, ended |-> FALSE]
         ELSE NextPage(a, limit, g[S \ {Max(S)}])]

LEMMA ReadingIsFold ==
  ASSUME NEW a, NEW limit
  PROVE  AllPages(a, limit) =
           (CHOOSE g : IsReading(g, a, limit, Len(log) + 1))[Turns(Len(log) + 1)].entries
BY DEF AllPages, FoldLeft, MapThenFoldSet, IsReading, NextPage, Turns

\* A list read up to s, what is behind s, and the first t of that.
Rest(rows, n, s) == [k \in 1..(n - s) |-> rows[s + k]]
ReadOn(rows, n, s, t) ==
  /\ Len(Rest(rows, n, s)) = n - s /\ Len(SubSeq(Rest(rows, n, s), 1, t)) = t
  /\ Part(rows, s) \o SubSeq(Rest(rows, n, s), 1, t) = Part(rows, s + t)
  /\ t > 0 => Last(SubSeq(Rest(rows, n, s), 1, t)) = rows[s + t]
  /\ Part(rows, n) = rows /\ Part(rows, 0) = <<>>

LEMMA PartsJoin ==
  ASSUME NEW R, NEW n \in Nat, NEW rows, rows \in [1..n -> R], NEW s \in 0..n, NEW t \in 0..(n - s)
  PROVE  ReadOn(rows, n, s, t)
<1>. DEFINE older == Rest(rows, n, s)
            p == Part(rows, s)
            q == SubSeq(older, 1, t)
            u == Part(rows, s + t)
<1>1. s \in Nat /\ t \in Nat /\ n - s \in Nat /\ s + t \in 0..n /\ s + t \in Nat
  OBVIOUS
<1>2. \A k \in 1..(n - s) : s + k \in 1..n
  OBVIOUS
<1>3. older \in Seq(R) /\ Len(older) = n - s
  <2>1. older \in [1..(n - s) -> R]
    BY <1>2 DEF Rest
  <2>. HIDE DEF older
  <2>. QED BY <1>1, <2>1
<1>4. p \in Seq(R) /\ Len(p) = s /\ \A i \in 1..s : p[i] = rows[i]
  <2>1. p \in [1..s -> R] /\ \A i \in 1..s : p[i] = rows[i]
    BY DEF Part
  <2>. HIDE DEF p
  <2>. QED BY <1>1, <2>1
<1>5. u \in Seq(R) /\ Len(u) = s + t /\ \A i \in 1..(s + t) : u[i] = rows[i]
  <2>1. u \in [1..(s + t) -> R] /\ \A i \in 1..(s + t) : u[i] = rows[i]
    BY <1>1 DEF Part
  <2>. HIDE DEF u
  <2>. QED BY <1>1, <2>1
<1>6. q \in Seq(R) /\ Len(q) = t /\ \A i \in 1..t : q[i] = rows[s + i]
  <2>1. q \in Seq(R) /\ Len(q) = t /\ \A i \in 1..t : q[i] = older[i]
    <3>. HIDE DEF older
    <3>. QED BY <1>1, <1>3
  <2>2. \A i \in 1..t : older[i] = rows[s + i]
    BY <1>1 DEF Rest
  <2>. QED BY <2>1, <2>2
<1>7. t > 0 => Last(q) = rows[s + t]
  <2>. HIDE DEF q
  <2>1. t > 0 => t \in 1..t
    BY <1>1
  <2>. QED BY <1>6, <2>1 DEF Last
<1>8. p \o q = u
  <2>. HIDE DEF p, q, u
  <2>. DEFINE v == p \o q
  <2>1. v \in Seq(R) /\ Len(v) = s + t
    <3>1. p \in Seq(R) /\ q \in Seq(R) /\ Len(p) = s /\ Len(q) = t
      BY <1>4, <1>6
    <3>2. v \in Seq(R)
      BY ONLY <3>1
    <3>3. Len(v) = Len(p) + Len(q)
      BY ONLY <3>1
    <3>. HIDE DEF v
    <3>. QED BY <3>1, <3>2, <3>3
  <2>2. ASSUME NEW i \in 1..(s + t) PROVE v[i] = u[i]
    <3>1. CASE i <= s
      <4>1. i \in 1..s
        BY <1>1, <3>1
      <4>2. v[i] = p[i]
        BY <1>4, <1>6, <4>1
      <4>. QED BY <1>4, <1>5, <4>1, <4>2
    <3>2. CASE ~(i <= s)
      <4>1. i - s \in 1..t /\ s + (i - s) = i
        BY <1>1, <3>2
      <4>2. v[i] = q[i - s]
        <5>1. /\ p \in Seq(R) /\ q \in Seq(R) /\ i \in 1..(Len(p) + Len(q)) /\ i > Len(p)
              /\ i - Len(p) = i - s
          BY <1>1, <1>4, <1>6, <3>2
        <5>2. (p \o q)[i] = q[i - Len(p)]
          BY ONLY <5>1
        <5>. QED BY <5>1, <5>2
      <4>. QED BY <1>5, <1>6, <4>1, <4>2
    <3>. QED BY <3>1, <3>2
  <2>. HIDE DEF v
  <2>3. v = u
    BY <1>5, <2>1, <2>2
  <2>. QED BY <2>3 DEF v
<1>9. Part(rows, n) = rows
  BY DEF Part
<1>10. Part(rows, 0) = <<>>
  BY DEF Part
<1>. QED BY <1>3, <1>6, <1>7, <1>8, <1>9, <1>10 DEF ReadOn

\* A page: the rows behind those that were read, at most `limit` of them.
LEMMA PageIs ==
  ASSUME LogTyped, Stamped(log, txSeq), NEW a, NEW limit \in Nat \ {0},
         NEW rows, rows = Activity(log, a), NEW n, n = Cardinality(EntriesOf(log, a)),
         NEW s \in 0..n, s = 0 \/ s < n
  PROVE  NextPage(a, limit, Underway(rows, s)) =
           IF n - s > limit THEN Underway(rows, s + limit) ELSE ReadAll(rows)
<1>. DEFINE E == EntriesOf(log, a)
            before == IF s = 0 THEN 0 ELSE rows[s].id
            places == {i \in E : before = 0 \/ log[i].id < before}
            older == NewestFirst(log, places)
            t == Min({limit, Len(older)})
            shown == SubSeq(older, 1, t)
            page == ActivityPage(a, limit, before)
            R == {Row(log, i) : i \in E}
<1>1. log \in Seq(Transaction) /\ txSeq \in Nat
  BY DEF LogTyped
<1>2. /\ E \subseteq 1..Len(log) /\ E \subseteq Int /\ IsFiniteSet(E) /\ n \in Nat
      /\ rows = [k \in 1..n |-> Row(log, NthLast(E, k))] /\ DOMAIN log = 1..Len(log)
      /\ \A k \in 1..n : NthLast(E, k) \in E
  <2>1. Len(log) \in Nat /\ DOMAIN log = 1..Len(log)
    BY <1>1
  <2>. QED BY <1>1, <2>1, ActivityIs
<1>3. \A i \in E : log[i].account = a /\ log[i].id \in 1..txSeq /\ log[i].id \in Int
  BY <1>1 DEF EntriesOf, Stamped
<1>4. \A i, j \in E : i < j => log[i].id < log[j].id
  BY <1>3 DEF Stamped, EntriesOf
<1>5. rows \in [1..n -> R]
  BY <1>2
<1>6. older = Rest(rows, n, s)
  <2>1. CASE s = 0
    <3>1. places = E
      BY <2>1
    <3>2. older = rows
      BY <1>2, <3>1 DEF NewestFirst
    <3>3. n - s = n /\ \A k \in 1..n : s + k = k
      BY <1>2, <2>1
    <3>. HIDE DEF older
    <3>. QED BY <1>2, <3>2, <3>3 DEF Rest
  <2>2. CASE s # 0
    <3>. DEFINE m == NthLast(E, s)
    <3>1. s \in 1..n /\ s \in 1..Cardinality(E)
      BY <1>2, <2>2
    <3>2. m \in E /\ m \in Int /\ rows[s] = Row(log, m)
      BY <1>2, <3>1
    <3>. HIDE DEF m
    <3>3. before = log[m].id /\ before # 0
      BY <1>3, <2>2, <3>2 DEF Row
    <3>. HIDE DEF before
    <3>4. places = {i \in E : i < m}
      <4>1. ASSUME NEW i \in E PROVE log[i].id < before <=> i < m
        <5>1. i \in Int /\ log[i].id \in Int /\ log[m].id \in Int
          BY <1>2, <1>3, <3>2
        <5>2. i < m => log[i].id < log[m].id
          BY <1>4, <3>2
        <5>3. m < i => log[m].id < log[i].id
          BY <1>4, <3>2
        <5>4. i = m => log[i].id = log[m].id
          OBVIOUS
        <5>. QED BY <3>2, <3>3, <5>1, <5>2, <5>3, <5>4
      <4>. QED BY <3>3, <4>1
    <3>. HIDE DEF places
    <3>5. /\ Cardinality(places) = n - s
          /\ \A k \in 1..Cardinality(places) : NthLast(places, k) = NthLast(E, s + k)
      BY <1>2, <3>1, <3>4, NthLastBelow DEF m
    <3>6. older = [k \in 1..(n - s) |-> Row(log, NthLast(E, s + k))]
      BY <3>5 DEF NewestFirst
    <3>7. \A k \in 1..(n - s) : rows[s + k] = Row(log, NthLast(E, s + k))
      <4>1. \A k \in 1..(n - s) : s + k \in 1..n
        BY <1>2
      <4>. QED BY <1>2, <4>1
    <3>. HIDE DEF older
    <3>. QED BY <3>6, <3>7 DEF Rest
  <2>. QED BY <2>1, <2>2
<1>7. page = [entries |-> shown, next |-> IF Len(older) > limit THEN Last(shown).id ELSE 0]
  BY DEF ActivityPage
<1>8. Underway(rows, s) = [entries |-> Part(rows, s), next |-> before, ended |-> FALSE]
  BY DEF Underway
<1>. HIDE DEF older, page, before, R
<1>9. NextPage(a, limit, Underway(rows, s)) =
        [entries |-> Part(rows, s) \o page.entries, next |-> page.next, ended |-> page.next = 0]
  BY <1>8 DEF NextPage, page
<1>10. Len(older) = n - s /\ n - s \in Nat /\ limit \in Nat /\ limit > 0
  <2>1. 0 \in 0..(n - s)
    BY <1>2
  <2>2. n - s \in Nat
    BY <1>2
  <2>3. ReadOn(rows, n, s, 0)
    BY <1>2, <1>5, <2>1, PartsJoin
  <2>. QED BY <1>6, <2>2, <2>3 DEF ReadOn
<1>11. t = (IF n - s > limit THEN limit ELSE n - s)
  <2>. DEFINE z == IF n - s > limit THEN limit ELSE n - s
              Q == {limit, Len(older)}
  <2>1. z \in Q /\ (\A y \in Q : z <= y) /\ \A y \in Q : y \in Int
    BY <1>10
  <2>2. Min(Q) \in Q /\ \A y \in Q : Min(Q) <= y
    <3>. HIDE DEF z, Q
    <3>. QED BY <2>1 DEF Min
  <2>3. \A x, y \in Q : x <= y /\ y <= x => x = y
    BY <2>1
  <2>4. z = Min(Q)
    <3>. HIDE DEF z, Q
    <3>. QED BY <2>1, <2>2, <2>3
  <2>. QED BY <2>4
<1>12. t \in 0..(n - s) /\ s + t \in Nat
  BY <1>2, <1>10, <1>11
<1>13. /\ Part(rows, s) \o shown = Part(rows, s + t)
       /\ t > 0 => Last(shown) = rows[s + t]
       /\ Part(rows, n) = rows
  <2>0. s \in 0..n /\ n \in Nat
    BY <1>2
  <2>. HIDE DEF t
  <2>1. /\ Part(rows, s) \o SubSeq(older, 1, t) = Part(rows, s + t)
        /\ t > 0 => Last(SubSeq(older, 1, t)) = rows[s + t]
        /\ Part(rows, n) = rows
    <3>1. ReadOn(rows, n, s, t)
      BY <1>5, <1>12, <2>0, PartsJoin
    <3>. QED BY <1>6, <3>1 DEF ReadOn
  <2>. QED BY <2>1
<1>. HIDE DEF t, shown
<1>14. CASE n - s > limit
  <2>1. t = limit /\ s + limit # 0 /\ s + limit \in 1..n /\ t > 0
    BY <1>2, <1>10, <1>11, <1>14
  <2>2. page.entries = shown /\ page.next = rows[s + limit].id
    BY <1>7, <1>10, <1>13, <1>14, <2>1
  <2>3. rows[s + limit].id # 0
    <3>. DEFINE j == s + limit
                i == NthLast(E, j)
    <3>1. i \in E /\ rows[j] = Row(log, i)
      BY <1>2, <2>1
    <3>. HIDE DEF i, j
    <3>2. rows[j].id = log[i].id
      BY <3>1 DEF Row
    <3>3. log[i].id # 0
      BY <1>3, <3>1
    <3>. QED BY <3>2, <3>3 DEF j
  <2>. QED BY <1>9, <1>13, <1>14, <2>1, <2>2, <2>3 DEF Underway
<1>15. CASE ~(n - s > limit)
  <2>1. t = n - s /\ s + t = n
    BY <1>2, <1>10, <1>11, <1>15
  <2>2. page.entries = shown /\ page.next = 0
    BY <1>7, <1>10, <1>15
  <2>. QED BY <1>9, <1>13, <1>15, <2>1, <2>2 DEF ReadAll
<1>. QED BY <1>14, <1>15
\* A page after another from the first, and every row has been read when there are
\* none left: at most one page more than the log has entries.
LEMMA PagesComplete ==
  ASSUME LogTyped, Stamped(log, txSeq), NEW a, NEW limit \in Nat \ {0}
  PROVE  AllPages(a, limit) = Activity(log, a)
<1>. DEFINE rows == Activity(log, a)
            n == Cardinality(EntriesOf(log, a))
            N == Len(log) + 1
            Q == {s \in 0..n : s = 0 \/ s < n}
            D == {Underway(rows, s) : s \in Q} \cup {ReadAll(rows)}
            h == [x \in D \X (1..N) |-> NextPage(a, limit, x[1])]
            base == [entries |-> <<>>, next |-> 0, ended |-> FALSE]
            g == CHOOSE f : IsReading(f, a, limit, N)
<1>1. /\ n \in Nat /\ N \in Nat /\ n < N
      /\ rows = [k \in 1..n |-> Row(log, NthLast(EntriesOf(log, a), k))]
  <2>1. log \in Seq(Transaction) /\ Len(log) \in Nat
    BY DEF LogTyped
  <2>2. n \in 0..Len(log) /\ rows = [k \in 1..n |-> Row(log, NthLast(EntriesOf(log, a), k))]
    BY <2>1, ActivityIs
  <2>. QED BY <2>1, <2>2
<1>2. ASSUME NEW s \in Q
      PROVE  NextPage(a, limit, Underway(rows, s)) =
               IF n - s > limit THEN Underway(rows, s + limit) ELSE ReadAll(rows)
  <2>1. s \in 0..n /\ (s = 0 \/ s < n)
    OBVIOUS
  <2>. HIDE DEF rows, n, Q
  <2>. QED BY <2>1, PageIs DEF rows, n
<1>3. NextPage(a, limit, ReadAll(rows)) = ReadAll(rows)
  BY DEF NextPage, ReadAll
<1>4. base = Underway(rows, 0)
  <2>1. Part(rows, 0) = <<>>
    BY DEF Part
  <2>. HIDE DEF rows
  <2>. QED BY <2>1 DEF Underway
<1>. HIDE DEF rows, n, N
<1>5. \A s \in Q : n - s > limit => s + limit \in Q /\ s + limit > s
  BY <1>1
<1>6. ASSUME NEW r \in D PROVE NextPage(a, limit, r) \in D
  <2>1. CASE r = ReadAll(rows)
    BY <1>3, <2>1
  <2>2. CASE r # ReadAll(rows)
    <3>1. PICK s \in Q : r = Underway(rows, s)
      BY <2>2
    <3>2. NextPage(a, limit, r) = IF n - s > limit THEN Underway(rows, s + limit) ELSE ReadAll(rows)
      BY <1>2, <3>1
    <3>. HIDE DEF Q
    <3>. QED BY <1>5, <3>2
  <2>. QED BY <2>1, <2>2
<1>7. base \in D
  <2>1. 0 \in Q
    BY <1>1
  <2>. HIDE DEF Q, base
  <2>. QED BY <1>4, <2>1
<1>. HIDE DEF D, base
<1>8. h \in Steps(D, 1..N)
  BY <1>6 DEF Steps
<1>9. \E f : IsReading(f, a, limit, N)
  <2>1. PICK f : IsWalk(f, N, D, h, base)
    <3>. HIDE DEF h
    <3>. QED BY <1>1, <1>7, <1>8, WalkExists
  <2>2. Turns(N) = 1..N
    BY <1>1, TurnOK
  <2>3. /\ f \in [SUBSET Turns(N) -> D]
        /\ \A S \in SUBSET Turns(N) :
             f[S] = IF S = {} THEN base ELSE h[<<f[S \ {Max(S)}], Turn(N, S)>>]
    <3>. HIDE DEF h
    <3>. QED BY <2>1 DEF IsWalk
  <2>4. ASSUME NEW S \in SUBSET Turns(N), S # {}
        PROVE  f[S] = NextPage(a, limit, f[S \ {Max(S)}])
    <3>1. f[S \ {Max(S)}] \in D
      <4>1. S \ {Max(S)} \in SUBSET Turns(N)
        OBVIOUS
      <4>. QED BY <2>3, <4>1
    <3>2. Turn(N, S) \in 1..N
      BY <1>1, <2>2, <2>4, TurnOK
    <3>3. f[S] = h[<<f[S \ {Max(S)}], Turn(N, S)>>]
      BY <2>3, <2>4
    <3>. QED BY <3>1, <3>2, <3>3
  <2>5. f = [S \in SUBSET Turns(N) |->
               IF S = {} THEN base ELSE NextPage(a, limit, f[S \ {Max(S)}])]
    <3>. HIDE DEF h
    <3>. QED BY <2>3, <2>4
  <2>. QED BY <2>5 DEF IsReading, base
<1>10. IsReading(g, a, limit, N)
  BY <1>9
<1>. HIDE DEF g, h
<1>11. ASSUME NEW S \in SUBSET (1..N)
       PROVE  g[S] = IF S = {} THEN base ELSE NextPage(a, limit, g[S \ {Max(S)}])
  <2>1. Turns(N) = 1..N
    BY <1>1, TurnOK
  <2>. QED BY <1>10, <2>1 DEF IsReading, base
<1>. DEFINE w == [k \in 0..N |-> g[1..k]]
            K == {k \in 0..N : \/ w[k] = ReadAll(rows)
                               \/ \E s \in Q : s >= k /\ w[k] = Underway(rows, s)}
<1>12. w[0] = base
  <2>1. 1..0 = {} /\ 0 \in 0..N /\ {} \in SUBSET (1..N)
    BY <1>1
  <2>2. g[{}] = base
    BY <1>11, <2>1
  <2>. QED BY <2>1, <2>2
<1>13. ASSUME NEW k \in 0..(N - 1)
       PROVE  w[k + 1] = NextPage(a, limit, w[k])
  <2>. DEFINE S == 1..(k + 1)
  <2>0. k + 1 \in Nat /\ k + 1 > 0 /\ (k + 1) - 1 = k /\ k \in 0..N /\ k + 1 \in 0..N
        /\ k + 1 \in S
    BY <1>1
  <2>1. S \in SUBSET (1..N) /\ S # {}
    <3>1. \A x \in S : x \in 1..N
      BY <1>1, <2>0
    <3>. HIDE DEF S
    <3>. QED BY <2>0, <3>1
  <2>2. Max(S) = k + 1 /\ S \ {k + 1} = 1..k
    <3>1. Max(1..(k + 1)) = k + 1 /\ (1..(k + 1)) \ {k + 1} = 1..((k + 1) - 1)
      BY ONLY <2>0, MaxUpTo
    <3>. QED BY <2>0, <3>1
  <2>. HIDE DEF S
  <2>3. g[S] = NextPage(a, limit, g[1..k])
    BY <1>11, <2>1, <2>2
  <2>. QED BY <2>0, <2>3 DEF S
<1>. HIDE DEF w
<1>14. 0 \in K
  <2>1. 0 \in Q /\ 0 >= 0 /\ 0 \in 0..N
    BY <1>1
  <2>. HIDE DEF Q
  <2>. QED BY <1>4, <1>12, <2>1
<1>15. ASSUME NEW k \in 0..(N - 1), k \in K PROVE k + 1 \in K
  <2>1. k + 1 \in 0..N /\ k \in Int
    BY <1>1
  <2>2. CASE w[k] = ReadAll(rows)
    BY <1>3, <1>13, <2>1, <2>2
  <2>3. CASE w[k] # ReadAll(rows)
    <3>1. PICK s \in Q : s >= k /\ w[k] = Underway(rows, s)
      BY <1>15, <2>3
    <3>2. w[k + 1] = IF n - s > limit THEN Underway(rows, s + limit) ELSE ReadAll(rows)
      BY <1>2, <1>13, <3>1
    <3>3. CASE n - s > limit
      <4>1. s + limit \in Q /\ s + limit >= k + 1
        BY <1>1, <1>5, <2>1, <3>1, <3>3
      <4>. HIDE DEF Q
      <4>. QED BY <2>1, <3>2, <3>3, <4>1
    <3>4. CASE ~(n - s > limit)
      BY <2>1, <3>2, <3>4
    <3>. QED BY <3>3, <3>4
  <2>. QED BY <2>2, <2>3
<1>16. N \in K
  <2>1. N \in 0..N
    BY <1>1
  <2>. HIDE DEF K
  <2>. QED BY <1>1, <1>14, <1>15, <2>1, UpTo
<1>17. w[N] = ReadAll(rows)
  <2>1. \A s \in Q : ~(s >= N)
    BY <1>1
  <2>. HIDE DEF Q
  <2>. QED BY <1>16, <2>1
<1>18. AllPages(a, limit) = g[Turns(N)].entries
  BY ReadingIsFold DEF g, N
<1>19. g[Turns(N)] = w[N]
  <2>1. Turns(N) = 1..N /\ N \in 0..N
    BY <1>1, TurnOK
  <2>. QED BY <2>1 DEF w
<1>. QED BY <1>17, <1>18, <1>19 DEF ReadAll, rows

-----------------------------------------------------------------------------
(* The theorems of the log.                                                *)

\* Whatever was compacted, and however often, in every reachable state: the newest
\* row of an account's activity page shows its real balances, total_minted()
\* counts every credit ever minted once, and following the cursors reads every
\* row of the page once (risk_engine.py compact_transactions, api.py _save and
\* get_my_activity).
THEOREM LogExplains == Spec => []LogExplainsBalances
<1>1. IInv /\ Accounted => LogExplainsBalances
  <2>1. SUFFICES ASSUME IInv, Accounted PROVE LogExplainsBalances
    OBVIOUS
  <2>2. LogTyped /\ Stamped(log, txSeq)
    BY <2>1, IInvParts DEF Accounted
  <2>3. ActivityMatchesBalances
    BY <2>1, <2>2, NewestRow DEF ActivityMatchesBalances
  <2>4. MintedSurvivesCompaction
    BY <2>1, <2>2, MintedCounted
  <2>5. PagesAreComplete
    <3>1. \A limit \in 1..2 : limit \in Nat \ {0}
      OBVIOUS
    <3>. QED BY <2>2, <3>1, PagesComplete DEF PagesAreComplete
  <2>. QED BY <2>3, <2>4, <2>5 DEF LogExplainsBalances
<1>. QED BY <1>1, LogAccounts, PTL

\* A balance that the activity page has shown next to a transaction id is shown
\* next to that id after every step, be it an append or a compaction
\* (compact_transactions keeps a checkpoint's last id for that).
THEOREM ShownStay == Spec => ShownBalancesStay
<1>1. IInv /\ Accounted /\ IInv' /\ [Next]_vars
        => [\A shown \in Shown(log), later \in Shown(log') :
              shown.id = later.id => shown = later]_vars
  <2>1. SUFFICES ASSUME IInv, Accounted, IInv', [Next]_vars,
                        NEW shown \in Shown(log), NEW later \in Shown(log'), shown.id = later.id
                 PROVE  shown = later
    OBVIOUS
  <2>2. log \in Seq(Transaction) /\ log' \in Seq(Transaction)
    BY <2>1 DEF IInv, TypeOK
  <2>3. Stamped(log, txSeq) /\ Keeps(log, log', txSeq)
    BY <2>1, StepAccounted DEF Accounted
  <2>4. PICK i \in DOMAIN log :
           shown = [id |-> log[i].id, account |-> log[i].account,
                    availableAfter |-> SumTo(Moves(log, log[i].account), i),
                    frozenAfter |-> SumTo(Holds(log, log[i].account), i)]
    BY <2>2, ShownIs
  <2>5. PICK j \in DOMAIN log' :
           later = [id |-> log'[j].id, account |-> log'[j].account,
                    availableAfter |-> SumTo(Moves(log', log'[j].account), j),
                    frozenAfter |-> SumTo(Holds(log', log'[j].account), j)]
    BY <2>2, ShownIs
  <2>6. log[i].id = log'[j].id /\ log'[j].id \in 1..txSeq
    BY <2>1, <2>3, <2>4, <2>5 DEF Stamped
  <2>7. PICK q \in DOMAIN log :
          LET a == log'[j].account
          IN  /\ log[q].id = log'[j].id /\ log[q].account = a
              /\ SumTo(Moves(log', a), j) = SumTo(Moves(log, a), q)
              /\ SumTo(Holds(log', a), j) = SumTo(Holds(log, a), q)
    BY <2>3, <2>6 DEF Keeps
  <2>8. q = i
    BY <2>3, <2>6, <2>7 DEF Stamped
  <2>. QED BY <2>4, <2>5, <2>7, <2>8
<1>. QED BY <1>1, LogAccounts, PTL DEF Spec, ShownBalancesStay
=============================================================================
