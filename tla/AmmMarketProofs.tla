--------------------------- MODULE AmmMarketProofs ---------------------------
(***************************************************************************)
(* AmmMarket.tla for any traders, outcomes, budgets and any cost function  *)
(* that is LMSR's in what CostAssumption says of it: the market conserves  *)
(* credits, covers every outcome, and traders get what they traded and the *)
(* recorded funder what was paid in, also after handlers that raised.      *)
(***************************************************************************)
EXTENDS AmmMarket, LedgerProofs

-----------------------------------------------------------------------------
(* The invariant                                                           *)

\* What a void would return to a trader.
Deposit(L, t) == L.available[t] + L.frozen[t] - L.locks[t][Profit]

\* What the locks of a trader say its trades cost it so far.
Spent(L, t) == L.frozen[t] - 2 * L.locks[t][Profit]

Holding(s, o) == [t \in Traders |-> s[t][o]]
Outstanding(s, o) == SumFunction(Holding(s, o))

\* The locks this market makes, and nothing else, are there.
Ours(a, k) == (a \in Traders /\ k \in OwnLocks \ {AmmLock}) \/ (a = Amm /\ k = AmmLock)
Sheet(L) ==
  /\ SoundLedger(L, Parties, LockTypes)
  /\ \A a \in Parties, k \in LockTypes : ~ Ours(a, k) => L.locks[a][k] = 0

NoTraderLocks(L) == \A t \in Traders, k \in LockTypes : L.locks[t][k] = 0
Netted(L, t) == L.locks[t][Profit] = 0 \/ L.locks[t][Loss] = 0

\* Holds also after handlers that raised half way.
Robust ==
  /\ TypeOK /\ Sheet(ledger)
  /\ \A o \in Outcomes : q[o] <= MaxQ * b /\ Outstanding(positions, o) <= q[o]
  /\ status # "resolved" \/ trades = 0 =>
       \A t \in Traders : Deposit(ledger, t) = TraderFunds - paidIn[t]
  /\ status # "open" \/ trades = 0 => NoTraderLocks(ledger)
  /\ \A t \in Traders, o \in Outcomes :
       positions[t][o] = 0 => ledger.locks[t][PositionLock(o)] = 0
  /\ \A t \in Traders : Netted(ledger, t)

Profits(L) == [t \in Traders |-> L.locks[t][Profit]]
AmmLocked(L) == L.locks[Amm][AmmLock]

\* All the market holds that is not a frozen profit.
Stakes(L) == [t \in Traders |-> L.frozen[t] - L.locks[t][Profit]]
Backing(L) == SumFunction(Stakes(L)) + AmmLocked(L)

\* The pool pays for the tokens sold, less the shift by which added liquidity
\* moved q beyond what traders hold.
Backed(L, s, l, sold) ==
  \E shift \in Nat :
    /\ Backing(L) >= Cost(l, sold) - One * shift
    /\ \A o \in Outcomes : shift <= sold[o] - Outstanding(s, o)

Pristine ==
  /\ b = 1 /\ q = [o \in Outcomes |-> 0] /\ positions = [t \in Traders |-> [o \in Outcomes |-> 0]]
  /\ netPaid = [t \in Traders |-> 0] /\ paidIn = [a \in Parties |-> 0] /\ AmmLocked(ledger) = 0
  /\ ledger.available[Amm] = 0 /\ ledger.available[Funder] = FunderFunds
  /\ trades = 0

Trading ==
  /\ \A t \in Traders, o \in Outcomes :
       positions[t][o] > 0 => ledger.locks[t][PositionLock(o)] > 0
  /\ \A t \in Traders : netPaid[t] = Spent(ledger, t)
  /\ ledger.available[Amm] = 0
  /\ Backed(ledger, positions, b, q)

Settled ==
  status = "resolved" =>
    /\ \A t \in Traders :
         ledger.available[t] = TraderFunds - paidIn[t] - netPaid[t] + Winnings(t, resolution)
    /\ funding = "recorded" => ledger.available[Amm] = 0

Exact ==
  /\ Credits(ledger) = minted
  /\ status = "none" => Pristine
  /\ status = "open" => Trading
  /\ status \in {"resolved", "void"} => Settled

\* What the AMM has, its part of the frozen profits included.
Equity(L) == L.available[Amm] + AmmLocked(L) + SumFunction(Profits(L))

\* Holds until an admin overwrites the status.
Funded ==
  /\ status = "none" => Sound /\ Endowed = 0
  /\ "overridden" \notin faults =>
       /\ status = "open" =>
            /\ ledger.available[Amm] >= 0
            /\ Equity(ledger) = Gathered
            /\ ledger.available[Funder] = FunderFunds - paidIn[Funder]
       /\ status = "void" =>
            /\ ledger.available[Amm] = Gathered - Swept
            /\ ledger.available[Funder] = FunderFunds - paidIn[Funder] + Swept

AmmInv == Robust /\ Funded /\ (Sound => Exact)

-----------------------------------------------------------------------------
(* Constants and lock types                                                *)

LEMMA ConstantsOK ==
  /\ IsFiniteSet(Traders) /\ IsFiniteSet(Parties) /\ IsFiniteSet(Outcomes) /\ IsFiniteSet(LockTypes)
  /\ Traders \subseteq Parties /\ Amm \in Parties /\ Funder \in Parties
  /\ Amm \notin Traders /\ Funder \notin Traders /\ Amm # Funder
  /\ Outcomes # {} /\ One \in Nat \ {0} /\ TraderFunds \in Nat /\ FunderFunds \in Nat
  /\ Budgets \subseteq Nat /\ MaxTrade \in Nat /\ MaxQ \in Nat /\ MaxTrades \in Nat
  /\ MaxB \in Nat \ {0}
<1>1. IsFiniteSet(Parties)
  <2>1. IsFiniteSet({Amm, Funder})
    <3>1. IsFiniteSet({Amm} \cup {Funder}) /\ {Amm, Funder} = {Amm} \cup {Funder}
      BY FS_Singleton, FS_Union
    <3>. QED BY <3>1
  <2>2. IsFiniteSet(Traders \cup {Amm, Funder})
    BY <2>1, AmmMarketAssumption, FS_Union
  <2>. QED BY <2>2, AmmMarketAssumption, FS_Union DEF Parties
<1>2. IsFiniteSet(LockTypes)
  <2>1. IsFiniteSet({"position"} \X Outcomes)
    BY AmmMarketAssumption, FS_Singleton, FS_Product
  <2>2. {"position"} \X Outcomes = PositionLocks
    BY DEF PositionLocks, PositionLock
  <2>3. IsFiniteSet({AmmLock, Profit, Loss})
    <3>1. IsFiniteSet({AmmLock} \cup {Profit})
      BY FS_Singleton, FS_Union
    <3>2. IsFiniteSet({AmmLock} \cup {Profit} \cup {Loss})
      BY ONLY <3>1, FS_Singleton, FS_Union
    <3>3. {AmmLock, Profit, Loss} = {AmmLock} \cup {Profit} \cup {Loss}
      OBVIOUS
    <3>. QED BY <3>2, <3>3
  <2>4. IsFiniteSet(OwnLocks)
    BY <2>1, <2>2, <2>3, FS_Union DEF OwnLocks
  <2>. QED BY <2>4, AmmMarketAssumption, FS_Union DEF LockTypes
<1>. QED BY <1>1, <1>2, AmmMarketAssumption DEF Parties

LEMMA LocksOK ==
  /\ AmmLock \in LockTypes /\ Profit \in LockTypes /\ Loss \in LockTypes
  /\ AmmLock # Profit /\ AmmLock # Loss /\ Profit # Loss
  /\ \A o \in Outcomes : /\ PositionLock(o) \in LockTypes /\ Ours(Amm, AmmLock)
                         /\ PositionLock(o) \notin {AmmLock, Profit, Loss}
                         /\ \A t \in Traders : Ours(t, PositionLock(o))
  /\ \A o, p : PositionLock(o) = PositionLock(p) => o = p
  /\ \A t \in Traders : Ours(t, Profit) /\ Ours(t, Loss) /\ ~ Ours(t, AmmLock)
  /\ \A t \in Traders, k \in LockTypes : Ours(t, k) =>
       k = Profit \/ k = Loss \/ \E o \in Outcomes : k = PositionLock(o)
  /\ \A a, k : Ours(a, k) => a \in Parties /\ k \in LockTypes /\ <<a, k>> \in SettledLocks
<1>1. /\ AmmLock # Profit /\ AmmLock # Loss /\ Profit # Loss
      /\ \A o : PositionLock(o) # AmmLock /\ PositionLock(o) # Profit /\ PositionLock(o) # Loss
      /\ \A o, p : PositionLock(o) = PositionLock(p) => o = p
  BY DEF AmmLock, Profit, Loss, PositionLock
<1>2. /\ AmmLock \in OwnLocks /\ Profit \in OwnLocks /\ Loss \in OwnLocks
      /\ \A o \in Outcomes : PositionLock(o) \in OwnLocks
      /\ \A k \in OwnLocks : k = AmmLock \/ k = Profit \/ k = Loss \/ \E o \in Outcomes : k = PositionLock(o)
      /\ OwnLocks \subseteq LockTypes
  BY DEF OwnLocks, PositionLocks, LockTypes
<1>3. Amm \notin Traders /\ Traders \subseteq Parties /\ Amm \in Parties
  BY ConstantsOK
<1>. QED BY <1>1, <1>2, <1>3 DEF Ours, SettledLocks

\* The entries of the market's ledger.
LEMMA SheetEntries ==
  ASSUME NEW L, Sheet(L)
  PROVE  /\ L \in Ledgers(Parties, LockTypes)
         /\ L.available \in [Parties -> Int] /\ L.frozen \in [Parties -> Int]
         /\ L.locks \in [Parties -> [LockTypes -> Nat]]
         /\ \A a \in Parties : L.available[a] \in Int /\ L.frozen[a] \in Int
                               /\ L.frozen[a] = SumFunction(L.locks[a])
                               /\ L.locks[a] \in [LockTypes -> Nat]
         /\ \A a \in Parties, k \in LockTypes : L.locks[a][k] \in Nat
         /\ AmmLocked(L) \in Nat
BY SoundFields, ConstantsOK, LocksOK DEF Sheet, Matches, AmmLocked

-----------------------------------------------------------------------------
(* One trade: what it does to the trader's locks and the AMM's              *)

\* N is L after a trade of t that changed the margin of outcome o by m and cost
\* t v: nobody else is touched, and what leaves the AMM is frozen profit of t.
Traded(N, L, t, o, m, v) ==
  /\ Sheet(N) /\ Credits(N) = Credits(L)
  /\ \A a \in Parties : a # t => N.available[a] = L.available[a]
  /\ \A u \in Traders : u # t => N.frozen[u] = L.frozen[u]
  /\ \A u \in Traders, k \in LockTypes : u # t => N.locks[u][k] = L.locks[u][k]
  /\ \A p \in Outcomes : N.locks[t][PositionLock(p)] =
       L.locks[t][PositionLock(p)] + IF p = o THEN m ELSE 0
  /\ Deposit(N, t) = Deposit(L, t) /\ Spent(N, t) = Spent(L, t) + v
  /\ AmmLocked(N) + N.locks[t][Profit] = AmmLocked(L) + L.locks[t][Profit]

LEMMA TradedOn ==
  ASSUME NEW L, NEW M, NEW N, Sheet(L), NEW t \in Traders, NEW o \in Outcomes,
         NEW m \in Int, NEW v \in Int, NEW n \in Int, NEW w \in Int,
         Traded(M, L, t, o, m, v), Traded(N, M, t, o, n, w)
  PROVE  Traded(N, L, t, o, m + n, v + w)
<1>1. t \in Parties /\ Sheet(M)
  BY ConstantsOK DEF Traded
<1>2. /\ L.available[t] \in Int /\ L.frozen[t] \in Int /\ L.locks[t][Profit] \in Int
      /\ \A p \in Outcomes : L.locks[t][PositionLock(p)] \in Int
  BY <1>1, SheetEntries, LocksOK
<1>3. Spent(L, t) \in Int
  BY <1>2 DEF Spent
<1>4. Spent(N, t) = Spent(L, t) + (v + w)
  BY <1>3 DEF Traded
<1>5. ASSUME NEW p \in Outcomes
      PROVE  N.locks[t][PositionLock(p)] =
               L.locks[t][PositionLock(p)] + IF p = o THEN m + n ELSE 0
  BY <1>2 DEF Traded
<1>. QED BY <1>4, <1>5 DEF Traded

\* One of the market's locks changes: the market's ledger it stays.
LEMMA SheetLowers ==
  ASSUME NEW L, Sheet(L), NEW a, NEW k, Ours(a, k), NEW x \in Int, NEW N,
         Lowers(N, L, Parties, LockTypes, a, k, x)
  PROVE  Sheet(N)
<1>1. \A c \in Parties, j \in LockTypes : ~ Ours(c, j) =>
        N.locks[c][j] = L.locks[c][j] - 0 /\ L.locks[c][j] = 0
  BY DEF Lowers, Sheet
<1>. QED BY <1>1 DEF Sheet, Lowers

\* A margin is locked or given back.
LEMMA MarginTraded ==
  ASSUME NEW L, Sheet(L), NEW t \in Traders, NEW o \in Outcomes, NEW x \in Int, NEW N,
         Lowers(N, L, Parties, LockTypes, t, PositionLock(o), x)
  PROVE  Traded(N, L, t, o, -x, -x) /\ N.locks[t][Profit] = L.locks[t][Profit]
         /\ N.locks[t][Loss] = L.locks[t][Loss]
<1>1. /\ t \in Parties /\ t # Amm /\ Amm \in Parties /\ Traders \subseteq Parties
      /\ Ours(t, PositionLock(o)) /\ PositionLock(o) \in LockTypes
  BY ConstantsOK, LocksOK
<1>2. Sheet(N)
  BY <1>1, SheetLowers
<1>3. /\ \A a \in Parties : L.available[a] \in Int /\ L.frozen[a] \in Int
      /\ \A a \in Parties, k \in LockTypes : L.locks[a][k] \in Int
  BY SheetEntries
<1>4. /\ N.available[t] = L.available[t] + x /\ N.frozen[t] = L.frozen[t] - x
      /\ N.locks[t][Profit] = L.locks[t][Profit] /\ AmmLocked(N) = AmmLocked(L)
      /\ N.locks[t][Loss] = L.locks[t][Loss]
  BY <1>1, <1>3, LocksOK DEF Lowers, AmmLocked
<1>5. Deposit(N, t) = Deposit(L, t) /\ Spent(N, t) = Spent(L, t) + (-x)
  BY <1>1, <1>3, <1>4, LocksOK DEF Deposit, Spent
<1>6. /\ \A a \in Parties : a # t => N.available[a] = L.available[a]
      /\ \A u \in Traders : u # t => N.frozen[u] = L.frozen[u]
      /\ \A u \in Traders, k \in LockTypes : u # t => N.locks[u][k] = L.locks[u][k]
  BY <1>1, <1>3 DEF Lowers
<1>7. \A p \in Outcomes : N.locks[t][PositionLock(p)] =
        L.locks[t][PositionLock(p)] + IF p = o THEN -x ELSE 0
  BY <1>1, <1>3, LocksOK DEF Lowers
<1>. QED BY <1>2, <1>4, <1>5, <1>6, <1>7 DEF Traded, Lowers

\* A loss is locked or given back.
LEMMA LossTraded ==
  ASSUME NEW L, Sheet(L), NEW t \in Traders, NEW o \in Outcomes, NEW x \in Int, NEW N,
         Lowers(N, L, Parties, LockTypes, t, Loss, x)
  PROVE  Traded(N, L, t, o, 0, -x) /\ N.locks[t][Profit] = L.locks[t][Profit]
         /\ N.locks[t][Loss] = L.locks[t][Loss] - x
<1>1. /\ t \in Parties /\ t # Amm /\ Amm \in Parties /\ Traders \subseteq Parties
      /\ Ours(t, Loss) /\ Loss \in LockTypes
  BY ConstantsOK, LocksOK
<1>2. Sheet(N)
  BY <1>1, SheetLowers
<1>3. /\ \A a \in Parties : L.available[a] \in Int /\ L.frozen[a] \in Int
      /\ \A a \in Parties, k \in LockTypes : L.locks[a][k] \in Int
  BY SheetEntries
<1>4. /\ N.available[t] = L.available[t] + x /\ N.frozen[t] = L.frozen[t] - x
      /\ N.locks[t][Profit] = L.locks[t][Profit] /\ AmmLocked(N) = AmmLocked(L)
      /\ N.locks[t][Loss] = L.locks[t][Loss] - x
  BY <1>1, <1>3, LocksOK DEF Lowers, AmmLocked
<1>5. Deposit(N, t) = Deposit(L, t) /\ Spent(N, t) = Spent(L, t) + (-x)
  BY <1>1, <1>3, <1>4, LocksOK DEF Deposit, Spent
<1>6. /\ \A a \in Parties : a # t => N.available[a] = L.available[a]
      /\ \A u \in Traders : u # t => N.frozen[u] = L.frozen[u]
      /\ \A u \in Traders, k \in LockTypes : u # t => N.locks[u][k] = L.locks[u][k]
  BY <1>1, <1>3 DEF Lowers
<1>7. \A p \in Outcomes : N.locks[t][PositionLock(p)] =
        L.locks[t][PositionLock(p)] + IF p = o THEN 0 ELSE 0
  BY <1>1, <1>3, LocksOK DEF Lowers
<1>. QED BY <1>2, <1>4, <1>5, <1>6, <1>7 DEF Traded, Lowers

\* y goes from the AMM's lock to the profit of t, or back when it is negative.
Shifts(N, L, t, y) ==
  /\ SoundLedger(N, Parties, LockTypes) /\ Credits(N) = Credits(L) /\ N.available = L.available
  /\ \A a \in Parties : N.frozen[a] =
       L.frozen[a] + (IF a = t THEN y ELSE 0) + IF a = Amm THEN -y ELSE 0
  /\ \A a \in Parties, k \in LockTypes : N.locks[a][k] =
       L.locks[a][k] + (IF a = t /\ k = Profit THEN y ELSE 0)
         + IF a = Amm /\ k = AmmLock THEN -y ELSE 0

LEMMA ProfitShifts ==
  ASSUME NEW L, Sheet(L), NEW t \in Traders, NEW x \in Nat, x <= AmmLocked(L)
  PROVE  Shifts(TransferFrozen(L, Amm, AmmLock, t, Profit, x), L, t, x)
<1>. DEFINE N == TransferFrozen(L, Amm, AmmLock, t, Profit, x)
<1>1. /\ t \in Parties /\ t # Amm /\ Amm \in Parties /\ Profit \in LockTypes /\ AmmLock \in LockTypes
      /\ IsFiniteSet(Parties) /\ IsFiniteSet(LockTypes)
  BY ConstantsOK, LocksOK
<1>2. /\ \A a \in Parties : L.frozen[a] \in Int
      /\ \A a \in Parties, k \in LockTypes : L.locks[a][k] \in Int
      /\ SoundLedger(L, Parties, LockTypes)
  BY SheetEntries DEF Sheet
<1>3. HandsFrozen(N, L, Parties, LockTypes, Amm, AmmLock, t, Profit, x)
  BY <1>1, <1>2, TransferHandsFrozen DEF AmmLocked
<1>. HIDE DEF N
<1>. QED BY <1>2, <1>3 DEF HandsFrozen, Shifts, N

LEMMA ConsumeShifts ==
  ASSUME NEW L, Sheet(L), NEW t \in Traders, NEW x \in Nat, x <= L.locks[t][Profit]
  PROVE  Shifts(TransferFrozen(L, t, Profit, Amm, AmmLock, x), L, t, -x)
<1>. DEFINE N == TransferFrozen(L, t, Profit, Amm, AmmLock, x)
<1>1. /\ t \in Parties /\ t # Amm /\ Amm \in Parties /\ Profit \in LockTypes /\ AmmLock \in LockTypes
      /\ IsFiniteSet(Parties) /\ IsFiniteSet(LockTypes)
  BY ConstantsOK, LocksOK
<1>2. /\ \A a \in Parties : L.frozen[a] \in Int
      /\ \A a \in Parties, k \in LockTypes : L.locks[a][k] \in Int
      /\ SoundLedger(L, Parties, LockTypes)
  BY SheetEntries DEF Sheet
<1>3. HandsFrozen(N, L, Parties, LockTypes, t, Profit, Amm, AmmLock, x)
  BY <1>1, <1>2, TransferHandsFrozen
<1>. HIDE DEF N
<1>. QED BY <1>2, <1>3 DEF HandsFrozen, Shifts, N

LEMMA ShiftTraded ==
  ASSUME NEW L, Sheet(L), NEW t \in Traders, NEW o \in Outcomes, NEW y \in Int, NEW N,
         Shifts(N, L, t, y)
  PROVE  /\ Traded(N, L, t, o, 0, -y)
         /\ N.locks[t][Profit] = L.locks[t][Profit] + y /\ N.locks[t][Loss] = L.locks[t][Loss]
<1>1. /\ t \in Parties /\ t # Amm /\ Amm \in Parties /\ Traders \subseteq Parties /\ Amm \notin Traders
      /\ Ours(t, Profit) /\ Ours(Amm, AmmLock) /\ Profit \in LockTypes /\ AmmLock \in LockTypes
      /\ Loss \in LockTypes /\ Profit # AmmLock /\ Loss # Profit /\ Loss # AmmLock
  BY ConstantsOK, LocksOK
<1>2. /\ \A a \in Parties : L.available[a] \in Int /\ L.frozen[a] \in Int
      /\ \A a \in Parties, k \in LockTypes : L.locks[a][k] \in Int
  BY SheetEntries
<1>3. /\ N.frozen[t] = L.frozen[t] + y /\ N.locks[t][Profit] = L.locks[t][Profit] + y
      /\ N.locks[t][Loss] = L.locks[t][Loss] /\ AmmLocked(N) = AmmLocked(L) - y
      /\ N.available = L.available
  BY <1>1, <1>2 DEF Shifts, AmmLocked
<1>4. Deposit(N, t) = Deposit(L, t) /\ Spent(N, t) = Spent(L, t) + (-y)
      /\ AmmLocked(N) + N.locks[t][Profit] = AmmLocked(L) + L.locks[t][Profit]
  <2>1. AmmLocked(L) \in Int
    BY <1>1, <1>2 DEF AmmLocked
  <2>. QED BY <1>1, <1>2, <1>3, <2>1 DEF Deposit, Spent
<1>5. /\ \A u \in Traders : u # t => N.frozen[u] = L.frozen[u]
      /\ \A u \in Traders, k \in LockTypes : u # t => N.locks[u][k] = L.locks[u][k]
  BY <1>1, <1>2 DEF Shifts
<1>6. \A p \in Outcomes : N.locks[t][PositionLock(p)] =
        L.locks[t][PositionLock(p)] + IF p = o THEN 0 ELSE 0
  BY <1>1, <1>2, LocksOK DEF Shifts
<1>7. Sheet(N)
  <2>1. \A a \in Parties, k \in LockTypes : ~ Ours(a, k) => N.locks[a][k] = L.locks[a][k]
    BY <1>1, <1>2 DEF Shifts
  <2>. QED BY <2>1 DEF Sheet, Shifts
<1>. QED BY <1>3, <1>4, <1>5, <1>6, <1>7 DEF Traded, Shifts

LEMMA MinIs ==
  ASSUME NEW x \in Int, NEW y \in Int
  PROVE  Min({x, y}) = IF x <= y THEN x ELSE y
<1>1. \E m \in {x, y} : \A z \in {x, y} : m <= z
  OBVIOUS
<1>2. Min({x, y}) \in {x, y} /\ \A z \in {x, y} : Min({x, y}) <= z
  BY <1>1 DEF Min
<1>. QED BY <1>2

\* Step 3 of _execute_trade changes nothing but the netting.
LEMMA NetTraded ==
  ASSUME NEW L, Sheet(L), NEW t \in Traders, NEW o \in Outcomes
  PROVE  Traded(NetPnl(L, t), L, t, o, 0, 0) /\ Netted(NetPnl(L, t), t)
<1>. DEFINE net == Min({L.locks[t][Profit], L.locks[t][Loss]})
            M == TransferFrozen(L, t, Profit, Amm, AmmLock, net)
            N == DecreaseLock(M, t, Loss, net)
<1>1. /\ L.locks[t][Profit] \in Nat /\ L.locks[t][Loss] \in Nat
      /\ t \in Parties /\ IsFiniteSet(Parties) /\ IsFiniteSet(LockTypes) /\ Loss \in LockTypes
  BY SheetEntries, ConstantsOK, LocksOK
<1>2. /\ net \in Nat /\ net <= L.locks[t][Profit] /\ net <= L.locks[t][Loss]
      /\ net = L.locks[t][Profit] \/ net = L.locks[t][Loss]
      /\ NetPnl(L, t) = IF net = 0 THEN L ELSE N
  BY <1>1, MinIs DEF NetPnl
<1>. HIDE DEF net
<1>3. CASE net = 0
  <2>1. NetPnl(L, t) = L /\ Netted(L, t)
    BY <1>2, <1>3 DEF Netted
  <2>2. Traded(L, L, t, o, 0, 0)
    <3>1. \A p \in Outcomes : L.locks[t][PositionLock(p)] \in Int
      BY <1>1, SheetEntries, LocksOK
    <3>2. Spent(L, t) \in Int
      BY <1>1, SheetEntries DEF Spent
    <3>. QED BY <3>1, <3>2 DEF Traded
  <2>. QED BY <2>1, <2>2
<1>4. CASE net # 0
  <2>1. Shifts(M, L, t, -net)
    BY <1>2, ConsumeShifts
  <2>. HIDE DEF M
  <2>2. -net \in Int /\ -(-net) = net
    BY <1>2
  <2>3. /\ Traded(M, L, t, o, 0, net)
        /\ M.locks[t][Profit] = L.locks[t][Profit] - net /\ M.locks[t][Loss] = L.locks[t][Loss]
    <3>1. /\ Traded(M, L, t, o, 0, -(-net))
          /\ M.locks[t][Profit] = L.locks[t][Profit] + (-net) /\ M.locks[t][Loss] = L.locks[t][Loss]
      BY <2>1, <2>2, ShiftTraded
    <3>. QED BY <1>1, <1>2, <2>2, <3>1
  <2>4. Sheet(M)
    BY <2>3 DEF Traded
  <2>5. Lowers(N, M, Parties, LockTypes, t, Loss, net)
    <3>1. net \in Int /\ net <= M.locks[t][Loss] /\ SoundLedger(M, Parties, LockTypes)
      BY <1>2, <2>3, <2>4 DEF Sheet
    <3>. QED BY <1>1, <3>1, DecreaseLowers
  <2>. HIDE DEF N
  <2>6. /\ Traded(N, M, t, o, 0, -net) /\ N.locks[t][Profit] = M.locks[t][Profit]
        /\ N.locks[t][Loss] = M.locks[t][Loss] - net
    BY <1>2, <2>4, <2>5, LossTraded
  <2>7. Traded(N, L, t, o, 0 + 0, net + (-net))
    BY <1>2, <2>2, <2>3, <2>6, TradedOn
  <2>8. net + (-net) = 0
    BY <1>2
  <2>9. Netted(N, t)
    BY <1>1, <1>2, <2>3, <2>6 DEF Netted
  <2>10. NetPnl(L, t) = N
    BY <1>2, <1>4
  <2>. QED BY <2>7, <2>8, <2>9, <2>10
<1>. QED BY <1>3, <1>4

LEMMA BuyTraded ==
  ASSUME NEW L, Sheet(L), NEW t \in Traders, NEW o \in Outcomes, NEW v \in Nat
  PROVE  LET N == Freeze(L, t, PositionLock(o), v)
         IN  Traded(N, L, t, o, v, v) /\ (Netted(L, t) => Netted(N, t))
<1>. DEFINE N == Freeze(L, t, PositionLock(o), v)
<1>1. /\ t \in Parties /\ PositionLock(o) \in LockTypes /\ IsFiniteSet(Parties)
      /\ IsFiniteSet(LockTypes) /\ SoundLedger(L, Parties, LockTypes)
  BY ConstantsOK, LocksOK DEF Sheet
<1>2. Lowers(N, L, Parties, LockTypes, t, PositionLock(o), -v)
  BY <1>1, FreezeLowers
<1>. HIDE DEF N
<1>3. -v \in Int /\ -(-v) = v
  OBVIOUS
<1>4. /\ Traded(N, L, t, o, -(-v), -(-v)) /\ N.locks[t][Profit] = L.locks[t][Profit]
      /\ N.locks[t][Loss] = L.locks[t][Loss]
  BY <1>2, <1>3, MarginTraded
<1>5. Traded(N, L, t, o, v, v)
  BY <1>3, <1>4
<1>. QED BY <1>4, <1>5 DEF Netted, N

\* Steps 1 to 3 of _execute_trade for a sell: the margin back, the profit or the
\* loss frozen, the two netted.
LEMMA SellTraded ==
  ASSUME NEW L, Sheet(L), NEW t \in Traders, NEW o \in Outcomes, NEW m \in Nat, NEW v \in Nat,
         m <= L.locks[t][PositionLock(o)], NEW N,
         LET R == DecreaseLock(L, t, PositionLock(o), m)
             pnl == v - m
         IN  \/ /\ pnl > 0 /\ CanDecrease(R, Amm, AmmLock, pnl)
                /\ N = NetPnl(TransferFrozen(R, Amm, AmmLock, t, Profit, pnl), t)
             \/ pnl < 0 /\ N = NetPnl(Freeze(R, t, Loss, -pnl), t)
             \/ pnl = 0 /\ N = NetPnl(R, t)
  PROVE  Traded(N, L, t, o, -m, -v) /\ Netted(N, t)
<1>. DEFINE R == DecreaseLock(L, t, PositionLock(o), m)
            pnl == v - m
            P == TransferFrozen(R, Amm, AmmLock, t, Profit, pnl)
            F == Freeze(R, t, Loss, -pnl)
<1>1. /\ t \in Parties /\ PositionLock(o) \in LockTypes /\ IsFiniteSet(Parties)
      /\ IsFiniteSet(LockTypes) /\ SoundLedger(L, Parties, LockTypes) /\ Loss \in LockTypes
  BY ConstantsOK, LocksOK DEF Sheet
<1>2. m \in Int /\ v \in Int /\ -m \in Int /\ -v \in Int /\ pnl \in Int /\ -pnl \in Int
  OBVIOUS
<1>3. Traded(R, L, t, o, -m, -m)
  <2>1. Lowers(R, L, Parties, LockTypes, t, PositionLock(o), m)
    BY <1>1, <1>2, DecreaseLowers
  <2>. HIDE DEF R
  <2>. QED BY <1>2, <2>1, MarginTraded
<1>4. Sheet(R) /\ SoundLedger(R, Parties, LockTypes)
  BY <1>3 DEF Traded, Sheet
<1>5. ASSUME NEW S, NEW w \in Int, Traded(S, R, t, o, 0, w), w = -pnl, N = NetPnl(S, t)
      PROVE  Traded(N, L, t, o, -m, -v) /\ Netted(N, t)
  <2>1. Sheet(S)
    BY <1>5 DEF Traded
  <2>2. Traded(N, S, t, o, 0, 0) /\ Netted(N, t)
    BY <1>5, <2>1, NetTraded
  <2>3. Traded(S, L, t, o, -m + 0, -m + w)
    <3>. HIDE DEF R
    <3>. QED BY <1>2, <1>3, <1>5, TradedOn
  <2>4. Traded(N, L, t, o, (-m + 0) + 0, (-m + w) + 0)
    <3>1. -m + 0 \in Int /\ -m + w \in Int
      BY <1>2, <1>5
    <3>. QED BY <2>2, <2>3, <3>1, TradedOn
  <2>5. (-m + 0) + 0 = -m /\ (-m + w) + 0 = -v
    BY <1>2, <1>5
  <2>. QED BY <2>2, <2>4, <2>5
<1>6. CASE pnl > 0 /\ CanDecrease(R, Amm, AmmLock, pnl) /\ N = NetPnl(P, t)
  <2>1. pnl \in Nat /\ pnl <= AmmLocked(R)
    BY <1>2, <1>6 DEF CanDecrease, AmmLocked
  <2>. HIDE DEF R, pnl
  <2>2. Shifts(P, R, t, pnl)
    BY <1>4, <2>1, ProfitShifts
  <2>. HIDE DEF P
  <2>3. Traded(P, R, t, o, 0, -pnl)
    BY <1>2, <1>4, <2>2, ShiftTraded
  <2>. QED BY <1>2, <1>5, <1>6, <2>3
<1>7. CASE pnl < 0 /\ N = NetPnl(F, t)
  <2>1. -pnl \in Nat
    BY <1>2, <1>7
  <2>. HIDE DEF R
  <2>2. Lowers(F, R, Parties, LockTypes, t, Loss, -(-pnl))
    <3>. HIDE DEF pnl
    <3>. QED BY <1>1, <1>4, <2>1, FreezeLowers
  <2>3. -(-pnl) \in Int /\ -(-(-pnl)) = -pnl
    BY <1>2
  <2>. HIDE DEF F, pnl
  <2>4. Traded(F, R, t, o, 0, -(-(-pnl)))
    BY <1>4, <2>2, <2>3, LossTraded
  <2>. QED BY <1>2, <1>5, <1>7, <2>3, <2>4
<1>8. CASE pnl = 0 /\ N = NetPnl(R, t)
  <2>1. Traded(N, R, t, o, 0, 0) /\ Netted(N, t)
    BY <1>4, <1>8, NetTraded
  <2>2. Traded(N, L, t, o, -m + 0, -m + 0)
    <3>. HIDE DEF R
    <3>. QED BY <1>2, <1>3, <2>1, TradedOn
  <2>3. -m + 0 = -m /\ -m + 0 = -v
    BY <1>8
  <2>. QED BY <2>1, <2>2, <2>3
<1>. QED BY <1>6, <1>7, <1>8

-----------------------------------------------------------------------------
(* What a trade does to the totals                                         *)

LEMMA TotalsTyped ==
  ASSUME NEW L, Sheet(L)
  PROVE  /\ Stakes(L) \in [Traders -> Int] /\ Profits(L) \in [Traders -> Nat]
         /\ Profits(L) \in [Traders -> Int]
         /\ Backing(L) \in Int /\ SumFunction(Profits(L)) \in Nat /\ SumFunction(Stakes(L)) \in Int
<1>1. /\ Stakes(L) \in [Traders -> Int] /\ Profits(L) \in [Traders -> Nat]
      /\ Profits(L) \in [Traders -> Int]
  BY SheetEntries, ConstantsOK, LocksOK DEF Stakes, Profits
<1>2. IsFiniteSet(Traders) /\ AmmLocked(L) \in Int
  BY SheetEntries, ConstantsOK
<1>3. SumFunction(Profits(L)) \in Nat
  BY ONLY <1>1, <1>2, SumBounds
<1>4. SumFunction(Stakes(L)) \in Int
  <2>. DEFINE none == [t \in Traders |-> 0]
              f == Stakes(L)
  <2>1. none \in [Traders -> Int] /\ f \in [Traders -> Int] /\ \A t \in Traders : f[t] = f[t] + none[t]
    BY <1>1
  <2>. HIDE DEF none, f
  <2>2. SumFunction(f) \in Int
    BY ONLY <1>2, <2>1, SumAdd
  <2>. QED BY <2>2 DEF f
<1>. QED BY <1>1, <1>2, <1>3, <1>4 DEF Backing

LEMMA TradedTotals ==
  ASSUME NEW L, NEW N, Sheet(L), NEW t \in Traders, NEW o \in Outcomes,
         NEW m \in Int, NEW v \in Int, Traded(N, L, t, o, m, v)
  PROVE  /\ Backing(N) = Backing(L) + v
         /\ AmmLocked(N) + SumFunction(Profits(N)) = AmmLocked(L) + SumFunction(Profits(L))
<1>1. Sheet(N) /\ IsFiniteSet(Traders) /\ t \in Parties /\ Traders \subseteq Parties
  BY ConstantsOK DEF Traded
<1>. DEFINE f == Stakes(L)
            g == Profits(L)
            x == N.frozen[t] - N.locks[t][Profit]
            y == N.locks[t][Profit]
<1>2. /\ L.frozen[t] \in Int /\ L.locks[t][Profit] \in Int /\ N.frozen[t] \in Int
      /\ N.locks[t][Profit] \in Int /\ AmmLocked(L) \in Int /\ AmmLocked(N) \in Int
      /\ x \in Int /\ y \in Int
  <2>1. Profit \in LockTypes
    BY LocksOK
  <2>. QED BY <1>1, <2>1, SheetEntries
<1>3. /\ f \in [Traders -> Int] /\ f[t] = L.frozen[t] - L.locks[t][Profit]
      /\ g \in [Traders -> Int] /\ g[t] = L.locks[t][Profit]
      /\ SumFunction(f) \in Int /\ SumFunction(g) \in Int
  BY TotalsTyped DEF Stakes, Profits
<1>4. Stakes(N) = [f EXCEPT ![t] = x] /\ Profits(N) = [g EXCEPT ![t] = y]
  <2>1. ASSUME NEW u \in Traders
        PROVE  /\ Stakes(N)[u] = IF u = t THEN x ELSE f[u]
               /\ Profits(N)[u] = IF u = t THEN y ELSE g[u]
    BY LocksOK DEF Stakes, Profits, Traded
  <2>2. Stakes(N) \in [Traders -> Int] /\ Profits(N) \in [Traders -> Int]
    BY <1>1, TotalsTyped
  <2>. DEFINE fN == Stakes(N)
              gN == Profits(N)
  <2>. HIDE DEF f, g, x, y, fN, gN
  <2>3. fN = [f EXCEPT ![t] = x] /\ gN = [g EXCEPT ![t] = y]
    BY <1>2, <1>3, <2>1, <2>2 DEF fN, gN
  <2>. QED BY <2>3 DEF fN, gN
<1>5. x + AmmLocked(N) = f[t] + AmmLocked(L) + v /\ y + AmmLocked(N) = g[t] + AmmLocked(L)
  BY <1>2, <1>3 DEF Traded, Spent
<1>. HIDE DEF f, g, x, y
<1>6. SumFunction([f EXCEPT ![t] = x]) = SumFunction(f) + x - f[t]
  <2>1. IsFiniteSet(Traders) /\ f \in [Traders -> Int] /\ x \in Int
    BY <1>1, <1>2, <1>3
  <2>. QED BY ONLY <2>1, t \in Traders, SumExcept
<1>7. SumFunction([g EXCEPT ![t] = y]) = SumFunction(g) + y - g[t]
  <2>1. IsFiniteSet(Traders) /\ g \in [Traders -> Int] /\ y \in Int
    BY <1>1, <1>2, <1>3
  <2>. QED BY ONLY <2>1, t \in Traders, SumExcept
<1>8. f[t] \in Int /\ g[t] \in Int
  BY <1>3
<1>9. Backing(N) = SumFunction(f) + AmmLocked(L) + v
  BY <1>2, <1>3, <1>4, <1>5, <1>6, <1>8 DEF Backing
<1>10. AmmLocked(N) + SumFunction(Profits(N)) = AmmLocked(L) + SumFunction(g)
  BY <1>2, <1>3, <1>4, <1>5, <1>7, <1>8
<1>. QED BY <1>2, <1>3, <1>9, <1>10 DEF Backing, f, g

Shifted(s, t, o, n) == [s EXCEPT ![t][o] = @ + n]

LEMMA OutstandingMoves ==
  ASSUME NEW s \in [Traders -> [Outcomes -> Nat]], NEW t \in Traders, NEW o \in Outcomes,
         NEW n \in Int, s[t][o] + n \in Nat
  PROVE  LET r == Shifted(s, t, o, n)
         IN  /\ r \in [Traders -> [Outcomes -> Nat]]
             /\ \A u \in Traders, p \in Outcomes :
                  r[u][p] = IF u = t /\ p = o THEN s[t][o] + n ELSE s[u][p]
             /\ \A p \in Outcomes :
                  /\ Outstanding(s, p) \in Nat /\ \A u \in Traders : s[u][p] <= Outstanding(s, p)
                  /\ Outstanding(r, p) = Outstanding(s, p) + IF p = o THEN n ELSE 0
<1>. DEFINE r == Shifted(s, t, o, n)
<1>0. IsFiniteSet(Traders)
  BY ConstantsOK
<1>1. /\ r \in [Traders -> [Outcomes -> Nat]]
      /\ \A u \in Traders, p \in Outcomes :
           r[u][p] = IF u = t /\ p = o THEN s[t][o] + n ELSE s[u][p]
  BY DEF Shifted
<1>. HIDE DEF r
<1>2. ASSUME NEW p \in Outcomes
      PROVE  /\ Outstanding(s, p) \in Nat /\ \A u \in Traders : s[u][p] <= Outstanding(s, p)
             /\ Outstanding(r, p) = Outstanding(s, p) + IF p = o THEN n ELSE 0
  <2>. DEFINE f == Holding(s, p)
              x == r[t][p]
  <2>1. f \in [Traders -> Nat] /\ f \in [Traders -> Int] /\ \A u \in Traders : f[u] = s[u][p]
    BY DEF Holding
  <2>2. x \in Int /\ Holding(r, p) = [f EXCEPT ![t] = x]
    <3>1. /\ x \in Int /\ Holding(r, p) \in [Traders -> Nat]
          /\ \A u \in Traders : Holding(r, p)[u] = IF u = t THEN x ELSE f[u]
      BY <1>1, <2>1 DEF Holding
    <3>. DEFINE h == Holding(r, p)
    <3>. HIDE DEF f, x, h
    <3>2. h = [f EXCEPT ![t] = x]
      BY <2>1, <3>1 DEF h
    <3>. QED BY <3>1, <3>2 DEF h
  <2>3. x - f[t] = (IF p = o THEN n ELSE 0) /\ f[t] \in Int
    BY <1>1, <2>1
  <2>. HIDE DEF f, x
  <2>4. SumFunction(f) \in Nat /\ \A u \in Traders : f[u] <= SumFunction(f)
    BY ONLY <1>0, <2>1, SumBounds
  <2>5. SumFunction([f EXCEPT ![t] = x]) = SumFunction(f) + x - f[t]
    <3>1. f \in [Traders -> Int]
      BY <2>1
    <3>2. x \in Int
      BY <2>2
    <3>. QED BY ONLY <1>0, <3>1, <3>2, t \in Traders, SumExcept
  <2>6. Outstanding(s, p) = SumFunction(f)
    BY DEF Outstanding, f
  <2>7. Outstanding(r, p) = SumFunction(f) + x - f[t]
    BY <2>2, <2>5 DEF Outstanding
  <2>. QED BY <2>1, <2>2, <2>3, <2>4, <2>6, <2>7
<1>. QED BY <1>1, <1>2 DEF r

-----------------------------------------------------------------------------
(* Rounding and prices                                                     *)

LEMMA Floor ==
  ASSUME NEW x \in Int, NEW g \in Nat \ {0}
  PROVE  x \div g \in Int /\ g * (x \div g) <= x /\ x < g * (x \div g) + g
OBVIOUS

\* A price rounded up, times the tokens, is at least the cost.
LEMMA RoundedUp ==
  ASSUME NEW x \in Int, NEW n \in Nat \ {0}
  PROVE  n * (-((-x) \div n)) \in Int /\ n * (-((-x) \div n)) >= x
<1>. DEFINE y == (-x) \div n
<1>1. y \in Int /\ n * y <= -x
  BY Floor
<1>. HIDE DEF y
<1>2. n * (-y) = -(n * y) /\ n * y \in Int
  BY <1>1
<1>3. n * (-y) \in Int /\ n * (-y) >= x
  BY <1>1, <1>2
<1>. QED BY <1>3 DEF y

LEMMA MaxIs ==
  ASSUME NEW x \in Int, NEW y \in Int
  PROVE  Max({x, y}) = IF x <= y THEN y ELSE x
<1>1. \E m \in {x, y} : \A z \in {x, y} : m >= z
  OBVIOUS
<1>2. Max({x, y}) \in {x, y} /\ \A z \in {x, y} : Max({x, y}) >= z
  BY <1>1 DEF Max
<1>. QED BY <1>2

\* A price rounded down, times the tokens, is at most what the cost falls by.
LEMMA RoundedDown ==
  ASSUME NEW x \in Nat, NEW n \in Nat \ {0}
  PROVE  n * Max({0, x \div n}) \in Nat /\ n * Max({0, x \div n}) <= x
<1>. DEFINE y == x \div n
<1>1. y \in Int /\ n * y <= x /\ x < n * y + n
  BY Floor
<1>. HIDE DEF y
<1>2. y >= 0
  <2>1. SUFFICES ASSUME y < 0 PROVE FALSE
    BY <1>1
  <2>2. PICK k \in Nat : y = -1 - k
    <3>1. -1 - y \in Nat /\ y = -1 - (-1 - y)
      BY <1>1, <2>1
    <3>. QED BY <3>1
  <2>3. n * y = -n - n * k /\ n * k \in Nat
    BY <2>2
  <2>. QED BY <1>1, <2>3
<1>3. Max({0, y}) = y
  BY <1>1, <1>2, MaxIs
<1>4. n * y \in Nat
  BY <1>1, <1>2
<1>. QED BY <1>1, <1>3, <1>4 DEF y

LEMMA Cancel ==
  ASSUME NEW p \in Nat \ {0}, NEW x \in Int, NEW y \in Int, p * x < p * y
  PROVE  x < y
<1>1. SUFFICES ASSUME y <= x PROVE FALSE
  OBVIOUS
<1>2. PICK k \in Nat : x = y + k
  <2>1. x - y \in Nat /\ x = y + (x - y)
    BY <1>1
  <2>. QED BY <2>1
<1>3. p * x = p * y + p * k /\ p * k \in Nat
  BY <1>2
<1>4. p * x \in Int /\ p * y \in Int
  OBVIOUS
<1>. QED BY <1>3, <1>4

LEMMA ProRata ==
  ASSUME NEW locked \in Nat, NEW p \in Nat \ {0}, NEW n \in Nat, n < p
  PROVE  LET x == (locked * n) \div p
         IN  x \in Nat /\ x <= locked /\ (locked > 0 => x < locked)
<1>. DEFINE x == (locked * n) \div p
            w == locked * n
<1>1. w \in Nat
  OBVIOUS
<1>2. x \in Int /\ p * x <= w /\ w < p * x + p
  BY <1>1, Floor
<1>. HIDE DEF x
<1>3. x >= 0
  <2>1. p * (-1) < p * x
    BY <1>1, <1>2
  <2>2. -1 < x
    BY <1>2, <2>1, Cancel
  <2>. QED BY <1>2, <2>2
<1>4. PICK k \in Nat \ {0} : p = n + k
  <2>1. p - n \in Nat \ {0} /\ p = n + (p - n)
    OBVIOUS
  <2>. QED BY <2>1
<1>5. p * locked = w + locked * k /\ locked * k \in Nat
  BY <1>4
<1>6. CASE locked = 0
  <2>1. w = 0
    BY <1>6
  <2>2. p * x < p * 1
    BY <1>2, <2>1
  <2>3. x < 1
    BY <1>2, <2>2, Cancel
  <2>. QED BY <1>2, <1>3, <1>6, <2>3 DEF x
<1>7. CASE locked > 0
  <2>1. locked * k > 0
    <3>1. locked * k # 0
      BY <1>7, <1>4
    <3>. QED BY <1>5, <3>1
  <2>2. p * x < p * locked
    <3>. HIDE DEF w
    <3>1. p * x \in Int /\ p * locked \in Int
      BY <1>2
    <3>. QED BY <1>1, <1>2, <1>5, <2>1, <3>1
  <2>3. x < locked
    BY <1>2, <2>2, Cancel
  <2>. QED BY <1>2, <1>3, <2>3 DEF x
<1>. QED BY <1>6, <1>7

LEMMA MovedQuantity ==
  ASSUME NEW l \in 1..MaxB, NEW sold \in Quantities(l), NEW o \in Outcomes, NEW n \in Int,
         sold[o] + n \in 0..(MaxQ * l)
  PROVE  /\ [sold EXCEPT ![o] = @ + n] \in Quantities(l)
         /\ \A p \in Outcomes : [sold EXCEPT ![o] = @ + n][p] = IF p = o THEN sold[o] + n ELSE sold[p]
BY DEF Quantities

LEMMA CostNat ==
  ASSUME NEW l \in 1..MaxB, NEW sold \in Quantities(l)
  PROVE  Cost(l, sold) \in Nat /\ \A o \in Outcomes : One * sold[o] <= Cost(l, sold)
BY CostAssumption

LEMMA BuyPrice ==
  ASSUME b \in 1..MaxB, q \in Quantities(b), NEW o \in Outcomes, NEW n \in 1..MaxTrade,
         q[o] + n <= MaxQ * b
  PROVE  /\ BuyValue(o, n) \in Nat /\ BuyValue(o, n) > 0
         /\ CostToBuy(o, n) \in Int /\ BuyValue(o, n) >= CostToBuy(o, n)
<1>. DEFINE r == [q EXCEPT ![o] = @ + n]
            c == CostToBuy(o, n)
<1>1. MaxTrade \in Nat /\ MaxQ \in Nat /\ MaxB \in Nat
  BY ConstantsOK
<1>2. n \in Int /\ n \in Nat \ {0}
  BY <1>1
<1>3. r \in Quantities(b)
  <2>1. q[o] \in Nat /\ b \in Nat /\ MaxQ * b \in Nat
    BY <1>1 DEF Quantities
  <2>2. q[o] + n \in 0..(MaxQ * b)
    BY <1>2, <2>1
  <2>. QED BY <1>2, <2>2, MovedQuantity
<1>4. Cost(b, q) \in Nat /\ Cost(b, r) \in Nat /\ Cost(b, q) < Cost(b, r)
  BY <1>3, CostAssumption
<1>5. c = Cost(b, r) - Cost(b, q)
  BY DEF CostToBuy
<1>. HIDE DEF r, c
<1>6. c \in Int /\ c > 0
  BY <1>4, <1>5
<1>7. n * (-((-c) \div n)) \in Int /\ n * (-((-c) \div n)) >= c
  BY <1>2, <1>6, RoundedUp
<1>8. BuyValue(o, n) = n * (-((-c) \div n))
  BY DEF BuyValue, c
<1>. HIDE DEF BuyValue
<1>9. BuyValue(o, n) \in Int /\ BuyValue(o, n) >= c
  BY <1>7, <1>8
<1>. QED BY <1>6, <1>9 DEF c

LEMMA SellPrice ==
  ASSUME b \in 1..MaxB, q \in Quantities(b), NEW o \in Outcomes, NEW n \in 1..MaxTrade,
         n <= q[o]
  PROVE  /\ SellValue(o, n) \in Nat
         /\ CostToBuy(o, -n) \in Int /\ -SellValue(o, n) >= CostToBuy(o, -n)
<1>. DEFINE r == [q EXCEPT ![o] = @ + (-n)]
            c == CostToBuy(o, -n)
<1>1. MaxTrade \in Nat /\ MaxQ \in Nat /\ MaxB \in Nat
  BY ConstantsOK
<1>2. n \in Int /\ n \in Nat \ {0} /\ -n \in Int
  BY <1>1
<1>3. q[o] \in 0..(MaxQ * b) /\ q \in [Outcomes -> 0..(MaxQ * b)] /\ b \in Nat /\ MaxQ * b \in Nat
  BY <1>1 DEF Quantities
<1>4. r \in Quantities(b) /\ r[o] = q[o] - n
      /\ \A p \in Outcomes : r[p] = IF p = o THEN q[o] + (-n) ELSE q[p]
  <2>1. q[o] + (-n) \in 0..(MaxQ * b) /\ q[o] + (-n) = q[o] - n
    BY <1>2, <1>3
  <2>. QED BY <1>2, <2>1, MovedQuantity
<1>5. q = [r EXCEPT ![o] = @ + n]
  <2>1. r \in [Outcomes -> 0..(MaxQ * b)]
    BY <1>4 DEF Quantities
  <2>. HIDE DEF r
  <2>2. [r EXCEPT ![o] = @ + n] \in Quantities(b)
        /\ \A p \in Outcomes : [r EXCEPT ![o] = @ + n][p] = IF p = o THEN r[o] + n ELSE r[p]
    <3>1. r[o] + n \in 0..(MaxQ * b)
      BY <1>2, <1>3, <1>4
    <3>. QED BY <1>2, <1>4, <3>1, MovedQuantity
  <2>. DEFINE s == [r EXCEPT ![o] = @ + n]
  <2>3. s \in [Outcomes -> 0..(MaxQ * b)] /\ \A p \in Outcomes : s[p] = IF p = o THEN r[o] + n ELSE r[p]
    BY <2>2 DEF Quantities
  <2>. HIDE DEF s
  <2>4. \A p \in Outcomes : s[p] = q[p]
    BY <1>2, <1>3, <1>4, <2>3
  <2>5. s = q
    BY <1>3, <2>3, <2>4
  <2>. QED BY <2>5 DEF s
<1>6. Cost(b, q) \in Nat /\ Cost(b, r) \in Nat /\ Cost(b, r) < Cost(b, q)
  <2>. HIDE DEF r
  <2>1. Cost(b, q) \in Nat /\ Cost(b, r) \in Nat
    BY <1>4, CostNat
  <2>2. r[o] + n <= MaxQ * b
    BY <1>2, <1>3, <1>4
  <2>3. Cost(b, r) < Cost(b, [r EXCEPT ![o] = @ + n])
    BY <1>4, <2>2, CostAssumption
  <2>. QED BY <1>5, <2>1, <2>3
<1>7. c = Cost(b, r) - Cost(b, q)
  BY DEF CostToBuy
<1>. HIDE DEF r, c
<1>8. c \in Int /\ -c \in Nat
  BY <1>6, <1>7
<1>9. n * Max({0, (-c) \div n}) \in Nat /\ n * Max({0, (-c) \div n}) <= -c
  BY <1>2, <1>8, RoundedDown
<1>10. SellValue(o, n) = n * Max({0, (-c) \div n})
  BY DEF SellValue, c
<1>. HIDE DEF SellValue
<1>. QED BY <1>8, <1>9, <1>10 DEF c

LEMMA TokensOK ==
  ASSUME b \in 1..MaxB, q \in Quantities(b), NEW o \in Outcomes, NEW budget \in Nat
  PROVE  TokensFor(o, budget) \in 0..MaxTrade
<1>. DEFINE S == {n \in 0..MaxTrade : CostToBuy(o, n) <= budget}
<1>1. MaxTrade \in Nat
  BY ConstantsOK
<1>2. S # {}
  <2>1. [q EXCEPT ![o] = @ + 0] = q
    BY DEF Quantities
  <2>2. Cost(b, q) \in Nat
    BY CostNat
  <2>3. CostToBuy(o, 0) <= budget
    BY <2>1, <2>2 DEF CostToBuy
  <2>. QED BY <1>1, <2>3
<1>3. IsFiniteSet(S)
  <2>1. IsFiniteSet(0..MaxTrade)
    BY <1>1, FS_Interval
  <2>2. S \subseteq 0..MaxTrade
    OBVIOUS
  <2>. HIDE DEF S
  <2>. QED BY <2>1, <2>2, FS_Subset
<1>4. S \subseteq Int /\ S \subseteq 0..MaxTrade
  BY <1>1
<1>. HIDE DEF S
<1>5. \E x \in S : \A y \in S : x >= y
  BY <1>2, <1>3, <1>4, LargestMember
<1>6. Max(S) \in S
  BY <1>5 DEF Max
<1>. QED BY <1>4, <1>6 DEF TokensFor, S

LEMMA MarginOK ==
  ASSUME NEW t \in Traders, NEW o \in Outcomes, NEW n \in Nat \ {0}, positions[t][o] \in Nat,
         n <= positions[t][o], ledger.locks[t][PositionLock(o)] \in Nat
  PROVE  LET m == CloseMargin(t, o, n)
             locked == ledger.locks[t][PositionLock(o)]
         IN  /\ m \in Nat /\ m <= locked
             /\ n = positions[t][o] => m = locked
             /\ n < positions[t][o] /\ locked > 0 => m < locked
<1>1. CASE n = positions[t][o]
  BY <1>1 DEF CloseMargin
<1>2. CASE n < positions[t][o]
  <2>. DEFINE locked == ledger.locks[t][PositionLock(o)]
              p == positions[t][o]
              x == (locked * n) \div p
  <2>1. CloseMargin(t, o, n) = x
    BY <1>2 DEF CloseMargin
  <2>2. locked \in Nat /\ p \in Nat \ {0} /\ n \in Nat /\ n < p
    BY <1>2
  <2>. HIDE DEF locked, p
  <2>3. x \in Nat /\ x <= locked /\ (locked > 0 => x < locked)
    BY <2>2, ProRata
  <2>. HIDE DEF x
  <2>. QED BY <1>2, <2>1, <2>2, <2>3 DEF locked, p
<1>. QED BY <1>1, <1>2

-----------------------------------------------------------------------------
(* Trades keep the invariant                                               *)

\* What buy and sell have in common: n tokens of o change hands, the margin
\* changes by m, and the trader pays v, which is never less than the cost.
TradeStep(t, o, n, m, v) ==
  /\ status = "open" /\ trades < MaxTrades
  /\ positions[t][o] + n \in Nat /\ q[o] + n <= MaxQ * b
  /\ Traded(ledger', ledger, t, o, m, v) /\ Netted(ledger', t)
  /\ positions[t][o] + n = 0 => ledger.locks[t][PositionLock(o)] + m = 0
  /\ positions[t][o] + n > 0 => ledger.locks[t][PositionLock(o)] + m > 0
  /\ CostToBuy(o, n) \in Int /\ v >= CostToBuy(o, n)
  /\ RecordTrade(t, o, n, v)
  /\ UNCHANGED <<status, resolution, funding, b, minted, paidIn, faults>>

\* A trade of t leaves the other traders' accounts alone.
LEMMA OthersUntouched ==
  ASSUME NEW L, NEW N, NEW t \in Traders, NEW o \in Outcomes, NEW m, NEW v,
         Traded(N, L, t, o, m, v), NEW u \in Traders, u # t
  PROVE  /\ Deposit(N, u) = Deposit(L, u) /\ Spent(N, u) = Spent(L, u)
         /\ Netted(N, u) <=> Netted(L, u)
         /\ \A p \in Outcomes : N.locks[u][PositionLock(p)] = L.locks[u][PositionLock(p)]
<1>1. u \in Parties
  BY ConstantsOK
<1>2. N.available[u] = L.available[u] /\ N.frozen[u] = L.frozen[u]
      /\ \A k \in LockTypes : N.locks[u][k] = L.locks[u][k]
  BY <1>1 DEF Traded
<1>. QED BY <1>2, LocksOK DEF Deposit, Spent, Netted

LEMMA StartsWith == SumFunction([a \in Parties |-> StartBalance(a)]) \in Int
<1>. DEFINE f == [a \in Parties |-> StartBalance(a)]
<1>1. IsFiniteSet(Parties) /\ TraderFunds \in Nat /\ FunderFunds \in Nat
  BY ConstantsOK
<1>2. f \in [Parties -> Nat]
  BY <1>1 DEF StartBalance
<1>. HIDE DEF f
<1>3. SumFunction(f) \in Nat
  BY ONLY <1>1, <1>2, SumBounds
<1>. QED BY <1>3 DEF f

\* A trade, also one that raised, leaves the AMM's equity and the funder as they were.
LEMMA TradeFunded ==
  ASSUME Robust, Funded, NEW t \in Traders, NEW o \in Outcomes, NEW m \in Int, NEW v \in Int,
         Traded(ledger', ledger, t, o, m, v), status = "open", faults \subseteq faults',
         UNCHANGED <<status, funding, paidIn, minted>>
  PROVE  Funded'
<1>1. /\ Sheet(ledger) /\ Sheet(ledger') /\ Amm \in Parties /\ Funder \in Parties
      /\ t # Amm /\ t # Funder
  BY ConstantsOK DEF Robust, Traded
<1>2. AmmLocked(ledger') + SumFunction(Profits(ledger'))
        = AmmLocked(ledger) + SumFunction(Profits(ledger))
  BY <1>1, TradedTotals
<1>3. /\ ledger'.available[Amm] = ledger.available[Amm]
      /\ ledger'.available[Funder] = ledger.available[Funder]
  BY <1>1 DEF Traded
<1>4. /\ ledger.available[Amm] \in Int /\ ledger.available[Funder] \in Int
      /\ AmmLocked(ledger) \in Int /\ AmmLocked(ledger') \in Int
      /\ SumFunction(Profits(ledger)) \in Int /\ SumFunction(Profits(ledger')) \in Int
  BY <1>1, SheetEntries, TotalsTyped
<1>5. Equity(ledger') = Equity(ledger)
  BY <1>2, <1>3, <1>4 DEF Equity
<1>. QED BY <1>3, <1>5 DEF Funded, PaidIn, Endowed, Gathered, Swept

\* The quantities and positions after a trade.
LEMMA TradeCounts ==
  ASSUME Robust, NEW t \in Traders, NEW o \in Outcomes, NEW n \in Int, NEW m \in Int,
         NEW v \in Int, TradeStep(t, o, n, m, v)
  PROVE  /\ q \in Quantities(b) /\ q' \in Quantities(b) /\ q' = [q EXCEPT ![o] = @ + n]
         /\ \A p \in Outcomes : q'[p] = q[p] + IF p = o THEN n ELSE 0
         /\ positions' \in [Traders -> [Outcomes -> Nat]]
         /\ \A u \in Traders, p \in Outcomes :
              positions'[u][p] = IF u = t /\ p = o THEN positions[t][o] + n ELSE positions[u][p]
         /\ \A p \in Outcomes :
              /\ Outstanding(positions, p) \in Nat
              /\ Outstanding(positions', p) = Outstanding(positions, p) + IF p = o THEN n ELSE 0
              /\ Outstanding(positions', p) <= q'[p] /\ q'[p] <= MaxQ * b
<1>1. /\ positions \in [Traders -> [Outcomes -> Nat]] /\ q \in [Outcomes -> Nat] /\ b \in 1..MaxB
      /\ \A p \in Outcomes : q[p] <= MaxQ * b /\ Outstanding(positions, p) <= q[p]
      /\ positions[t][o] + n \in Nat /\ q[o] + n <= MaxQ * b
      /\ q' = [q EXCEPT ![o] = @ + n] /\ positions' = Shifted(positions, t, o, n)
  BY DEF Robust, TypeOK, TradeStep, RecordTrade, Shifted
<1>2. MaxQ * b \in Nat /\ b \in Nat
  <2>1. MaxQ \in Nat /\ MaxB \in Nat
    BY ConstantsOK
  <2>. QED BY <1>1, <2>1
<1>3. q \in Quantities(b)
  BY <1>1, <1>2 DEF Quantities
<1>. DEFINE r == Shifted(positions, t, o, n)
<1>4. /\ r \in [Traders -> [Outcomes -> Nat]]
      /\ \A u \in Traders, p \in Outcomes :
           r[u][p] = IF u = t /\ p = o THEN positions[t][o] + n ELSE positions[u][p]
      /\ \A p \in Outcomes :
           /\ Outstanding(positions, p) \in Nat
           /\ \A u \in Traders : positions[u][p] <= Outstanding(positions, p)
           /\ Outstanding(r, p) = Outstanding(positions, p) + IF p = o THEN n ELSE 0
  <2>1. positions \in [Traders -> [Outcomes -> Nat]] /\ positions[t][o] + n \in Nat
    BY <1>1
  <2>. QED BY ONLY <2>1, t \in Traders, o \in Outcomes, n \in Int, OutstandingMoves
<1>5. positions' = r
  BY <1>1
<1>. HIDE DEF r
<1>6. q[o] + n \in 0..(MaxQ * b) /\ q[o] \in Nat
  <2>1. positions[t][o] <= q[o] /\ positions[t][o] \in Nat /\ q[o] \in Nat
    <3>1. positions[t][o] <= Outstanding(positions, o) /\ Outstanding(positions, o) <= q[o]
          /\ Outstanding(positions, o) \in Nat /\ positions[t][o] \in Nat /\ q[o] \in Nat
      BY <1>1, <1>4
    <3>. QED BY <3>1
  <2>. QED BY <1>1, <1>2, <2>1
<1>7. /\ q' \in Quantities(b)
      /\ \A p \in Outcomes : q'[p] = IF p = o THEN q[o] + n ELSE q[p]
  BY <1>1, <1>3, <1>6, MovedQuantity
<1>8. \A p \in Outcomes : q'[p] = q[p] + IF p = o THEN n ELSE 0
  BY <1>1, <1>7
<1>9. ASSUME NEW p \in Outcomes
      PROVE  /\ Outstanding(positions, p) \in Nat
             /\ Outstanding(positions', p) = Outstanding(positions, p) + IF p = o THEN n ELSE 0
             /\ Outstanding(positions', p) <= q'[p] /\ q'[p] <= MaxQ * b
  <2>1. q[p] \in Nat /\ Outstanding(positions, p) \in Nat /\ Outstanding(positions, p) <= q[p]
        /\ q[p] <= MaxQ * b
    BY <1>1, <1>4
  <2>2. Outstanding(positions', p) = Outstanding(positions, p) + IF p = o THEN n ELSE 0
    BY <1>4, <1>5
  <2>. QED BY <1>1, <1>8, <2>1, <2>2
<1>10. /\ positions' \in [Traders -> [Outcomes -> Nat]]
       /\ \A u \in Traders, p \in Outcomes :
            positions'[u][p] = IF u = t /\ p = o THEN positions[t][o] + n ELSE positions[u][p]
  BY ONLY <1>4, <1>5
<1>11. q' = [q EXCEPT ![o] = @ + n]
  BY <1>1
<1>. QED BY ONLY <1>3, <1>7, <1>8, <1>9, <1>10, <1>11

LEMMA TradeRobust ==
  ASSUME Robust, NEW t \in Traders, NEW o \in Outcomes, NEW n \in Int, NEW m \in Int,
         NEW v \in Int, TradeStep(t, o, n, m, v)
  PROVE  Robust'
<1>1. /\ Traded(ledger', ledger, t, o, m, v) /\ Netted(ledger', t) /\ status = "open"
      /\ UNCHANGED <<status, resolution, funding, b, minted, paidIn, faults>>
      /\ trades' = trades + 1 /\ trades < MaxTrades /\ netPaid' = [netPaid EXCEPT ![t] = @ + v]
      /\ positions[t][o] + n = 0 => ledger.locks[t][PositionLock(o)] + m = 0
  BY DEF TradeStep, RecordTrade
<1>2. /\ q' \in Quantities(b) /\ positions' \in [Traders -> [Outcomes -> Nat]]
      /\ \A u \in Traders, p \in Outcomes :
           positions'[u][p] = IF u = t /\ p = o THEN positions[t][o] + n ELSE positions[u][p]
      /\ \A p \in Outcomes : Outstanding(positions', p) <= q'[p] /\ q'[p] <= MaxQ * b
  BY TradeCounts
<1>3. TypeOK /\ Sheet(ledger) /\ MaxTrades \in Nat /\ MaxQ \in Nat /\ MaxB \in Nat
  BY ConstantsOK DEF Robust
<1>4. Sheet(ledger') /\ ledger' \in Ledgers(Parties, LockTypes)
  BY <1>1, SheetEntries DEF Traded
<1>5. TypeOK'
  <2>1. q' \in [Outcomes -> Nat]
    <3>1. MaxQ * b \in Nat
      BY <1>3 DEF TypeOK
    <3>. QED BY <1>2, <3>1 DEF Quantities
  <2>2. trades' \in 0..MaxTrades
    BY <1>1, <1>3 DEF TypeOK
  <2>3. netPaid' \in [Traders -> Int]
    BY <1>1, <1>3 DEF TypeOK
  <2>. QED BY <1>1, <1>2, <1>3, <1>4, <2>1, <2>2, <2>3 DEF TypeOK
<1>6. \A u \in Traders : Deposit(ledger', u) = TraderFunds - paidIn'[u]
  <2>1. \A u \in Traders : Deposit(ledger, u) = TraderFunds - paidIn[u]
    BY <1>1 DEF Robust
  <2>. QED BY <1>1, <2>1, OthersUntouched DEF Traded
<1>7. ASSUME NEW u \in Traders, NEW p \in Outcomes, positions'[u][p] = 0
      PROVE  ledger'.locks[u][PositionLock(p)] = 0
  <2>1. CASE u = t /\ p = o
    BY <1>1, <1>2, <1>7, <2>1 DEF Traded
  <2>2. CASE ~ (u = t /\ p = o)
    <3>1. positions[u][p] = 0
      BY <1>2, <1>7, <2>2
    <3>2. ledger.locks[u][PositionLock(p)] = 0
      BY <3>1 DEF Robust
    <3>3. CASE u = t
      BY <1>1, <2>2, <3>2, <3>3 DEF Traded
    <3>4. CASE u # t
      <4>1. \A j \in Outcomes :
              ledger'.locks[u][PositionLock(j)] = ledger.locks[u][PositionLock(j)]
        BY <1>1, <3>4, OthersUntouched
      <4>. QED BY <3>2, <4>1
    <3>. QED BY <3>3, <3>4
  <2>. QED BY <2>1, <2>2
<1>8. \A u \in Traders : Netted(ledger', u)
  <2>1. \A u \in Traders : Netted(ledger, u)
    BY DEF Robust
  <2>. QED BY <1>1, <2>1, OthersUntouched
<1>9. ~ (status' # "open" \/ trades' = 0)
  BY <1>1, <1>3 DEF TypeOK
<1>. QED BY <1>1, <1>2, <1>4, <1>5, <1>6, <1>7, <1>8, <1>9 DEF Robust

LEMMA TradeBacked ==
  ASSUME Robust, NEW t \in Traders, NEW o \in Outcomes, NEW n \in Int, NEW m \in Int,
         NEW v \in Int, TradeStep(t, o, n, m, v), Backed(ledger, positions, b, q)
  PROVE  Backed(ledger', positions', b, q')
<1>1. PICK shift \in Nat :
        /\ Backing(ledger) >= Cost(b, q) - One * shift
        /\ \A p \in Outcomes : shift <= q[p] - Outstanding(positions, p)
  BY DEF Backed
<1>2. /\ Traded(ledger', ledger, t, o, m, v) /\ CostToBuy(o, n) \in Int /\ v >= CostToBuy(o, n)
  BY DEF TradeStep
<1>3. /\ q \in Quantities(b) /\ q' \in Quantities(b) /\ q' = [q EXCEPT ![o] = @ + n]
      /\ \A p \in Outcomes : q'[p] = q[p] + IF p = o THEN n ELSE 0
      /\ \A p \in Outcomes :
           /\ Outstanding(positions, p) \in Nat
           /\ Outstanding(positions', p) = Outstanding(positions, p) + IF p = o THEN n ELSE 0
  BY ONLY Robust, TradeStep(t, o, n, m, v), TradeCounts,
          t \in Traders, o \in Outcomes, n \in Int, m \in Int, v \in Int
<1>4. Backing(ledger') = Backing(ledger) + v /\ Backing(ledger) \in Int
  BY <1>2, TradedTotals, TotalsTyped DEF Robust
<1>5. b \in 1..MaxB /\ \A p \in Outcomes : q[p] \in Nat
  BY DEF Robust, TypeOK
<1>6. Cost(b, q) \in Nat /\ Cost(b, q') \in Nat
  BY <1>3, <1>5, CostNat
<1>7. CostToBuy(o, n) = Cost(b, q') - Cost(b, q)
  BY <1>3 DEF CostToBuy
<1>8. Backing(ledger') >= Cost(b, q') - One * shift
  <2>1. One * shift \in Int
    BY ConstantsOK
  <2>. QED BY <1>1, <1>2, <1>4, <1>6, <1>7, <2>1
<1>9. \A p \in Outcomes : shift <= q'[p] - Outstanding(positions', p)
  BY <1>1, <1>3, <1>5
<1>. QED BY <1>8, <1>9 DEF Backed

LEMMA TradeKeeps ==
  ASSUME AmmInv, NEW t \in Traders, NEW o \in Outcomes, NEW n \in Int, NEW m \in Int,
         NEW v \in Int, TradeStep(t, o, n, m, v)
  PROVE  AmmInv'
<1>1. Robust /\ Robust' /\ Funded'
  <2>1. Robust /\ Robust' /\ Funded
    BY TradeRobust DEF AmmInv
  <2>2. /\ Traded(ledger', ledger, t, o, m, v) /\ status = "open" /\ faults \subseteq faults'
        /\ UNCHANGED <<status, funding, paidIn, minted>>
    BY DEF TradeStep
  <2>. QED BY ONLY <2>1, <2>2, TradeFunded, t \in Traders, o \in Outcomes, m \in Int, v \in Int
<1>2. SUFFICES ASSUME Sound' PROVE Exact'
  BY <1>1 DEF AmmInv
<1>3. /\ Traded(ledger', ledger, t, o, m, v) /\ status = "open"
      /\ UNCHANGED <<status, resolution, funding, b, minted, paidIn, faults>>
      /\ netPaid' = [netPaid EXCEPT ![t] = @ + v]
      /\ positions[t][o] + n > 0 => ledger.locks[t][PositionLock(o)] + m > 0
  BY DEF TradeStep, RecordTrade
<1>4. Exact /\ Trading /\ Credits(ledger) = minted
  <2>1. Sound
    BY <1>2, <1>3 DEF Sound
  <2>. QED BY <1>3, <2>1 DEF AmmInv, Exact
<1>5. ASSUME NEW u \in Traders, NEW p \in Outcomes, positions'[u][p] > 0
      PROVE  ledger'.locks[u][PositionLock(p)] > 0
  <2>1. positions'[u][p] = IF u = t /\ p = o THEN positions[t][o] + n ELSE positions[u][p]
    BY <1>1, TradeCounts
  <2>2. CASE u = t /\ p = o
    BY <1>3, <1>5, <2>1, <2>2 DEF Traded
  <2>3. CASE ~ (u = t /\ p = o)
    <3>1. ledger.locks[u][PositionLock(p)] > 0
      BY <1>4, <1>5, <2>1, <2>3 DEF Trading
    <3>2. CASE u = t
      <4>1. ledger.locks[t][PositionLock(p)] \in Nat
        BY <1>1, ConstantsOK, LocksOK, SheetEntries DEF Robust
      <4>2. ledger'.locks[t][PositionLock(p)] = ledger.locks[t][PositionLock(p)] + 0
        BY <1>3, <2>3, <3>2 DEF Traded
      <4>. QED BY <3>1, <3>2, <4>1, <4>2
    <3>3. CASE u # t
      <4>1. \A j \in Outcomes :
              ledger'.locks[u][PositionLock(j)] = ledger.locks[u][PositionLock(j)]
        <5>1. Traded(ledger', ledger, t, o, m, v)
          BY <1>3
        <5>. QED BY <5>1, <3>3, LocksOK DEF Traded
      <4>. QED BY <3>1, <4>1
    <3>. QED BY <3>2, <3>3
  <2>. QED BY <2>2, <2>3
<1>6. ASSUME NEW u \in Traders PROVE netPaid'[u] = Spent(ledger', u)
  <2>1. netPaid[u] = Spent(ledger, u) /\ netPaid \in [Traders -> Int]
    BY <1>1, <1>4 DEF Trading, Robust, TypeOK
  <2>2. CASE u = t
    BY <1>3, <2>1, <2>2 DEF Traded
  <2>3. CASE u # t
    <3>1. Spent(ledger', u) = Spent(ledger, u)
      <4>1. Traded(ledger', ledger, t, o, m, v) /\ t \in Traders /\ o \in Outcomes
        BY <1>1, <1>3
      <4>. DEFINE N == ledger'
      <4>2. Traded(N, ledger, t, o, m, v)
        BY <4>1
      <4>. HIDE DEF N
      <4>3. Spent(N, u) = Spent(ledger, u)
        BY ONLY <4>1, <4>2, u \in Traders, <2>3, OthersUntouched
      <4>. QED BY <4>3 DEF N
    <3>. QED BY <1>3, <2>1, <2>3, <3>1
  <2>. QED BY <2>2, <2>3
<1>7. ledger'.available[Amm] = ledger.available[Amm]
  BY <1>3, ConstantsOK DEF Traded
<1>8. Backed(ledger', positions', b', q')
  <2>1. Backed(ledger, positions, b, q)
    BY <1>4 DEF Trading
  <2>. QED BY <1>1, <1>3, <2>1, TradeBacked
<1>9. Trading'
  BY <1>4, <1>5, <1>6, <1>7, <1>8 DEF Trading
<1>10. Credits(ledger') = minted'
  BY <1>3, <1>4 DEF Traded
<1>. QED BY <1>3, <1>9, <1>10 DEF Exact

LEMMA BuyKeeps ==
  ASSUME AmmInv, NEW t \in Traders, NEW o \in Outcomes, NEW budget \in Budgets,
         Buy(t, o, budget)
  PROVE  AmmInv'
<1>1. \E n \in Int, v \in Int : TradeStep(t, o, n, v, v)
  <2>1. /\ b \in 1..MaxB /\ q \in Quantities(b) /\ Sheet(ledger) /\ Netted(ledger, t)
        /\ positions[t][o] \in Nat /\ budget \in Nat /\ MaxTrade \in Nat
    <3>1. /\ b \in 1..MaxB /\ q \in [Outcomes -> Nat] /\ \A p \in Outcomes : q[p] <= MaxQ * b
          /\ Sheet(ledger) /\ Netted(ledger, t) /\ positions[t][o] \in Nat
      BY DEF AmmInv, Robust, TypeOK
    <3>2. MaxQ \in Nat /\ MaxTrade \in Nat /\ Budgets \subseteq Nat /\ MaxB \in Nat
      BY ConstantsOK
    <3>3. MaxQ * b \in Nat
      BY <3>1, <3>2
    <3>. QED BY <3>1, <3>2, <3>3 DEF Quantities
  <2>2. PICK n \in 1..MaxTrade :
          /\ status = "open" /\ trades < MaxTrades /\ q[o] + n <= MaxQ * b
          /\ ledger' = Freeze(ledger, t, PositionLock(o), BuyValue(o, n))
          /\ RecordTrade(t, o, n, BuyValue(o, n))
          /\ UNCHANGED <<status, resolution, funding, b, minted, paidIn, faults>>
    <3>. DEFINE wanted == TokensFor(o, budget)
                tokens == IF wanted > 0 /\ ~ CanPay(ledger, t, BuyValue(o, wanted))
                          THEN wanted - 1 ELSE wanted
    <3>1. wanted \in 0..MaxTrade
      BY <2>1, TokensOK
    <3>2. tokens > 0 => tokens \in 1..MaxTrade
      <4>. HIDE DEF wanted
      <4>. QED BY <2>1, <3>1
    <3>3. /\ status = "open" /\ trades < MaxTrades /\ q[o] + tokens <= MaxQ * b /\ tokens > 0
          /\ ledger' = Freeze(ledger, t, PositionLock(o), BuyValue(o, tokens))
          /\ RecordTrade(t, o, tokens, BuyValue(o, tokens))
          /\ UNCHANGED <<status, resolution, funding, b, minted, paidIn, faults>>
      BY DEF Buy
    <3>. HIDE DEF tokens
    <3>. QED BY <3>2, <3>3
  <2>3. /\ BuyValue(o, n) \in Nat /\ BuyValue(o, n) > 0 /\ CostToBuy(o, n) \in Int
        /\ BuyValue(o, n) >= CostToBuy(o, n)
    BY <2>1, <2>2, BuyPrice
  <2>. DEFINE v == BuyValue(o, n)
              lock == ledger.locks[t][PositionLock(o)]
  <2>4. Traded(ledger', ledger, t, o, v, v) /\ Netted(ledger', t)
    BY <2>1, <2>2, <2>3, BuyTraded
  <2>5. lock \in Nat
    BY <2>1, ConstantsOK, LocksOK, SheetEntries
  <2>6. v \in Int /\ n \in Int /\ n > 0 /\ positions[t][o] + n \in Nat /\ positions[t][o] + n > 0
        /\ lock + v > 0
    <3>. HIDE DEF lock, v
    <3>1. v \in Nat /\ v > 0
      BY <2>3 DEF v
    <3>2. positions[t][o] \in Nat /\ n \in Nat /\ n > 0
      BY <2>1, <2>2
    <3>. QED BY <2>5, <3>1, <3>2
  <2>7. TradeStep(t, o, n, v, v)
    BY <2>2, <2>3, <2>4, <2>6 DEF TradeStep
  <2>. QED BY <2>6, <2>7
<1>. QED BY <1>1, TradeKeeps

LEMMA SellKeeps ==
  ASSUME AmmInv, NEW t \in Traders, NEW o \in Outcomes, NEW n \in 1..MaxTrade, Sell(t, o, n)
  PROVE  AmmInv'
<1>1. \E k \in Int, m \in Int, v \in Int : TradeStep(t, o, k, m, v)
  <2>1. /\ b \in 1..MaxB /\ q \in Quantities(b) /\ Sheet(ledger) /\ Netted(ledger, t)
        /\ positions \in [Traders -> [Outcomes -> Nat]] /\ Outstanding(positions, o) <= q[o]
        /\ q[o] <= MaxQ * b
    <3>1. /\ b \in 1..MaxB /\ q \in [Outcomes -> Nat] /\ \A p \in Outcomes : q[p] <= MaxQ * b
          /\ Sheet(ledger) /\ Netted(ledger, t) /\ positions \in [Traders -> [Outcomes -> Nat]]
          /\ Outstanding(positions, o) <= q[o]
      BY DEF AmmInv, Robust, TypeOK
    <3>2. MaxQ \in Nat /\ MaxB \in Nat
      BY ConstantsOK
    <3>3. MaxQ * b \in Nat
      BY <3>1, <3>2
    <3>. QED BY <3>1, <3>2, <3>3 DEF Quantities
  <2>2. positions[t][o] \in Nat /\ n \in Nat \ {0} /\ MaxTrade \in Nat /\ -n \in Int /\ q[o] \in Nat
        /\ MaxQ * b \in Nat
    <3>1. MaxTrade \in Nat /\ MaxQ \in Nat /\ MaxB \in Nat
      BY ConstantsOK
    <3>2. MaxQ * b \in Nat
      BY <2>1, <3>1
    <3>. QED BY <2>1, <3>1, <3>2 DEF Quantities
  <2>. DEFINE m == CloseMargin(t, o, n)
              v == SellValue(o, n)
              lock == ledger.locks[t][PositionLock(o)]
  <2>3. /\ status = "open" /\ trades < MaxTrades /\ n <= positions[t][o] /\ lock > 0
        /\ RecordTrade(t, o, -n, -v)
        /\ UNCHANGED <<status, resolution, funding, b, minted, paidIn, faults>>
    BY DEF Sell, CanSell, HasLock
  <2>4. lock \in Nat
    BY <2>1, ConstantsOK, LocksOK, SheetEntries
  <2>5. m \in Nat /\ m <= lock /\ (n = positions[t][o] => m = lock)
        /\ (n < positions[t][o] /\ lock > 0 => m < lock)
    BY <2>2, <2>3, <2>4, MarginOK
  <2>6. n <= q[o]
    <3>1. positions[t][o] <= Outstanding(positions, o) /\ Outstanding(positions, o) \in Nat
      <4>1. positions[t][o] + 0 \in Nat /\ 0 \in Int
        BY <2>2
      <4>. QED BY <2>1, <4>1, OutstandingMoves
    <3>. QED BY <2>1, <2>2, <2>3, <3>1
  <2>7. v \in Nat /\ CostToBuy(o, -n) \in Int /\ -v >= CostToBuy(o, -n)
    BY <2>1, <2>6, SellPrice
  <2>8. Traded(ledger', ledger, t, o, -m, -v) /\ Netted(ledger', t)
    <3>1. LET R == DecreaseLock(ledger, t, PositionLock(o), m)
              pnl == v - m
          IN  \/ /\ pnl > 0 /\ CanDecrease(R, Amm, AmmLock, pnl)
                 /\ ledger' = NetPnl(TransferFrozen(R, Amm, AmmLock, t, Profit, pnl), t)
              \/ pnl < 0 /\ ledger' = NetPnl(Freeze(R, t, Loss, -pnl), t)
              \/ pnl = 0 /\ ledger' = NetPnl(R, t)
      BY DEF Sell
    <3>. HIDE DEF m, v
    <3>2. m \in Nat /\ v \in Nat /\ m <= ledger.locks[t][PositionLock(o)]
      BY <2>5, <2>7
    <3>. QED BY ONLY <2>1, <3>1, <3>2, t \in Traders, o \in Outcomes, SellTraded
  <2>9. /\ positions[t][o] + (-n) \in Nat /\ q[o] + (-n) <= MaxQ * b
        /\ positions[t][o] + (-n) = 0 => lock + (-m) = 0
        /\ positions[t][o] + (-n) > 0 => lock + (-m) > 0
        /\ -m \in Int /\ -v \in Int
    <3>. HIDE DEF m, v, lock
    <3>. QED BY <2>1, <2>2, <2>3, <2>4, <2>5, <2>7
  <2>10. TradeStep(t, o, -n, -m, -v)
    <3>. HIDE DEF m, v
    <3>. QED BY <2>3, <2>7, <2>8, <2>9 DEF TradeStep
  <2>. HIDE DEF m, v
  <2>. QED BY <2>2, <2>9, <2>10
<1>. QED BY <1>1, TradeKeeps

-----------------------------------------------------------------------------
(* Handlers that leave every trader's account alone                        *)

SameLocks(N, L) ==
  /\ Sheet(N)
  /\ \A u \in Traders : /\ N.frozen[u] = L.frozen[u]
                        /\ \A k \in LockTypes : N.locks[u][k] = L.locks[u][k]
SameTraders(N, L) ==
  SameLocks(N, L) /\ \A u \in Traders : N.available[u] = L.available[u]

LEMMA LocksRead ==
  ASSUME NEW L, NEW N, SameLocks(N, L)
  PROVE  /\ \A u \in Traders :
              /\ Spent(N, u) = Spent(L, u)
              /\ Netted(N, u) <=> Netted(L, u)
              /\ N.locks[u][Profit] = L.locks[u][Profit]
              /\ \A p \in Outcomes : N.locks[u][PositionLock(p)] = L.locks[u][PositionLock(p)]
         /\ NoTraderLocks(N) <=> NoTraderLocks(L)
         /\ Stakes(N) = Stakes(L) /\ Profits(N) = Profits(L)
<1>1. ASSUME NEW u \in Traders
      PROVE  /\ N.frozen[u] = L.frozen[u]
             /\ N.locks[u][Profit] = L.locks[u][Profit] /\ N.locks[u][Loss] = L.locks[u][Loss]
             /\ \A p \in Outcomes : N.locks[u][PositionLock(p)] = L.locks[u][PositionLock(p)]
  BY LocksOK DEF SameLocks
<1>2. NoTraderLocks(N) <=> NoTraderLocks(L)
  BY DEF SameLocks, NoTraderLocks
<1>3. Stakes(N) = Stakes(L) /\ Profits(N) = Profits(L)
  BY <1>1 DEF Stakes, Profits
<1>. QED BY <1>1, <1>2, <1>3 DEF Spent, Netted

LEMMA TradersRead ==
  ASSUME NEW L, NEW N, SameTraders(N, L)
  PROVE  SameLocks(N, L) /\ \A u \in Traders : Deposit(N, u) = Deposit(L, u)
<1>1. SameLocks(N, L)
  BY DEF SameTraders
<1>2. ASSUME NEW u \in Traders PROVE Deposit(N, u) = Deposit(L, u)
  BY LocksOK DEF SameTraders, SameLocks, Deposit
<1>. QED BY <1>1, <1>2

\* A transfer to the AMM or to the funder.
LEMMA HandsOverSame ==
  ASSUME NEW L, Sheet(L), NEW a \in Parties, NEW c \in {Amm, Funder}, NEW x \in Int
  PROVE  LET N == TransferAvailable(L, a, c, x)
         IN  /\ SameLocks(N, L) /\ (a \notin Traders => SameTraders(N, L))
             /\ Credits(N) = Credits(L) /\ AmmLocked(N) = AmmLocked(L)
             /\ \A d \in Parties : N.available[d] =
                  L.available[d] - (IF d = a THEN x ELSE 0) + IF d = c THEN x ELSE 0
<1>. DEFINE N == TransferAvailable(L, a, c, x)
<1>1. /\ a \in Parties /\ c \in Parties /\ c \notin Traders
      /\ IsFiniteSet(Parties) /\ IsFiniteSet(LockTypes) /\ Traders \subseteq Parties
      /\ Amm \in Parties /\ Funder \in Parties
  BY ConstantsOK
<1>2. HandsOver(N, L, Parties, LockTypes, a, c, x)
  BY <1>1, TransferHandsOver DEF Sheet
<1>. HIDE DEF N
<1>3. \A d \in Parties : L.available[d] \in Int
  BY SheetEntries
<1>4. Sheet(N)
  BY <1>2 DEF HandsOver, Sheet
<1>5. a \notin Traders => \A u \in Traders : N.available[u] = L.available[u]
  BY <1>1, <1>2, <1>3 DEF HandsOver
<1>6. SameLocks(N, L) /\ (a \notin Traders => SameTraders(N, L))
  BY <1>2, <1>4, <1>5 DEF HandsOver, SameTraders, SameLocks
<1>7. /\ Credits(N) = Credits(L) /\ AmmLocked(N) = AmmLocked(L)
      /\ \A d \in Parties : N.available[d] =
           L.available[d] - (IF d = a THEN x ELSE 0) + IF d = c THEN x ELSE 0
  BY <1>2 DEF HandsOver, AmmLocked
<1>. QED BY <1>1, <1>6, <1>7 DEF N

\* The AMM locks more of its balance.
LEMMA AmmFreezes ==
  ASSUME NEW L, Sheet(L), NEW x \in Nat
  PROVE  LET N == Freeze(L, Amm, AmmLock, x)
         IN  /\ SameTraders(N, L) /\ Credits(N) = Credits(L)
             /\ AmmLocked(N) = AmmLocked(L) + x
             /\ N.available[Amm] = L.available[Amm] - x
             /\ N.available[Funder] = L.available[Funder]
<1>. DEFINE N == Freeze(L, Amm, AmmLock, x)
<1>1. /\ Amm \in Parties /\ Funder \in Parties /\ Amm \notin Traders /\ Amm # Funder
      /\ IsFiniteSet(Parties) /\ IsFiniteSet(LockTypes) /\ Traders \subseteq Parties
      /\ AmmLock \in LockTypes /\ Ours(Amm, AmmLock)
  BY ConstantsOK, LocksOK DEF Ours
<1>2. Lowers(N, L, Parties, LockTypes, Amm, AmmLock, -x)
  BY <1>1, FreezeLowers DEF Sheet
<1>. HIDE DEF N
<1>3. /\ \A d \in Parties : L.available[d] \in Int /\ L.frozen[d] \in Int
      /\ \A d \in Parties, k \in LockTypes : L.locks[d][k] \in Int
      /\ AmmLocked(L) \in Int
  BY SheetEntries
<1>4. Sheet(N)
  <2>1. -x \in Int
    OBVIOUS
  <2>. QED BY <1>1, <1>2, <2>1, SheetLowers
<1>5. ASSUME NEW u \in Traders
      PROVE  /\ N.available[u] = L.available[u] /\ N.frozen[u] = L.frozen[u]
             /\ \A k \in LockTypes : N.locks[u][k] = L.locks[u][k]
  BY <1>1, <1>2, <1>3 DEF Lowers
<1>6. SameTraders(N, L)
  BY <1>4, <1>5 DEF SameTraders, SameLocks
<1>7. /\ Credits(N) = Credits(L) /\ AmmLocked(N) = AmmLocked(L) + x
      /\ N.available[Amm] = L.available[Amm] - x
      /\ N.available[Funder] = L.available[Funder]
  BY <1>1, <1>2, <1>3 DEF Lowers, AmmLocked
<1>. QED BY <1>6, <1>7 DEF N

LEMMA AmmMinted ==
  ASSUME NEW L, Sheet(L), NEW x \in Int
  PROVE  LET N == Mint(L, Amm, x)
         IN  /\ SameTraders(N, L) /\ Credits(N) = Credits(L) + x
             /\ AmmLocked(N) = AmmLocked(L)
             /\ N.available[Amm] = L.available[Amm] + x
             /\ N.available[Funder] = L.available[Funder]
<1>. DEFINE N == Mint(L, Amm, x)
<1>1. /\ Amm \in Parties /\ Funder \in Parties /\ Amm \notin Traders /\ Amm # Funder
      /\ IsFiniteSet(Parties) /\ Traders \subseteq Parties
  BY ConstantsOK
<1>2. SoundLedger(N, Parties, LockTypes) /\ Credits(N) = Credits(L) + x
  BY <1>1, MintIsSound DEF Sheet
<1>3. /\ N.frozen = L.frozen /\ N.locks = L.locks
      /\ N.available = [L.available EXCEPT ![Amm] = L.available[Amm] + x]
      /\ L.available \in [Parties -> Int]
  BY SheetEntries DEF Mint, Ledgers
<1>. HIDE DEF N
<1>4. SameTraders(N, L)
  BY <1>1, <1>2, <1>3 DEF SameTraders, SameLocks, Sheet
<1>. QED BY <1>1, <1>2, <1>3, <1>4 DEF AmmLocked, N

\* With nothing locked a trader's trades have cost it nothing.
LEMMA NothingSpent ==
  ASSUME NEW L, Sheet(L), NoTraderLocks(L)
  PROVE  /\ \A u \in Traders : L.frozen[u] = 0 /\ L.locks[u][Profit] = 0 /\ Spent(L, u) = 0
         /\ SumFunction(Stakes(L)) = 0 /\ SumFunction(Profits(L)) = 0
<1>0. IsFiniteSet(Traders) /\ IsFiniteSet(LockTypes) /\ Traders \subseteq Parties /\ Profit \in LockTypes
  BY ConstantsOK, LocksOK
<1>1. ASSUME NEW u \in Traders
      PROVE  L.frozen[u] = 0 /\ L.locks[u][Profit] = 0
  <2>. DEFINE f == L.locks[u]
  <2>1. f \in [LockTypes -> Nat] /\ L.frozen[u] = SumFunction(f)
    BY <1>0, SheetEntries
  <2>2. f \in [LockTypes -> Int] /\ \A k \in LockTypes : f[k] = 0
    BY <2>1 DEF NoTraderLocks
  <2>. HIDE DEF f
  <2>3. SumFunction(f) = 0
    BY ONLY <1>0, <2>2, SumZero
  <2>. QED BY <1>0, <2>1, <2>2, <2>3 DEF f
<1>2. /\ Stakes(L) \in [Traders -> Int] /\ \A u \in Traders : Stakes(L)[u] = 0
      /\ Profits(L) \in [Traders -> Int] /\ \A u \in Traders : Profits(L)[u] = 0
  BY <1>1, TotalsTyped DEF Stakes, Profits
<1>3. SumFunction(Stakes(L)) = 0
  BY ONLY <1>0, <1>2, SumZero
<1>4. SumFunction(Profits(L)) = 0
  BY ONLY <1>0, <1>2, SumZero
<1>. QED BY <1>1, <1>3, <1>4 DEF Spent

LEMMA RobustKept ==
  ASSUME Robust, SameLocks(ledger', ledger), TypeOK', UNCHANGED <<positions, trades>>,
         \A u \in Traders : ledger'.available[u] = ledger.available[u] - (paidIn'[u] - paidIn[u]),
         \A o \in Outcomes : q'[o] <= MaxQ * b' /\ q[o] <= q'[o],
         status # "resolved" \/ trades = 0, status # "open" \/ trades = 0 \/ status' = status
  PROVE  Robust'
<1>1. /\ \A u \in Traders :
           /\ Netted(ledger', u) <=> Netted(ledger, u)
           /\ ledger'.locks[u][Profit] = ledger.locks[u][Profit]
           /\ \A p \in Outcomes : ledger'.locks[u][PositionLock(p)] = ledger.locks[u][PositionLock(p)]
      /\ NoTraderLocks(ledger') <=> NoTraderLocks(ledger)
  BY LocksRead
<1>2. \A o \in Outcomes : q'[o] <= MaxQ * b' /\ Outstanding(positions', o) <= q'[o]
  <2>1. ASSUME NEW o \in Outcomes PROVE Outstanding(positions', o) <= q'[o]
    <3>1. Outstanding(positions, o) <= q[o] /\ q[o] <= q'[o] /\ positions' = positions
          /\ q[o] \in Nat /\ q'[o] \in Nat
      BY DEF Robust, TypeOK
    <3>2. Outstanding(positions, o) \in Int
      <4>. DEFINE f == Holding(positions, o)
      <4>1. f \in [Traders -> Nat]
        BY DEF Holding, Robust, TypeOK
      <4>2. IsFiniteSet(Traders)
        BY ConstantsOK
      <4>. HIDE DEF f
      <4>3. SumFunction(f) \in Nat
        BY ONLY <4>1, <4>2, SumBounds
      <4>. QED BY <4>3 DEF Outstanding, f
    <3>. QED BY <3>1, <3>2
  <2>. QED BY <2>1
<1>3. Sheet(ledger')
  BY DEF SameLocks
<1>4. ASSUME NEW u \in Traders PROVE Deposit(ledger', u) = TraderFunds - paidIn'[u]
  <2>1. u \in Parties /\ Sheet(ledger) /\ Profit \in LockTypes /\ TraderFunds \in Int
        /\ paidIn[u] \in Int /\ paidIn'[u] \in Int
    BY ConstantsOK, LocksOK DEF Robust, TypeOK
  <2>2. /\ ledger.available[u] \in Int /\ ledger.frozen[u] \in Int
        /\ ledger.locks[u][Profit] \in Int
    BY <2>1, SheetEntries
  <2>3. Deposit(ledger, u) = TraderFunds - paidIn[u]
    BY DEF Robust
  <2>. QED BY <1>1, <2>1, <2>2, <2>3 DEF Deposit, SameLocks
<1>5. status' # "open" \/ trades' = 0 => NoTraderLocks(ledger')
  BY <1>1 DEF Robust
<1>. QED BY <1>1, <1>2, <1>3, <1>4, <1>5 DEF Robust

LEMMA CreateKeeps ==
  ASSUME AmmInv, NEW how \in {"minted", "recorded", "unrecorded"}, CreateMarket(how)
  PROVE  AmmInv'
<1>. DEFINE x == Cost(b, q)
            F == IF how = "minted" THEN Mint(ledger, Amm, x)
                 ELSE TransferAvailable(ledger, Funder, Amm, x)
<1>1. /\ Robust /\ TypeOK /\ Sheet(ledger) /\ status = "none" /\ NoTraderLocks(ledger)
      /\ b \in 1..MaxB /\ q \in [Outcomes -> Nat] /\ \A o \in Outcomes : q[o] <= MaxQ * b
  BY DEF AmmInv, CreateMarket, Robust, TypeOK
<1>2. /\ ledger' = Freeze(F, Amm, AmmLock, x) /\ status' = "open" /\ funding' = how
      /\ minted' = minted + (IF how = "minted" THEN x ELSE 0)
      /\ paidIn' = IF how = "minted" THEN paidIn ELSE [paidIn EXCEPT ![Funder] = @ + x]
      /\ UNCHANGED <<resolution, b, q, positions, trades, netPaid, faults>>
  BY DEF CreateMarket
<1>3. x \in Nat /\ q \in Quantities(b)
  <2>1. q \in Quantities(b)
    <3>1. MaxQ \in Nat /\ MaxB \in Nat
      BY ConstantsOK
    <3>2. MaxQ * b \in Nat
      BY <1>1, <3>1
    <3>. QED BY <1>1, <3>2 DEF Quantities
  <2>. QED BY <1>1, <2>1, CostNat
<1>. HIDE DEF x, F
<1>4. /\ SameTraders(F, ledger) /\ AmmLocked(F) = AmmLocked(ledger)
      /\ Credits(F) = Credits(ledger) + (IF how = "minted" THEN x ELSE 0)
      /\ F.available[Amm] = ledger.available[Amm] + x
      /\ F.available[Funder] = ledger.available[Funder] - IF how = "minted" THEN 0 ELSE x
  <2>1. /\ Amm # Funder /\ ledger.available[Amm] \in Int /\ ledger.available[Funder] \in Int
        /\ Credits(ledger) \in Int
    <3>1. SumFunction(ledger.available) \in Int /\ SumFunction(ledger.frozen) \in Int
      BY <1>1, ConstantsOK, CreditsInt DEF Sheet
    <3>. QED BY <1>1, <3>1, ConstantsOK, SheetEntries DEF Credits
  <2>2. CASE how = "minted"
    <3>1. F = Mint(ledger, Amm, x) /\ x \in Int
      BY <1>3, <2>2 DEF F
    <3>. QED BY <1>1, <2>1, <2>2, <3>1, AmmMinted
  <2>3. CASE how # "minted"
    <3>1. F = TransferAvailable(ledger, Funder, Amm, x) /\ x \in Int
      BY <1>3, <2>3 DEF F
    <3>2. /\ SameTraders(F, ledger) /\ Credits(F) = Credits(ledger)
          /\ AmmLocked(F) = AmmLocked(ledger)
          /\ \A d \in Parties : F.available[d] =
               ledger.available[d] - (IF d = Funder THEN x ELSE 0) + IF d = Amm THEN x ELSE 0
      BY <1>1, <3>1, HandsOverSame, ConstantsOK
    <3>. QED BY <2>1, <2>3, <3>1, <3>2, ConstantsOK
  <2>. QED BY <2>2, <2>3
<1>5. Sheet(F)
  BY <1>4 DEF SameTraders, SameLocks
<1>6. /\ SameTraders(ledger', F) /\ Credits(ledger') = Credits(F)
      /\ AmmLocked(ledger') = AmmLocked(F) + x
      /\ ledger'.available[Amm] = F.available[Amm] - x
      /\ ledger'.available[Funder] = F.available[Funder]
  BY <1>2, <1>3, <1>5, AmmFreezes
<1>7. SameTraders(ledger', ledger) /\ SameLocks(ledger', ledger) /\ Sheet(ledger')
  BY <1>4, <1>6 DEF SameTraders, SameLocks
<1>8. TypeOK'
  <2>1. ledger' \in Ledgers(Parties, LockTypes)
    BY <1>7, SheetEntries
  <2>2. paidIn' \in [Parties -> Nat]
    <3>1. paidIn \in [Parties -> Nat] /\ Funder \in Parties
      BY <1>1, ConstantsOK DEF TypeOK
    <3>2. [paidIn EXCEPT ![Funder] = @ + x] \in [Parties -> Nat]
      BY <1>3, <3>1
    <3>. QED BY <1>2, <3>1, <3>2
  <2>. QED BY <1>1, <1>2, <1>3, <2>1, <2>2 DEF TypeOK, Statuses
<1>9. Robust'
  <2>1. \A o \in Outcomes : q'[o] <= MaxQ * b' /\ q[o] <= q'[o]
    BY <1>1, <1>2
  <2>2. ASSUME NEW u \in Traders
        PROVE  ledger'.available[u] = ledger.available[u] - (paidIn'[u] - paidIn[u])
    <3>1. u \in Parties /\ u # Funder /\ paidIn[u] \in Int
      BY <1>1, ConstantsOK DEF TypeOK
    <3>2. ledger.available[u] \in Int /\ paidIn'[u] = paidIn[u]
      BY <1>1, <1>2, <3>1, SheetEntries
    <3>. QED BY <1>7, <3>1, <3>2 DEF SameTraders
  <2>. QED BY <1>1, <1>2, <1>7, <1>8, <2>1, <2>2, RobustKept
<1>10. Exact /\ Pristine /\ Credits(ledger) = minted
  <2>1. Sound
    BY <1>1 DEF AmmInv, Funded
  <2>. QED BY <1>1, <2>1 DEF AmmInv, Exact
<1>11. NoTraderLocks(ledger')
  BY <1>1, <1>7, LocksRead
<1>12. /\ \A u \in Traders : Spent(ledger', u) = 0
       /\ SumFunction(Stakes(ledger')) = 0 /\ SumFunction(Profits(ledger')) = 0
  BY <1>7, <1>11, NothingSpent
<1>13. /\ ledger'.available[Amm] = 0 /\ AmmLocked(ledger') = x
       /\ ledger'.available[Funder] = FunderFunds - IF how = "minted" THEN 0 ELSE x
  <2>1. FunderFunds \in Int
    BY ConstantsOK
  <2>. QED BY <1>3, <1>4, <1>6, <1>10, <2>1 DEF Pristine
<1>14. Funded'
  <2>1. LET paid == IF how = "minted" THEN 0 ELSE x
        IN  paidIn'[Funder] = paid /\ PaidIn' = paid
    <3>1. IsFiniteSet(Parties) /\ Funder \in Parties
      BY ConstantsOK
    <3>. DEFINE f == [a \in Parties |-> 0]
                g == [f EXCEPT ![Funder] = x]
    <3>2. /\ f \in [Parties -> Int] /\ f[Funder] = 0 /\ (\A a \in Parties : f[a] = 0)
          /\ x \in Int /\ g[Funder] = x /\ paidIn' = IF how = "minted" THEN f ELSE g
      BY <1>2, <1>3, <1>10, <3>1 DEF Pristine
    <3>3. SumFunction(f) = 0
      <4>. HIDE DEF f
      <4>. QED BY ONLY <3>1, <3>2, SumZero
    <3>4. SumFunction(g) = SumFunction(f) + x - f[Funder]
      <4>. HIDE DEF f
      <4>. QED BY ONLY <3>1, <3>2, SumExcept DEF g
    <3>. HIDE DEF f, g
    <3>. QED BY <3>2, <3>3, <3>4 DEF PaidIn
  <2>2. Endowed' = IF how = "minted" THEN x ELSE 0
    <3>1. Endowed = 0 /\ minted \in Int
      BY <1>1 DEF AmmInv, Funded, TypeOK
    <3>2. SumFunction([a \in Parties |-> StartBalance(a)]) \in Int
      BY StartsWith
    <3>. QED BY <1>2, <1>3, <3>1, <3>2 DEF Endowed
  <2>3. Equity(ledger') = x
    BY <1>3, <1>12, <1>13 DEF Equity
  <2>4. ledger'.available[Funder] = FunderFunds - IF how = "minted" THEN 0 ELSE x
    BY <1>3, <1>13
  <2>. QED BY <1>2, <1>3, <1>13, <2>1, <2>2, <2>3, <2>4, ConstantsOK DEF Funded, Gathered
<1>15. ASSUME Sound' PROVE Exact'
  <2>1. Backed(ledger', positions', b', q')
    <3>1. Backing(ledger') >= x - One * 0
      BY <1>3, <1>12, <1>13, ConstantsOK DEF Backing
    <3>2. \A o \in Outcomes : 0 <= q'[o] - Outstanding(positions', o)
      <4>1. \A o \in Outcomes : Outstanding(positions', o) <= q'[o] /\ q'[o] \in Nat
        BY <1>9 DEF Robust, TypeOK
      <4>2. \A o \in Outcomes : Outstanding(positions', o) \in Int
        <5>1. ASSUME NEW o \in Outcomes PROVE Outstanding(positions', o) \in Int
          <6>. DEFINE f == Holding(positions', o)
          <6>1. f \in [Traders -> Nat]
            BY <1>8 DEF Holding, TypeOK
          <6>2. IsFiniteSet(Traders)
            BY ConstantsOK
          <6>. HIDE DEF f
          <6>3. SumFunction(f) \in Nat
            BY ONLY <6>1, <6>2, SumBounds
          <6>. QED BY <6>3 DEF Outstanding, f
        <5>. QED BY <5>1
      <4>. QED BY <4>1, <4>2
    <3>. QED BY <1>2, <3>1, <3>2 DEF Backed, x
  <2>2. \A u \in Traders, o \in Outcomes : positions'[u][o] = 0
    BY <1>2, <1>10 DEF Pristine
  <2>3. \A u \in Traders : netPaid'[u] = 0
    BY <1>2, <1>10 DEF Pristine
  <2>4. Trading'
    BY <1>12, <1>13, <2>1, <2>2, <2>3 DEF Trading
  <2>5. Credits(ledger') = minted'
    BY <1>2, <1>4, <1>6, <1>10
  <2>. QED BY <1>2, <2>4, <2>5 DEF Exact
<1>. QED BY <1>9, <1>14, <1>15 DEF AmmInv

\* The least quantity sold of any outcome.
LEMMA LeastSold ==
  ASSUME q \in [Outcomes -> Nat]
  PROVE  LET least == Min({q[o] : o \in Outcomes})
         IN  /\ \E o \in Outcomes : least = q[o]
             /\ \A o \in Outcomes : least <= q[o]
<1>. DEFINE Below(o) == {p \in Outcomes : q[p] < q[o]}
            T == {Below(o) : o \in Outcomes}
            S == {q[o] : o \in Outcomes}
<1>1. IsFiniteSet(Outcomes) /\ Outcomes # {}
  BY ConstantsOK
<1>2. T \in SUBSET SUBSET Outcomes /\ T # {}
  <2>1. \A o \in Outcomes : Below(o) \in SUBSET Outcomes
    OBVIOUS
  <2>2. PICK o \in Outcomes : TRUE
    BY <1>1
  <2>. HIDE DEF Below
  <2>. QED BY <2>1, <2>2
<1>3. PICK x \in T : \A y \in T : y \subseteq x => y = x
  <2>. HIDE DEF T
  <2>. QED BY <1>1, <1>2, MinimalSubset
<1>4. PICK o \in Outcomes : x = Below(o)
  BY <1>3
<1>5. ASSUME NEW p \in Outcomes PROVE q[o] <= q[p]
  <2>1. SUFFICES ASSUME q[p] < q[o] PROVE FALSE
    OBVIOUS
  <2>2. Below(p) \in T /\ p \in x /\ p \notin Below(p)
    BY <1>4, <2>1
  <2>3. Below(p) \subseteq x
    BY <1>4, <2>1
  <2>. QED BY <1>3, <2>2, <2>3
<1>6. \E m \in S : \A y \in S : m <= y
  BY <1>5
<1>7. Min(S) \in S /\ \A y \in S : Min(S) <= y
  <2>. HIDE DEF S
  <2>. QED BY <1>6 DEF Min
<1>. QED BY <1>7

LEMMA DoublingPrice ==
  ASSUME b \in 1..MaxB, q \in Quantities(b), 2 * b <= MaxB
  PROVE  LET least == Min({q[o] : o \in Outcomes})
             twice == [o \in Outcomes |-> 2 * q[o]]
         IN  /\ least \in Nat /\ \A o \in Outcomes : least <= q[o]
             /\ DoublingCost \in Nat /\ DoublingCost = Cost(b, q) - One * least
             /\ Cost(b, q) \in Nat /\ Cost(2 * b, twice) = 2 * Cost(b, q)
<1>. DEFINE least == Min({q[o] : o \in Outcomes})
<1>1. MaxQ \in Nat /\ MaxB \in Nat /\ One \in Nat
  BY ConstantsOK
<1>2. q \in [Outcomes -> Nat]
  <2>1. MaxQ * b \in Nat
    BY <1>1
  <2>. QED BY <2>1 DEF Quantities
<1>3. PICK o \in Outcomes : least = q[o]
  BY <1>2, LeastSold
<1>4. \A p \in Outcomes : least <= q[p]
  BY <1>2, LeastSold
<1>5. Cost(b, q) \in Nat /\ One * q[o] <= Cost(b, q)
  BY CostNat
<1>6. Cost(2 * b, [p \in Outcomes |-> 2 * q[p]]) = 2 * Cost(b, q)
  BY CostAssumption
<1>7. DoublingCost = Cost(b, q) - One * least
  BY DEF DoublingCost
<1>. HIDE DEF least
<1>8. least \in Nat /\ One * least \in Nat /\ One * least = One * q[o]
  BY <1>1, <1>2, <1>3
<1>9. DoublingCost \in Nat
  BY <1>5, <1>7, <1>8
<1>. QED BY <1>4, <1>5, <1>6, <1>7, <1>8, <1>9 DEF least

LEMMA OutstandingInt ==
  ASSUME TypeOK, NEW o \in Outcomes
  PROVE  Outstanding(positions, o) \in Nat
<1>. DEFINE f == Holding(positions, o)
<1>1. f \in [Traders -> Nat]
  BY DEF Holding, TypeOK
<1>2. IsFiniteSet(Traders)
  BY ConstantsOK
<1>. HIDE DEF f
<1>3. SumFunction(f) \in Nat
  BY ONLY <1>1, <1>2, SumBounds
<1>. QED BY <1>3 DEF Outstanding, f

LEMMA AddKeeps ==
  ASSUME AmmInv, NEW payer \in Parties, AddLiquidity(payer)
  PROVE  AmmInv'
<1>. DEFINE x == DoublingCost
            F == TransferAvailable(ledger, payer, Amm, x)
            least == Min({q[o] : o \in Outcomes})
<1>1. /\ Robust /\ TypeOK /\ Sheet(ledger) /\ status = "open" /\ 2 * b <= MaxB
      /\ b \in 1..MaxB /\ q \in [Outcomes -> Nat] /\ \A o \in Outcomes : q[o] <= MaxQ * b
      /\ paidIn \in [Parties -> Nat]
  BY DEF AmmInv, AddLiquidity, Robust, TypeOK
<1>2. ledger.available[payer] >= x
  BY DEF AddLiquidity, CanPay
<1>3. /\ UNCHANGED <<status, resolution, funding, positions, trades, minted, netPaid>>
      /\ paidIn' = IF payer = Amm THEN paidIn ELSE [paidIn EXCEPT ![payer] = @ + x]
  BY DEF AddLiquidity
<1>4. \/ /\ ledger' = Freeze(F, Amm, AmmLock, x) /\ b' = 2 * b
         /\ q' = [o \in Outcomes |-> 2 * q[o]] /\ UNCHANGED faults
      \/ /\ ledger' = F /\ faults' = faults \cup {"funding_aborted"} /\ UNCHANGED <<b, q>>
         /\ payer # Amm
  BY DEF AddLiquidity
<1>5. /\ MaxQ \in Nat /\ MaxB \in Nat /\ One \in Nat /\ MaxQ * b \in Nat /\ b \in Nat
      /\ MaxQ * (2 * b) = 2 * (MaxQ * b) /\ q \in Quantities(b)
  <2>1. MaxQ \in Nat /\ MaxB \in Nat /\ One \in Nat
    BY ConstantsOK
  <2>2. b \in Nat /\ MaxQ * b \in Nat /\ MaxQ * (2 * b) = 2 * (MaxQ * b)
    BY <1>1, <2>1
  <2>. QED BY <1>1, <2>1, <2>2 DEF Quantities
<1>6. /\ least \in Nat /\ \A o \in Outcomes : least <= q[o]
      /\ x \in Nat /\ x = Cost(b, q) - One * least
      /\ Cost(b, q) \in Nat /\ Cost(2 * b, [o \in Outcomes |-> 2 * q[o]]) = 2 * Cost(b, q)
  BY <1>1, <1>5, DoublingPrice
<1>. HIDE DEF x, F, least
<1>7. /\ SameLocks(F, ledger) /\ Credits(F) = Credits(ledger)
      /\ AmmLocked(F) = AmmLocked(ledger)
      /\ \A d \in Parties : F.available[d] =
           ledger.available[d] - (IF d = payer THEN x ELSE 0) + IF d = Amm THEN x ELSE 0
  <2>1. x \in Int /\ Amm \in {Amm, Funder}
    BY <1>6
  <2>2. F = TransferAvailable(ledger, payer, Amm, x)
    BY DEF F
  <2>. QED BY <1>1, <2>1, <2>2, HandsOverSame
<1>8. Sheet(F) /\ Profits(F) = Profits(ledger)
  BY <1>7, LocksRead DEF SameLocks
<1>9. /\ Traders \subseteq Parties /\ Amm \in Parties /\ Funder \in Parties /\ Amm # Funder
      /\ Amm \notin Traders /\ IsFiniteSet(Parties) /\ FunderFunds \in Int
      /\ \A d \in Parties : ledger.available[d] \in Int /\ F.available[d] \in Int
      /\ AmmLocked(ledger) \in Int /\ SumFunction(Profits(ledger)) \in Int
  BY <1>1, <1>8, ConstantsOK, SheetEntries, TotalsTyped
<1>10. /\ paidIn' \in [Parties -> Nat]
       /\ \A d \in Parties : paidIn'[d] = paidIn[d] + IF d = payer /\ payer # Amm THEN x ELSE 0
  BY <1>1, <1>3, <1>6
<1>11. \A u \in Traders : F.available[u] = ledger.available[u] - (paidIn'[u] - paidIn[u])
  <2>1. ASSUME NEW u \in Traders
        PROVE  F.available[u] = ledger.available[u] - (paidIn'[u] - paidIn[u])
    <3>1. u \in Parties /\ u # Amm /\ paidIn[u] \in Int
      BY <1>1, <1>9
    <3>. QED BY <1>6, <1>7, <1>9, <1>10, <3>1
  <2>. QED BY <2>1
\* Whoever paid, the equity has grown by what was paid.
<1>12. ASSUME Equity(ledger') = Equity(F), ledger'.available[Funder] = F.available[Funder],
              "overridden" \notin faults => ledger'.available[Amm] >= 0, faults \subseteq faults'
       PROVE  Funded'
  <2>1. PaidIn' = PaidIn + (IF payer = Amm THEN 0 ELSE x) /\ PaidIn \in Int
    <3>. DEFINE f == paidIn
                g == paidIn'
                v == f[payer] + x
    <3>1. f \in [Parties -> Int] /\ v \in Int /\ f[payer] \in Int
      BY <1>1, <1>6
    <3>2. payer # Amm => g = [f EXCEPT ![payer] = v]
      BY <1>3
    <3>3. payer = Amm => g = f
      BY <1>3
    <3>. HIDE DEF f, g, v
    <3>4. SumFunction(f) \in Int /\ SumFunction([f EXCEPT ![payer] = v]) = SumFunction(f) + v - f[payer]
      BY ONLY <1>9, <3>1, payer \in Parties, SumExcept
    <3>5. SumFunction(f) + v - f[payer] = SumFunction(f) + x
      BY <1>6, <3>1, <3>4 DEF v
    <3>6. SumFunction(g) = SumFunction(f) + IF payer = Amm THEN 0 ELSE x
      BY <3>2, <3>3, <3>4, <3>5
    <3>. QED BY <3>4, <3>6 DEF PaidIn, f, g
  <2>2. /\ Equity(F) = Equity(ledger) + IF payer = Amm THEN 0 ELSE x
        /\ F.available[Funder] = ledger.available[Funder] - IF payer = Funder THEN x ELSE 0
    <3>1. /\ F.available[Amm] = ledger.available[Amm] + IF payer = Amm THEN 0 ELSE x
          /\ F.available[Funder] = ledger.available[Funder] - IF payer = Funder THEN x ELSE 0
      BY <1>6, <1>7, <1>9
    <3>. QED BY <1>6, <1>7, <1>8, <1>9, <3>1 DEF Equity
  <2>3. paidIn'[Funder] = paidIn[Funder] + (IF payer = Funder THEN x ELSE 0) /\ paidIn[Funder] \in Int
    BY <1>1, <1>9, <1>10
  <2>4. Equity(ledger) \in Int /\ Endowed \in Int
    <3>1. minted \in Int /\ SumFunction([a \in Parties |-> StartBalance(a)]) \in Int
      BY <1>1, StartsWith DEF TypeOK
    <3>. QED BY <1>9, <3>1 DEF Equity, Endowed
  <2>5. Endowed' = Endowed
    BY <1>3 DEF Endowed
  <2>6. ASSUME "overridden" \notin faults'
        PROVE  /\ ledger'.available[Amm] >= 0
               /\ Equity(ledger') = Gathered'
               /\ ledger'.available[Funder] = FunderFunds - paidIn'[Funder]
    <3>1. "overridden" \notin faults
      BY <1>12, <2>6
    <3>2. /\ Equity(ledger) = Gathered
          /\ ledger.available[Funder] = FunderFunds - paidIn[Funder]
      BY <1>1, <3>1 DEF AmmInv, Funded
    <3>. QED BY <1>6, <1>9, <1>12, <2>1, <2>2, <2>3, <2>4, <2>5, <3>1, <3>2 DEF Gathered
  <2>. QED BY <1>1, <1>3, <2>6 DEF Funded
<1>13. CASE /\ ledger' = Freeze(F, Amm, AmmLock, x) /\ b' = 2 * b
            /\ q' = [o \in Outcomes |-> 2 * q[o]] /\ UNCHANGED faults
  <2>1. /\ SameTraders(ledger', F) /\ Credits(ledger') = Credits(F)
        /\ AmmLocked(ledger') = AmmLocked(F) + x
        /\ ledger'.available[Amm] = F.available[Amm] - x
        /\ ledger'.available[Funder] = F.available[Funder]
    BY <1>6, <1>8, <1>13, AmmFreezes
  <2>2. SameLocks(ledger', ledger) /\ Sheet(ledger')
    BY <1>7, <2>1 DEF SameTraders, SameLocks
  <2>3. TypeOK'
    <3>1. ledger' \in Ledgers(Parties, LockTypes)
      BY <2>2, SheetEntries
    <3>2. q' \in [Outcomes -> Nat] /\ b' \in 1..MaxB
      BY <1>1, <1>5, <1>13
    <3>. QED BY <1>1, <1>3, <1>10, <1>13, <3>1, <3>2 DEF TypeOK
  <2>4. Robust'
    <3>1. \A o \in Outcomes : q'[o] <= MaxQ * b' /\ q[o] <= q'[o]
      BY <1>1, <1>5, <1>13
    <3>2. \A u \in Traders : ledger'.available[u] = ledger.available[u] - (paidIn'[u] - paidIn[u])
      BY <1>11, <2>1 DEF SameTraders
    <3>. QED BY <1>1, <1>3, <2>2, <2>3, <3>1, <3>2, RobustKept
  <2>5. ledger'.available[Amm] = ledger.available[Amm] - IF payer = Amm THEN x ELSE 0
    BY <1>6, <1>7, <1>9, <2>1
  <2>6. /\ Stakes(ledger') = Stakes(ledger) /\ Profits(ledger') = Profits(ledger)
        /\ \A u \in Traders : Spent(ledger', u) = Spent(ledger, u)
        /\ \A u \in Traders, p \in Outcomes :
             ledger'.locks[u][PositionLock(p)] = ledger.locks[u][PositionLock(p)]
    BY <2>2, LocksRead
  <2>7. Funded'
    <3>1. Equity(ledger') = Equity(F)
      BY <1>6, <1>7, <1>8, <1>9, <2>1, <2>6 DEF Equity
    <3>2. ASSUME "overridden" \notin faults PROVE ledger'.available[Amm] >= 0
      <4>1. ledger.available[Amm] >= 0
        BY <1>1, <3>2 DEF AmmInv, Funded
      <4>. QED BY <1>2, <1>6, <1>9, <2>5, <4>1
    <3>. QED BY <1>12, <1>13, <2>1, <3>1, <3>2
  <2>8. ASSUME Sound' PROVE Exact'
    <3>1. Exact /\ Trading /\ Credits(ledger) = minted
      <4>1. Sound
        BY <1>13, <2>8 DEF Sound
      <4>. QED BY <1>1, <4>1 DEF AmmInv, Exact
    <3>2. /\ ledger.available[Amm] = 0 /\ ledger'.available[Amm] = 0
          /\ AmmLocked(ledger') = AmmLocked(ledger) + x
      <4>1. ledger.available[Amm] = 0
        BY <3>1 DEF Trading
      <4>2. payer = Amm => x = 0
        BY <1>2, <1>6, <4>1
      <4>. QED BY <1>6, <1>7, <2>1, <2>5, <4>1, <4>2
    <3>3. Backed(ledger', positions', b', q')
      <4>1. PICK shift \in Nat :
              /\ Backing(ledger) >= Cost(b, q) - One * shift
              /\ \A o \in Outcomes : shift <= q[o] - Outstanding(positions, o)
        BY <3>1 DEF Trading, Backed
      <4>2. Backing(ledger') = Backing(ledger) + x /\ Backing(ledger) \in Int
        <5>1. SumFunction(Stakes(ledger)) \in Int
          BY <1>1, TotalsTyped
        <5>. QED BY <1>6, <1>9, <2>6, <3>2, <5>1 DEF Backing
      <4>3. shift + least \in Nat /\ One * (shift + least) = One * shift + One * least
            /\ One * shift \in Int /\ One * least \in Int
        BY <1>5, <1>6
      <4>4. Backing(ledger') >= Cost(b', q') - One * (shift + least)
        BY <1>6, <1>13, <4>1, <4>2, <4>3
      <4>5. \A o \in Outcomes : shift + least <= q'[o] - Outstanding(positions', o)
        <5>1. ASSUME NEW o \in Outcomes
              PROVE  shift + least <= q'[o] - Outstanding(positions', o)
          <6>1. /\ shift <= q[o] - Outstanding(positions, o) /\ least <= q[o]
                /\ Outstanding(positions, o) \in Nat /\ q[o] \in Nat
                /\ q'[o] = 2 * q[o] /\ positions' = positions
            BY <1>1, <1>3, <1>6, <1>13, <4>1, OutstandingInt
          <6>. QED BY <1>6, <6>1
        <5>. QED BY <5>1
      <4>. QED BY <4>3, <4>4, <4>5 DEF Backed
    <3>4. Trading'
      BY <1>3, <2>6, <3>1, <3>2, <3>3 DEF Trading
    <3>5. Credits(ledger') = minted'
      BY <1>3, <1>7, <2>1, <3>1
    <3>. QED BY <1>1, <1>3, <3>4, <3>5 DEF Exact
  <2>. QED BY <2>4, <2>7, <2>8 DEF AmmInv
<1>14. CASE /\ ledger' = F /\ faults' = faults \cup {"funding_aborted"} /\ UNCHANGED <<b, q>>
            /\ payer # Amm
  <2>1. TypeOK'
    <3>1. ledger' \in Ledgers(Parties, LockTypes)
      BY <1>8, <1>14, SheetEntries
    <3>2. faults' \subseteq Faults
      BY <1>1, <1>14 DEF TypeOK, Faults
    <3>. QED BY <1>1, <1>3, <1>10, <1>14, <3>1, <3>2 DEF TypeOK
  <2>2. Robust'
    <3>1. \A o \in Outcomes : q'[o] <= MaxQ * b' /\ q[o] <= q'[o]
      BY <1>1, <1>14
    <3>. QED BY <1>1, <1>3, <1>7, <1>11, <1>14, <2>1, <3>1, RobustKept
  <2>3. Funded'
    <3>1. ASSUME "overridden" \notin faults PROVE ledger'.available[Amm] >= 0
      <4>1. ledger.available[Amm] >= 0
        BY <1>1, <3>1 DEF AmmInv, Funded
      <4>. QED BY <1>6, <1>7, <1>9, <1>14, <4>1
    <3>. QED BY <1>12, <1>14, <3>1
  <2>4. ~ Sound'
    BY <1>14 DEF Sound
  <2>. QED BY <2>2, <2>3, <2>4 DEF AmmInv
<1>. QED BY <1>4, <1>13, <1>14

LEMMA OverrideKeeps ==
  ASSUME AmmInv, NEW new \in {"void", "resolved", "open"}, OverrideStatus(new)
  PROVE  AmmInv'
<1>1. /\ Robust /\ TypeOK /\ Sheet(ledger) /\ trades = 0
      /\ \A o \in Outcomes : q[o] <= MaxQ * b
  BY DEF AmmInv, OverrideStatus, Robust
<1>2. /\ status' = new /\ resolution' = (IF new = "void" THEN NoOutcome ELSE resolution)
      /\ faults' = faults \cup {"overridden"}
      /\ UNCHANGED <<ledger, funding, b, q, positions, trades, minted, netPaid, paidIn>>
  BY DEF OverrideStatus
<1>3. TypeOK'
  <2>1. faults' \subseteq Faults /\ resolution' \in Outcomes \cup {NoOutcome} /\ status' \in Statuses
    BY <1>1, <1>2 DEF TypeOK, Faults, Statuses
  <2>. QED BY <1>1, <1>2, <2>1 DEF TypeOK
<1>4. SameLocks(ledger', ledger)
  BY <1>1, <1>2 DEF SameLocks
<1>5. Robust'
  <2>1. \A o \in Outcomes : q'[o] <= MaxQ * b' /\ q[o] <= q'[o]
    BY <1>1, <1>2 DEF TypeOK
  <2>2. \A u \in Traders : ledger'.available[u] = ledger.available[u] - (paidIn'[u] - paidIn[u])
    <3>1. ASSUME NEW u \in Traders PROVE paidIn[u] \in Int /\ ledger.available[u] \in Int
      BY <1>1, ConstantsOK, SheetEntries DEF TypeOK
    <3>. QED BY <1>2, <3>1
  <2>. QED BY <1>1, <1>2, <1>3, <1>4, <2>1, <2>2, RobustKept
<1>6. ~ Sound' /\ Funded'
  BY <1>2 DEF Sound, Funded
<1>. QED BY <1>5, <1>6 DEF AmmInv

LEMMA AbortKeeps ==
  ASSUME AmmInv, NEW t \in Traders, NEW o \in Outcomes, NEW n \in 1..MaxTrade,
         SellAborts(t, o, n)
  PROVE  AmmInv'
<1>. DEFINE m == CloseMargin(t, o, n)
            lock == ledger.locks[t][PositionLock(o)]
<1>1. /\ Robust /\ TypeOK /\ Sheet(ledger) /\ status = "open" /\ n <= positions[t][o] /\ lock > 0
      /\ positions[t][o] \in Nat
  BY DEF AmmInv, SellAborts, CanSell, HasLock, Robust, TypeOK
<1>2. /\ ledger' = DecreaseLock(ledger, t, PositionLock(o), m)
      /\ faults' = faults \cup {"sell_aborted"}
      /\ UNCHANGED <<status, resolution, funding, b, q, positions, trades, minted, netPaid,
                     paidIn>>
  BY DEF SellAborts
<1>3. /\ t \in Parties /\ PositionLock(o) \in LockTypes /\ IsFiniteSet(Parties)
      /\ IsFiniteSet(LockTypes) /\ SoundLedger(ledger, Parties, LockTypes) /\ MaxTrade \in Nat
      /\ lock \in Nat
  BY <1>1, ConstantsOK, LocksOK, SheetEntries DEF Sheet
<1>4. m \in Nat /\ m <= lock
  <2>1. n \in Nat \ {0}
    BY <1>3
  <2>. QED BY <1>1, <1>3, <2>1, MarginOK
<1>. HIDE DEF m
<1>5. Lowers(ledger', ledger, Parties, LockTypes, t, PositionLock(o), m)
  BY <1>2, <1>3, <1>4, DecreaseLowers
<1>6. Traded(ledger', ledger, t, o, -m, -m) /\ ledger'.locks[t][Profit] = ledger.locks[t][Profit]
      /\ ledger'.locks[t][Loss] = ledger.locks[t][Loss]
  <2>1. m \in Int
    BY <1>4
  <2>. QED BY <1>1, <1>5, <2>1, MarginTraded
<1>7. trades # 0
  BY <1>1, <1>3 DEF Robust, NoTraderLocks
<1>8. Sheet(ledger') /\ ledger' \in Ledgers(Parties, LockTypes)
  BY <1>6, SheetEntries DEF Traded
<1>9. TypeOK'
  <2>1. faults' \subseteq Faults
    BY <1>1, <1>2 DEF TypeOK, Faults
  <2>. QED BY <1>1, <1>2, <1>8, <2>1 DEF TypeOK
<1>10. \A u \in Traders : Deposit(ledger', u) = TraderFunds - paidIn'[u]
  <2>1. \A u \in Traders : Deposit(ledger, u) = TraderFunds - paidIn[u]
    BY <1>1 DEF Robust
  <2>. QED BY <1>2, <1>6, <2>1, OthersUntouched DEF Traded
<1>11. ASSUME NEW u \in Traders, NEW p \in Outcomes, positions'[u][p] = 0
       PROVE  ledger'.locks[u][PositionLock(p)] = 0
  <2>1. positions[u][p] = 0 /\ ledger.locks[u][PositionLock(p)] = 0 /\ ~ (u = t /\ p = o)
    <3>1. n > 0 /\ positions[t][o] > 0
      BY <1>1, <1>3
    <3>. QED BY <1>1, <1>2, <1>11, <3>1 DEF Robust
  <2>2. CASE u = t
    BY <1>6, <2>1, <2>2 DEF Traded
  <2>3. CASE u # t
    BY <1>6, <2>1, <2>3, LocksOK DEF Traded
  <2>. QED BY <2>2, <2>3
<1>12. \A u \in Traders : Netted(ledger', u)
  <2>1. \A u \in Traders : Netted(ledger, u)
    BY <1>1 DEF Robust
  <2>2. Netted(ledger', t)
    BY <1>6, <2>1 DEF Netted
  <2>3. ASSUME NEW u \in Traders, u # t PROVE Netted(ledger', u)
    <3>1. Netted(ledger', u) <=> Netted(ledger, u)
      BY <1>6, <2>3, OthersUntouched
    <3>. QED BY <2>1, <3>1
  <2>. QED BY <2>2, <2>3
<1>13. \A p \in Outcomes : q'[p] <= MaxQ * b' /\ Outstanding(positions', p) <= q'[p]
  BY <1>1, <1>2 DEF Robust
<1>14. Robust'
  BY <1>1, <1>2, <1>7, <1>8, <1>9, <1>10, <1>11, <1>12, <1>13 DEF Robust
<1>15. Funded'
  <2>1. Funded /\ -m \in Int
    BY <1>4 DEF AmmInv
  <2>2. faults \subseteq faults' /\ UNCHANGED <<status, funding, paidIn, minted>>
    BY <1>2
  <2>. QED BY <1>1, <1>6, <2>1, <2>2, TradeFunded
<1>16. ~ Sound'
  BY <1>2 DEF Sound
<1>. QED BY <1>14, <1>15, <1>16 DEF AmmInv

LEMMA AmmInit == Init => AmmInv
<1>. SUFFICES ASSUME Init PROVE AmmInv
  OBVIOUS
<1>. DEFINE E == EmptyLedger(Parties, LockTypes)
            start == [a \in Parties |-> StartBalance(a)]
<1>0. /\ IsFiniteSet(Traders) /\ IsFiniteSet(Parties) /\ IsFiniteSet(LockTypes)
      /\ Traders \subseteq Parties /\ Amm \in Parties /\ Funder \in Parties /\ Amm # Funder
      /\ Amm \notin Traders /\ Funder \notin Traders
      /\ TraderFunds \in Nat /\ FunderFunds \in Nat /\ MaxQ \in Nat /\ MaxB \in Nat \ {0}
      /\ MaxTrades \in Nat
  BY ConstantsOK
<1>1. /\ status = "none" /\ resolution = NoOutcome /\ funding = "none" /\ b = 1
      /\ q = [o \in Outcomes |-> 0]
      /\ positions = [t \in Traders |-> [o \in Outcomes |-> 0]] /\ trades = 0
      /\ netPaid = [t \in Traders |-> 0] /\ faults = {} /\ minted = SumFunction(start)
      /\ paidIn = [a \in Parties |-> 0]
      /\ ledger = [E EXCEPT !.available = start]
  BY DEF Init
<1>2. start \in [Parties -> Nat] /\ start \in [Parties -> Int]
  BY <1>0 DEF StartBalance
<1>3. /\ ledger.available = start
      /\ ledger.frozen = [a \in Parties |-> 0]
      /\ ledger.locks = [a \in Parties |-> [k \in LockTypes |-> 0]]
      /\ ledger = [available |-> start, frozen |-> ledger.frozen, locks |-> ledger.locks]
  BY <1>1 DEF EmptyLedger
<1>4. /\ start[Amm] = 0 /\ start[Funder] = FunderFunds
      /\ \A t \in Traders : start[t] = TraderFunds
  BY <1>0 DEF StartBalance
<1>. HIDE DEF start, E
<1>5. ledger.frozen \in [Parties -> Int] /\ ledger.locks \in [Parties -> [LockTypes -> Nat]]
  BY <1>3
<1>6. ledger \in Ledgers(Parties, LockTypes)
  BY <1>2, <1>3, <1>5 DEF Ledgers
<1>7. \A a \in Parties, k \in LockTypes : ledger.locks[a][k] = 0
  BY <1>3
<1>8. \A a \in Parties : ledger.frozen[a] = 0
  BY <1>3
<1>9. SumFunction(ledger.frozen) = 0
  BY ONLY <1>0, <1>5, <1>8, SumZero
<1>10. ASSUME NEW a \in Parties PROVE ledger.frozen[a] = SumFunction(ledger.locks[a])
  <2>. DEFINE f == ledger.locks[a]
  <2>1. f \in [LockTypes -> Int] /\ \A k \in LockTypes : f[k] = 0
    BY <1>5, <1>7
  <2>. HIDE DEF f
  <2>2. SumFunction(f) = 0
    BY ONLY <1>0, <2>1, SumZero
  <2>. QED BY <1>8, <2>2 DEF f
<1>11. Sheet(ledger) /\ Credits(ledger) = minted
  <2>1. FrozenMatchesLocks(ledger)
    BY <1>5, <1>10 DEF FrozenMatchesLocks
  <2>2. SumFunction(start) \in Nat
    BY ONLY <1>0, <1>2, SumBounds
  <2>. QED BY <1>1, <1>3, <1>6, <1>7, <1>9, <2>1, <2>2 DEF Sheet, SoundLedger, Credits
<1>12. minted \in Nat
  <2>1. SumFunction(start) \in Nat
    BY ONLY <1>0, <1>2, SumBounds
  <2>. QED BY <1>1, <2>1
<1>13. TypeOK
  <2>1. /\ status \in Statuses /\ resolution \in Outcomes \cup {NoOutcome} /\ b \in 1..MaxB
        /\ q \in [Outcomes -> Nat] /\ positions \in [Traders -> [Outcomes -> Nat]]
        /\ trades \in 0..MaxTrades /\ netPaid \in [Traders -> Int] /\ faults \subseteq Faults
        /\ paidIn \in [Parties -> Nat]
    BY <1>0, <1>1 DEF Statuses
  <2>. QED BY <1>1, <1>6, <1>12, <2>1 DEF TypeOK
<1>14. ASSUME NEW o \in Outcomes
       PROVE  q[o] <= MaxQ * b /\ Outstanding(positions, o) <= q[o]
  <2>. DEFINE f == Holding(positions, o)
  <2>1. f \in [Traders -> Int] /\ \A t \in Traders : f[t] = 0
    BY <1>1 DEF Holding
  <2>. HIDE DEF f
  <2>2. SumFunction(f) = 0
    BY ONLY <1>0, <2>1, SumZero
  <2>. QED BY <1>0, <1>1, <2>2 DEF Outstanding, f
<1>15. NoTraderLocks(ledger)
  BY <1>0, <1>7 DEF NoTraderLocks
<1>16. \A t \in Traders : Deposit(ledger, t) = TraderFunds - paidIn[t] /\ Netted(ledger, t)
  BY <1>0, <1>1, <1>3, <1>4, <1>7, <1>8, LocksOK DEF Deposit, Netted
<1>17. \A t \in Traders, o \in Outcomes : ledger.locks[t][PositionLock(o)] = 0
  BY <1>0, <1>7, LocksOK
<1>18. Robust
  BY <1>11, <1>13, <1>14, <1>15, <1>16, <1>17 DEF Robust
<1>19. Pristine
  BY <1>0, <1>1, <1>3, <1>4, <1>7, LocksOK DEF Pristine, AmmLocked
<1>20. Exact
  BY <1>1, <1>11, <1>19 DEF Exact
<1>21. Funded
  <2>1. Endowed = 0
    BY <1>1, <1>12 DEF Endowed, start
  <2>. QED BY <1>1, <2>1 DEF Funded, Sound
<1>. QED BY <1>18, <1>20, <1>21 DEF AmmInv

-----------------------------------------------------------------------------
(* Settlement                                                              *)

LEMMA SumOneMore ==
  ASSUME NEW S, IsFiniteSet(S), NEW x, x \notin S, NEW f \in [S -> Int],
         NEW T, T = S \cup {x}, NEW h \in [T -> Int], \A y \in S : h[y] = f[y]
  PROVE  SumFunction(h) = SumFunction(f) + h[x] /\ SumFunction(f) \in Int
<1>1. IsFiniteSet(T)
  BY FS_AddElement
<1>2. T \ {x} = S /\ x \in T
  OBVIOUS
<1>3. f \in [T \ {x} -> Int] /\ \A y \in T \ {x} : f[y] = h[y]
  BY <1>2
<1>4. h \in [T -> Int]
  OBVIOUS
<1>. QED BY ONLY <1>1, <1>2, <1>3, <1>4, SumWithout

\* A sum over the parties to which only the traders and the AMM contribute.
LEMMA OverParties ==
  ASSUME NEW f \in [Parties -> Int], \A a \in Parties : a \notin Traders /\ a # Amm => f[a] = 0,
         NEW g \in [Traders -> Int], \A t \in Traders : g[t] = f[t]
  PROVE  SumFunction(f) = SumFunction(g) + f[Amm] /\ SumFunction(g) \in Int
<1>. DEFINE T == Traders \cup {Amm}
            h == [a \in T |-> f[a]]
<1>1. /\ IsFiniteSet(Parties) /\ T \in SUBSET Parties /\ Amm \in T /\ IsFiniteSet(Traders)
      /\ Amm \notin Traders /\ T = Traders \cup {Amm}
  BY ConstantsOK
<1>2. h \in [T -> Int] /\ \A a \in T : h[a] = f[a]
  BY <1>1
<1>3. (\A a \in Parties \ T : f[a] = 0) /\ \A t \in Traders : h[t] = g[t]
  OBVIOUS
<1>. HIDE DEF T, h
<1>4. SumFunction(f) = SumFunction(h)
  BY ONLY <1>1, <1>2, <1>3, f \in [Parties -> Int], SumSupport
<1>5. SumFunction(h) = SumFunction(g) + h[Amm] /\ SumFunction(g) \in Int
  BY ONLY <1>1, <1>2, <1>3, g \in [Traders -> Int], SumOneMore
<1>. QED BY <1>1, <1>2, <1>4, <1>5

\* What is frozen, account by account and in all.
LEMMA FrozenIs ==
  ASSUME NEW L, Sheet(L)
  PROVE  /\ \A a \in Parties : a \notin Traders /\ a # Amm =>
              L.frozen[a] = 0 /\ \A k \in LockTypes : L.locks[a][k] = 0
         /\ L.frozen[Amm] = AmmLocked(L)
         /\ SumFunction(L.frozen) = Backing(L) + SumFunction(Profits(L))
<1>0. /\ IsFiniteSet(LockTypes) /\ IsFiniteSet(Traders) /\ Traders \subseteq Parties
      /\ Amm \in Parties /\ Amm \notin Traders /\ AmmLock \in LockTypes /\ Profit \in LockTypes
  BY ConstantsOK, LocksOK
<1>1. /\ L.frozen \in [Parties -> Int] /\ L.locks \in [Parties -> [LockTypes -> Nat]]
      /\ \A a \in Parties : L.frozen[a] = SumFunction(L.locks[a]) /\ L.locks[a] \in [LockTypes -> Nat]
  BY SheetEntries
<1>2. ASSUME NEW a \in Parties, a \notin Traders, a # Amm
      PROVE  L.frozen[a] = 0 /\ \A k \in LockTypes : L.locks[a][k] = 0
  <2>. DEFINE f == L.locks[a]
  <2>1. f \in [LockTypes -> Int] /\ \A k \in LockTypes : f[k] = 0
    BY <1>1, <1>2 DEF Sheet, Ours
  <2>. HIDE DEF f
  <2>2. SumFunction(f) = 0
    BY ONLY <1>0, <2>1, SumZero
  <2>. QED BY <1>1, <2>1, <2>2 DEF f
<1>3. L.frozen[Amm] = AmmLocked(L)
  <2>. DEFINE f == L.locks[Amm]
              none == [k \in LockTypes |-> 0]
              x == AmmLocked(L)
  <2>1. f \in [LockTypes -> Nat] /\ \A k \in LockTypes : k # AmmLock => f[k] = 0
    BY <1>0, <1>1 DEF Sheet, Ours
  <2>2. f[AmmLock] = x /\ x \in Int
    BY <1>0, <2>1 DEF AmmLocked
  <2>3. none \in [LockTypes -> Int] /\ \A k \in LockTypes : none[k] = 0
    OBVIOUS
  <2>. HIDE DEF f, none, x
  <2>4. f = [none EXCEPT ![AmmLock] = x]
    BY <2>1, <2>2, <2>3
  <2>5. SumFunction(none) = 0
    BY ONLY <1>0, <2>3, SumZero
  <2>6. x \in Int
    BY <2>2
  <2>7. SumFunction([none EXCEPT ![AmmLock] = x]) = SumFunction(none) + x - none[AmmLock]
    BY ONLY <1>0, <2>3, <2>6, SumExcept
  <2>8. SumFunction(f) = x
    BY <1>0, <2>2, <2>3, <2>4, <2>5, <2>7
  <2>. QED BY <1>0, <1>1, <2>8 DEF f, x
<1>4. SumFunction(L.frozen) = Backing(L) + SumFunction(Profits(L))
  <2>. DEFINE f == L.frozen
              g == [t \in Traders |-> L.frozen[t]]
              s == Stakes(L)
              p == Profits(L)
  <2>1. /\ f \in [Parties -> Int] /\ \A a \in Parties : a \notin Traders /\ a # Amm => f[a] = 0
        /\ g \in [Traders -> Int] /\ \A t \in Traders : g[t] = f[t]
    BY <1>0, <1>1, <1>2
  <2>2. /\ s \in [Traders -> Int] /\ p \in [Traders -> Int] /\ AmmLocked(L) \in Int
    BY TotalsTyped, SheetEntries
  <2>3. \A t \in Traders : g[t] = s[t] + p[t]
    BY <1>0, <1>1 DEF Stakes, Profits
  <2>. HIDE DEF f, g, s, p
  <2>4. SumFunction(f) = SumFunction(g) + f[Amm]
    BY ONLY <2>1, OverParties
  <2>5. SumFunction(s) \in Int /\ SumFunction(p) \in Int
        /\ SumFunction(g) = SumFunction(s) + SumFunction(p)
    BY ONLY <1>0, <2>1, <2>2, <2>3, SumAdd
  <2>6. f[Amm] = AmmLocked(L)
    BY <1>3 DEF f
  <2>7. SumFunction(f) = SumFunction(s) + AmmLocked(L) + SumFunction(p)
    BY <2>2, <2>4, <2>5, <2>6
  <2>. QED BY <2>7 DEF Backing, f, s, p
<1>. QED BY <1>2, <1>3, <1>4

LEMMA PoolIs ==
  ASSUME Sheet(ledger)
  PROVE  /\ Pool = Backing(ledger) + SumFunction(Profits(ledger)) /\ Pool \in Int
         /\ Pool = SumFunction(ledger.frozen) /\ ProfitsOwed = SumFunction(Profits(ledger))
<1>1. [a \in Parties |-> SumFunction(ledger.locks[a])] = ledger.frozen
  BY SheetEntries
<1>2. Pool = SumFunction(ledger.frozen)
  BY <1>1 DEF Pool
<1>3. Pool = Backing(ledger) + SumFunction(Profits(ledger))
  BY <1>2, FrozenIs
<1>4. Backing(ledger) \in Int /\ SumFunction(Profits(ledger)) \in Nat
  BY TotalsTyped
<1>. QED BY <1>2, <1>3, <1>4 DEF ProfitsOwed, Profits

\* What the winners are owed, and that the pool has it.
LEMMA EntitledIs ==
  ASSUME TypeOK, Sheet(ledger), NEW o \in Outcomes
  PROVE  LET won == [t \in Traders |-> Winnings(t, o)]
         IN  /\ won \in [Traders -> Nat]
             /\ SumFunction(won) = One * Outstanding(positions, o) /\ SumFunction(won) \in Int
             /\ Entitled(o) = SumFunction(won) + SumFunction(Profits(ledger))
<1>. DEFINE won == [t \in Traders |-> Winnings(t, o)]
            p == Profits(ledger)
            h == [t \in Traders |-> Winnings(t, o) + ledger.locks[t][Profit]]
            f == Holding(positions, o)
<1>0. IsFiniteSet(Traders) /\ One \in Int /\ One \in Nat
  BY ConstantsOK
<1>1. /\ won \in [Traders -> Nat] /\ won \in [Traders -> Int] /\ f \in [Traders -> Int]
      /\ \A t \in Traders : won[t] = One * f[t]
  BY <1>0 DEF Winnings, Holding, TypeOK
<1>2. p \in [Traders -> Int] /\ \A t \in Traders : p[t] = ledger.locks[t][Profit]
  BY TotalsTyped DEF Profits
<1>3. h \in [Traders -> Int] /\ \A t \in Traders : h[t] = won[t] + p[t]
  BY <1>1, <1>2
<1>4. Entitled(o) = SumFunction(h)
  BY DEF Entitled
<1>. HIDE DEF won, p, h, f
<1>5. SumFunction(won) \in Int /\ SumFunction(h) = SumFunction(won) + SumFunction(p)
  BY ONLY <1>0, <1>1, <1>2, <1>3, SumAdd
<1>6. SumFunction(won) = One * SumFunction(f)
  BY ONLY <1>0, <1>1, SumTimes
<1>. QED BY <1>1, <1>4, <1>5, <1>6 DEF won, p, f, Outstanding

LEMMA Covered ==
  ASSUME Robust, Backed(ledger, positions, b, q), NEW o \in Outcomes
  PROVE  Backing(ledger) >= One * Outstanding(positions, o)
<1>1. PICK shift \in Nat :
        /\ Backing(ledger) >= Cost(b, q) - One * shift
        /\ \A p \in Outcomes : shift <= q[p] - Outstanding(positions, p)
  BY DEF Backed
<1>2. /\ q \in Quantities(b) /\ b \in 1..MaxB /\ q[o] \in Nat /\ One \in Nat
      /\ Outstanding(positions, o) \in Nat
  <2>1. /\ TypeOK /\ q \in [Outcomes -> Nat] /\ b \in 1..MaxB /\ \A p \in Outcomes : q[p] <= MaxQ * b
    BY DEF Robust, TypeOK
  <2>2. MaxQ \in Nat /\ MaxB \in Nat /\ One \in Nat
    BY ConstantsOK
  <2>3. MaxQ * b \in Nat
    BY <2>1, <2>2
  <2>. QED BY <2>1, <2>2, <2>3, OutstandingInt DEF Quantities
<1>3. Cost(b, q) \in Nat /\ One * q[o] <= Cost(b, q)
  BY <1>2, CostNat
<1>4. Backing(ledger) \in Int
  BY TotalsTyped DEF Robust
<1>5. PICK k \in Nat : q[o] = shift + Outstanding(positions, o) + k
  <2>1. q[o] - shift - Outstanding(positions, o) \in Nat
    BY <1>1, <1>2
  <2>2. q[o] = shift + Outstanding(positions, o) + (q[o] - shift - Outstanding(positions, o))
    BY <1>2
  <2>. QED BY <2>1, <2>2
<1>. DEFINE x == Outstanding(positions, o)
<1>6. One * q[o] = One * shift + One * x + One * k /\ One * shift \in Nat /\ One * x \in Nat
      /\ One * k \in Nat
  <2>1. x \in Nat
    BY <1>2
  <2>2. q[o] = shift + x + k
    BY <1>5
  <2>. HIDE DEF x
  <2>. QED BY <1>2, <2>1, <2>2
<1>. QED BY <1>1, <1>3, <1>4, <1>6

\* Every lock is cleared, and the payments reach the accounts.
IsCleared(N, L, paid) ==
  /\ Sheet(N) /\ Credits(N) = Credits(L) - SumFunction(L.frozen) + SumFunction(paid)
  /\ \A a \in Parties : N.frozen[a] = 0 /\ N.available[a] = L.available[a] + paid[a]
  /\ \A a \in Parties, k \in LockTypes : N.locks[a][k] = 0

LEMMA ClearsAll ==
  ASSUME NEW L, Sheet(L), NEW cleared, \A a, k : Ours(a, k) => <<a, k>> \in cleared,
         NEW paid \in [Parties -> Int]
  PROVE  IsCleared(ClearLocks(L, cleared, paid), L, paid)
<1>. DEFINE N == ClearLocks(L, cleared, paid)
            left == [a \in Parties |->
                       [k \in LockTypes |-> IF <<a, k>> \in cleared THEN 0 ELSE L.locks[a][k]]]
            none == [k \in LockTypes |-> 0]
            f == L.available
            v == N.available
            w == N.frozen
<1>0. IsFiniteSet(Parties) /\ IsFiniteSet(LockTypes)
  BY ConstantsOK
<1>1. /\ f \in [Parties -> Int]
      /\ \A a \in Parties : L.frozen[a] \in Int /\ L.frozen[a] = SumFunction(L.locks[a])
  BY SheetEntries
<1>2. left = [a \in Parties |-> none]
  BY DEF Sheet
<1>3. SumFunction(none) = 0
  <2>1. none \in [LockTypes -> Int] /\ \A k \in LockTypes : none[k] = 0
    OBVIOUS
  <2>. HIDE DEF none
  <2>. QED BY ONLY <1>0, <2>1, SumZero
<1>4. /\ N.locks = left
      /\ N.available = [a \in Parties |-> L.available[a] + paid[a]]
      /\ N.frozen = [a \in Parties |-> L.frozen[a] - SumFunction(L.locks[a]) + SumFunction(left[a])]
      /\ N = [available |-> N.available, frozen |-> N.frozen, locks |-> N.locks]
  BY DEF ClearLocks
<1>5. \A a \in Parties : left[a] = none
  BY <1>2
<1>6. \A a \in Parties, k \in LockTypes : N.locks[a][k] = 0
  <2>1. \A k \in LockTypes : none[k] = 0
    OBVIOUS
  <2>. HIDE DEF N, left, none
  <2>. QED BY <1>4, <1>5, <2>1
<1>7. N.locks \in [Parties -> [LockTypes -> Nat]]
  BY <1>2, <1>4
<1>8. w \in [Parties -> Int] /\ \A a \in Parties : w[a] = 0
  <2>1. \A a \in Parties : L.frozen[a] - SumFunction(L.locks[a]) + SumFunction(left[a]) = 0
    <3>. HIDE DEF left, none, N
    <3>. QED BY <1>1, <1>3, <1>5
  <2>. HIDE DEF left, N
  <2>. QED BY <1>4, <2>1
<1>9. v \in [Parties -> Int] /\ \A a \in Parties : v[a] = f[a] + paid[a]
  <2>. HIDE DEF left, N
  <2>. QED BY <1>1, <1>4
<1>10. N \in Ledgers(Parties, LockTypes)
  <2>. HIDE DEF N, left
  <2>. QED BY <1>4, <1>7, <1>8, <1>9 DEF Ledgers
<1>11. \A a \in Parties : w[a] = SumFunction(N.locks[a])
  <2>1. \A a \in Parties : N.locks[a] = none
    BY <1>4, <1>5
  <2>. HIDE DEF N, none
  <2>. QED BY <1>3, <1>8, <2>1
<1>. HIDE DEF left, none, N
<1>12. Sheet(N)
  <2>1. FrozenMatchesLocks(N)
    BY <1>8, <1>11 DEF FrozenMatchesLocks
  <2>. QED BY <1>6, <1>10, <2>1 DEF Sheet, SoundLedger
<1>. DEFINE p == paid
<1>13. SumFunction(w) = 0
  <2>. HIDE DEF w
  <2>. QED BY ONLY <1>0, <1>8, SumZero
<1>14. SumFunction(f) \in Int /\ SumFunction(v) = SumFunction(f) + SumFunction(paid)
       /\ SumFunction(paid) \in Int
  <2>1. paid \in [Parties -> Int]
    OBVIOUS
  <2>. HIDE DEF f, v
  <2>. QED BY ONLY <1>0, <1>1, <1>9, <2>1, SumAdd
<1>15. SumFunction(L.frozen) \in Int
  BY <1>0, CreditsInt DEF Sheet
<1>16. Credits(N) = Credits(L) - SumFunction(L.frozen) + SumFunction(paid)
  BY <1>13, <1>14, <1>15 DEF Credits
<1>. QED BY <1>6, <1>8, <1>9, <1>12, <1>16 DEF IsCleared, N

\* _sweep_amm after the locks are gone.
LEMMA SweepIs ==
  ASSUME NEW L, Sheet(L)
  PROVE  LET N == Sweep(L)
         IN  /\ SameTraders(N, L) /\ Credits(N) = Credits(L)
             /\ funding = "recorded" /\ L.available[Amm] >= 0 =>
                  /\ N.available[Amm] = 0
                  /\ N.available[Funder] = L.available[Funder] + L.available[Amm]
             /\ funding # "recorded" => N = L
<1>. DEFINE x == L.available[Amm]
            M == TransferAvailable(L, Amm, Funder, x)
<1>1. Amm # Funder /\ L.available[Amm] \in Int /\ L.available[Funder] \in Int
  BY ConstantsOK, SheetEntries
<1>2. /\ SameTraders(M, L) /\ Credits(M) = Credits(L)
      /\ \A d \in Parties : M.available[d] =
           L.available[d] - (IF d = Amm THEN x ELSE 0) + IF d = Funder THEN x ELSE 0
  <2>1. x \in Int /\ Amm \in Parties /\ Amm \notin Traders /\ Funder \in {Amm, Funder}
    BY <1>1, ConstantsOK
  <2>. HIDE DEF x
  <2>. QED BY <2>1, HandsOverSame
<1>3. Sweep(L) = IF funding = "recorded" /\ x > 0 THEN M ELSE L
  BY DEF Sweep
<1>4. SameTraders(L, L)
  BY DEF SameTraders, SameLocks
<1>5. M.available[Amm] = 0 /\ M.available[Funder] = L.available[Funder] + x
  <2>1. /\ M.available[Amm] =
             L.available[Amm] - (IF Amm = Amm THEN x ELSE 0) + IF Amm = Funder THEN x ELSE 0
        /\ M.available[Funder] =
             L.available[Funder] - (IF Funder = Amm THEN x ELSE 0) + IF Funder = Funder THEN x ELSE 0
    BY <1>2, ConstantsOK
  <2>. QED BY <1>1, <2>1
<1>. HIDE DEF M
<1>. QED BY <1>1, <1>2, <1>3, <1>4, <1>5

\* A settlement that leaves no locks keeps what does not depend on payments.
LEMMA SettledRobust ==
  ASSUME Robust, NEW N, NEW paid, IsCleared(N, ledger, paid), SameTraders(ledger', N), TypeOK',
         UNCHANGED <<b, q, positions, trades, paidIn>>,
         status' # "resolved" \/ trades = 0 =>
           \A t \in Traders : Deposit(N, t) = TraderFunds - paidIn[t]
  PROVE  Robust'
<1>1. /\ \A u \in Traders :
           /\ Deposit(ledger', u) = Deposit(N, u)
           /\ ledger'.locks[u][Profit] = N.locks[u][Profit]
           /\ \A p \in Outcomes : ledger'.locks[u][PositionLock(p)] = N.locks[u][PositionLock(p)]
      /\ NoTraderLocks(ledger') <=> NoTraderLocks(N)
  BY TradersRead, LocksRead
<1>2. NoTraderLocks(N) /\ Traders \subseteq Parties
  BY ConstantsOK DEF NoTraderLocks, IsCleared
<1>3. NoTraderLocks(ledger')
  BY <1>1, <1>2
<1>4. \A u \in Traders : /\ Netted(ledger', u)
                         /\ \A p \in Outcomes : ledger'.locks[u][PositionLock(p)] = 0
  BY <1>3, LocksOK DEF Netted, NoTraderLocks
<1>5. Sheet(ledger')
  BY DEF SameTraders, SameLocks
<1>6. \A o \in Outcomes : q'[o] <= MaxQ * b' /\ Outstanding(positions', o) <= q'[o]
  BY DEF Robust
<1>7. status' # "resolved" \/ trades' = 0 =>
        \A t \in Traders : Deposit(ledger', t) = TraderFunds - paidIn'[t]
  BY <1>1
<1>. QED BY <1>3, <1>4, <1>5, <1>6, <1>7 DEF Robust

LEMMA VoidPays ==
  ASSUME Sheet(ledger)
  PROVE  /\ VoidPaid \in [Parties -> Int]
         /\ \A t \in Traders : VoidPaid[t] = ledger.frozen[t] - ledger.locks[t][Profit]
         /\ VoidPaid[Amm] = AmmLocked(ledger) + SumFunction(Profits(ledger))
         /\ SumFunction(VoidPaid) = SumFunction(ledger.frozen)
<1>0. /\ Traders \subseteq Parties /\ Amm \in Parties /\ Amm \notin Traders /\ Profit \in LockTypes
  BY ConstantsOK, LocksOK
<1>1. /\ \A a \in Parties : /\ ledger.frozen[a] \in Int /\ ledger.locks[a][Profit] \in Int
                            /\ SumFunction(ledger.locks[a]) = ledger.frozen[a]
      /\ AmmLocked(ledger) \in Int /\ SumFunction(Profits(ledger)) \in Int
  BY <1>0, SheetEntries, TotalsTyped
<1>2. ledger.locks[Amm][AmmLock] = AmmLocked(ledger)
      /\ SumFunction([t \in Traders |-> ledger.locks[t][Profit]]) = SumFunction(Profits(ledger))
  BY DEF AmmLocked, Profits
<1>. DEFINE f == VoidPaid
            g == Stakes(ledger)
<1>3. /\ f[Amm] = AmmLocked(ledger) + SumFunction(Profits(ledger))
      /\ \A a \in Parties : a # Amm => f[a] = ledger.frozen[a] - ledger.locks[a][Profit]
      /\ DOMAIN f = Parties /\ f = [a \in Parties |-> f[a]]
  BY <1>0, <1>1, <1>2 DEF VoidPaid
<1>. HIDE DEF f
<1>4. f \in [Parties -> Int]
  BY <1>1, <1>3
<1>5. \A a \in Parties : a \notin Traders /\ a # Amm => f[a] = 0
  <2>1. \A a \in Parties : a \notin Traders /\ a # Amm =>
          ledger.frozen[a] = 0 /\ ledger.locks[a][Profit] = 0
    BY <1>0, FrozenIs
  <2>. QED BY <1>3, <2>1
<1>6. \A t \in Traders : f[t] = ledger.frozen[t] - ledger.locks[t][Profit]
  BY <1>0, <1>3
<1>7. g \in [Traders -> Int] /\ \A t \in Traders : g[t] = f[t]
  BY <1>6, TotalsTyped DEF Stakes
<1>. HIDE DEF g
<1>8. SumFunction(f) = SumFunction(g) + f[Amm] /\ SumFunction(g) \in Int
  BY ONLY <1>4, <1>5, <1>7, OverParties
<1>9. SumFunction(ledger.frozen) = SumFunction(g) + AmmLocked(ledger) + SumFunction(Profits(ledger))
  BY FrozenIs DEF Backing, g
<1>10. SumFunction(f) = SumFunction(ledger.frozen)
  BY <1>1, <1>3, <1>8, <1>9
<1>. QED BY <1>3, <1>4, <1>6, <1>10 DEF f

LEMMA VoidKeeps ==
  ASSUME AmmInv, Void
  PROVE  AmmInv'
<1>. DEFINE N == ClearLocks(ledger, ReleasedLocks, VoidPaid)
<1>1. /\ Robust /\ TypeOK /\ Sheet(ledger) /\ status = "open"
      /\ \A t \in Traders : Deposit(ledger, t) = TraderFunds - paidIn[t]
  BY DEF AmmInv, Void, Robust
<1>2. /\ ledger' = Sweep(N) /\ status' = "void"
      /\ UNCHANGED <<resolution, funding, b, q, positions, trades, minted, netPaid, paidIn, faults>>
  BY DEF Void
<1>3. /\ VoidPaid \in [Parties -> Int]
      /\ \A t \in Traders : VoidPaid[t] = ledger.frozen[t] - ledger.locks[t][Profit]
      /\ VoidPaid[Amm] = AmmLocked(ledger) + SumFunction(Profits(ledger))
      /\ SumFunction(VoidPaid) = SumFunction(ledger.frozen)
  BY <1>1, VoidPays
<1>4. IsCleared(N, ledger, VoidPaid)
  <2>1. \A a, k : Ours(a, k) => <<a, k>> \in ReleasedLocks
    BY LocksOK DEF ReleasedLocks
  <2>. QED BY <1>1, <1>3, <2>1, ClearsAll
<1>. HIDE DEF N
<1>5. Sheet(N)
  BY <1>4 DEF IsCleared
<1>6. /\ SameTraders(ledger', N) /\ Credits(ledger') = Credits(N)
      /\ funding = "recorded" /\ N.available[Amm] >= 0 =>
           /\ ledger'.available[Amm] = 0
           /\ ledger'.available[Funder] = N.available[Funder] + N.available[Amm]
      /\ funding # "recorded" => ledger' = N
  BY <1>2, <1>5, SweepIs
<1>7. TypeOK'
  <2>1. ledger' \in Ledgers(Parties, LockTypes)
    BY <1>6, SheetEntries DEF SameTraders, SameLocks
  <2>. QED BY <1>1, <1>2, <2>1 DEF TypeOK, Statuses
<1>8. /\ Traders \subseteq Parties /\ Amm \in Parties /\ Funder \in Parties /\ Amm \notin Traders
      /\ Funder \notin Traders /\ Amm # Funder /\ Profit \in LockTypes /\ FunderFunds \in Int
  BY ConstantsOK, LocksOK
<1>9. \A t \in Traders : Deposit(N, t) = TraderFunds - paidIn[t]
  <2>1. ASSUME NEW t \in Traders PROVE Deposit(N, t) = TraderFunds - paidIn[t]
    <3>1. /\ N.frozen[t] = 0 /\ N.locks[t][Profit] = 0
          /\ N.available[t] = ledger.available[t] + (ledger.frozen[t] - ledger.locks[t][Profit])
      BY <1>3, <1>4, <1>8 DEF IsCleared
    <3>2. ledger.available[t] \in Int /\ ledger.frozen[t] \in Int /\ ledger.locks[t][Profit] \in Int
      BY <1>1, <1>8, SheetEntries
    <3>3. ledger.available[t] + ledger.frozen[t] - ledger.locks[t][Profit] = TraderFunds - paidIn[t]
      BY <1>1 DEF Deposit
    <3>. QED BY <3>1, <3>2, <3>3 DEF Deposit
  <2>. QED BY <2>1
<1>10. Robust'
  BY <1>1, <1>2, <1>4, <1>6, <1>7, <1>9, SettledRobust
<1>11. /\ AmmLocked(ledger) \in Nat /\ SumFunction(Profits(ledger)) \in Nat
       /\ ledger.available[Amm] \in Int /\ ledger.available[Funder] \in Int
  BY <1>1, <1>8, SheetEntries, TotalsTyped
<1>12. N.available[Amm] = ledger.available[Amm] + AmmLocked(ledger) + SumFunction(Profits(ledger))
  <2>1. N.available[Amm] = ledger.available[Amm] + VoidPaid[Amm]
    BY <1>4, <1>8 DEF IsCleared
  <2>. QED BY <1>3, <1>11, <2>1
<1>13. N.available[Funder] = ledger.available[Funder]
  <2>1. N.available[Funder] = ledger.available[Funder] + VoidPaid[Funder]
    BY <1>4, <1>8 DEF IsCleared
  <2>2. VoidPaid[Funder] = 0
    <3>1. /\ VoidPaid[Funder] = SumFunction(ledger.locks[Funder]) - ledger.locks[Funder][Profit]
          /\ SumFunction(ledger.locks[Funder]) = ledger.frozen[Funder]
      BY <1>1, <1>8, SheetEntries DEF VoidPaid
    <3>2. ledger.frozen[Funder] = 0 /\ ledger.locks[Funder][Profit] = 0
      BY <1>1, <1>8, FrozenIs
    <3>. QED BY <3>1, <3>2
  <2>. QED BY <1>11, <2>1, <2>2
\* All the equity is gathered, and the sweep takes it to the funder or leaves it.
<1>14. Funded'
  <2>1. ASSUME "overridden" \notin faults
        PROVE  /\ ledger'.available[Amm] = Gathered - Swept
               /\ ledger'.available[Funder] = FunderFunds - paidIn[Funder] + Swept
    <3>1. /\ ledger.available[Amm] >= 0
          /\ Equity(ledger) = Gathered
          /\ ledger.available[Funder] = FunderFunds - paidIn[Funder]
      BY <1>1, <2>1 DEF AmmInv, Funded
    <3>2. N.available[Amm] >= 0
      BY <1>11, <1>12, <3>1
    <3>3. /\ N.available[Amm] = Gathered /\ Gathered \in Int
          /\ N.available[Funder] = FunderFunds - paidIn[Funder]
          /\ FunderFunds - paidIn[Funder] \in Int
      BY <1>11, <1>12, <1>13, <3>1 DEF Equity
    <3>. QED BY <1>6, <3>2, <3>3 DEF Swept
  <2>2. Gathered' = Gathered /\ Swept' = Swept
    BY <1>2 DEF PaidIn, Endowed, Gathered, Swept
  <2>. QED BY <1>2, <2>1, <2>2 DEF Funded
<1>15. ASSUME Sound' PROVE Exact'
  <2>1. Credits(ledger) = minted
    <3>1. Sound
      BY <1>2, <1>15 DEF Sound
    <3>. QED BY <3>1 DEF AmmInv, Exact
  <2>2. Credits(ledger') = minted'
    <3>1. Credits(ledger) \in Int /\ SumFunction(ledger.frozen) \in Int
      <4>1. SumFunction(ledger.available) \in Int /\ SumFunction(ledger.frozen) \in Int
        BY <1>1, ConstantsOK, CreditsInt DEF Sheet
      <4>. QED BY <4>1 DEF Credits
    <3>2. Credits(N) = Credits(ledger) - SumFunction(ledger.frozen) + SumFunction(VoidPaid)
      BY <1>4 DEF IsCleared
    <3>. QED BY <1>2, <1>3, <1>6, <2>1, <3>1, <3>2
  <2>. QED BY <1>2, <2>2 DEF Exact, Settled
<1>. QED BY <1>10, <1>14, <1>15 DEF AmmInv

LEMMA ResolvePays ==
  ASSUME TypeOK, Sheet(ledger), NEW o \in Outcomes
  PROVE  /\ ResolvePaid(o) \in [Parties -> Int]
         /\ \A t \in Traders : ResolvePaid(o)[t] = ledger.locks[t][Profit]
              + IF HasLock(ledger, t, PositionLock(o)) THEN Winnings(t, o) ELSE 0
         /\ \A a \in Parties : a \notin Traders /\ a # Amm => ResolvePaid(o)[a] = 0
         /\ HasLock(ledger, Amm, AmmLock) => ResolvePaid(o)[Amm] = Pool - Entitled(o)
<1>0. /\ Traders \subseteq Parties /\ Amm \in Parties /\ Amm \notin Traders /\ Profit \in LockTypes
      /\ One \in Nat
  BY ConstantsOK, LocksOK
<1>1. \A t \in Traders : ledger.locks[t][Profit] \in Int /\ Winnings(t, o) \in Int
  <2>1. \A t \in Traders : ledger.locks[t][Profit] \in Int
    BY <1>0, SheetEntries
  <2>2. \A t \in Traders : Winnings(t, o) \in Int
    BY <1>0 DEF Winnings, TypeOK
  <2>. QED BY <2>1, <2>2
<1>2. Pool \in Int /\ Entitled(o) \in Int /\ 0 \in Int
  <2>1. SumFunction(Profits(ledger)) \in Nat
    BY TotalsTyped
  <2>. DEFINE won == [t \in Traders |-> Winnings(t, o)]
  <2>2. SumFunction(won) \in Int /\ Entitled(o) = SumFunction(won) + SumFunction(Profits(ledger))
    BY EntitledIs
  <2>. QED BY <2>1, <2>2, PoolIs
<1>3. ASSUME NEW a \in Parties
      PROVE  /\ a \in Traders => ResolvePaid(o)[a] = ledger.locks[a][Profit]
                  + IF HasLock(ledger, a, PositionLock(o)) THEN Winnings(a, o) ELSE 0
             /\ a \notin Traders /\ a # Amm => ResolvePaid(o)[a] = 0
             /\ a = Amm /\ HasLock(ledger, Amm, AmmLock) => ResolvePaid(o)[a] = Pool - Entitled(o)
             /\ a = Amm /\ ~ HasLock(ledger, Amm, AmmLock) => ResolvePaid(o)[a] = 0
  BY <1>0 DEF ResolvePaid
<1>4. \A a \in Parties : ResolvePaid(o)[a] \in Int
  <2>1. ASSUME NEW a \in Parties PROVE ResolvePaid(o)[a] \in Int
    <3>1. CASE a \in Traders
      <4>1. (IF HasLock(ledger, a, PositionLock(o)) THEN Winnings(a, o) ELSE 0) \in Int
        BY <1>1, <3>1
      <4>. QED BY <1>1, <1>3, <3>1, <4>1
    <3>2. CASE a \notin Traders /\ a # Amm
      BY <1>3, <3>2
    <3>3. CASE a = Amm
      BY <1>2, <1>3, <3>3
    <3>. QED BY <3>1, <3>2, <3>3
  <2>. QED BY <2>1
<1>5. ResolvePaid(o) \in [Parties -> Int]
  <2>1. ResolvePaid(o) = [a \in Parties |-> ResolvePaid(o)[a]]
    BY DEF ResolvePaid
  <2>. DEFINE f == ResolvePaid(o)
  <2>. HIDE DEF f
  <2>2. f \in [Parties -> Int]
    BY <1>4, <2>1 DEF f
  <2>. QED BY <2>2 DEF f
<1>. QED BY <1>0, <1>3, <1>5

LEMMA ResolveKeeps ==
  ASSUME AmmInv, NEW o \in Outcomes, Resolve(o)
  PROVE  AmmInv'
<1>. DEFINE paid == ResolvePaid(o)
            N == ClearLocks(ledger, SettledLocks, paid)
<1>1. /\ Robust /\ TypeOK /\ Sheet(ledger) /\ status = "open"
      /\ \A t \in Traders : Deposit(ledger, t) = TraderFunds - paidIn[t]
  BY DEF AmmInv, Resolve, Robust
<1>2. /\ ledger' = Sweep(N) /\ status' = "resolved" /\ resolution' = o
      /\ faults' = faults \cup (IF HasLock(ledger, Amm, AmmLock) THEN {} ELSE {"remainder_lost"})
      /\ UNCHANGED <<funding, b, q, positions, trades, minted, netPaid, paidIn>>
  BY DEF Resolve
<1>3. /\ paid \in [Parties -> Int]
      /\ \A t \in Traders : paid[t] = ledger.locks[t][Profit]
              + IF HasLock(ledger, t, PositionLock(o)) THEN Winnings(t, o) ELSE 0
      /\ \A a \in Parties : a \notin Traders /\ a # Amm => paid[a] = 0
      /\ HasLock(ledger, Amm, AmmLock) => paid[Amm] = Pool - Entitled(o)
  BY <1>1, ResolvePays
<1>. HIDE DEF paid
<1>4. IsCleared(N, ledger, paid)
  <2>1. \A a, k : Ours(a, k) => <<a, k>> \in SettledLocks
    BY LocksOK
  <2>. QED BY <1>1, <1>3, <2>1, ClearsAll
<1>. HIDE DEF N
<1>5. Sheet(N)
  BY <1>4 DEF IsCleared
<1>6. /\ SameTraders(ledger', N) /\ Credits(ledger') = Credits(N)
      /\ funding = "recorded" /\ N.available[Amm] >= 0 => ledger'.available[Amm] = 0
  <2>1. ledger' = Sweep(N)
    BY <1>2 DEF N
  <2>. QED BY <1>5, <2>1, SweepIs
<1>7. TypeOK'
  <2>1. ledger' \in Ledgers(Parties, LockTypes)
    BY <1>6, SheetEntries DEF SameTraders, SameLocks
  <2>2. faults' \subseteq Faults
    BY <1>1, <1>2 DEF TypeOK, Faults
  <2>. QED BY <1>1, <1>2, <2>1, <2>2 DEF TypeOK, Statuses
<1>8. /\ Traders \subseteq Parties /\ Amm \in Parties /\ Amm \notin Traders
      /\ Profit \in LockTypes /\ TraderFunds \in Int /\ One \in Nat /\ PositionLock(o) \in LockTypes
  BY ConstantsOK, LocksOK
<1>9. trades = 0 => \A t \in Traders : Deposit(N, t) = TraderFunds - paidIn[t]
  <2>1. ASSUME trades = 0, NEW t \in Traders PROVE Deposit(N, t) = TraderFunds - paidIn[t]
    <3>1. ledger.locks[t][Profit] = 0 /\ ledger.locks[t][PositionLock(o)] = 0
          /\ ledger.frozen[t] = 0
      <4>1. NoTraderLocks(ledger)
        BY <1>1, <2>1 DEF Robust
      <4>. QED BY <1>1, <1>8, <4>1, NothingSpent DEF NoTraderLocks
    <3>2. paid[t] = 0
      <4>1. ~ HasLock(ledger, t, PositionLock(o))
        BY <3>1 DEF HasLock
      <4>. QED BY <1>3, <3>1, <4>1
    <3>3. N.frozen[t] = 0 /\ N.locks[t][Profit] = 0 /\ N.available[t] = ledger.available[t] + paid[t]
      BY <1>4, <1>8 DEF IsCleared
    <3>4. ledger.available[t] \in Int
      BY <1>1, <1>8, SheetEntries
    <3>. QED BY <1>1, <3>1, <3>2, <3>3, <3>4 DEF Deposit
  <2>. QED BY <2>1
<1>10. Robust'
  BY <1>1, <1>2, <1>4, <1>6, <1>7, <1>9, SettledRobust
<1>11. ASSUME Sound' PROVE Exact'
  <2>1. Sound /\ HasLock(ledger, Amm, AmmLock)
    BY <1>2, <1>11 DEF Sound
  <2>2. Exact /\ Trading /\ Credits(ledger) = minted
    BY <1>1, <2>1 DEF AmmInv, Exact
  <2>. DEFINE won == [t \in Traders |-> Winnings(t, o)]
              p == Profits(ledger)
              g == [t \in Traders |-> paid[t]]
  <2>3. \A t \in Traders : paid[t] = ledger.locks[t][Profit] + Winnings(t, o)
    <3>1. ASSUME NEW t \in Traders PROVE paid[t] = ledger.locks[t][Profit] + Winnings(t, o)
      <4>1. CASE HasLock(ledger, t, PositionLock(o))
        BY <1>3, <4>1
      <4>2. CASE ~ HasLock(ledger, t, PositionLock(o))
        <5>1. positions[t][o] = 0
          BY <1>1, <2>2, <4>2 DEF Trading, HasLock, TypeOK
        <5>2. Winnings(t, o) = 0
          BY <1>8, <5>1 DEF Winnings
        <5>. QED BY <1>3, <4>2, <5>2
      <4>. QED BY <4>1, <4>2
    <3>. QED BY <3>1
  <2>4. /\ won \in [Traders -> Nat] /\ SumFunction(won) = One * Outstanding(positions, o)
        /\ SumFunction(won) \in Int /\ Entitled(o) = SumFunction(won) + SumFunction(p)
    BY <1>1, EntitledIs
  <2>5. p \in [Traders -> Int] /\ won \in [Traders -> Int] /\ SumFunction(p) \in Int
    BY <1>1, <2>4, TotalsTyped
  <2>6. g \in [Traders -> Int] /\ \A t \in Traders : g[t] = won[t] + p[t]
    BY <1>3, <1>8, <2>3, <2>5 DEF Profits
  <2>7. \A t \in Traders : g[t] = paid[t]
    OBVIOUS
  <2>. HIDE DEF won, p, g
  <2>8. SumFunction(g) = Entitled(o)
    <3>1. IsFiniteSet(Traders)
      BY ConstantsOK
    <3>2. SumFunction(g) = SumFunction(won) + SumFunction(p)
      BY ONLY <2>5, <2>6, <3>1, SumAdd
    <3>. QED BY <2>4, <3>2
  <2>9. SumFunction(paid) = Pool /\ Pool \in Int /\ Entitled(o) \in Int
    <3>1. paid \in [Parties -> Int] /\ \A a \in Parties : a \notin Traders /\ a # Amm => paid[a] = 0
      BY <1>3
    <3>2. SumFunction(paid) = SumFunction(g) + paid[Amm] /\ SumFunction(g) \in Int
      BY ONLY <2>6, <2>7, <3>1, OverParties
    <3>3. Pool \in Int /\ paid[Amm] = Pool - Entitled(o)
      BY <1>1, <1>3, <2>1, PoolIs
    <3>. QED BY <2>8, <3>2, <3>3
  <2>10. Pool - Entitled(o) >= 0
    <3>1. Backing(ledger) >= One * Outstanding(positions, o) /\ Backing(ledger) \in Int
      BY <1>1, <2>2, Covered, TotalsTyped DEF Trading
    <3>2. Pool = Backing(ledger) + SumFunction(p)
      BY <1>1, PoolIs DEF p
    <3>. QED BY <2>4, <2>5, <3>1, <3>2
  <2>11. Credits(ledger') = minted'
    <3>1. Credits(ledger) \in Int /\ SumFunction(ledger.frozen) \in Int
      <4>1. SumFunction(ledger.available) \in Int /\ SumFunction(ledger.frozen) \in Int
        BY <1>1, ConstantsOK, CreditsInt DEF Sheet
      <4>. QED BY <4>1 DEF Credits
    <3>2. Credits(N) = Credits(ledger) - SumFunction(ledger.frozen) + SumFunction(paid)
      BY <1>4 DEF IsCleared
    <3>3. Pool = SumFunction(ledger.frozen)
      BY <1>1, PoolIs
    <3>. QED BY <1>2, <1>6, <2>2, <2>9, <3>1, <3>2, <3>3
  <2>12. ASSUME NEW t \in Traders
         PROVE  ledger'.available[t] = TraderFunds - paidIn'[t] - netPaid'[t] + Winnings(t, o)'
    <3>1. /\ ledger'.available[t] = N.available[t]
          /\ N.available[t] = ledger.available[t] + paid[t]
      BY <1>4, <1>6, <1>8 DEF IsCleared, SameTraders
    <3>2. /\ ledger.available[t] \in Int /\ ledger.frozen[t] \in Int
          /\ ledger.locks[t][Profit] \in Int
      BY <1>1, <1>8, SheetEntries
    <3>3. /\ ledger.available[t] + ledger.frozen[t] - ledger.locks[t][Profit]
               = TraderFunds - paidIn[t]
          /\ netPaid[t] = ledger.frozen[t] - 2 * ledger.locks[t][Profit]
      BY <1>1, <2>2 DEF Deposit, Trading, Spent
    <3>4. Winnings(t, o)' = Winnings(t, o) /\ Winnings(t, o) \in Int /\ netPaid' = netPaid
          /\ paidIn' = paidIn /\ paidIn[t] \in Int
      BY <1>1, <1>2, <1>8 DEF Winnings, TypeOK
    <3>5. paid[t] = ledger.locks[t][Profit] + Winnings(t, o)
      BY <2>3
    <3>. QED BY <3>1, <3>2, <3>3, <3>4, <3>5
  <2>13. funding' = "recorded" => ledger'.available[Amm] = 0
    <3>1. N.available[Amm] = ledger.available[Amm] + paid[Amm] /\ ledger.available[Amm] = 0
      BY <1>4, <1>8, <2>2 DEF IsCleared, Trading
    <3>2. N.available[Amm] >= 0
      BY <1>3, <2>1, <2>9, <2>10, <3>1
    <3>. QED BY <1>2, <1>6, <3>2
  <2>14. Settled'
    BY <1>2, <2>12, <2>13 DEF Settled, Winnings
  <2>. QED BY <1>2, <2>11, <2>14 DEF Exact
<1>12. Funded'
  BY <1>2 DEF Funded
<1>. QED BY <1>10, <1>11, <1>12 DEF AmmInv

-----------------------------------------------------------------------------
(* The theorems                                                            *)

LEMMA AmmStep == AmmInv /\ [Next]_vars => AmmInv'
<1>. SUFFICES ASSUME AmmInv, [Next]_vars PROVE AmmInv'
  OBVIOUS
<1>1. ASSUME NEW how \in {"minted", "recorded", "unrecorded"}, CreateMarket(how) PROVE AmmInv'
  BY <1>1, CreateKeeps
<1>2. ASSUME NEW t \in Traders, NEW o \in Outcomes, NEW budget \in Budgets, Buy(t, o, budget)
      PROVE  AmmInv'
  BY <1>2, BuyKeeps
<1>3. ASSUME NEW t \in Traders, NEW o \in Outcomes, NEW n \in 1..MaxTrade,
             Sell(t, o, n) \/ SellAborts(t, o, n)
      PROVE  AmmInv'
  BY <1>3, SellKeeps, AbortKeeps
<1>4. ASSUME NEW payer \in Parties, AddLiquidity(payer) PROVE AmmInv'
  BY <1>4, AddKeeps
<1>5. ASSUME NEW o \in Outcomes, Resolve(o) PROVE AmmInv'
  BY <1>5, ResolveKeeps
<1>6. CASE Void
  BY <1>6, VoidKeeps
<1>7. ASSUME NEW new \in {"void", "resolved", "open"}, OverrideStatus(new) PROVE AmmInv'
  BY <1>7, OverrideKeeps
<1>8. CASE UNCHANGED vars
  <2>1. Robust'
    BY <1>8 DEF AmmInv, Robust, TypeOK, vars
  <2>2. (Sound => Exact) => (Sound' => Exact')
    BY <1>8 DEF Sound, Exact, Pristine, Trading, Settled, Winnings, vars
  <2>3. Funded'
    BY <1>8 DEF AmmInv, Funded, PaidIn, Endowed, Gathered, Swept, Sound, vars
  <2>. QED BY <2>1, <2>2, <2>3 DEF AmmInv
<1>. QED BY <1>1, <1>2, <1>3, <1>4, <1>5, <1>6, <1>7, <1>8 DEF Next

\* Whatever the traders, the outcomes and the (LMSR-like) cost function, the
\* market's books stay in order through create_market, buy, sell, add_liquidity,
\* resolve, void and admin_override_status, half-failed handlers included.
THEOREM MarketKept == Spec => []AmmInv
BY AmmInit, AmmStep, PTL DEF Spec

\* Every state is well-typed.
THEOREM TypeCorrect == Spec => []TypeOK
<1>1. AmmInv => TypeOK
  BY DEF AmmInv, Robust
<1>. QED BY <1>1, MarketKept, PTL

\* resolve(), void() and _sweep_amm pay out exactly what is locked: no handler
\* that ran to its end creates or destroys credits.
THEOREM Conserved == Spec => []CreditsConserved
<1>1. AmmInv => CreditsConserved
  BY DEF AmmInv, Exact, CreditsConserved
<1>. QED BY <1>1, MarketKept, PTL

\* The remainder that resolve() pays the AMM is never negative: the pool always
\* covers the frozen profits and the tokens of whichever outcome wins.
THEOREM PoolSuffices == Spec => []PoolCoversEveryOutcome
<1>1. AmmInv => PoolCoversEveryOutcome
  <2>. SUFFICES ASSUME AmmInv, Sound, status = "open", NEW o \in Outcomes
                PROVE  Pool - ProfitsOwed >= SumFunction([t \in Traders |-> Winnings(t, o)])
    BY DEF PoolCoversEveryOutcome
  <2>1. Robust /\ TypeOK /\ Sheet(ledger) /\ Backed(ledger, positions, b, q)
    BY DEF AmmInv, Robust, Exact, Trading
  <2>2. Backing(ledger) >= One * Outstanding(positions, o)
    BY <2>1, Covered
  <2>3. /\ Pool = Backing(ledger) + SumFunction(Profits(ledger))
        /\ ProfitsOwed = SumFunction(Profits(ledger))
    BY <2>1, PoolIs
  <2>4. Backing(ledger) \in Int /\ SumFunction(Profits(ledger)) \in Nat
    BY <2>1, TotalsTyped
  <2>5. SumFunction([t \in Traders |-> Winnings(t, o)]) = One * Outstanding(positions, o)
    BY <2>1, EntitledIs
  <2>. QED BY <2>2, <2>3, <2>4, <2>5
<1>. QED BY <1>1, MarketKept, PTL

\* At every moment a void would give each trader back exactly what it came with,
\* less any liquidity it paid; no lock outlives its position, and profit and loss stay netted, also after a
\* sell or an add_liquidity that raised half way.
THEOREM DepositsKept == Spec => []IntactAfterFailures
<1>1. AmmInv => IntactAfterFailures
  <2>. SUFFICES ASSUME AmmInv PROVE IntactAfterFailures
    OBVIOUS
  <2>1. Robust /\ Sheet(ledger) /\ Traders \subseteq Parties
    BY ConstantsOK DEF AmmInv, Robust
  <2>2. DepositsIntact
    <3>1. \A t \in Traders : ledger.frozen[t] = SumFunction(ledger.locks[t])
      BY <2>1, SheetEntries
    <3>2. status \in {"open", "void"} =>
            \A t \in Traders : Deposit(ledger, t) = TraderFunds - paidIn[t]
      BY <2>1 DEF Robust
    <3>. QED BY <3>1, <3>2 DEF DepositsIntact, Deposit
  <2>3. NoPositionNoLock
    BY <2>1 DEF Robust, NoPositionNoLock, HasLock
  <2>4. ProfitAndLossAreNetted
    BY <2>1 DEF Robust, ProfitAndLossAreNetted, Netted, HasLock
  <2>. QED BY <2>2, <2>3, <2>4 DEF IntactAfterFailures
<1>. QED BY <1>1, MarketKept, PTL

\* A resolved trader has its deposit, less any liquidity it paid and the net price
\* of its trades, plus its winning tokens, however many buys and sells its locks went through.
THEOREM TradersPaid == Spec => []ResolvePaysWhatWasTraded
<1>1. AmmInv => ResolvePaysWhatWasTraded
  BY DEF AmmInv, Exact, Settled, ResolvePaysWhatWasTraded
<1>. QED BY <1>1, MarketKept, PTL

\* Void and sweep bring the funder the metadata name the subsidy and all liquidity
\* that was ever paid, whoever paid it and whichever sell or add_liquidity raised
\* half way; without a name all of it stays with the AMM. A resolve that nothing
\* went wrong before leaves nothing on the AMM's account of a recorded funder.
THEOREM RecordDecides == Spec => []SweepFollowsTheRecord
<1>1. AmmInv => SweepFollowsTheRecord
  BY DEF AmmInv, Funded, Exact, Settled, SweepFollowsTheRecord
<1>. QED BY <1>1, MarketKept, PTL
=============================================================================
