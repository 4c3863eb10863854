--------------------------- MODULE JointVenueProofs ---------------------------
(***************************************************************************)
(* JointVenue.tla for any network, bets, traders and stakes: what became   *)
(* of an order, what is frozen for it, and what it was paid, which does    *)
(* not depend on the joint distribution; and, at the end, the structure of *)
(* the junction tree that holds it.                                        *)
(***************************************************************************)
EXTENDS JointVenue, LedgerProofs

-----------------------------------------------------------------------------
(* Rounding: a loser pays no more than was frozen                          *)

LEMMA ConstantsOK ==
  /\ IsFiniteSet(Traders) /\ Treasury \notin Traders /\ IsFiniteSet(Parties)
  /\ Traders \subseteq Parties /\ Treasury \in Parties
  /\ IsFiniteSet(OrderIds) /\ OrderIds = 1..MaxOrders /\ MaxOrders \in Nat
  /\ Edits \subseteq [won : Int, lost : Int, yes : 0..Never - 1, no : 0..Never - 1]
  /\ Open \notin Outcomes /\ Void \notin Outcomes /\ Open # Void
  /\ Grain \in Nat \ {0} /\ Funds \in Nat /\ TreasuryFunds \in Nat
<1>1. IsFiniteSet(Parties)
  BY JointVenueAssumption, FS_AddElement DEF Parties
<1>2. IsFiniteSet(OrderIds)
  BY JointVenueAssumption, FS_Interval DEF OrderIds
<1>. QED BY <1>1, <1>2, JointVenueAssumption DEF Parties, OrderIds, Open, Void

LEMMA Floor ==
  ASSUME NEW x \in Int, NEW g \in Nat \ {0}
  PROVE  x \div g \in Int /\ g * (x \div g) <= x /\ x < g * (x \div g) + g
OBVIOUS

LEMMA FloorMonotone ==
  ASSUME NEW x \in Int, NEW y \in Int, x <= y, NEW g \in Nat \ {0}
  PROVE  x \div g <= y \div g
<1>. DEFINE p == x \div g
            q == y \div g
<1>1. p \in Int /\ q \in Int /\ g * p <= x /\ y < g * q + g
  BY Floor
<1>. HIDE DEF p, q
<1>2. p < q + 1
  <2>1. g * p < g * (q + 1)
    BY <1>1
  <2>. QED BY <1>1, <2>1
<1>. QED BY <1>1, <1>2 DEF p, q

LEMMA PayoutOK ==
  ASSUME NEW edit \in Edits, NEW won
  PROVE  /\ Payout(edit, won) \in Int /\ Stake(edit) \in Nat
         /\ -Payout(edit, won) <= Stake(edit)
<1>. DEFINE S == {-edit.won, -edit.lost, 0}
            worst == Max(S)
            raw == RawPayout(edit, won)
<1>1. edit.won \in Int /\ edit.lost \in Int /\ Grain \in Nat \ {0}
  BY ConstantsOK
<1>2. worst \in Int /\ worst >= 0 /\ worst >= -edit.won /\ worst >= -edit.lost
  <2>1. \E x \in S : \A y \in S : x >= y
    BY <1>1
  <2>2. worst \in S /\ \A y \in S : worst >= y
    BY <2>1 DEF Max
  <2>. QED BY <1>1, <2>2
<1>3. raw \in Int /\ -raw <= worst
  BY <1>1, <1>2 DEF RawPayout
<1>4. Stake(edit) = -((-worst) \div Grain)
  BY DEF Stake, RoundUp
<1>. HIDE DEF worst, raw, S
<1>5. Payout(edit, won) = raw \div Grain
  BY <1>1, <1>3 DEF Payout, RoundDown, RoundUp, raw
<1>6. -worst \in Int /\ -worst <= raw /\ -worst <= 0
  BY <1>2, <1>3
<1>7. (-worst) \div Grain <= raw \div Grain /\ (-worst) \div Grain <= 0 \div Grain
  BY <1>1, <1>3, <1>6, FloorMonotone
<1>8. 0 \div Grain = 0 /\ raw \div Grain \in Int /\ (-worst) \div Grain \in Int
  BY <1>1, <1>3, <1>6, Floor
<1>. HIDE DEF worst
<1>. QED BY <1>4, <1>5, <1>7, <1>8

-----------------------------------------------------------------------------
(* The walks over the orders                                               *)

Desk == [ledger |-> ledger, orders |-> orders, aborted |-> FALSE]

\* The recursions by which the two walks are folded.
Latest(s) == [i \in DOMAIN orders |-> i][Max(s)]
IsSettling(g, v, o) ==
  g = [s \in SUBSET DOMAIN orders |->
         IF s = {} THEN Desk ELSE SettleOne(g[s \ {Max(s)}], Latest(s), v, o)]

VoidOne(desk, i, v) ==
  IF Live(desk.orders[i]) /\ (desk.orders[i].variable = v \/ v \in DOMAIN desk.orders[i].remaining)
  THEN CalledOff(desk, i) ELSE desk
IsVoiding(g, v) ==
  g = [s \in SUBSET DOMAIN orders |->
         IF s = {} THEN Desk ELSE VoidOne(g[s \ {Max(s)}], Latest(s), v)]

-----------------------------------------------------------------------------
(* The books: what is frozen and what was paid for the orders              *)

Locked(O, t, i) == IF i \in DOMAIN O /\ O[i].account = t /\ Live(O[i]) THEN O[i].stake ELSE 0
Paid(order) == IF order.status = "settled" THEN Payout(order.edit, order.won) ELSE 0
PaidTo(O, t) == [i \in DOMAIN O |-> IF O[i].account = t THEN Paid(O[i]) ELSE 0]
PaidOut(O) == [t \in Traders |-> SumFunction(PaidTo(O, t))]

OrderBooks == UNION {[D -> Order] : D \in SUBSET OrderIds}

LEMMA OrderBooksOK ==
  ASSUME NEW O
  PROVE  O \in OrderBooks <=> DOMAIN O \subseteq OrderIds /\ O \in [DOMAIN O -> Order]
<1>1. ASSUME O \in OrderBooks PROVE DOMAIN O \subseteq OrderIds /\ O \in [DOMAIN O -> Order]
  <2>1. PICK D \in SUBSET OrderIds : O \in [D -> Order]
    BY <1>1 DEF OrderBooks
  <2>. QED BY <2>1
<1>. QED BY <1>1 DEF OrderBooks

LEMMA OrderOfKind ==
  ASSUME NEW order \in Order
  PROVE  /\ order.account \in Traders /\ order.account \in Parties /\ order.edit \in Edits
         /\ order.stake \in Nat /\ Paid(order) \in Int
         /\ Payout(order.edit, order.won) \in Int
         /\ order.variable \in Variables /\ order.outcome \in Outcomes
         /\ order.context \in Contexts /\ order.remaining \in Contexts
BY PayoutOK, ConstantsOK DEF Order, Paid

LEMMA PaidTyped ==
  ASSUME NEW O \in OrderBooks
  PROVE  /\ IsFiniteSet(DOMAIN O) /\ PaidOut(O) \in [Traders -> Int]
         /\ \A t : /\ PaidTo(O, t) \in [DOMAIN O -> Int] /\ SumFunction(PaidTo(O, t)) \in Int
         /\ \A t \in Traders : PaidOut(O)[t] = SumFunction(PaidTo(O, t))
<1>1. DOMAIN O \subseteq OrderIds /\ O \in [DOMAIN O -> Order] /\ IsFiniteSet(DOMAIN O)
  BY OrderBooksOK, ConstantsOK, FS_Subset
<1>2. ASSUME NEW t PROVE PaidTo(O, t) \in [DOMAIN O -> Int] /\ SumFunction(PaidTo(O, t)) \in Int
  <2>1. PaidTo(O, t) \in [DOMAIN O -> Int]
    BY <1>1, OrderOfKind DEF PaidTo
  <2>2. DOMAIN PaidTo(O, t) = DOMAIN O
    BY DEF PaidTo
  <2>. DEFINE S == DOMAIN O
              f == PaidTo(O, t)
  <2>. HIDE DEF S, f
  <2>3. f \in [S -> Int] /\ IsFiniteSet(S)
    BY <1>1, <2>1 DEF S, f
  <2>4. SumFunctionOnSet(f, S) \in Int
    BY <2>3, SumRemove
  <2>. QED BY <2>1, <2>2, <2>4 DEF SumFunction, f, S
<1>3. PaidOut(O) \in [Traders -> Int]
  BY <1>2 DEF PaidOut
<1>. QED BY <1>1, <1>2, <1>3 DEF PaidOut

\* One order is replaced by another of its account.
LEMMA PaidMoves ==
  ASSUME NEW O \in OrderBooks, NEW x \in DOMAIN O, NEW q \in Order, q.account = O[x].account
  PROVE  LET N == [O EXCEPT ![x] = q]
             d == Paid(q) - Paid(O[x])
         IN  /\ N \in OrderBooks /\ DOMAIN N = DOMAIN O
             /\ \A t \in Traders : PaidOut(N)[t] = PaidOut(O)[t] + IF t = q.account THEN d ELSE 0
             /\ SumFunction(PaidOut(N)) = SumFunction(PaidOut(O)) + d
             /\ SumFunction(PaidOut(O)) \in Int /\ d \in Int
<1>. DEFINE N == [O EXCEPT ![x] = q]
            a == q.account
            S == DOMAIN O
            d == Paid(q) - Paid(O[x])
<1>1. S \subseteq OrderIds /\ O \in [S -> Order] /\ IsFiniteSet(S) /\ x \in S
  BY OrderBooksOK, PaidTyped
<1>2. N \in [S -> Order] /\ DOMAIN N = S /\ N[x] = q /\ \A i \in S \ {x} : N[i] = O[i]
  BY <1>1
<1>. HIDE DEF N
<1>3. N \in OrderBooks
  BY <1>1, <1>2, OrderBooksOK
<1>4. a \in Traders /\ Paid(q) \in Int /\ Paid(O[x]) \in Int
  BY <1>1, OrderOfKind
<1>5. SumFunction(PaidTo(N, a)) = SumFunction(PaidTo(O, a)) + d
  <2>. DEFINE f == PaidTo(O, a)
  <2>0. f \in [S -> Int]
    BY PaidTyped
  <2>1. f \in [S -> Int] /\ f[x] = Paid(O[x])
    BY <2>0 DEF PaidTo
  <2>2. PaidTo(N, a) = [f EXCEPT ![x] = Paid(q)]
    <3>1. DOMAIN PaidTo(N, a) = S /\ DOMAIN f = S
      BY <1>2 DEF PaidTo
    <3>2. PaidTo(N, a)[x] = Paid(q)
      BY <1>2, <1>1 DEF PaidTo
    <3>3. \A i \in S \ {x} : PaidTo(N, a)[i] = f[i]
      BY <1>2 DEF PaidTo
    <3>4. PaidTo(N, a) = [i \in S |-> PaidTo(N, a)[i]]
      BY <1>2 DEF PaidTo
    <3>. HIDE DEF f, a, S
    <3>. QED BY <1>1, <2>1, <3>2, <3>3, <3>4
  <2>. HIDE DEF f, a, S
  <2>3. /\ SumFunction(f) \in Int
        /\ SumFunction([f EXCEPT ![x] = Paid(q)]) = SumFunction(f) + Paid(q) - f[x]
    BY <1>1, <1>4, <2>1, SumExcept
  <2>. QED BY <1>4, <2>1, <2>2, <2>3 DEF f
<1>6. ASSUME NEW t \in Traders, t # a PROVE PaidTo(N, t) = PaidTo(O, t)
  BY <1>1, <1>2, <1>6 DEF PaidTo
<1>7. /\ \A t \in Traders : PaidOut(N)[t] = SumFunction(PaidTo(N, t))
      /\ \A t \in Traders : PaidOut(O)[t] = SumFunction(PaidTo(O, t)) /\ SumFunction(PaidTo(O, t)) \in Int
      /\ PaidOut(O) \in [Traders -> Int] /\ PaidOut(N) \in [Traders -> Int]
  BY <1>3, PaidTyped
<1>. DEFINE f == PaidOut(O)
            v == f[a] + d
<1>8. PaidOut(N) = [f EXCEPT ![a] = v]
  <2>1. \A t \in Traders : PaidOut(N)[t] = [f EXCEPT ![a] = v][t]
    BY <1>4, <1>5, <1>6, <1>7
  <2>. QED BY <1>7, <2>1
<1>9. f[a] \in Int /\ d \in Int /\ v \in Int /\ f \in [Traders -> Int]
  BY <1>4, <1>7
<1>. HIDE DEF f, v, d, a
<1>10. SumFunction(f) \in Int /\ SumFunction([f EXCEPT ![a] = v]) = SumFunction(f) + v - f[a]
  <2>1. IsFiniteSet(Traders) /\ a \in Traders
    BY <1>4, ConstantsOK
  <2>. QED BY ONLY <1>9, <2>1, SumExcept
<1>11. SumFunction(PaidOut(N)) = SumFunction(f) + d
  BY <1>8, <1>9, <1>10 DEF v
<1>12. \A t \in Traders : PaidOut(N)[t] = PaidOut(O)[t] + IF t = a THEN d ELSE 0
  <2>1. \A t \in Traders : [f EXCEPT ![a] = v][t] = f[t] + IF t = a THEN d ELSE 0
    BY <1>9 DEF v
  <2>. QED BY <1>8, <2>1 DEF f
<1>. QED BY <1>2, <1>3, <1>9, <1>10, <1>11, <1>12 DEF f, N, d, a

\* N is L with x frozen under the key k of a made available again; with x
\* moved from a to b.
Frees(N, L, a, k, x) ==
  /\ SoundLedger(N, Parties, OrderIds)
  /\ \A b \in Parties : /\ N.available[b] = L.available[b] + IF b = a THEN x ELSE 0
                        /\ N.frozen[b] = L.frozen[b] - IF b = a THEN x ELSE 0
  /\ \A b \in Parties, j \in OrderIds :
       N.locks[b][j] = IF b = a /\ j = k THEN 0 ELSE L.locks[b][j]
Transfers(N, L, a, b, x) ==
  /\ SoundLedger(N, Parties, OrderIds)
  /\ N.frozen = L.frozen /\ N.locks = L.locks
  /\ \A c \in Parties : N.available[c] =
       IF c = a THEN L.available[c] - x ELSE IF c = b THEN L.available[c] + x ELSE L.available[c]

\* release_lock: what was frozen under the key is available again.
LEMMA ReleaseEffect ==
  ASSUME NEW L, SoundLedger(L, Parties, OrderIds), NEW a \in Parties, NEW k \in OrderIds
  PROVE  Frees(ReleaseLock(L, a, k), L, a, k, L.locks[a][k])
<1>. DEFINE x == L.locks[a][k]
            N == ReleaseLock(L, a, k)
<1>1. /\ L \in Ledgers(Parties, OrderIds)
      /\ L.available \in [Parties -> Int] /\ L.frozen \in [Parties -> Int]
      /\ L.locks \in [Parties -> [OrderIds -> Nat]] /\ x \in Nat
  BY SoundFields
<1>2. /\ N.available = [L.available EXCEPT ![a] = @ + x]
      /\ N.frozen = [L.frozen EXCEPT ![a] = @ - x]
      /\ N.locks = [L.locks EXCEPT ![a][k] = @ - x]
  BY <1>1 DEF ReleaseLock, DecreaseLock, Ledgers
<1>3. SoundLedger(N, Parties, OrderIds)
  <2>1. x \in Int /\ x <= L.locks[a][k] /\ N = DecreaseLock(L, a, k, x)
    BY <1>1 DEF ReleaseLock
  <2>2. IsFiniteSet(Parties) /\ IsFiniteSet(OrderIds)
    BY ConstantsOK
  <2>. HIDE DEF N, x
  <2>. QED BY <2>1, <2>2, DecreaseIsSound
<1>. HIDE DEF N
<1>4. ASSUME NEW b \in Parties
      PROVE  /\ N.available[b] = L.available[b] + IF b = a THEN x ELSE 0
             /\ N.frozen[b] = L.frozen[b] - IF b = a THEN x ELSE 0
  <2>1. L.available[b] \in Int /\ L.frozen[b] \in Int
    BY <1>1
  <2>. HIDE DEF x
  <2>. QED BY <1>1, <1>2, <2>1
<1>5. ASSUME NEW b \in Parties, NEW j \in OrderIds
      PROVE  N.locks[b][j] = IF b = a /\ j = k THEN 0 ELSE L.locks[b][j]
  <2>1. x - x = 0
    BY <1>1
  <2>. QED BY <1>1, <1>2, <2>1
<1>. QED BY <1>3, <1>4, <1>5 DEF N, Frees

\* transfer_available between two accounts.
LEMMA TransferEffect ==
  ASSUME NEW L, SoundLedger(L, Parties, OrderIds), NEW a \in Parties, NEW b \in Parties, a # b,
         NEW x \in Int
  PROVE  Transfers(TransferAvailable(L, a, b, x), L, a, b, x)
<1>. DEFINE N == TransferAvailable(L, a, b, x)
<1>1. L \in Ledgers(Parties, OrderIds) /\ L.available \in [Parties -> Int]
  BY SoundFields
<1>2. SoundLedger(N, Parties, OrderIds)
  BY ConstantsOK, TransferAvailableIsSound
<1>3. /\ N.frozen = L.frozen /\ N.locks = L.locks
      /\ N.available = [[L.available EXCEPT ![a] = @ - x] EXCEPT ![b] = @ + x]
  BY <1>1 DEF TransferAvailable, Move, Ledgers
<1>. HIDE DEF N
<1>. QED BY <1>1, <1>2, <1>3 DEF N, Transfers

\* What holds of a ledger and the orders it is kept for: each open stake is in
\* its lock, nobody is overdrawn, and every account has what it came with and
\* what its settled orders were paid.
Books(L, O) ==
  /\ SoundLedger(L, Parties, OrderIds) /\ O \in OrderBooks
  /\ \A t \in Traders, i \in OrderIds : L.locks[t][i] = Locked(O, t, i)
  /\ \A a \in Parties : L.available[a] >= 0
  /\ \A t \in Traders : L.available[t] + L.frozen[t] = Funds + PaidOut(O)[t]
  /\ L.available[Treasury] = TreasuryFunds - SumFunction(PaidOut(O))

\* They hold on when an order is replaced, its stake released with it, and its
\* account paid by the treasury.
LEMMA BooksMove ==
  ASSUME NEW L, NEW O, Books(L, O), NEW x \in DOMAIN O, NEW q \in Order,
         q.account = O[x].account, NEW N, SoundLedger(N, Parties, OrderIds),
         NEW d, d = Paid(q) - Paid(O[x]),
         \A b \in Parties, j \in OrderIds : N.locks[b][j] =
           IF b = q.account /\ j = x THEN IF Live(q) THEN q.stake ELSE 0 ELSE L.locks[b][j],
         \A b \in Traders : N.available[b] + N.frozen[b] =
           L.available[b] + L.frozen[b] + IF b = q.account THEN d ELSE 0,
         N.available[Treasury] = L.available[Treasury] - d,
         \A b \in Parties : N.available[b] >= 0
  PROVE  Books(N, [O EXCEPT ![x] = q])
<1>. DEFINE P == [O EXCEPT ![x] = q]
<1>1. /\ O \in OrderBooks /\ DOMAIN O \subseteq OrderIds /\ Traders \subseteq Parties
      /\ Funds \in Nat /\ TreasuryFunds \in Nat
  BY ConstantsOK, OrderBooksOK DEF Books
<1>2. /\ P \in OrderBooks /\ DOMAIN P = DOMAIN O
      /\ \A t \in Traders : PaidOut(P)[t] = PaidOut(O)[t] + IF t = q.account THEN d ELSE 0
      /\ SumFunction(PaidOut(P)) = SumFunction(PaidOut(O)) + d
      /\ SumFunction(PaidOut(O)) \in Int /\ d \in Int
  <2>. DEFINE e == Paid(q) - Paid(O[x])
  <2>1. /\ P \in OrderBooks /\ DOMAIN P = DOMAIN O
        /\ \A t \in Traders : PaidOut(P)[t] = PaidOut(O)[t] + IF t = q.account THEN e ELSE 0
        /\ SumFunction(PaidOut(P)) = SumFunction(PaidOut(O)) + e
        /\ SumFunction(PaidOut(O)) \in Int /\ e \in Int
    BY <1>1, PaidMoves
  <2>2. d = e
    OBVIOUS
  <2>. HIDE DEF P, e
  <2>. QED BY ONLY <2>1, <2>2
<1>3. P[x] = q /\ \A i \in DOMAIN O : i # x => P[i] = O[i]
  OBVIOUS
<1>. HIDE DEF P
<1>4. ASSUME NEW t \in Traders, NEW i \in OrderIds PROVE N.locks[t][i] = Locked(P, t, i)
  <2>0. t \in Parties /\ L.locks[t][i] = Locked(O, t, i)
    BY <1>1 DEF Books
  <2>1. CASE i = x
    BY <1>2, <1>3, <2>0, <2>1 DEF Locked
  <2>2. CASE i # x
    BY <1>2, <1>3, <2>0, <2>2 DEF Locked
  <2>. QED BY <2>1, <2>2
<1>5. ASSUME NEW t \in Traders PROVE N.available[t] + N.frozen[t] = Funds + PaidOut(P)[t]
  <2>1. L.available[t] + L.frozen[t] = Funds + PaidOut(O)[t]
    BY DEF Books
  <2>2. PaidOut(O)[t] \in Int
    BY <1>1, PaidTyped
  <2>. QED BY <1>1, <1>2, <2>1, <2>2
<1>6. N.available[Treasury] = TreasuryFunds - SumFunction(PaidOut(P))
  <2>1. L.available[Treasury] = TreasuryFunds - SumFunction(PaidOut(O))
    BY DEF Books
  <2>. QED BY <1>1, <1>2, <2>1
<1>. QED BY <1>2, <1>4, <1>5, <1>6 DEF Books, P

-----------------------------------------------------------------------------
(* What becomes of one order                                               *)

Decisions == [Variables -> Outcomes \cup {Open, Void}]

\* Fate, for any decisions.
FateIn(order, D) ==
  IF \/ D[order.variable] = Void
     \/ \E u \in DOMAIN order.context : D[u] \notin {Open, order.context[u]}
  THEN "called_off"
  ELSE IF D[order.variable] = Open THEN "open"
  ELSE IF \A u \in DOMAIN order.context : D[u] # Open THEN "settled"
  ELSE "awaiting_context"

WonIn(order, D) == IF D[order.variable] = order.outcome THEN "yes" ELSE "no"

\* An order that can still settle waits for just what is open, and knows
\* whether it won as soon as its variable is resolved.
OrderOK(q, D) ==
  /\ q \in Order /\ q.stake = Stake(q.edit) /\ q.status = FateIn(q, D)
  /\ Live(q) =>
       /\ q.remaining = Restrict(q.context, {u \in DOMAIN q.context : D[u] = Open})
       /\ q.won = IF D[q.variable] = Open THEN "unknown" ELSE WonIn(q, D)
  /\ q.status = "settled" => q.won = WonIn(q, D)

LEMMA ContextsOK ==
  ASSUME NEW c
  PROVE  c \in Contexts <=> DOMAIN c \subseteq Variables /\ c \in [DOMAIN c -> Outcomes]
<1>1. ASSUME c \in Contexts PROVE DOMAIN c \subseteq Variables /\ c \in [DOMAIN c -> Outcomes]
  <2>1. PICK S \in SUBSET Variables : c \in [S -> Outcomes]
    BY <1>1 DEF Contexts, Assignments
  <2>. QED BY <2>1
<1>. QED BY <1>1 DEF Contexts, Assignments

LEMMA RestrictOK ==
  ASSUME NEW c \in Contexts, NEW S, S \subseteq DOMAIN c
  PROVE  /\ Restrict(c, S) \in Contexts /\ DOMAIN Restrict(c, S) = S
         /\ \A u \in S : Restrict(c, S)[u] = c[u]
<1>1. DOMAIN c \subseteq Variables /\ c \in [DOMAIN c -> Outcomes]
  BY ContextsOK
<1>2. DOMAIN Restrict(c, S) = S /\ Restrict(c, S) \in [S -> Outcomes]
      /\ \A u \in S : Restrict(c, S)[u] = c[u]
  BY <1>1 DEF Restrict
<1>. HIDE DEF Restrict
<1>. QED BY <1>1, <1>2, ContextsOK

Statuses == {"open", "awaiting_context", "settled", "called_off"}

LEMMA StatusChanged ==
  ASSUME NEW q \in Order, NEW s \in Statuses
  PROVE  LET p == [q EXCEPT !.status = s]
         IN  /\ p \in Order /\ p.status = s /\ p.account = q.account
             /\ p.variable = q.variable /\ p.outcome = q.outcome /\ p.edit = q.edit
             /\ p.stake = q.stake /\ p.context = q.context
             /\ p.remaining = q.remaining /\ p.won = q.won
BY DEF Order, Statuses

\* Of an order that can still settle nothing was decided otherwise.
LEMMA LiveOrder ==
  ASSUME NEW D \in Decisions, NEW q, OrderOK(q, D), Live(q)
  PROVE  /\ D[q.variable] # Void
         /\ \A u \in DOMAIN q.context : D[u] \in {Open, q.context[u]}
         /\ q.status = IF D[q.variable] = Open THEN "open" ELSE "awaiting_context"
         /\ DOMAIN q.remaining = {u \in DOMAIN q.context : D[u] = Open}
         /\ \A u \in DOMAIN q.remaining : q.remaining[u] = q.context[u]
         /\ D[q.variable] # Open => DOMAIN q.remaining # {}
<1>1. q.status = FateIn(q, D) /\ q.status \in {"open", "awaiting_context"}
  BY DEF OrderOK, Live
<1>2. /\ D[q.variable] # Void
      /\ \A u \in DOMAIN q.context : D[u] \in {Open, q.context[u]}
      /\ q.status = IF D[q.variable] = Open THEN "open" ELSE "awaiting_context"
      /\ D[q.variable] # Open => \E u \in DOMAIN q.context : D[u] = Open
  BY <1>1 DEF FateIn
<1>3. /\ DOMAIN q.remaining = {u \in DOMAIN q.context : D[u] = Open}
      /\ \A u \in DOMAIN q.remaining : q.remaining[u] = q.context[u]
  BY DEF OrderOK, Restrict
<1>. QED BY <1>2, <1>3

\* A decision leaves an order alone that is done, or does not depend on it.
LEMMA Undisturbed ==
  ASSUME NEW D \in Decisions, NEW q, OrderOK(q, D), NEW v \in Variables, D[v] = Open,
         NEW o \in Outcomes \cup {Void},
         Live(q) => q.variable # v /\ v \notin DOMAIN q.remaining
  PROVE  OrderOK(q, [D EXCEPT ![v] = o])
<1>. DEFINE E == [D EXCEPT ![v] = o]
<1>1. /\ E[v] = o /\ \A u \in Variables : u # v => E[u] = D[u]
      /\ o # Open /\ Open # Void
  <2>1. E[v] = o /\ \A u \in Variables : u # v => E[u] = D[u]
    BY DEF Decisions
  <2>2. o # Open /\ Open # Void
    BY ConstantsOK
  <2>. QED BY <2>1, <2>2
<1>2. q \in Order /\ q.variable \in Variables /\ DOMAIN q.context \subseteq Variables
  BY OrderOfKind, ContextsOK DEF OrderOK
<1>. HIDE DEF E
<1>3. CASE q.status = "called_off"
  <2>1. FateIn(q, D) = "called_off"
    BY <1>3 DEF OrderOK
  <2>2. D[q.variable] = Void \/ \E u \in DOMAIN q.context : D[u] \notin {Open, q.context[u]}
    BY <2>1 DEF FateIn
  <2>3. FateIn(q, E) = "called_off"
    BY <1>1, <1>2, <2>2 DEF FateIn
  <2>. QED BY <1>3, <2>3 DEF OrderOK, Live, E
<1>4. ASSUME q.variable # v, v \notin DOMAIN q.context
      PROVE  OrderOK(q, E)
  <2>1. E[q.variable] = D[q.variable] /\ \A u \in DOMAIN q.context : E[u] = D[u]
    BY <1>1, <1>2, <1>4
  <2>2. FateIn(q, E) = FateIn(q, D) /\ WonIn(q, E) = WonIn(q, D)
        /\ {u \in DOMAIN q.context : E[u] = Open} = {u \in DOMAIN q.context : D[u] = Open}
    BY <2>1 DEF FateIn, WonIn
  <2>. QED BY <2>1, <2>2 DEF OrderOK
<1>5. CASE q.status = "settled"
  <2>1. FateIn(q, D) = "settled"
    BY <1>5 DEF OrderOK
  <2>2. D[q.variable] # Open /\ \A u \in DOMAIN q.context : D[u] # Open
    BY <2>1 DEF FateIn
  <2>. QED BY <1>4, <2>2 DEF E
<1>6. CASE Live(q)
  BY <1>4, <1>6, LiveOrder DEF E
<1>7. Live(q) \/ q.status \in {"settled", "called_off"}
  BY <1>2 DEF Live, Order
<1>. QED BY <1>3, <1>5, <1>6, <1>7

\* An order is called off by a decision against it or its context.
LEMMA CalledOffOK ==
  ASSUME NEW D \in Decisions, NEW q, OrderOK(q, D), NEW v \in Variables, D[v] = Open,
         NEW o \in Outcomes \cup {Void}, Live(q),
         \/ o = Void /\ (q.variable = v \/ v \in DOMAIN q.remaining)
         \/ v \in DOMAIN q.remaining /\ q.remaining[v] # o
  PROVE  OrderOK([q EXCEPT !.status = "called_off"], [D EXCEPT ![v] = o])
<1>. DEFINE E == [D EXCEPT ![v] = o]
            p == [q EXCEPT !.status = "called_off"]
<1>1. E[v] = o /\ o # Open /\ q \in Order
  <2>1. E[v] = o
    BY DEF Decisions
  <2>2. o # Open
    BY ConstantsOK
  <2>. QED BY <2>1, <2>2 DEF OrderOK
<1>2. /\ p \in Order /\ p.status = "called_off" /\ p.variable = q.variable
      /\ p.stake = q.stake /\ p.edit = q.edit /\ p.context = q.context
  BY <1>1, StatusChanged DEF Statuses
<1>. HIDE DEF E, p
<1>3. v \in DOMAIN q.remaining =>
        v \in DOMAIN q.context /\ q.remaining[v] = q.context[v]
  BY LiveOrder
<1>4. o = Void => \A u \in DOMAIN q.context : q.context[u] # Void
  BY <1>1, OrderOfKind, ContextsOK, ConstantsOK
<1>5. FateIn(p, E) = "called_off"
  BY <1>1, <1>2, <1>3, <1>4 DEF FateIn
<1>. QED BY <1>2, <1>5 DEF OrderOK, Live, E, p

\* What a resolution leaves of an order it does not contradict.
LEMMA ProgressOK ==
  ASSUME NEW D \in Decisions, NEW q, OrderOK(q, D), NEW v \in Variables, D[v] = Open,
         NEW o \in Outcomes, Live(q), ~ Contradicted(q, v, o)
  PROVE  LET E == [D EXCEPT ![v] = o]
             p == [q EXCEPT !.remaining = Remaining(q.remaining, v), !.won = Won(q, v, o)]
         IN  /\ p \in Order /\ p.account = q.account /\ p.stake = q.stake
             /\ Settles(q, v, o) => OrderOK([p EXCEPT !.status = "settled"], E)
             /\ ~ Settles(q, v, o) /\ p.won = "unknown" => OrderOK(p, E) /\ Live(p)
             /\ ~ Settles(q, v, o) /\ p.won # "unknown" =>
                  OrderOK([p EXCEPT !.status = "awaiting_context"], E)
<1>. DEFINE E == [D EXCEPT ![v] = o]
            left == Remaining(q.remaining, v)
            won == Won(q, v, o)
            p == [q EXCEPT !.remaining = left, !.won = won]
            waits == {u \in DOMAIN q.context : E[u] = Open}
<1>1. /\ E[v] = o /\ \A u \in Variables : u # v => E[u] = D[u]
      /\ o # Open /\ Open # Void /\ o # Void /\ D[v] = Open
  <2>1. E[v] = o /\ \A u \in Variables : u # v => E[u] = D[u]
    BY DEF Decisions
  <2>2. o # Open /\ Open # Void /\ o # Void
    BY ConstantsOK
  <2>. QED BY <2>1, <2>2
<1>2. /\ q \in Order /\ q.variable \in Variables /\ DOMAIN q.context \subseteq Variables
      /\ q.remaining \in Contexts /\ q.stake = Stake(q.edit) /\ q.won \in {"yes", "no", "unknown"}
      /\ q.won = IF D[q.variable] = Open THEN "unknown" ELSE WonIn(q, D)
  BY OrderOfKind, ContextsOK DEF OrderOK, Order
<1>3. /\ D[q.variable] # Void
      /\ \A u \in DOMAIN q.context : D[u] \in {Open, q.context[u]}
      /\ q.status = IF D[q.variable] = Open THEN "open" ELSE "awaiting_context"
      /\ DOMAIN q.remaining = {u \in DOMAIN q.context : D[u] = Open}
      /\ \A u \in DOMAIN q.remaining : q.remaining[u] = q.context[u]
  BY LiveOrder
<1>. HIDE DEF E
<1>4. waits = DOMAIN q.remaining \ {v} /\ waits \subseteq DOMAIN q.context
  BY <1>1, <1>2, <1>3
<1>5. left \in Contexts /\ left = Restrict(q.context, waits)
  <2>1. left = Restrict(q.remaining, waits) /\ left \in Contexts
    BY <1>2, <1>4, RestrictOK DEF Remaining
  <2>2. \A u \in waits : q.remaining[u] = q.context[u]
    BY <1>3, <1>4
  <2>. HIDE DEF left, waits
  <2>. QED BY <2>1, <2>2 DEF Restrict
<1>6. won = IF E[q.variable] = Open THEN "unknown" ELSE WonIn(q, E)
  BY <1>1, <1>2 DEF Won, WonIn
<1>7. won \in {"yes", "no", "unknown"}
  BY <1>6 DEF WonIn
<1>8. \A u \in DOMAIN q.context : E[u] \in {Open, q.context[u]}
  BY <1>1, <1>2, <1>3 DEF Contradicted
<1>9. E[q.variable] # Void
  BY <1>1, <1>2, <1>3
<1>. HIDE DEF left, won, waits
<1>10. /\ p \in Order /\ p.status = q.status /\ p.account = q.account
       /\ p.variable = q.variable /\ p.outcome = q.outcome /\ p.edit = q.edit
       /\ p.stake = q.stake /\ p.context = q.context
       /\ p.remaining = left /\ p.won = won
  <2>1. q \in Order /\ left \in Contexts /\ won \in {"yes", "no", "unknown"}
    BY <1>2, <1>5, <1>7
  <2>. QED BY <2>1 DEF Order, p
<1>. HIDE DEF p
<1>11. /\ won = "unknown" <=> E[q.variable] = Open
       /\ won # "unknown" => won = WonIn(q, E)
  BY <1>6 DEF WonIn
\* An order with p's fields is as it should be once its status is.
<1>12. ASSUME NEW r \in Order, r.variable = q.variable, r.outcome = q.outcome,
              r.edit = q.edit, r.stake = q.stake, r.context = q.context, r.remaining = left,
              r.won = won,
              r.status = IF won = "unknown" THEN "open"
                         ELSE IF waits = {} THEN "settled" ELSE "awaiting_context"
       PROVE  OrderOK(r, E)
  <2>1. WonIn(r, E) = WonIn(q, E)
    BY <1>12 DEF WonIn
  <2>2. FateIn(r, E) = r.status
    BY <1>8, <1>9, <1>11, <1>12 DEF FateIn, waits
  <2>3. r.remaining = Restrict(r.context, {u \in DOMAIN r.context : E[u] = Open})
    BY <1>5, <1>12 DEF waits
  <2>4. r.won = IF E[r.variable] = Open THEN "unknown" ELSE WonIn(r, E)
    BY <1>6, <1>12, <2>1
  <2>5. r.status = "settled" => r.won = WonIn(r, E)
    BY <1>11, <1>12, <2>1
  <2>. QED BY <1>2, <1>12, <2>2, <2>3, <2>4, <2>5 DEF OrderOK
<1>13. Settles(q, v, o) <=> won # "unknown" /\ waits = {}
  BY <1>4 DEF Settles, won
<1>14. Settles(q, v, o) => OrderOK([p EXCEPT !.status = "settled"], E)
  <2>. DEFINE r == [p EXCEPT !.status = "settled"]
  <2>1. /\ r \in Order /\ r.status = "settled" /\ r.variable = p.variable
        /\ r.outcome = p.outcome /\ r.edit = p.edit /\ r.stake = p.stake
        /\ r.context = p.context /\ r.remaining = p.remaining /\ r.won = p.won
    BY <1>10, StatusChanged DEF Statuses
  <2>. HIDE DEF r
  <2>. QED BY <1>10, <1>12, <1>13, <2>1 DEF r
<1>15. ~ Settles(q, v, o) /\ p.won # "unknown" =>
         OrderOK([p EXCEPT !.status = "awaiting_context"], E)
  <2>. DEFINE r == [p EXCEPT !.status = "awaiting_context"]
  <2>1. /\ r \in Order /\ r.status = "awaiting_context" /\ r.variable = p.variable
        /\ r.outcome = p.outcome /\ r.edit = p.edit /\ r.stake = p.stake
        /\ r.context = p.context /\ r.remaining = p.remaining /\ r.won = p.won
    BY <1>10, StatusChanged DEF Statuses
  <2>. HIDE DEF r
  <2>. QED BY <1>10, <1>12, <1>13, <2>1 DEF r
<1>16. p.won = "unknown" => OrderOK(p, E) /\ Live(p)
  <2>1. p.won = "unknown" => p.status = "open"
    BY <1>1, <1>2, <1>3, <1>10, <1>11
  <2>. QED BY <1>10, <1>12, <2>1 DEF Live
<1>. QED BY <1>10, <1>14, <1>15, <1>16 DEF p, E, left, won

-----------------------------------------------------------------------------
(* One round of a walk, field by field                                     *)

Desks(S) == [ledger : Ledgers(Parties, OrderIds), orders : [S -> Order], aborted : BOOLEAN]

\* An order, and what a resolution makes of it before its status changes.
As(q, status) == [q EXCEPT !.status = status]
After(q, v, o) == [q EXCEPT !.remaining = Remaining(q.remaining, v), !.won = Won(q, v, o)]

\* A desk with other orders, another ledger, both, or marked as aborted; and
\* orders with another one at i.
Reordered(d, O) == [d EXCEPT !.orders = O]
Moved(d, L, O) == [d EXCEPT !.ledger = L, !.orders = O]
Stopped(d, L) == [d EXCEPT !.ledger = L, !.aborted = TRUE]
Replaced(O, i, q) == [O EXCEPT ![i] = q]

LEMMA DeskFields ==
  ASSUME NEW S, NEW d \in Desks(S)
  PROVE  /\ d.ledger \in Ledgers(Parties, OrderIds) /\ d.orders \in [S -> Order]
         /\ DOMAIN d.orders = S /\ d.aborted \in BOOLEAN
BY DEF Desks

LEMMA DeskMoves ==
  ASSUME NEW S, NEW d \in Desks(S), NEW L \in Ledgers(Parties, OrderIds), NEW O \in [S -> Order]
  PROVE  /\ Reordered(d, O) \in Desks(S) /\ Reordered(d, O).ledger = d.ledger
         /\ Reordered(d, O).orders = O /\ Reordered(d, O).aborted = d.aborted
         /\ Moved(d, L, O) \in Desks(S) /\ Moved(d, L, O).ledger = L
         /\ Moved(d, L, O).orders = O /\ Moved(d, L, O).aborted = d.aborted
         /\ Stopped(d, L) \in Desks(S)
BY DEF Desks, Reordered, Moved, Stopped

LEMMA ReplacedOK ==
  ASSUME NEW S, NEW O \in [S -> Order], NEW i \in S, NEW q \in Order
  PROVE  /\ Replaced(O, i, q) \in [S -> Order] /\ Replaced(O, i, q)[i] = q
         /\ \A j \in S \ {i} : Replaced(O, i, q)[j] = O[j]
BY DEF Replaced

LEMMA CalledOffIs ==
  ASSUME NEW S, NEW d \in Desks(S), NEW i \in S
  PROVE  CalledOff(d, i) =
           Moved(d, ReleaseLock(d.ledger, d.orders[i].account, i),
                 Replaced(d.orders, i, As(d.orders[i], "called_off")))
BY DEF CalledOff, Desks, As, Moved, Replaced

LEMMA UpdatedIs ==
  ASSUME NEW S, NEW d \in Desks(S), NEW i \in S, NEW v, NEW o
  PROVE  Updated(d, i, v, o) =
           Reordered(d, Replaced(d.orders, i, After(d.orders[i], v, o)))
BY DEF Updated, Desks, After, Reordered, Replaced

LEMMA WaitingIs ==
  ASSUME NEW S, NEW d \in Desks(S), NEW i \in S
  PROVE  Waiting(d, i) =
           IF d.orders[i].won = "unknown" THEN d
           ELSE Reordered(d, Replaced(d.orders, i, As(d.orders[i], "awaiting_context")))
BY DEF Waiting, Desks, As, Reordered, Replaced

\* Which of the two pays, and what the ledger is when it can.
PaidLedger(L, a, payout) ==
  IF payout > 0 THEN TransferAvailable(L, Treasury, a, payout)
  ELSE TransferAvailable(L, a, Treasury, -payout)
Pays(L, a, payout) == IF payout > 0 THEN CanPay(L, Treasury, payout) ELSE CanPay(L, a, -payout)

LEMMA SettledIs ==
  ASSUME NEW S, NEW d \in Desks(S), NEW i \in S
  PROVE  LET q == d.orders[i]
             released == ReleaseLock(d.ledger, q.account, i)
             payout == Payout(q.edit, q.won)
         IN  Settled(d, i) =
               IF Pays(released, q.account, payout)
               THEN Moved(d, PaidLedger(released, q.account, payout),
                          Replaced(d.orders, i, As(q, "settled")))
               ELSE Stopped(d, released)
<1>. DEFINE q == d.orders[i]
            released == ReleaseLock(d.ledger, q.account, i)
            payout == Payout(q.edit, q.won)
<1>. HIDE DEF released, payout
<1>1. CASE payout > 0
  BY <1>1 DEF Settled, Pays, PaidLedger, Desks, As, Moved, Stopped, Replaced,
              released, payout
<1>2. CASE ~ (payout > 0)
  BY <1>2 DEF Settled, Pays, PaidLedger, Desks, As, Moved, Stopped, Replaced,
              released, payout
<1>. QED BY <1>1, <1>2 DEF released, payout

\* Whatever the ledger and the orders are, a round leaves a desk: the
\* recursion of a walk has a solution.
LEMMA LedgerTyped ==
  ASSUME NEW L \in Ledgers(Parties, OrderIds), NEW a \in Parties, NEW k \in OrderIds,
         NEW x \in Int
  PROVE  /\ ReleaseLock(L, a, k) \in Ledgers(Parties, OrderIds)
         /\ PaidLedger(L, a, x) \in Ledgers(Parties, OrderIds)
<1>1. /\ L.available \in [Parties -> Int] /\ L.frozen \in [Parties -> Int]
      /\ L.locks \in [Parties -> [OrderIds -> Nat]]
  BY DEF Ledgers
<1>2. ReleaseLock(L, a, k) \in Ledgers(Parties, OrderIds)
  <2>. DEFINE y == L.locks[a][k]
  <2>1. y \in Nat /\ y - y \in Nat
    BY <1>1
  <2>2. /\ [L.available EXCEPT ![a] = @ + y] \in [Parties -> Int]
        /\ [L.frozen EXCEPT ![a] = @ - y] \in [Parties -> Int]
        /\ [L.locks EXCEPT ![a][k] = @ - y] \in [Parties -> [OrderIds -> Nat]]
    BY <1>1, <2>1
  <2>. QED BY <2>2 DEF ReleaseLock, DecreaseLock, Ledgers
<1>3. ASSUME NEW b \in Parties, NEW c \in Parties, NEW y \in Int
      PROVE  TransferAvailable(L, b, c, y) \in Ledgers(Parties, OrderIds)
  <2>1. Move(L.available, b, c, y) \in [Parties -> Int]
    BY <1>1 DEF Move
  <2>. QED BY <2>1 DEF TransferAvailable, Ledgers
<1>4. -x \in Int /\ Treasury \in Parties
  BY ConstantsOK
<1>. QED BY <1>2, <1>3, <1>4 DEF PaidLedger

LEMMA StatusOK ==
  ASSUME NEW q \in Order, NEW status \in Statuses
  PROVE  /\ As(q, status) \in Order /\ As(q, status).status = status
         /\ As(q, status).account = q.account /\ As(q, status).edit = q.edit
         /\ As(q, status).won = q.won /\ As(q, status).stake = q.stake
BY DEF As, Order, Statuses

LEMMA AfterOK ==
  ASSUME NEW q \in Order, NEW v, NEW o
  PROVE  /\ After(q, v, o) \in Order
         /\ After(q, v, o).account = q.account /\ After(q, v, o).edit = q.edit
         /\ After(q, v, o).won = Won(q, v, o) /\ After(q, v, o).stake = q.stake
         /\ After(q, v, o).status = q.status
<1>1. Remaining(q.remaining, v) \in Contexts
  BY OrderOfKind, RestrictOK DEF Remaining
<1>2. Won(q, v, o) \in {"yes", "no", "unknown"}
  BY DEF Won, Order
<1>. QED BY <1>1, <1>2 DEF After, Order

LEMMA CalledOffTyped ==
  ASSUME NEW S, S \subseteq OrderIds, NEW d \in Desks(S), NEW i \in S
  PROVE  CalledOff(d, i) \in Desks(S)
<1>1. d.ledger \in Ledgers(Parties, OrderIds) /\ d.orders \in [S -> Order] /\ d.orders[i] \in Order
  BY DeskFields
<1>2. ReleaseLock(d.ledger, d.orders[i].account, i) \in Ledgers(Parties, OrderIds)
  BY <1>1, OrderOfKind, LedgerTyped
<1>3. Replaced(d.orders, i, As(d.orders[i], "called_off")) \in [S -> Order]
  BY <1>1, StatusOK, ReplacedOK DEF Statuses
<1>. QED BY <1>2, <1>3, CalledOffIs, DeskMoves

LEMMA SettleOneTyped ==
  ASSUME NEW S, S \subseteq OrderIds, NEW d \in Desks(S), NEW i \in S, NEW v, NEW o
  PROVE  SettleOne(d, i, v, o) \in Desks(S)
<1>1. CalledOff(d, i) \in Desks(S)
  BY CalledOffTyped
<1>2. Updated(d, i, v, o) \in Desks(S)
  <2>1. d.ledger \in Ledgers(Parties, OrderIds) /\ d.orders \in [S -> Order] /\ d.orders[i] \in Order
    BY DeskFields
  <2>2. Replaced(d.orders, i, After(d.orders[i], v, o)) \in [S -> Order]
    BY <2>1, AfterOK, ReplacedOK
  <2>. QED BY <2>1, <2>2, UpdatedIs, DeskMoves
<1>3. ASSUME NEW e \in Desks(S) PROVE Waiting(e, i) \in Desks(S) /\ Settled(e, i) \in Desks(S)
  <2>1. e.ledger \in Ledgers(Parties, OrderIds) /\ e.orders \in [S -> Order] /\ e.orders[i] \in Order
    BY DeskFields
  <2>2. Waiting(e, i) \in Desks(S)
    <3>1. Replaced(e.orders, i, As(e.orders[i], "awaiting_context")) \in [S -> Order]
      BY <2>1, StatusOK, ReplacedOK DEF Statuses
    <3>. QED BY <2>1, <3>1, WaitingIs, DeskMoves
  <2>. DEFINE q == e.orders[i]
              released == ReleaseLock(e.ledger, q.account, i)
              payout == Payout(q.edit, q.won)
              paid == PaidLedger(released, q.account, payout)
              done == Replaced(e.orders, i, As(q, "settled"))
  <2>3. q.account \in Parties /\ payout \in Int
    BY <2>1, OrderOfKind
  <2>4. released \in Ledgers(Parties, OrderIds)
    BY <2>1, <2>3, LedgerTyped
  <2>5. paid \in Ledgers(Parties, OrderIds)
    <3>. HIDE DEF released, payout
    <3>. QED BY <2>3, <2>4, LedgerTyped
  <2>6. done \in [S -> Order]
    BY <2>1, StatusOK, ReplacedOK DEF Statuses
  <2>7. Settled(e, i) = IF Pays(released, q.account, payout) THEN Moved(e, paid, done)
                        ELSE Stopped(e, released)
    BY SettledIs
  <2>. HIDE DEF released, paid, done, payout, q
  <2>8. Moved(e, paid, done) \in Desks(S) /\ Stopped(e, released) \in Desks(S)
    BY <2>4, <2>5, <2>6, DeskMoves
  <2>. QED BY <2>2, <2>7, <2>8
<1>. QED BY <1>1, <1>2, <1>3 DEF SettleOne

LEMMA VoidOneTyped ==
  ASSUME NEW S, S \subseteq OrderIds, NEW d \in Desks(S), NEW i \in S, NEW v
  PROVE  VoidOne(d, i, v) \in Desks(S)
BY CalledOffTyped DEF VoidOne

\* Latest takes an order of the set.
LEMMA LatestIn ==
  ASSUME orders \in OrderBooks, NEW s \in SUBSET DOMAIN orders, s # {}
  PROVE  Latest(s) \in s /\ Latest(s) = Max(s)
<1>1. DOMAIN orders \subseteq OrderIds /\ IsFiniteSet(s) /\ s \subseteq Int
  BY OrderBooksOK, ConstantsOK, FS_Subset
<1>2. \E x \in s : \A y \in s : x >= y
  BY <1>1, LargestMember
<1>3. Max(s) \in s
  BY <1>2 DEF Max
<1>. QED BY <1>3 DEF Latest

\* What a walk does order by order, and that it can be told so.
LEMMA SettlingExists ==
  ASSUME orders \in OrderBooks, ledger \in Ledgers(Parties, OrderIds), NEW v, NEW o
  PROVE  \E g \in [SUBSET DOMAIN orders -> Desks(DOMAIN orders)] : IsSettling(g, v, o)
<1>. DEFINE I == DOMAIN orders
            D == Desks(I)
            h == [p \in D \X I |-> SettleOne(p[1], p[2], v, o)]
            c == [s \in SUBSET I |-> Latest(s)]
<1>1. I \subseteq OrderIds /\ IsFiniteSet(I) /\ orders \in [I -> Order]
  BY OrderBooksOK, PaidTyped
<1>2. h \in Steps(D, I)
  BY <1>1, SettleOneTyped DEF Steps
<1>3. Desk \in D
  BY <1>1 DEF Desk, Desks
<1>4. Picks(c, I)
  BY LatestIn DEF Picks
<1>5. PICK g : FoldsInto(g, h, Desk, c, I, D)
  <2>1. IsFiniteSet(I)
    BY <1>1
  <2>. HIDE DEF D, h, c, I
  <2>. QED BY ONLY <2>1, <1>2, <1>3, <1>4, FoldInto
<1>6. \A s \in SUBSET I :
        g[s] = IF s = {} THEN Desk ELSE SettleOne(g[s \ {Max(s)}], Latest(s), v, o)
  <2>1. ASSUME NEW s \in SUBSET I, s # {}
        PROVE  g[s] = SettleOne(g[s \ {Max(s)}], Latest(s), v, o)
    <3>1. g[s] = h[<<g[s \ {c[s]}], c[s]>>]
      BY <1>5, <2>1 DEF FoldStep, FoldsInto
    <3>2. c[s] = Latest(s) /\ Latest(s) \in I /\ Latest(s) = Max(s)
      BY <2>1, LatestIn
    <3>3. g[s \ {Max(s)}] \in D
      BY <1>5 DEF FoldsInto
    <3>. HIDE DEF D, c, I
    <3>. QED BY <3>1, <3>2, <3>3
  <2>. QED BY <1>5, <2>1 DEF FoldStep, FoldsInto
<1>7. g = [s \in SUBSET I |->
             IF s = {} THEN Desk ELSE SettleOne(g[s \ {Max(s)}], Latest(s), v, o)]
  <2>. HIDE DEF D
  <2>. QED BY <1>5, <1>6 DEF FoldsInto
<1>. QED BY <1>5, <1>7 DEF IsSettling, FoldsInto

LEMMA VoidingExists ==
  ASSUME orders \in OrderBooks, ledger \in Ledgers(Parties, OrderIds), NEW v
  PROVE  \E g \in [SUBSET DOMAIN orders -> Desks(DOMAIN orders)] : IsVoiding(g, v)
<1>. DEFINE I == DOMAIN orders
            D == Desks(I)
            h == [p \in D \X I |-> VoidOne(p[1], p[2], v)]
            c == [s \in SUBSET I |-> Latest(s)]
<1>1. I \subseteq OrderIds /\ IsFiniteSet(I) /\ orders \in [I -> Order]
  BY OrderBooksOK, PaidTyped
<1>2. h \in Steps(D, I)
  BY <1>1, VoidOneTyped DEF Steps
<1>3. Desk \in D
  BY <1>1 DEF Desk, Desks
<1>4. Picks(c, I)
  BY LatestIn DEF Picks
<1>5. PICK g : FoldsInto(g, h, Desk, c, I, D)
  <2>1. IsFiniteSet(I)
    BY <1>1
  <2>. HIDE DEF D, h, c, I
  <2>. QED BY ONLY <2>1, <1>2, <1>3, <1>4, FoldInto
<1>6. \A s \in SUBSET I :
        g[s] = IF s = {} THEN Desk ELSE VoidOne(g[s \ {Max(s)}], Latest(s), v)
  <2>1. ASSUME NEW s \in SUBSET I, s # {}
        PROVE  g[s] = VoidOne(g[s \ {Max(s)}], Latest(s), v)
    <3>1. g[s] = h[<<g[s \ {c[s]}], c[s]>>]
      BY <1>5, <2>1 DEF FoldStep, FoldsInto
    <3>2. c[s] = Latest(s) /\ Latest(s) \in I /\ Latest(s) = Max(s)
      BY <2>1, LatestIn
    <3>3. g[s \ {Max(s)}] \in D
      BY <1>5 DEF FoldsInto
    <3>. HIDE DEF D, c, I
    <3>. QED BY <3>1, <3>2, <3>3
  <2>. QED BY <1>5, <2>1 DEF FoldStep, FoldsInto
<1>7. g = [s \in SUBSET I |->
             IF s = {} THEN Desk ELSE VoidOne(g[s \ {Max(s)}], Latest(s), v)]
  <2>. HIDE DEF D
  <2>. QED BY <1>5, <1>6 DEF FoldsInto
<1>. QED BY <1>5, <1>7 DEF IsVoiding, FoldsInto

-----------------------------------------------------------------------------
(* What a round does to the books                                          *)

LEMMA BooksFacts ==
  ASSUME NEW L, NEW O, Books(L, O), NEW i \in DOMAIN O
  PROVE  /\ O \in OrderBooks /\ O \in [DOMAIN O -> Order] /\ i \in OrderIds
         /\ O[i] \in Order /\ O[i].account \in Traders /\ O[i].account \in Parties
         /\ O[i].account # Treasury /\ Treasury \in Parties /\ O[i].stake \in Nat
         /\ SoundLedger(L, Parties, OrderIds)
         /\ L.available \in [Parties -> Int] /\ L.frozen \in [Parties -> Int]
         /\ L.locks[O[i].account][i] = IF Live(O[i]) THEN O[i].stake ELSE 0
         /\ \A a \in Parties : L.available[a] >= 0
<1>1. O \in OrderBooks /\ SoundLedger(L, Parties, OrderIds) /\ \A a \in Parties : L.available[a] >= 0
  BY DEF Books
<1>2. O \in [DOMAIN O -> Order] /\ i \in OrderIds
  BY <1>1, OrderBooksOK
<1>3. /\ O[i] \in Order /\ O[i].account \in Traders /\ O[i].account \in Parties
      /\ O[i].account # Treasury /\ Treasury \in Parties /\ O[i].stake \in Nat
  BY <1>2, OrderOfKind, ConstantsOK
<1>4. L.available \in [Parties -> Int] /\ L.frozen \in [Parties -> Int]
  BY <1>1, SoundFields
<1>5. L.locks[O[i].account][i] = Locked(O, O[i].account, i)
  BY <1>2, <1>3 DEF Books
<1>. QED BY <1>1, <1>2, <1>3, <1>4, <1>5 DEF Locked

\* The stake of an order that is called off is released.
LEMMA BooksCalledOff ==
  ASSUME NEW L, NEW O, Books(L, O), NEW i \in DOMAIN O, Live(O[i]), NEW q \in Order,
         q.account = O[i].account, q.status = "called_off"
  PROVE  LET N == ReleaseLock(L, q.account, i)
         IN  Books(N, Replaced(O, i, q)) /\ N.available[Treasury] = L.available[Treasury]
<1>. DEFINE N == ReleaseLock(L, q.account, i)
            a == q.account
            x == L.locks[a][i]
<1>1. /\ i \in OrderIds /\ a \in Parties /\ a # Treasury /\ Treasury \in Parties
      /\ SoundLedger(L, Parties, OrderIds)
      /\ L.available \in [Parties -> Int] /\ L.frozen \in [Parties -> Int]
      /\ x = O[i].stake /\ x \in Nat
      /\ \A b \in Parties : L.available[b] >= 0
  BY BooksFacts
<1>2. /\ SoundLedger(N, Parties, OrderIds)
      /\ \A b \in Parties : /\ N.available[b] = L.available[b] + IF b = a THEN x ELSE 0
                            /\ N.frozen[b] = L.frozen[b] - IF b = a THEN x ELSE 0
      /\ \A b \in Parties, j \in OrderIds :
           N.locks[b][j] = IF b = a /\ j = i THEN 0 ELSE L.locks[b][j]
  <2>1. Frees(N, L, a, i, x)
    BY <1>1, ReleaseEffect
  <2>. QED BY <2>1 DEF Frees
<1>. HIDE DEF N, x
<1>3. N.available[Treasury] = L.available[Treasury] /\ \A b \in Parties : N.available[b] >= 0
  BY <1>1, <1>2
<1>4. \A b \in Parties : N.available[b] + N.frozen[b] = L.available[b] + L.frozen[b]
  BY <1>1, <1>2
<1>5. ~ Live(q) /\ Paid(q) = 0 /\ Paid(O[i]) = 0
  BY DEF Live, Paid
<1>6. Books(N, [O EXCEPT ![i] = q])
  <2>. DEFINE d == Paid(q) - Paid(O[i])
  <2>1. d = 0 /\ Traders \subseteq Parties
    BY <1>5, ConstantsOK
  <2>2. \A b \in Parties, j \in OrderIds : N.locks[b][j] =
          IF b = q.account /\ j = i THEN IF Live(q) THEN q.stake ELSE 0 ELSE L.locks[b][j]
    BY <1>2, <1>5
  <2>3. \A b \in Traders : N.available[b] + N.frozen[b] =
          L.available[b] + L.frozen[b] + IF b = q.account THEN d ELSE 0
    <3>. HIDE DEF d
    <3>. QED BY <1>1, <1>2, <1>4, <2>1
  <2>4. N.available[Treasury] = L.available[Treasury] - d
    <3>. HIDE DEF d
    <3>. QED BY <1>1, <1>3, <2>1
  <2>. QED BY <1>2, <1>3, <2>2, <2>3, <2>4, BooksMove
<1>. QED BY <1>3, <1>6 DEF N, Replaced

\* An order that goes on waiting keeps its stake.
LEMMA BooksWaiting ==
  ASSUME NEW L, NEW O, Books(L, O), NEW i \in DOMAIN O, Live(O[i]), NEW q \in Order,
         q.account = O[i].account, q.stake = O[i].stake, Live(q)
  PROVE  Books(L, Replaced(O, i, q))
<1>. DEFINE d == Paid(q) - Paid(O[i])
<1>1. /\ SoundLedger(L, Parties, OrderIds) /\ Treasury \in Parties /\ Traders \subseteq Parties
      /\ L.available \in [Parties -> Int] /\ L.frozen \in [Parties -> Int]
      /\ L.locks[O[i].account][i] = O[i].stake
      /\ \A b \in Parties : L.available[b] >= 0
  BY BooksFacts, ConstantsOK
<1>2. d = 0
  BY DEF Live, Paid
<1>3. \A b \in Parties, j \in OrderIds : L.locks[b][j] =
        IF b = q.account /\ j = i THEN IF Live(q) THEN q.stake ELSE 0 ELSE L.locks[b][j]
  BY <1>1
<1>4. /\ \A b \in Traders : L.available[b] + L.frozen[b] =
          L.available[b] + L.frozen[b] + IF b = q.account THEN d ELSE 0
      /\ L.available[Treasury] = L.available[Treasury] - d
  <2>. HIDE DEF d
  <2>. QED BY <1>1, <1>2
<1>. QED BY <1>1, <1>3, <1>4, BooksMove DEF Replaced

\* A settled order is paid out of the treasury, or pays out of its stake.
LEMMA BooksSettled ==
  ASSUME NEW L, NEW O, Books(L, O), NEW i \in DOMAIN O, Live(O[i]), NEW q \in Order,
         q.account = O[i].account, q.status = "settled",
         NEW y \in Int, y = Payout(q.edit, q.won),
         -y <= O[i].stake, L.available[Treasury] >= y
  PROVE  LET M == ReleaseLock(L, q.account, i)
             N == PaidLedger(M, q.account, y)
         IN  /\ Pays(M, q.account, y) /\ Books(N, Replaced(O, i, q))
             /\ N.available[Treasury] = L.available[Treasury] - y
<1>. DEFINE M == ReleaseLock(L, q.account, i)
            a == q.account
            N == PaidLedger(M, a, y)
            x == L.locks[a][i]
<1>1. /\ i \in OrderIds /\ a \in Parties /\ a # Treasury /\ Treasury \in Parties
      /\ SoundLedger(L, Parties, OrderIds)
      /\ L.available \in [Parties -> Int] /\ L.frozen \in [Parties -> Int]
      /\ x = O[i].stake /\ x \in Nat
      /\ \A b \in Parties : L.available[b] >= 0
  BY BooksFacts
<1>2. /\ SoundLedger(M, Parties, OrderIds)
      /\ \A b \in Parties : /\ M.available[b] = L.available[b] + IF b = a THEN x ELSE 0
                            /\ M.frozen[b] = L.frozen[b] - IF b = a THEN x ELSE 0
      /\ \A b \in Parties, j \in OrderIds :
           M.locks[b][j] = IF b = a /\ j = i THEN 0 ELSE L.locks[b][j]
  <2>1. Frees(M, L, a, i, x)
    BY <1>1, ReleaseEffect
  <2>. QED BY <2>1 DEF Frees
<1>. HIDE DEF M, x
<1>3. M.available \in [Parties -> Int] /\ M.frozen \in [Parties -> Int]
  BY <1>2, SoundFields
<1>4. Pays(M, a, y)
  BY <1>1, <1>2 DEF Pays, CanPay
<1>5. /\ SoundLedger(N, Parties, OrderIds)
      /\ N.frozen = M.frozen /\ N.locks = M.locks
      /\ N.available[a] = M.available[a] + y /\ N.available[Treasury] = M.available[Treasury] - y
      /\ \A b \in Parties : b \notin {a, Treasury} => N.available[b] = M.available[b]
  <2>1. CASE y > 0
    <3>1. N = TransferAvailable(M, Treasury, a, y)
      BY <2>1 DEF PaidLedger
    <3>2. /\ SoundLedger(N, Parties, OrderIds)
          /\ N.frozen = M.frozen /\ N.locks = M.locks
          /\ \A c \in Parties : N.available[c] =
               IF c = Treasury THEN M.available[c] - y ELSE IF c = a THEN M.available[c] + y
               ELSE M.available[c]
      <4>1. Transfers(N, M, Treasury, a, y)
        BY <1>1, <1>2, <3>1, TransferEffect
      <4>. HIDE DEF N, a
      <4>. QED BY <4>1 DEF Transfers
    <3>. QED BY <1>1, <3>2
  <2>2. CASE ~ (y > 0)
    <3>0. -y \in Int
      OBVIOUS
    <3>1. N = TransferAvailable(M, a, Treasury, -y)
      BY <2>2 DEF PaidLedger
    <3>2. /\ SoundLedger(N, Parties, OrderIds)
          /\ N.frozen = M.frozen /\ N.locks = M.locks
          /\ \A c \in Parties : N.available[c] =
               IF c = a THEN M.available[c] - (-y) ELSE IF c = Treasury THEN M.available[c] + (-y)
               ELSE M.available[c]
      <4>1. Transfers(N, M, a, Treasury, -y)
        BY <1>1, <1>2, <3>0, <3>1, TransferEffect
      <4>. HIDE DEF N, a
      <4>. QED BY <4>1 DEF Transfers
    <3>3. M.available[a] \in Int /\ M.available[Treasury] \in Int
      BY <1>1, <1>3
    <3>. HIDE DEF N, a
    <3>. QED BY <1>1, <3>2, <3>3
  <2>. QED BY <2>1, <2>2
<1>. HIDE DEF N
<1>6. N.available[Treasury] = L.available[Treasury] - y
  BY <1>1, <1>2, <1>5
<1>7. \A b \in Parties : N.available[b] >= 0
  <2>1. N.available[a] >= 0
    BY <1>1, <1>2, <1>5
  <2>2. N.available[Treasury] >= 0
    BY <1>1, <1>6
  <2>. QED BY <1>1, <1>2, <1>5, <2>1, <2>2
<1>8. ~ Live(q) /\ Paid(q) = y /\ Paid(O[i]) = 0
  BY DEF Live, Paid
<1>9. Books(N, [O EXCEPT ![i] = q])
  <2>. DEFINE d == Paid(q) - Paid(O[i])
  <2>1. d = y /\ Traders \subseteq Parties /\ Treasury \notin Traders
    BY <1>8, ConstantsOK
  <2>. HIDE DEF d
  <2>2. \A b \in Parties, j \in OrderIds : N.locks[b][j] =
          IF b = q.account /\ j = i THEN IF Live(q) THEN q.stake ELSE 0 ELSE L.locks[b][j]
    BY <1>2, <1>5, <1>8
  <2>3. ASSUME NEW b \in Traders
        PROVE  N.available[b] + N.frozen[b] =
                 L.available[b] + L.frozen[b] + IF b = q.account THEN d ELSE 0
    <3>1. b \in Parties /\ b # Treasury
      BY <2>1
    <3>2. L.available[b] \in Int /\ L.frozen[b] \in Int /\ M.available[b] \in Int
      BY <1>1, <1>3, <3>1
    <3>3. N.frozen[b] = M.frozen[b]
      BY <1>5
    <3>4. CASE b = a
      BY <1>1, <1>2, <1>5, <2>1, <3>1, <3>2, <3>3, <3>4
    <3>5. CASE b # a
      BY <1>1, <1>2, <1>5, <2>1, <3>1, <3>2, <3>3, <3>5
    <3>. QED BY <3>4, <3>5
  <2>4. N.available[Treasury] = L.available[Treasury] - d
    BY <1>6, <2>1
  <2>5. d = Paid(q) - Paid(O[i])
    BY DEF d
  <2>. QED BY <1>5, <1>7, <2>2, <2>3, <2>4, <2>5, BooksMove
<1>. QED BY <1>4, <1>6, <1>9 DEF N, M, Replaced

\* What a round leaves: the books, the order it was for as the decision wants
\* it, the others, and all of the treasury but what the round may take.
RoundOK(d, e, S, i, E, take) ==
  /\ e \in Desks(S) /\ Books(e.ledger, e.orders) /\ ~ e.aborted
  /\ OrderOK(e.orders[i], E) /\ \A j \in S \ {i} : e.orders[j] = d.orders[j]
  /\ e.ledger.available[Treasury] >= d.ledger.available[Treasury] - take

LEMMA MaxWithZero ==
  ASSUME NEW y \in Int
  PROVE  Max({0, y}) \in Nat /\ Max({0, y}) >= y
<1>1. \E x \in {0, y} : \A z \in {0, y} : x >= z
  BY DEF Max
<1>2. Max({0, y}) \in {0, y} /\ \A z \in {0, y} : Max({0, y}) >= z
  BY <1>1 DEF Max
<1>. QED BY <1>2

LEMMA BooksInt ==
  ASSUME NEW L, NEW O, Books(L, O)
  PROVE  L.available[Treasury] \in Int /\ L.available[Treasury] >= 0
BY ConstantsOK, SoundFields DEF Books

\* The desk after a round that replaced the order at i.
LEMMA RoundReplaced ==
  ASSUME NEW S, NEW d \in Desks(S), NEW i \in S, NEW q \in Order, NEW L, NEW take \in Nat,
         NEW e \in Desks(S), e.ledger = L, e.orders = Replaced(d.orders, i, q),
         e.aborted = d.aborted, ~ d.aborted, Books(L, Replaced(d.orders, i, q)),
         NEW E, OrderOK(q, E), L.available[Treasury] >= d.ledger.available[Treasury] - take
  PROVE  RoundOK(d, e, S, i, E, take)
BY DeskFields, ReplacedOK DEF RoundOK

LEMMA CallOffRound ==
  ASSUME NEW S, S \subseteq OrderIds, NEW d \in Desks(S), NEW i \in S,
         Books(d.ledger, d.orders), ~ d.aborted, Live(d.orders[i]),
         NEW E, OrderOK([d.orders[i] EXCEPT !.status = "called_off"], E), NEW take \in Nat
  PROVE  RoundOK(d, CalledOff(d, i), S, i, E, take)
<1>. DEFINE O == d.orders
            q == O[i]
            p == As(q, "called_off")
            N == ReleaseLock(d.ledger, q.account, i)
<1>1. O \in [S -> Order] /\ q \in Order /\ DOMAIN O = S
  BY DeskFields
<1>2. p \in Order /\ p.account = q.account /\ p.status = "called_off"
  BY <1>1, StatusOK DEF Statuses
<1>3. OrderOK(p, E)
  BY DEF As
<1>. HIDE DEF p, N
<1>4. Books(N, Replaced(O, i, p)) /\ N.available[Treasury] = d.ledger.available[Treasury]
  <2>1. N = ReleaseLock(d.ledger, p.account, i)
    BY <1>2 DEF N
  <2>. QED BY <1>1, <1>2, <2>1, BooksCalledOff
<1>5. N \in Ledgers(Parties, OrderIds) /\ Replaced(O, i, p) \in [S -> Order]
  BY <1>1, <1>2, <1>4, ReplacedOK DEF Books, SoundLedger
<1>6. CalledOff(d, i) = Moved(d, N, Replaced(O, i, p))
  BY CalledOffIs DEF p, N
<1>7. N.available[Treasury] >= d.ledger.available[Treasury] - take
  BY <1>4, BooksInt
<1>. HIDE DEF O
<1>8. /\ CalledOff(d, i) \in Desks(S) /\ CalledOff(d, i).ledger = N
      /\ CalledOff(d, i).orders = Replaced(O, i, p) /\ CalledOff(d, i).aborted = d.aborted
  BY <1>5, <1>6, DeskMoves
<1>. QED BY <1>2, <1>3, <1>4, <1>7, <1>8, RoundReplaced DEF O

\* One round of resolve_variable.
LEMMA SettleRound ==
  ASSUME NEW D \in Decisions, NEW v \in Variables, D[v] = Open, NEW o \in Outcomes,
         NEW S, S \subseteq OrderIds, NEW d \in Desks(S), NEW i \in S,
         Books(d.ledger, d.orders), ~ d.aborted, OrderOK(d.orders[i], D), NEW take,
         take = IF Settles(d.orders[i], v, o)
                THEN Max({0, Payout(d.orders[i].edit, Won(d.orders[i], v, o))}) ELSE 0,
         d.ledger.available[Treasury] >= take
  PROVE  RoundOK(d, SettleOne(d, i, v, o), S, i, [D EXCEPT ![v] = o], take) /\ take \in Nat
<1>. DEFINE L == d.ledger
            O == d.orders
            q == O[i]
            E == [D EXCEPT ![v] = o]
            e == SettleOne(d, i, v, o)
            p == After(q, v, o)
            u == Updated(d, i, v, o)
<1>1. O \in [S -> Order] /\ q \in Order /\ DOMAIN O = S /\ q.edit \in Edits
  BY DeskFields, OrderOfKind
<1>2. take \in Nat
  BY <1>1, PayoutOK, MaxWithZero
<1>3. L.available[Treasury] \in Int
  BY BooksInt
<1>. HIDE DEF E
<1>4. CASE ~ Live(q)
  <2>1. e = d
    BY <1>4 DEF SettleOne
  <2>2. OrderOK(q, E)
    BY <1>4, Undisturbed DEF E
  <2>. HIDE DEF e
  <2>. QED BY <1>2, <1>3, <2>1, <2>2 DEF RoundOK, e, E
<1>5. CASE Live(q) /\ Contradicted(q, v, o)
  <2>1. e = CalledOff(d, i)
    BY <1>5 DEF SettleOne
  <2>2. OrderOK([q EXCEPT !.status = "called_off"], E)
    BY <1>5, CalledOffOK DEF Contradicted, E
  <2>3. RoundOK(d, CalledOff(d, i), S, i, E, take)
    BY <1>2, <1>5, <2>2, CallOffRound
  <2>. QED BY <1>2, <2>1, <2>3 DEF E
<1>6. CASE Live(q) /\ ~ Contradicted(q, v, o)
  <2>1. /\ p \in Order /\ p.account = q.account /\ p.stake = q.stake /\ p.status = q.status
        /\ p.edit = q.edit /\ p.won = Won(q, v, o)
    BY <1>1, AfterOK
  <2>2. /\ Settles(q, v, o) => OrderOK(As(p, "settled"), E)
        /\ ~ Settles(q, v, o) /\ p.won = "unknown" => OrderOK(p, E) /\ Live(p)
        /\ ~ Settles(q, v, o) /\ p.won # "unknown" => OrderOK(As(p, "awaiting_context"), E)
    BY <1>6, ProgressOK DEF After, As, E
  <2>. HIDE DEF p, u
  <2>3. /\ u \in Desks(S) /\ u.ledger = L /\ u.orders = Replaced(O, i, p)
        /\ u.aborted = d.aborted /\ u.orders[i] = p
    <3>1. u = Reordered(d, Replaced(O, i, p))
      BY UpdatedIs DEF u, p
    <3>2. Replaced(O, i, p) \in [S -> Order] /\ Replaced(O, i, p)[i] = p
      BY <1>1, <2>1, ReplacedOK
    <3>. HIDE DEF O
    <3>. QED BY <3>1, <3>2, DeskMoves, DeskFields
  <2>4. ASSUME NEW r PROVE Replaced(u.orders, i, r) = Replaced(O, i, r)
    BY <1>1, <2>3 DEF Replaced
  <2>5. L \in Ledgers(Parties, OrderIds) /\ q.stake = Stake(q.edit)
    BY DeskFields DEF OrderOK
  <2>6. CASE Settles(q, v, o)
    <3>. DEFINE r == As(p, "settled")
                y == Payout(p.edit, p.won)
                M == ReleaseLock(L, r.account, i)
                N == PaidLedger(M, r.account, y)
    <3>1. /\ r \in Order /\ r.status = "settled" /\ r.account = q.account
          /\ r.edit = p.edit /\ r.won = p.won
      BY <2>1, StatusOK DEF Statuses
    <3>2. y \in Int /\ y <= take /\ -y <= q.stake
      <4>1. y \in Int /\ -y <= Stake(q.edit)
        BY <1>1, <2>1, PayoutOK
      <4>2. take = Max({0, y})
        BY <2>1, <2>6
      <4>. HIDE DEF y
      <4>. QED BY <2>5, <4>1, <4>2, MaxWithZero
    <3>3. L.available[Treasury] >= y
      <4>. HIDE DEF y
      <4>. QED BY <1>2, <1>3, <3>2
    <3>4. y = Payout(r.edit, r.won)
      BY <3>1
    <3>. HIDE DEF y, r
    <3>5. /\ Pays(M, r.account, y) /\ Books(N, Replaced(O, i, r))
          /\ N.available[Treasury] = L.available[Treasury] - y
      <4>. HIDE DEF L, O
      <4>. QED BY <1>1, <1>6, <3>1, <3>2, <3>3, <3>4, BooksSettled DEF L, O
    <3>6. e = Settled(u, i)
      BY <1>6, <2>6 DEF SettleOne, u
    <3>7. Settled(u, i) = Moved(u, N, Replaced(O, i, r))
      <4>1. M = ReleaseLock(u.ledger, u.orders[i].account, i)
        BY <2>1, <2>3, <3>1
      <4>2. y = Payout(u.orders[i].edit, u.orders[i].won) /\ r = As(u.orders[i], "settled")
        BY <2>3 DEF y, r
      <4>3. u.orders[i].account = r.account
        BY <2>1, <2>3, <3>1
      <4>. HIDE DEF M
      <4>. QED BY <2>3, <2>4, <3>5, <4>1, <4>2, <4>3, SettledIs
    <3>. HIDE DEF M, N, e, O, L
    <3>8. N \in Ledgers(Parties, OrderIds) /\ Replaced(O, i, r) \in [S -> Order]
      BY <1>1, <3>1, <3>5, ReplacedOK DEF Books, SoundLedger
    <3>9. /\ e \in Desks(S) /\ e.ledger = N /\ e.orders = Replaced(O, i, r)
          /\ e.aborted = d.aborted
      BY <2>3, <3>6, <3>7, <3>8, DeskMoves
    <3>10. N.available[Treasury] >= L.available[Treasury] - take
      BY <1>2, <1>3, <3>2, <3>5
    <3>11. OrderOK(r, E)
      BY <2>2, <2>6 DEF r
    <3>. QED BY <1>2, <3>1, <3>5, <3>9, <3>10, <3>11, RoundReplaced DEF L, O, e, E
  <2>7. CASE ~ Settles(q, v, o)
    <3>1. e = Waiting(u, i) /\ L.available[Treasury] >= L.available[Treasury] - take
      BY <1>2, <1>3, <1>6, <2>7 DEF SettleOne, u
    <3>2. CASE p.won = "unknown"
      <4>1. e = u /\ OrderOK(p, E) /\ Live(p)
        BY <2>2, <2>3, <2>7, <3>1, <3>2, WaitingIs
      <4>2. Books(L, Replaced(O, i, p))
        BY <1>1, <1>6, <2>1, <4>1, BooksWaiting
      <4>. HIDE DEF e, L, O
      <4>. QED BY <1>2, <2>1, <2>3, <3>1, <4>1, <4>2, RoundReplaced DEF L, O, e, E
    <3>3. CASE p.won # "unknown"
      <4>. DEFINE r == As(p, "awaiting_context")
      <4>1. /\ r \in Order /\ r.account = q.account /\ r.stake = q.stake /\ Live(r)
            /\ OrderOK(r, E)
        BY <2>1, <2>2, <2>7, <3>3, StatusOK DEF Statuses, Live
      <4>2. e = Reordered(u, Replaced(O, i, r))
        BY <2>3, <2>4, <3>1, <3>3, WaitingIs
      <4>. HIDE DEF r, e
      <4>3. Books(L, Replaced(O, i, r)) /\ Replaced(O, i, r) \in [S -> Order]
        BY <1>1, <1>6, <4>1, BooksWaiting, ReplacedOK
      <4>4. /\ e \in Desks(S) /\ e.ledger = L /\ e.orders = Replaced(O, i, r)
            /\ e.aborted = d.aborted
        <5>. HIDE DEF L, O
        <5>. QED BY <2>3, <2>5, <4>2, <4>3, DeskMoves
      <4>. HIDE DEF L, O
      <4>. QED BY <1>2, <3>1, <4>1, <4>3, <4>4, RoundReplaced DEF L, O, e, E
    <3>. QED BY <3>2, <3>3
  <2>. QED BY <2>6, <2>7
<1>. QED BY <1>4, <1>5, <1>6

\* One round of void_variable.
LEMMA VoidRound ==
  ASSUME NEW D \in Decisions, NEW v \in Variables, D[v] = Open,
         NEW S, S \subseteq OrderIds, NEW d \in Desks(S), NEW i \in S,
         Books(d.ledger, d.orders), ~ d.aborted, OrderOK(d.orders[i], D)
  PROVE  RoundOK(d, VoidOne(d, i, v), S, i, [D EXCEPT ![v] = Void], 0)
<1>. DEFINE q == d.orders[i]
            E == [D EXCEPT ![v] = Void]
            fails == Live(q) /\ (q.variable = v \/ v \in DOMAIN q.remaining)
<1>1. CASE fails
  <2>1. OrderOK([q EXCEPT !.status = "called_off"], E)
    BY <1>1, CalledOffOK
  <2>2. VoidOne(d, i, v) = CalledOff(d, i) /\ Live(q) /\ 0 \in Nat
    BY <1>1 DEF VoidOne
  <2>. HIDE DEF E, q
  <2>. QED BY <2>1, <2>2, CallOffRound DEF q, E
<1>2. CASE ~ fails
  <2>1. OrderOK(q, E)
    BY <1>2, Undisturbed
  <2>2. VoidOne(d, i, v) = d
    BY <1>2 DEF VoidOne
  <2>3. d.ledger.available[Treasury] >= d.ledger.available[Treasury] - 0
    BY BooksInt
  <2>. HIDE DEF E
  <2>. QED BY <2>1, <2>2, <2>3 DEF RoundOK, E
<1>. QED BY <1>1, <1>2

-----------------------------------------------------------------------------
(* A walk over all orders                                                  *)

\* After the orders in s: they are as the decision E wants them, the others as
\* they were, and the treasury has what the others may still take of it.
WalkOK(d, s, E, takes) ==
  /\ d \in Desks(DOMAIN orders) /\ Books(d.ledger, d.orders) /\ ~ d.aborted
  /\ \A i \in s : OrderOK(d.orders[i], E)
  /\ \A i \in DOMAIN orders \ s : d.orders[i] = orders[i]
  /\ d.ledger.available[Treasury] >= SumFunctionOnSet(takes, DOMAIN orders \ s)

\* What is left of the takings without those of x.
LEMMA LeftToTake ==
  ASSUME NEW I, IsFiniteSet(I), NEW takes \in [I -> Nat], NEW s \in SUBSET I, NEW x \in s
  PROVE  /\ SumFunctionOnSet(takes, I \ (s \ {x})) = takes[x] + SumFunctionOnSet(takes, I \ s)
         /\ SumFunctionOnSet(takes, I \ s) \in Nat
<1>1. takes \in [I -> Int]
  OBVIOUS
<1>. DEFINE A == I \ (s \ {x})
<1>2. A \in SUBSET I /\ x \in A /\ A \ {x} = I \ s
  OBVIOUS
<1>3. SumFunctionOnSet(takes, A) = takes[x] + SumFunctionOnSet(takes, A \ {x})
  <2>. HIDE DEF A
  <2>. QED BY <1>1, <1>2, SumRemove
<1>4. SumFunctionOnSet(takes, I \ s) \in Nat
  <2>. DEFINE B == I \ s
              f == [y \in B |-> takes[y]]
  <2>1. f \in [B -> Nat] /\ IsFiniteSet(B) /\ DOMAIN f = B
    BY FS_Subset
  <2>2. SumFunctionOnSet(takes, B) = SumFunctionOnSet(f, B)
    BY <2>1, SumCongruent
  <2>. HIDE DEF f, B
  <2>3. SumFunction(f) \in Nat
    BY <2>1, SumBounds
  <2>. QED BY <2>1, <2>2, <2>3 DEF SumFunction, B
<1>. QED BY <1>2, <1>3, <1>4

LEMMA WalkStep ==
  ASSUME orders \in OrderBooks, NEW takes \in [DOMAIN orders -> Nat],
         NEW s \in SUBSET DOMAIN orders, NEW x \in s, NEW E, NEW d, NEW e,
         WalkOK(d, s \ {x}, E, takes), RoundOK(d, e, DOMAIN orders, x, E, takes[x])
  PROVE  WalkOK(e, s, E, takes)
<1>. DEFINE I == DOMAIN orders
            left == SumFunctionOnSet(takes, I \ s)
<1>1. IsFiniteSet(I)
  BY PaidTyped
<1>2. SumFunctionOnSet(takes, I \ (s \ {x})) = takes[x] + left /\ left \in Nat /\ takes[x] \in Nat
  BY <1>1, LeftToTake
<1>. HIDE DEF left
<1>3. /\ d.ledger.available[Treasury] >= takes[x] + left /\ d.ledger.available[Treasury] \in Int
      /\ e.ledger.available[Treasury] >= d.ledger.available[Treasury] - takes[x]
      /\ e.ledger.available[Treasury] \in Int
  BY <1>2, BooksInt DEF WalkOK, RoundOK
<1>4. e.ledger.available[Treasury] >= left
  BY <1>2, <1>3
<1>5. \A i \in s : OrderOK(e.orders[i], E)
  <2>1. ASSUME NEW i \in s, i # x PROVE e.orders[i] = d.orders[i] /\ OrderOK(d.orders[i], E)
    BY <2>1 DEF WalkOK, RoundOK
  <2>2. OrderOK(e.orders[x], E)
    BY DEF RoundOK
  <2>. QED BY <2>1, <2>2
<1>6. \A i \in I \ s : e.orders[i] = orders[i]
  BY DEF WalkOK, RoundOK
<1>7. e \in Desks(I) /\ Books(e.ledger, e.orders) /\ ~ e.aborted
  BY DEF RoundOK
<1>. QED BY <1>4, <1>5, <1>6, <1>7 DEF WalkOK, left

\* The invariant of the books, and what the walks start from.
OrdersOK ==
  /\ orders \in Seq(Order) /\ Len(orders) <= MaxOrders
  /\ decided \in Decisions /\ \A i \in DOMAIN orders : OrderOK(orders[i], decided)
BookInv == Books(ledger, orders) /\ OrdersOK /\ ~ aborted

\* What each order may take of the treasury.
Takes(v, o) ==
  [i \in DOMAIN orders |->
     IF Settles(orders[i], v, o)
     THEN Max({0, Payout(orders[i].edit, Won(orders[i], v, o))}) ELSE 0]

LEMMA TakesOK ==
  ASSUME orders \in OrderBooks, NEW v, NEW o
  PROVE  Takes(v, o) \in [DOMAIN orders -> Nat] /\ Outflow(v, o) = SumFunction(Takes(v, o))
<1>1. ASSUME NEW i \in DOMAIN orders PROVE Takes(v, o)[i] \in Nat
  <2>1. orders[i].edit \in Edits
    BY OrderBooksOK, OrderOfKind
  <2>. QED BY <2>1, PayoutOK, MaxWithZero DEF Takes
<1>2. Takes(v, o) \in [DOMAIN orders -> Nat]
  BY <1>1 DEF Takes
<1>. QED BY <1>2 DEF Takes, Outflow

LEMMA WalkStart ==
  ASSUME BookInv, NEW takes \in [DOMAIN orders -> Nat], NEW E,
         ledger.available[Treasury] >= SumFunction(takes)
  PROVE  WalkOK(Desk, {}, E, takes)
<1>1. orders \in [DOMAIN orders -> Order] /\ ledger \in Ledgers(Parties, OrderIds)
  BY OrderBooksOK DEF BookInv, Books, SoundLedger
<1>2. Desk \in Desks(DOMAIN orders)
  BY <1>1 DEF Desk, Desks
<1>3. DOMAIN orders \ {} = DOMAIN orders /\ DOMAIN takes = DOMAIN orders
  OBVIOUS
<1>4. ledger.available[Treasury] >= SumFunctionOnSet(takes, DOMAIN orders)
  BY <1>3 DEF SumFunction
<1>. QED BY <1>2, <1>3, <1>4 DEF WalkOK, Desk, BookInv

\* The walk of a resolution the treasury passed the precheck for.
LEMMA SettlingWalk ==
  ASSUME BookInv, NEW v \in Variables, decided[v] = Open, NEW o \in Outcomes,
         CanPay(ledger, Treasury, Outflow(v, o)),
         NEW g \in [SUBSET DOMAIN orders -> Desks(DOMAIN orders)], IsSettling(g, v, o)
  PROVE  WalkOK(g[DOMAIN orders], DOMAIN orders, [decided EXCEPT ![v] = o], Takes(v, o))
<1>. DEFINE I == DOMAIN orders
            E == [decided EXCEPT ![v] = o]
            takes == Takes(v, o)
            T == {s \in SUBSET I : ~ WalkOK(g[s], s, E, takes)}
<1>1. /\ orders \in OrderBooks /\ I \subseteq OrderIds /\ IsFiniteSet(I)
      /\ decided \in Decisions /\ \A i \in I : OrderOK(orders[i], decided)
  BY OrderBooksOK, PaidTyped DEF BookInv, OrdersOK, Books
<1>2. takes \in [I -> Nat] /\ ledger.available[Treasury] >= SumFunction(takes)
  BY <1>1, TakesOK DEF CanPay
<1>. HIDE DEF E
<1>3. T = {}
  <2>. SUFFICES ASSUME T # {} PROVE FALSE
    OBVIOUS
  <2>1. PICK s \in T : \A y \in T : y \subseteq s => y = s
    <3>1. T \in SUBSET SUBSET I
      OBVIOUS
    <3>. HIDE DEF T, I
    <3>. QED BY <1>1, <3>1, MinimalSubset
  <2>2. s \in SUBSET I /\ ~ WalkOK(g[s], s, E, takes)
    OBVIOUS
  <2>3. CASE s = {}
    <3>1. g[s] = Desk
      BY <2>3 DEF IsSettling
    <3>. HIDE DEF takes
    <3>. QED BY <1>2, <2>2, <2>3, <3>1, WalkStart
  <2>4. CASE s # {}
    <3>. DEFINE x == Latest(s)
                d == g[s \ {x}]
    <3>1. x \in s /\ x \in I /\ g[s] = SettleOne(d, x, v, o)
      BY <1>1, <2>2, <2>4, LatestIn DEF IsSettling
    <3>. HIDE DEF x
    <3>2. WalkOK(d, s \ {x}, E, takes) /\ d \in Desks(I)
      BY <2>1, <2>2, <3>1
    <3>. HIDE DEF d, T
    <3>3. d.orders[x] = orders[x] /\ takes[x] \in Nat
      BY <1>2, <3>1, <3>2 DEF WalkOK
    <3>4. d.ledger.available[Treasury] >= takes[x]
      <4>. DEFINE left == SumFunctionOnSet(takes, I \ s)
      <4>1. SumFunctionOnSet(takes, I \ (s \ {x})) = takes[x] + left /\ left \in Nat
        <5>. HIDE DEF takes, I
        <5>. QED BY <1>1, <1>2, <2>2, <3>1, LeftToTake
      <4>. HIDE DEF left, takes
      <4>. QED BY <3>2, <3>3, <4>1, BooksInt DEF WalkOK
    <3>5. takes[x] = IF Settles(d.orders[x], v, o)
                     THEN Max({0, Payout(d.orders[x].edit, Won(d.orders[x], v, o))}) ELSE 0
      BY <3>1, <3>3 DEF Takes
    <3>6. OrderOK(d.orders[x], decided) /\ Books(d.ledger, d.orders) /\ ~ d.aborted
      BY <1>1, <3>1, <3>2, <3>3 DEF WalkOK
    <3>. HIDE DEF takes, I
    <3>7. RoundOK(d, g[s], I, x, E, takes[x])
      <4>1. decided \in Decisions /\ I \subseteq OrderIds /\ d \in Desks(I) /\ x \in I
        BY <1>1, <3>1, <3>2
      <4>2. RoundOK(d, SettleOne(d, x, v, o), I, x, [decided EXCEPT ![v] = o], takes[x])
        BY ONLY <3>4, <3>5, <3>6, <4>1, v \in Variables, decided[v] = Open, o \in Outcomes, SettleRound
      <4>. QED BY <3>1, <4>2 DEF E
    <3>. QED BY <1>1, <1>2, <2>2, <3>1, <3>2, <3>7, WalkStep DEF I
  <2>. QED BY <2>3, <2>4
<1>. QED BY <1>3 DEF E

\* The walk of a void.
LEMMA VoidingWalk ==
  ASSUME BookInv, NEW v \in Variables, decided[v] = Open,
         NEW g \in [SUBSET DOMAIN orders -> Desks(DOMAIN orders)], IsVoiding(g, v)
  PROVE  WalkOK(g[DOMAIN orders], DOMAIN orders, [decided EXCEPT ![v] = Void],
                [i \in DOMAIN orders |-> 0])
<1>. DEFINE I == DOMAIN orders
            E == [decided EXCEPT ![v] = Void]
            takes == [i \in I |-> 0]
            T == {s \in SUBSET I : ~ WalkOK(g[s], s, E, takes)}
<1>1. /\ orders \in OrderBooks /\ I \subseteq OrderIds /\ IsFiniteSet(I)
      /\ decided \in Decisions /\ \A i \in I : OrderOK(orders[i], decided)
  BY OrderBooksOK, PaidTyped DEF BookInv, OrdersOK, Books
<1>2. takes \in [I -> Nat] /\ ledger.available[Treasury] >= SumFunction(takes)
  <2>1. takes \in [I -> Nat] /\ takes \in [I -> Int] /\ \A i \in I : takes[i] = 0
    OBVIOUS
  <2>. HIDE DEF takes, I
  <2>2. SumFunction(takes) = 0
    BY <1>1, <2>1, SumZero
  <2>. QED BY <2>1, <2>2, BooksInt DEF BookInv
<1>. HIDE DEF E
<1>3. T = {}
  <2>. SUFFICES ASSUME T # {} PROVE FALSE
    OBVIOUS
  <2>1. PICK s \in T : \A y \in T : y \subseteq s => y = s
    <3>1. T \in SUBSET SUBSET I
      OBVIOUS
    <3>. HIDE DEF T, I
    <3>. QED BY <1>1, <3>1, MinimalSubset
  <2>2. s \in SUBSET I /\ ~ WalkOK(g[s], s, E, takes)
    OBVIOUS
  <2>3. CASE s = {}
    <3>1. g[s] = Desk
      BY <2>3 DEF IsVoiding
    <3>. HIDE DEF takes
    <3>. QED BY <1>2, <2>2, <2>3, <3>1, WalkStart
  <2>4. CASE s # {}
    <3>. DEFINE x == Latest(s)
                d == g[s \ {x}]
    <3>1. x \in s /\ x \in I /\ g[s] = VoidOne(d, x, v)
      BY <1>1, <2>2, <2>4, LatestIn DEF IsVoiding
    <3>. HIDE DEF x
    <3>2. WalkOK(d, s \ {x}, E, takes) /\ d \in Desks(I)
      BY <2>1, <2>2, <3>1
    <3>. HIDE DEF d, T
    <3>3. d.orders[x] = orders[x] /\ takes[x] = 0
      BY <3>1, <3>2 DEF WalkOK
    <3>4. OrderOK(d.orders[x], decided) /\ Books(d.ledger, d.orders) /\ ~ d.aborted
      BY <1>1, <3>1, <3>2, <3>3 DEF WalkOK
    <3>. HIDE DEF takes, I
    <3>5. RoundOK(d, g[s], I, x, E, takes[x])
      BY <1>1, <3>1, <3>2, <3>3, <3>4, VoidRound DEF E
    <3>. QED BY <1>1, <1>2, <2>2, <3>1, <3>2, <3>5, WalkStep DEF I
  <2>. QED BY <2>3, <2>4
<1>. QED BY <1>3 DEF E

-----------------------------------------------------------------------------
(* The books of every step                                                 *)

LEMMA BookFacts ==
  ASSUME BookInv
  PROVE  /\ orders \in OrderBooks /\ orders \in Seq(Order) /\ Len(orders) \in Nat
         /\ DOMAIN orders = 1..Len(orders) /\ orders \in [DOMAIN orders -> Order]
         /\ DOMAIN orders \subseteq OrderIds /\ Len(orders) <= MaxOrders
         /\ ledger \in Ledgers(Parties, OrderIds) /\ SoundLedger(ledger, Parties, OrderIds)
         /\ decided \in Decisions /\ \A i \in DOMAIN orders : OrderOK(orders[i], decided)
<1>1. orders \in OrderBooks /\ orders \in Seq(Order) /\ SoundLedger(ledger, Parties, OrderIds)
  BY DEF BookInv, OrdersOK, Books
<1>2. Len(orders) \in Nat /\ DOMAIN orders = 1..Len(orders)
  BY <1>1
<1>3. DOMAIN orders \subseteq OrderIds /\ orders \in [DOMAIN orders -> Order]
  BY <1>1, OrderBooksOK
<1>. QED BY <1>1, <1>2, <1>3 DEF BookInv, OrdersOK, SoundLedger

\* A walk that goes through leaves the books as the decision wants them.
LEMMA WalkLeaves ==
  ASSUME BookInv, NEW E \in Decisions, NEW takes, NEW d, WalkOK(d, DOMAIN orders, E, takes)
  PROVE  /\ Books(d.ledger, d.orders) /\ ~ d.aborted
         /\ d.orders \in Seq(Order) /\ Len(d.orders) <= MaxOrders
         /\ \A i \in DOMAIN d.orders : OrderOK(d.orders[i], E)
<1>. DEFINE n == Len(orders)
<1>1. n \in Nat /\ DOMAIN orders = 1..n /\ n <= MaxOrders
  BY BookFacts
<1>2. d.orders \in [1..n -> Order] /\ DOMAIN d.orders = 1..n
  BY <1>1, DeskFields DEF WalkOK
<1>. HIDE DEF n
<1>3. d.orders \in Seq(Order) /\ Len(d.orders) = n
  BY <1>1, <1>2
<1>. QED BY <1>1, <1>2, <1>3 DEF WalkOK

LEMMA SettlingTyped ==
  ASSUME orders \in OrderBooks, ledger \in Ledgers(Parties, OrderIds), NEW v, NEW o,
         NEW g, IsSettling(g, v, o)
  PROVE  g \in [SUBSET DOMAIN orders -> Desks(DOMAIN orders)]
<1>. DEFINE I == DOMAIN orders
            D == Desks(I)
            T == {s \in SUBSET I : g[s] \notin D}
<1>1. I \subseteq OrderIds /\ IsFiniteSet(I) /\ orders \in [I -> Order]
  BY OrderBooksOK, PaidTyped
<1>2. Desk \in D
  BY <1>1 DEF Desk, Desks
<1>. HIDE DEF D
<1>3. T = {}
  <2>. SUFFICES ASSUME T # {} PROVE FALSE
    OBVIOUS
  <2>1. PICK s \in T : \A y \in T : y \subseteq s => y = s
    <3>1. T \in SUBSET SUBSET I
      OBVIOUS
    <3>. HIDE DEF T, I
    <3>. QED BY <1>1, <3>1, MinimalSubset
  <2>2. s # {}
    BY <1>2 DEF IsSettling
  <2>3. Latest(s) \in s /\ Latest(s) \in I /\ g[s] = SettleOne(g[s \ {Latest(s)}], Latest(s), v, o)
    BY <2>2, LatestIn DEF IsSettling
  <2>4. g[s \ {Latest(s)}] \in D
    BY <2>1, <2>3
  <2>. QED BY <1>1, <2>3, <2>4, SettleOneTyped DEF D
<1>4. g = [s \in SUBSET I |->
             IF s = {} THEN Desk ELSE SettleOne(g[s \ {Max(s)}], Latest(s), v, o)]
  BY DEF IsSettling
<1>5. \A s \in SUBSET I : g[s] \in D
  BY <1>3
<1>. HIDE DEF T
<1>6. g \in [SUBSET I -> D]
  BY <1>4, <1>5
<1>. QED BY <1>6 DEF D

LEMMA VoidingTyped ==
  ASSUME orders \in OrderBooks, ledger \in Ledgers(Parties, OrderIds), NEW v,
         NEW g, IsVoiding(g, v)
  PROVE  g \in [SUBSET DOMAIN orders -> Desks(DOMAIN orders)]
<1>. DEFINE I == DOMAIN orders
            D == Desks(I)
            T == {s \in SUBSET I : g[s] \notin D}
<1>1. I \subseteq OrderIds /\ IsFiniteSet(I) /\ orders \in [I -> Order]
  BY OrderBooksOK, PaidTyped
<1>2. Desk \in D
  BY <1>1 DEF Desk, Desks
<1>. HIDE DEF D
<1>3. T = {}
  <2>. SUFFICES ASSUME T # {} PROVE FALSE
    OBVIOUS
  <2>1. PICK s \in T : \A y \in T : y \subseteq s => y = s
    <3>1. T \in SUBSET SUBSET I
      OBVIOUS
    <3>. HIDE DEF T, I
    <3>. QED BY <1>1, <3>1, MinimalSubset
  <2>2. s # {}
    BY <1>2 DEF IsVoiding
  <2>3. Latest(s) \in s /\ Latest(s) \in I /\ g[s] = VoidOne(g[s \ {Latest(s)}], Latest(s), v)
    BY <2>2, LatestIn DEF IsVoiding
  <2>4. g[s \ {Latest(s)}] \in D
    BY <2>1, <2>3
  <2>. QED BY <1>1, <2>3, <2>4, VoidOneTyped DEF D
<1>4. g = [s \in SUBSET I |->
             IF s = {} THEN Desk ELSE VoidOne(g[s \ {Max(s)}], Latest(s), v)]
  BY DEF IsVoiding
<1>5. \A s \in SUBSET I : g[s] \in D
  BY <1>3
<1>. HIDE DEF T
<1>6. g \in [SUBSET I -> D]
  BY <1>4, <1>5
<1>. QED BY <1>6 DEF D

LEMMA ResolveKeeps ==
  ASSUME BookInv, NEW v \in Variables, NEW o \in Outcomes, ResolveVariable(v, o)
  PROVE  BookInv'
<1>1. CASE UNCHANGED book_vars
  BY <1>1 DEF BookInv, OrdersOK, book_vars
<1>2. CASE ~ UNCHANGED book_vars
  <2>. DEFINE Step(desk, i) == SettleOne(desk, i, v, o)
              after == Walk(Step)
              E == [decided EXCEPT ![v] = o]
              g == CHOOSE f : IsSettling(f, v, o)
  <2>1. /\ decided[v] = Open /\ CanPay(ledger, Treasury, Outflow(v, o)) /\ decided' = E
        /\ ledger' = after.ledger /\ orders' = after.orders
        /\ aborted' = (aborted \/ after.aborted)
    BY <1>2 DEF ResolveVariable
  <2>2. after = g[DOMAIN orders]
    BY DEF Walk, FoldLeft, MapThenFoldSet, IsSettling, Latest, Desk
  <2>3. PICK f \in [SUBSET DOMAIN orders -> Desks(DOMAIN orders)] : IsSettling(f, v, o)
    BY BookFacts, SettlingExists
  <2>4. IsSettling(g, v, o)
    BY <2>3
  <2>. HIDE DEF after, g
  <2>5. g \in [SUBSET DOMAIN orders -> Desks(DOMAIN orders)]
    BY <2>4, SettlingTyped, BookFacts
  <2>6. WalkOK(g[DOMAIN orders], DOMAIN orders, E, Takes(v, o))
    BY <2>1, <2>4, <2>5, SettlingWalk
  <2>7. E \in Decisions
    BY BookFacts DEF Decisions
  <2>. HIDE DEF E
  <2>8. /\ Books(after.ledger, after.orders) /\ ~ after.aborted
        /\ after.orders \in Seq(Order) /\ Len(after.orders) <= MaxOrders
        /\ \A i \in DOMAIN after.orders : OrderOK(after.orders[i], E)
    BY <2>2, <2>6, <2>7, WalkLeaves
  <2>. QED BY <2>1, <2>7, <2>8 DEF BookInv, OrdersOK
<1>. QED BY <1>1, <1>2

LEMMA VoidKeeps ==
  ASSUME BookInv, NEW v \in Variables, VoidVariable(v)
  PROVE  BookInv'
<1>. DEFINE Undecidable(order) == Live(order) /\ (order.variable = v \/ v \in DOMAIN order.remaining)
            Step(desk, i) == IF Undecidable(desk.orders[i]) THEN CalledOff(desk, i) ELSE desk
            after == Walk(Step)
            E == [decided EXCEPT ![v] = Void]
            g == CHOOSE f : IsVoiding(f, v)
<1>1. /\ decided[v] = Open /\ decided' = E
      /\ ledger' = after.ledger /\ orders' = after.orders /\ aborted' = aborted
  BY DEF VoidVariable
<1>2. after = g[DOMAIN orders]
  BY DEF Walk, FoldLeft, MapThenFoldSet, IsVoiding, VoidOne, Latest, Desk
<1>3. PICK f \in [SUBSET DOMAIN orders -> Desks(DOMAIN orders)] : IsVoiding(f, v)
  BY BookFacts, VoidingExists
<1>4. IsVoiding(g, v)
  BY <1>3
<1>. HIDE DEF after, g
<1>5. g \in [SUBSET DOMAIN orders -> Desks(DOMAIN orders)]
  BY <1>4, VoidingTyped, BookFacts
<1>6. WalkOK(g[DOMAIN orders], DOMAIN orders, E, [i \in DOMAIN orders |-> 0])
  BY <1>1, <1>4, <1>5, VoidingWalk
<1>7. E \in Decisions
  BY BookFacts DEF Decisions
<1>. HIDE DEF E
<1>8. /\ Books(after.ledger, after.orders) /\ ~ after.aborted
      /\ after.orders \in Seq(Order) /\ Len(after.orders) <= MaxOrders
      /\ \A i \in DOMAIN after.orders : OrderOK(after.orders[i], E)
  BY <1>2, <1>6, <1>7, WalkLeaves
<1>. QED BY <1>1, <1>7, <1>8 DEF BookInv, OrdersOK

\* lock: the stake moves from available to frozen.
Freezes(N, L, a, k, x) ==
  /\ SoundLedger(N, Parties, OrderIds)
  /\ \A b \in Parties : /\ N.available[b] = L.available[b] - IF b = a THEN x ELSE 0
                        /\ N.frozen[b] = L.frozen[b] + IF b = a THEN x ELSE 0
  /\ \A b \in Parties, j \in OrderIds :
       N.locks[b][j] = IF b = a /\ j = k THEN L.locks[b][j] + x ELSE L.locks[b][j]

LEMMA FreezeEffect ==
  ASSUME NEW L, SoundLedger(L, Parties, OrderIds), NEW a \in Parties, NEW k \in OrderIds,
         NEW x \in Nat
  PROVE  Freezes(Freeze(L, a, k, x), L, a, k, x)
<1>. DEFINE N == Freeze(L, a, k, x)
<1>1. /\ L \in Ledgers(Parties, OrderIds)
      /\ L.available \in [Parties -> Int] /\ L.frozen \in [Parties -> Int]
      /\ L.locks \in [Parties -> [OrderIds -> Nat]]
  BY SoundFields
<1>2. SoundLedger(N, Parties, OrderIds)
  <2>1. x \in Int /\ L.locks[a][k] + x \in Nat /\ IsFiniteSet(Parties) /\ IsFiniteSet(OrderIds)
    <3>1. L.locks[a][k] \in Nat
      BY <1>1
    <3>2. L.locks[a][k] + x \in Nat
      BY <3>1
    <3>. QED BY <3>2, ConstantsOK
  <2>. QED BY <2>1, FreezeIsSound
<1>3. /\ N.available = [L.available EXCEPT ![a] = @ - x]
      /\ N.frozen = [L.frozen EXCEPT ![a] = @ + x]
      /\ N.locks = [L.locks EXCEPT ![a][k] = @ + x]
  BY <1>1 DEF Freeze, Ledgers
<1>. HIDE DEF N
<1>4. ASSUME NEW b \in Parties
      PROVE  /\ N.available[b] = L.available[b] - IF b = a THEN x ELSE 0
             /\ N.frozen[b] = L.frozen[b] + IF b = a THEN x ELSE 0
  <2>1. L.available[b] \in Int /\ L.frozen[b] \in Int
    BY <1>1
  <2>. QED BY <1>1, <1>3, <2>1
<1>5. ASSUME NEW b \in Parties, NEW j \in OrderIds
      PROVE  N.locks[b][j] = IF b = a /\ j = k THEN L.locks[b][j] + x ELSE L.locks[b][j]
  BY <1>1, <1>3
<1>. QED BY <1>2, <1>4, <1>5 DEF N, Freezes

\* A new order that is open, its stake locked under the next key.
LEMMA BooksAppend ==
  ASSUME BookInv, Len(orders) + 1 <= MaxOrders, NEW q \in Order, q.status = "open",
         NEW N, SoundLedger(N, Parties, OrderIds),
         \A b \in Parties : N.available[b] >= 0,
         \A b \in Parties, j \in OrderIds : N.locks[b][j] =
           IF b = q.account /\ j = Len(orders) + 1 THEN q.stake ELSE ledger.locks[b][j],
         \A b \in Parties : N.available[b] + N.frozen[b] = ledger.available[b] + ledger.frozen[b],
         N.available[Treasury] = ledger.available[Treasury]
  PROVE  Books(N, Append(orders, q))
<1>. DEFINE id == Len(orders) + 1
            I == DOMAIN orders
            P == Append(orders, q)
<1>1. /\ orders \in OrderBooks /\ orders \in Seq(Order) /\ Len(orders) \in Nat /\ I = 1..Len(orders)
      /\ IsFiniteSet(I) /\ orders \in [I -> Order] /\ I \subseteq OrderIds
      /\ id \in OrderIds /\ id \notin I /\ MaxOrders \in Nat
      /\ Traders \subseteq Parties /\ Treasury \in Parties /\ q.account \in Parties
  BY BookFacts, PaidTyped, ConstantsOK, OrderOfKind
<1>2. /\ P \in Seq(Order) /\ DOMAIN P = I \cup {id} /\ P[id] = q
      /\ \A i \in I : P[i] = orders[i]
  BY <1>1
<1>. HIDE DEF P, I, id
<1>3. P \in [DOMAIN P -> Order] /\ DOMAIN P \subseteq OrderIds
  BY <1>1, <1>2
<1>4. P \in OrderBooks
  BY <1>3, OrderBooksOK
<1>5. ASSUME NEW t \in Traders, NEW i \in OrderIds PROVE N.locks[t][i] = Locked(P, t, i)
  <2>1. ledger.locks[t][i] = Locked(orders, t, i) /\ t \in Parties
    BY <1>1 DEF BookInv, Books
  <2>2. CASE i = id
    BY <1>1, <1>2, <2>1, <2>2 DEF Locked, Live, id, I
  <2>3. CASE i # id
    BY <1>1, <1>2, <2>1, <2>3 DEF Locked, id, I
  <2>. QED BY <2>2, <2>3
<1>6. ASSUME NEW t \in Traders PROVE PaidOut(P)[t] = PaidOut(orders)[t]
  <2>. DEFINE T == I \cup {id}
              f == PaidTo(orders, t)
              g == PaidTo(P, t)
  <2>1. T \ {id} = I /\ id \in T /\ IsFiniteSet(T) /\ DOMAIN P = T
    BY <1>1, <1>2, FS_AddElement
  <2>2. f \in [I -> Int] /\ g \in [T -> Int]
    BY <1>1, <1>2, <1>4, PaidTyped DEF I
  <2>3. \A i \in I : f[i] = g[i]
    BY <1>1, <1>2 DEF PaidTo, I
  <2>4. g[id] = 0
    BY <1>2 DEF PaidTo, Paid
  <2>. HIDE DEF f, g, T
  <2>5. f \in [T \ {id} -> Int] /\ \A i \in T \ {id} : f[i] = g[i]
    BY <2>1, <2>2, <2>3
  <2>6. SumFunction(g) = SumFunction(f) + g[id] /\ SumFunction(f) \in Int
    <3>1. IsFiniteSet(T) /\ g \in [T -> Int] /\ id \in T
      BY <2>1, <2>2
    <3>. QED BY ONLY <3>1, <2>5, SumWithout
  <2>7. SumFunction(g) = SumFunction(f)
    BY <2>4, <2>6
  <2>. QED BY <2>7 DEF f, g, PaidOut
<1>7. PaidOut(P) = PaidOut(orders)
  <2>1. PaidOut(P) \in [Traders -> Int] /\ PaidOut(orders) \in [Traders -> Int]
    BY <1>1, <1>4, PaidTyped
  <2>. QED BY <1>6, <2>1
<1>8. /\ \A t \in Traders : ledger.available[t] + ledger.frozen[t] = Funds + PaidOut(orders)[t]
      /\ ledger.available[Treasury] = TreasuryFunds - SumFunction(PaidOut(orders))
  BY DEF BookInv, Books
<1>. QED BY <1>1, <1>4, <1>5, <1>7, <1>8 DEF Books, P

\* What _check_lifecycle lets through is an open order.
LEMMA PlacedIsOK ==
  ASSUME BookInv, NEW t \in Traders, NEW bet \in Bets, NEW o \in Outcomes,
         NEW context \in Assignments(bet.given), Acceptable(bet.variable, context)
  PROVE  LET q == PlacedOrder(t, bet, o, context)
         IN  /\ OrderOK(q, decided) /\ q \in Order /\ q.status = "open"
             /\ q.account = t /\ q.stake = Stake(bet.edit)
<1>. DEFINE q == PlacedOrder(t, bet, o, context)
<1>1. /\ bet.variable \in Variables /\ bet.given \subseteq Variables /\ bet.edit \in Edits
      /\ Stake(bet.edit) \in Nat
  BY JointVenueAssumption, PayoutOK DEF Edits
<1>2. context \in Contexts
  BY <1>1 DEF Contexts
<1>3. StillOpen(context) \in Contexts
  BY <1>2, RestrictOK DEF StillOpen
<1>4. /\ q \in Order /\ q.status = "open" /\ q.account = t /\ q.stake = Stake(bet.edit)
      /\ q.variable = bet.variable /\ q.context = context /\ q.remaining = StillOpen(context)
      /\ q.won = "unknown" /\ q.edit = bet.edit
  BY <1>1, <1>2, <1>3 DEF PlacedOrder, Order
<1>. HIDE DEF q
<1>5. FateIn(q, decided) = "open"
  BY <1>4, ConstantsOK DEF FateIn, Acceptable
<1>6. decided[q.variable] = Open
  BY <1>4 DEF Acceptable
<1>. QED BY <1>4, <1>5, <1>6 DEF OrderOK, StillOpen, Live, q

\* A ledger with the same balances and locks.
LEMMA BooksSame ==
  ASSUME NEW L, NEW O, Books(L, O), NEW N, SoundLedger(N, Parties, OrderIds),
         \A b \in Parties : N.available[b] = L.available[b] /\ N.frozen[b] = L.frozen[b],
         \A b \in Parties, j \in OrderIds : N.locks[b][j] = L.locks[b][j]
  PROVE  Books(N, O)
<1>1. Traders \subseteq Parties /\ Treasury \in Parties
  BY ConstantsOK
<1>. QED BY <1>1 DEF Books

LEMMA PlaceKeeps ==
  ASSUME BookInv, NEW t \in Traders, NEW bet \in Bets, NEW o \in Outcomes,
         NEW context \in Assignments(bet.given), Place(t, bet, o, context)
  PROVE  BookInv'
<1>. DEFINE id == Len(orders) + 1
            stake == Stake(bet.edit)
            staked == Freeze(ledger, t, id, stake)
            q == PlacedOrder(t, bet, o, context)
            released == ReleaseLock(staked, t, id)
<1>1. /\ id <= MaxOrders /\ Acceptable(bet.variable, context) /\ CanPay(ledger, t, stake)
      /\ decided' = decided /\ aborted' = aborted
      /\ \/ ledger' = staked /\ orders' = Append(orders, q)
         \/ ledger' = released /\ orders' = orders
  BY DEF Place, Previews
<1>2. /\ orders \in Seq(Order) /\ Len(orders) \in Nat /\ DOMAIN orders = 1..Len(orders)
      /\ orders \in [DOMAIN orders -> Order]
      /\ id \in OrderIds /\ id \notin DOMAIN orders /\ t \in Parties /\ t # Treasury
      /\ Treasury \in Parties /\ SoundLedger(ledger, Parties, OrderIds)
      /\ ledger.available \in [Parties -> Int] /\ ledger.frozen \in [Parties -> Int]
  BY <1>1, BookFacts, ConstantsOK, SoundFields
<1>3. /\ OrderOK(q, decided) /\ q \in Order /\ q.status = "open"
      /\ q.account = t /\ q.stake = stake /\ stake \in Nat
  <2>1. /\ OrderOK(q, decided) /\ q \in Order /\ q.status = "open"
        /\ q.account = t /\ q.stake = stake
    BY <1>1, PlacedIsOK
  <2>. HIDE DEF q, stake
  <2>. QED BY <2>1, OrderOfKind
<1>4. /\ SoundLedger(staked, Parties, OrderIds)
      /\ \A b \in Parties :
           /\ staked.available[b] = ledger.available[b] - IF b = t THEN stake ELSE 0
           /\ staked.frozen[b] = ledger.frozen[b] + IF b = t THEN stake ELSE 0
      /\ \A b \in Parties, j \in OrderIds : staked.locks[b][j] =
           IF b = t /\ j = id THEN ledger.locks[b][j] + stake ELSE ledger.locks[b][j]
  <2>. HIDE DEF stake, id
  <2>1. Freezes(staked, ledger, t, id, stake)
    BY <1>2, <1>3, FreezeEffect
  <2>. HIDE DEF staked
  <2>. QED BY <2>1 DEF Freezes
<1>5. ledger.locks[t][id] = 0 /\ \A b \in Parties : ledger.available[b] >= 0
  BY <1>2 DEF BookInv, Books, Locked
<1>. HIDE DEF staked, q, stake, id
<1>9. ASSUME NEW b \in Parties
      PROVE  /\ ledger.available[b] \in Int /\ ledger.frozen[b] \in Int
             /\ staked.available[b] = IF b = t THEN ledger.available[b] - stake ELSE ledger.available[b]
             /\ staked.frozen[b] = IF b = t THEN ledger.frozen[b] + stake ELSE ledger.frozen[b]
  <2>1. ledger.available[b] \in Int /\ ledger.frozen[b] \in Int
    BY <1>2
  <2>2. /\ staked.available[b] = ledger.available[b] - IF b = t THEN stake ELSE 0
        /\ staked.frozen[b] = ledger.frozen[b] + IF b = t THEN stake ELSE 0
    BY <1>4
  <2>. QED BY <1>3, <2>1, <2>2
<1>6. staked.locks[t][id] = stake
  BY <1>2, <1>3, <1>4, <1>5
<1>7. CASE ledger' = staked /\ orders' = Append(orders, q)
  <2>1. \A b \in Parties : staked.available[b] >= 0
    BY <1>1, <1>3, <1>5, <1>9 DEF CanPay
  <2>2. \A b \in Parties, j \in OrderIds : staked.locks[b][j] =
          IF b = q.account /\ j = Len(orders) + 1 THEN q.stake ELSE ledger.locks[b][j]
    BY <1>2, <1>3, <1>4, <1>6 DEF id
  <2>3. /\ \A b \in Parties : staked.available[b] + staked.frozen[b] = ledger.available[b] + ledger.frozen[b]
        /\ staked.available[Treasury] = ledger.available[Treasury]
    BY <1>2, <1>3, <1>9
  <2>4. Books(staked, Append(orders, q))
    BY <1>1, <1>3, <1>4, <2>1, <2>2, <2>3, BooksAppend DEF id
  <2>5. /\ Append(orders, q) \in Seq(Order) /\ Len(Append(orders, q)) = id
        /\ \A i \in DOMAIN Append(orders, q) :
             Append(orders, q)[i] = q \/ (i \in DOMAIN orders /\ Append(orders, q)[i] = orders[i])
    BY <1>2, <1>3 DEF id
  <2>6. \A i \in DOMAIN orders : OrderOK(orders[i], decided)
    BY BookFacts
  <2>7. \A i \in DOMAIN Append(orders, q) : OrderOK(Append(orders, q)[i], decided)
    BY <1>3, <2>5, <2>6
  <2>8. decided \in Decisions
    BY BookFacts
  <2>9. Books(ledger', orders')
    BY <1>7, <2>4
  <2>10. OrdersOK'
    BY <1>1, <1>7, <2>5, <2>7, <2>8 DEF OrdersOK
  <2>. QED BY <1>1, <2>9, <2>10 DEF BookInv
<1>8. CASE ledger' = released /\ orders' = orders
  <2>1. Frees(released, staked, t, id, stake)
    BY <1>2, <1>4, <1>6, ReleaseEffect
  <2>2. /\ SoundLedger(released, Parties, OrderIds)
        /\ \A b \in Parties :
             /\ released.available[b] = staked.available[b] + IF b = t THEN stake ELSE 0
             /\ released.frozen[b] = staked.frozen[b] - IF b = t THEN stake ELSE 0
        /\ \A b \in Parties, j \in OrderIds :
             released.locks[b][j] = IF b = t /\ j = id THEN 0 ELSE staked.locks[b][j]
    BY <2>1 DEF Frees
  <2>. HIDE DEF released
  <2>3. \A b \in Parties : released.available[b] = ledger.available[b] /\ released.frozen[b] = ledger.frozen[b]
    BY <1>3, <1>9, <2>2
  <2>4. \A b \in Parties, j \in OrderIds : released.locks[b][j] = ledger.locks[b][j]
    BY <1>4, <1>5, <2>2
  <2>5. Books(released, orders)
    BY <2>2, <2>3, <2>4, BooksSame DEF BookInv
  <2>6. Books(ledger', orders')
    BY <1>8, <2>5
  <2>7. OrdersOK'
    BY <1>1, <1>8 DEF BookInv, OrdersOK
  <2>. QED BY <1>1, <2>6, <2>7 DEF BookInv
<1>. QED BY <1>1, <1>7, <1>8

LEMMA BookInit == Init => BookInv
<1>. SUFFICES ASSUME Init PROVE BookInv
  OBVIOUS
<1>. DEFINE empty == EmptyLedger(Parties, OrderIds)
            start == [a \in Parties |-> IF a = Treasury THEN TreasuryFunds ELSE Funds]
<1>1. /\ empty \in Ledgers(Parties, OrderIds) /\ FrozenMatchesLocks(empty)
      /\ empty.frozen = [a \in Parties |-> 0]
      /\ empty.locks = [a \in Parties |-> [k \in OrderIds |-> 0]]
  BY ConstantsOK, EmptyLedgerIsSound DEF EmptyLedger
<1>2. start \in [Parties -> Int]
  BY ConstantsOK
<1>3. ledger = [empty EXCEPT !.available = start]
  BY DEF Init
<1>. HIDE DEF empty, start
<1>4. /\ ledger \in Ledgers(Parties, OrderIds) /\ ledger.available = start
      /\ ledger.frozen = empty.frozen /\ ledger.locks = empty.locks
  BY <1>1, <1>2, <1>3 DEF Ledgers
<1>5. SoundLedger(ledger, Parties, OrderIds)
  BY <1>1, <1>4, MatchesFields DEF SoundLedger
<1>6. orders = <<>> /\ DOMAIN orders = {} /\ orders \in Seq(Order) /\ Len(orders) = 0
      /\ orders \in [DOMAIN orders -> Order]
  BY DEF Init
<1>7. orders \in OrderBooks
  BY <1>6, OrderBooksOK
<1>8. ASSUME NEW t \in Traders PROVE PaidOut(orders)[t] = 0
  <2>. DEFINE f == PaidTo(orders, t)
  <2>1. f \in [DOMAIN orders -> Int] /\ IsFiniteSet(DOMAIN orders) /\ \A i \in DOMAIN orders : f[i] = 0
    BY <1>6, <1>7, PaidTyped
  <2>. HIDE DEF f
  <2>2. SumFunction(f) = 0
    BY <2>1, SumZero
  <2>. QED BY <2>2 DEF f, PaidOut
<1>9. SumFunction(PaidOut(orders)) = 0
  <2>1. PaidOut(orders) \in [Traders -> Int] /\ IsFiniteSet(Traders)
    BY <1>7, PaidTyped, ConstantsOK
  <2>. QED BY <1>8, <2>1, SumZero
<1>10. \A t \in Traders, i \in OrderIds : ledger.locks[t][i] = Locked(orders, t, i)
  BY <1>1, <1>4, <1>6, ConstantsOK DEF Locked
<1>11. /\ \A a \in Parties : ledger.available[a] >= 0
       /\ \A t \in Traders : ledger.available[t] + ledger.frozen[t] = Funds + PaidOut(orders)[t]
       /\ ledger.available[Treasury] = TreasuryFunds - SumFunction(PaidOut(orders))
  BY <1>1, <1>4, <1>8, <1>9, ConstantsOK DEF start
<1>12. Books(ledger, orders)
  BY <1>5, <1>7, <1>10, <1>11 DEF Books
<1>13. OrdersOK
  BY <1>6, ConstantsOK DEF OrdersOK, Decisions, Init
<1>. QED BY <1>12, <1>13 DEF BookInv, Init

\* BookInv is kept by every step: a restart leaves the books alone.
LEMMA BookStep == BookInv /\ [Next]_vars => BookInv'
<1>. SUFFICES ASSUME BookInv, [Next]_vars PROVE BookInv'
  OBVIOUS
<1>1. ASSUME NEW t \in Traders, NEW bet \in Bets, NEW o \in Outcomes,
             NEW context \in Assignments(bet.given), Place(t, bet, o, context)
      PROVE  BookInv'
  BY <1>1, PlaceKeeps
<1>2. ASSUME NEW v \in Decidable, NEW o \in Outcomes, ResolveVariable(v, o)
      PROVE  BookInv'
  BY <1>2, ResolveKeeps, JointVenueAssumption
<1>3. ASSUME NEW v \in Decidable, VoidVariable(v) PROVE BookInv'
  BY <1>3, VoidKeeps, JointVenueAssumption
<1>4. ASSUME UNCHANGED book_vars PROVE BookInv'
  BY <1>4 DEF BookInv, OrdersOK, book_vars
<1>5. CASE Restart
  BY <1>4, <1>5 DEF Restart
<1>6. CASE UNCHANGED vars
  BY <1>4, <1>6 DEF vars
<1>. QED BY <1>1, <1>2, <1>3, <1>5, <1>6 DEF Next

\* The books are kept: every stake is in its lock, nobody is overdrawn, every
\* order is as the decisions want it, and each balance is what the orders say.
THEOREM BooksKept == Spec => []BookInv
<1>. QED BY BookInit, BookStep, PTL DEF Spec

-----------------------------------------------------------------------------
(* The properties                                                          *)

LEMMA FollowFromBooks == BookInv => OrdersFollowDecisions
<1>. SUFFICES ASSUME BookInv PROVE OrdersFollowDecisions
  OBVIOUS
<1>1. StakesMatchOrders
  BY DEF StakesMatchOrders, BookInv, Books, Locked
<1>2. FateFollowsDecisions
  BY DEF FateFollowsDecisions, BookInv, OrdersOK, OrderOK, Fate, FateIn
<1>. QED BY <1>1, <1>2 DEF OrdersFollowDecisions

LEMMA ScoresFromBooks == BookInv => PaidByScore
<1>. SUFFICES ASSUME BookInv PROVE PaidByScore
  OBVIOUS
<1>1. ASSUME NEW i \in DOMAIN orders PROVE Score(orders[i]) = Paid(orders[i])
  <2>1. OrderOK(orders[i], decided)
    BY BookFacts
  <2>. QED BY <2>1 DEF OrderOK, Score, Paid, WonIn
<1>2. ASSUME NEW t \in Traders PROVE ScoresOf(t) = PaidOut(orders)[t]
  <2>1. [i \in DOMAIN orders |-> IF orders[i].account = t THEN Score(orders[i]) ELSE 0] = PaidTo(orders, t)
    BY <1>1 DEF PaidTo
  <2>. QED BY <2>1 DEF ScoresOf, PaidOut
<1>3. [t \in Traders |-> ScoresOf(t)] = PaidOut(orders)
  BY <1>2 DEF PaidOut
<1>. QED BY <1>2, <1>3 DEF PaidByScore, BookInv, Books

LEMMA PortfolioFromBooks == BookInv => PortfolioIsLedgers
<1>. SUFFICES ASSUME BookInv, NEW t \in Traders
     PROVE  /\ Portfolio(t).openStake = ledger.frozen[t]
            /\ Portfolio(t).settledPnl = ledger.available[t] + ledger.frozen[t] - Funds
  BY DEF PortfolioIsLedgers
<1>. DEFINE I == DOMAIN orders
            open == {i \in OrdersFor(t) : orders[i].status \in {"open", "awaiting_context"}}
            done == {i \in OrdersFor(t) : orders[i].status \in {"settled"}}
            stakes == [i \in open |-> orders[i].stake]
            payouts == [i \in done |-> Payout(orders[i].edit, orders[i].won)]
<1>1. Portfolio(t).openStake = SumFunction(stakes) /\ Portfolio(t).settledPnl = SumFunction(payouts)
  BY DEF Portfolio
<1>2. /\ I \subseteq OrderIds /\ IsFiniteSet(I) /\ IsFiniteSet(OrderIds) /\ orders \in [I -> Order]
      /\ t \in Parties /\ open \subseteq I /\ done \subseteq I
      /\ ledger.locks \in [Parties -> [OrderIds -> Nat]] /\ ledger.frozen \in [Parties -> Int]
      /\ ledger.available \in [Parties -> Int]
      /\ Matches(ledger.frozen, ledger.locks)
  BY BookFacts, PaidTyped, ConstantsOK, SoundFields DEF OrdersFor
<1>3. \A i \in I : orders[i].stake \in Int /\ Payout(orders[i].edit, orders[i].won) \in Int
  BY <1>2, OrderOfKind
<1>4. stakes \in [open -> Int] /\ payouts \in [done -> Int]
  BY <1>2, <1>3
<1>5. SumFunction(ledger.locks[t]) = SumFunction(stakes)
  <2>. DEFINE f == ledger.locks[t]
  <2>1. f \in [OrderIds -> Int]
    <3>1. f \in [OrderIds -> Nat]
      BY <1>2
    <3>. QED BY <3>1
  <2>2. \A i \in OrderIds : f[i] = Locked(orders, t, i)
    BY DEF BookInv, Books
  <2>3. \A i \in open : stakes[i] = f[i]
    BY <1>2, <2>2 DEF Locked, OrdersFor, Live
  <2>4. \A i \in OrderIds \ open : f[i] = 0
    BY <1>2, <2>2 DEF Locked, OrdersFor, Live
  <2>5. open \in SUBSET OrderIds
    BY <1>2
  <2>. HIDE DEF f, stakes, open
  <2>6. IsFiniteSet(OrderIds) /\ stakes \in [open -> Int]
    BY <1>2, <1>4 DEF open, stakes
  <2>7. SumFunction(f) = SumFunction(stakes)
    BY ONLY <2>1, <2>3, <2>4, <2>5, <2>6, SumSupport
  <2>. QED BY <2>7 DEF f
<1>6. PaidOut(orders)[t] = SumFunction(payouts)
  <2>. DEFINE f == PaidTo(orders, t)
  <2>1. f \in [I -> Int]
    BY PaidTyped DEF BookInv, Books
  <2>2. \A i \in done : payouts[i] = f[i]
    BY <1>2 DEF PaidTo, Paid, OrdersFor
  <2>3. \A i \in I \ done : f[i] = 0
    BY <1>2 DEF PaidTo, Paid, OrdersFor
  <2>4. done \in SUBSET I
    BY <1>2
  <2>. HIDE DEF f, payouts, done, I
  <2>5. SumFunction(f) = SumFunction(payouts)
    <3>1. IsFiniteSet(I) /\ payouts \in [done -> Int]
      BY <1>2, <1>4 DEF I, done, payouts
    <3>. QED BY ONLY <2>1, <2>2, <2>3, <2>4, <3>1, SumSupport
  <2>. QED BY <2>5 DEF f, PaidOut
<1>7. ledger.frozen[t] = SumFunction(ledger.locks[t])
  BY <1>2 DEF Matches
<1>8. ledger.available[t] + ledger.frozen[t] = Funds + PaidOut(orders)[t] /\ PaidOut(orders)[t] \in Int
  BY PaidTyped DEF BookInv, Books
<1>. HIDE DEF stakes, payouts
<1>9. ledger.available[t] + ledger.frozen[t] - Funds = PaidOut(orders)[t]
  <2>1. ledger.available[t] \in Int /\ ledger.frozen[t] \in Int /\ Funds \in Int
    BY <1>2, ConstantsOK
  <2>. QED BY <1>8, <2>1
<1>. QED BY <1>1, <1>5, <1>6, <1>7, <1>9

\* Whatever is placed, resolved, voided and restarted, in any order, the stake
\* of an order is frozen for just as long as the decisions leave it open.
THEOREM OrdersFollow == Spec => []OrdersFollowDecisions
<1>. QED BY BooksKept, FollowFromBooks, PTL

\* A resolution that passes the treasury's precheck never stops half way, for
\* any prices, grain and funds; balances are the scores, and pages show them.
THEOREM SettlementExact == Spec => []SettlementIsExact
<1>1. BookInv => SettlementIsExact
  BY ScoresFromBooks, PortfolioFromBooks DEF SettlementIsExact, WalkNeverAborts, BookInv
<1>. QED BY <1>1, BooksKept, PTL

-----------------------------------------------------------------------------
(* The junction tree.  Its operators are folds; each is a recursion over    *)
(* the subsets of a finite set that takes one member after the other.       *)

\* One more round of Outward.
Onward(clusters, start, path) ==
  LET reached == {start} \cup {path[k][2] : k \in DOMAIN path}
  IN  path \o SetToSeq({link \in reached \X (DOMAIN clusters \ reached) :
                          Linked(clusters, link[1], link[2])})

\* The steps of the folds of the tree, named by what they do; "replay" takes
\* the resolved variables in any order, the others go along a sequence.
Round(task, d, x) ==
  CASE task.op = "eliminate" -> Eliminated(d)
    [] task.op = "reach"     -> Onward(task.clusters, task.start, d)
    [] task.op = "pass"      -> Passed(d, x)
    [] task.op = "up"        -> PassedUp(d, x)
    [] task.op = "down"      -> PassedDown(d, x)
    [] task.op = "replay"    -> Condition(d, x, decided[x]).tree
    [] OTHER                 -> d

Picked(task, s) == IF task.op = "replay" THEN Chosen(s) ELSE Max(s)
PicksIn(task, S) == \A s \in SUBSET S : s # {} => Picked(task, s) \in s
Rest(task, s) == s \ {Picked(task, s)}

RoundAt(g, task, base, e, s) ==
  IF s = {} THEN base ELSE Round(task, g[Rest(task, s)], e[Picked(task, s)])
Rounds(g, task, base, e, S) ==
  g = [s \in SUBSET S |-> g[s]] /\ \A s \in SUBSET S : g[s] = RoundAt(g, task, base, e, s)

\* Solutions of the recursion agree where both are defined.
LEMMA RoundsUnique ==
  ASSUME NEW S, IsFiniteSet(S), NEW task, NEW base, NEW e, PicksIn(task, S),
         NEW U \in SUBSET S, NEW V \in SUBSET S, NEW g, Rounds(g, task, base, e, U),
         NEW h, Rounds(h, task, base, e, V)
  PROVE  \A s \in SUBSET (U \cap V) : g[s] = h[s]
<1>. DEFINE T == {s \in SUBSET (U \cap V) : g[s] # h[s]}
<1>1. SUFFICES ASSUME T # {} PROVE FALSE
  OBVIOUS
<1>2. PICK s \in T : \A y \in T : y \subseteq s => y = s
  <2>1. T \in SUBSET SUBSET S
    OBVIOUS
  <2>. HIDE DEF T
  <2>. QED BY <1>1, <2>1, MinimalSubset
<1>3. g[s] = RoundAt(g, task, base, e, s) /\ h[s] = RoundAt(h, task, base, e, s)
  BY DEF Rounds
<1>4. s # {} => Picked(task, s) \in s
  BY DEF PicksIn
<1>5. s # {} => Rest(task, s) \notin T
  BY <1>2, <1>4 DEF Rest
<1>6. s # {} => g[Rest(task, s)] = h[Rest(task, s)]
  BY <1>5 DEF Rest
<1>. QED BY <1>3, <1>6 DEF RoundAt

\* Over a finite set the recursion has a solution.
LEMMA RoundsExist ==
  ASSUME NEW S, IsFiniteSet(S), NEW task, NEW base, NEW e, PicksIn(task, S)
  PROVE  \E g : Rounds(g, task, base, e, S)
<1>. DEFINE T == {s \in SUBSET S : ~ \E g : Rounds(g, task, base, e, s)}
<1>1. SUFFICES ASSUME T # {} PROVE FALSE
  OBVIOUS
<1>2. PICK s \in T : \A y \in T : y \subseteq s => y = s
  <2>1. T \in SUBSET SUBSET S
    OBVIOUS
  <2>. HIDE DEF T
  <2>. QED BY <1>1, <2>1, MinimalSubset
<1>. DEFINE Sol(t) == CHOOSE g : Rounds(g, task, base, e, t)
            Before(t) == Sol(Rest(task, t))[Rest(task, t)]
            G == [t \in SUBSET s |->
                    IF t = {} THEN base ELSE Round(task, Before(t), e[Picked(task, t)])]
<1>3. ASSUME NEW t \in SUBSET s, t # s PROVE Rounds(Sol(t), task, base, e, t)
  BY <1>2, <1>3
<1>4. ASSUME NEW t \in SUBSET s, t # {}
      PROVE  Rest(task, t) \in SUBSET t /\ Rest(task, t) # s
  BY <1>4 DEF PicksIn, Rest
<1>. HIDE DEF Sol
<1>5. ASSUME NEW t \in SUBSET s, t # {} PROVE G[Rest(task, t)] = Before(t)
  <2>. DEFINE u == Rest(task, t)
              w == Rest(task, u)
  <2>1. u \in SUBSET s /\ u # s
    BY <1>4, <1>5
  <2>2. Rounds(Sol(u), task, base, e, u)
    BY <1>3, <2>1
  <2>. HIDE DEF u
  <2>3. CASE u = {}
    BY <2>1, <2>2, <2>3 DEF Rounds, RoundAt, u
  <2>4. CASE u # {}
    <3>1. w \in SUBSET u /\ w # s /\ w \in SUBSET s
      BY <1>4, <2>1, <2>4
    <3>2. Rounds(Sol(w), task, base, e, w)
      BY <1>3, <3>1
    <3>3. Sol(u)[w] = Sol(w)[w]
      <4>1. w \in SUBSET (u \cap w) /\ u \in SUBSET S /\ w \in SUBSET S
        BY <2>1, <3>1
      <4>. HIDE DEF w
      <4>. QED BY <2>2, <3>2, <4>1, RoundsUnique
    <3>4. Sol(u)[u] = Round(task, Sol(u)[w], e[Picked(task, u)])
      BY <2>2, <2>4 DEF Rounds, RoundAt
    <3>5. G[u] = Round(task, Sol(w)[w], e[Picked(task, u)])
      BY <2>1, <2>4
    <3>. QED BY <3>3, <3>4, <3>5 DEF u
  <2>. QED BY <2>3, <2>4
<1>6. Rounds(G, task, base, e, s)
  <2>1. G = [t \in SUBSET s |-> G[t]]
    OBVIOUS
  <2>2. ASSUME NEW t \in SUBSET s PROVE G[t] = RoundAt(G, task, base, e, t)
    BY <1>5 DEF RoundAt
  <2>. HIDE DEF G
  <2>. QED BY <2>1, <2>2 DEF Rounds
<1>. QED BY <1>2, <1>6

\* The recursion, as the library writes it.
LEMMA RoundsAre ==
  ASSUME NEW task, NEW base, NEW e, NEW S, NEW g
  PROVE  Rounds(g, task, base, e, S) <=> g = [s \in SUBSET S |-> RoundAt(g, task, base, e, s)]
<1>. DEFINE G == [s \in SUBSET S |-> RoundAt(g, task, base, e, s)]
<1>1. G = [s \in SUBSET S |-> G[s]] /\ \A s \in SUBSET S : G[s] = RoundAt(g, task, base, e, s)
  OBVIOUS
<1>. HIDE DEF G
<1>2. g = G <=> g = [s \in SUBSET S |-> g[s]] /\ \A s \in SUBSET S : g[s] = G[s]
  BY <1>1
<1>3. Rounds(g, task, base, e, S) <=> g = G
  BY <1>1, <1>2 DEF Rounds
<1>. QED BY <1>3 DEF G

\* Along a sequence the recursion goes from one prefix to the next.
Walked(p, task, base, e, n) ==
  p[0] = base /\ \A k \in 1..n : p[k] = Round(task, p[k - 1], e[k])
Heads(g, n) == [k \in 0..n |-> g[1..k]]

LEMMA RoundsAlong ==
  ASSUME NEW n \in Nat, NEW task, task.op # "replay", NEW base, NEW e
  PROVE  /\ \E g : Rounds(g, task, base, e, 1..n)
         /\ \A g : Rounds(g, task, base, e, 1..n) => Walked(Heads(g, n), task, base, e, n)
<1>1. IsFiniteSet(1..n) /\ PicksIn(task, 1..n)
  <2>1. IsFiniteSet(1..n)
    BY FS_Interval
  <2>2. \A s \in SUBSET (1..n) : s # {} => Max(s) \in s
    BY MaxUpTo
  <2>. QED BY <2>1, <2>2 DEF PicksIn, Picked
<1>2. \E g : Rounds(g, task, base, e, 1..n)
  BY <1>1, RoundsExist
<1>3. ASSUME NEW g, Rounds(g, task, base, e, 1..n)
      PROVE  Walked(Heads(g, n), task, base, e, n)
  <2>. DEFINE p == Heads(g, n)
  <2>1. p[0] = base
    <3>1. 1..0 = {} /\ p[0] = g[1..0]
      BY DEF Heads
    <3>. HIDE DEF p
    <3>. QED BY <1>3, <3>1 DEF Rounds, RoundAt
  <2>2. ASSUME NEW k \in 1..n PROVE p[k] = Round(task, p[k - 1], e[k])
    <3>1. Max(1..k) = k /\ (1..k) \ {k} = 1..(k - 1)
      BY MaxUpTo
    <3>2. Picked(task, 1..k) = k /\ Rest(task, 1..k) = 1..(k - 1)
      BY <3>1 DEF Picked, Rest
    <3>3. 1..k \in SUBSET (1..n) /\ 1..k # {}
      OBVIOUS
    <3>4. g[1..k] = Round(task, g[1..(k - 1)], e[k])
      BY <1>3, <3>2, <3>3 DEF Rounds, RoundAt
    <3>5. p[k] = g[1..k] /\ p[k - 1] = g[1..(k - 1)]
      BY DEF Heads
    <3>. QED BY <3>4, <3>5
  <2>. QED BY <2>1, <2>2 DEF Walked
<1>. QED BY <1>2, <1>3

\* _build_structure eliminates one variable after the other.
Blank(scopes) == [left |-> Variables, edges |-> Graph(scopes), clusters |-> <<>>]
Eliminates(p, scopes) ==
  /\ p[0] = Blank(scopes)
  /\ \A k \in 1..Len(Names) : p[k] = Eliminated(p[k - 1])

LEMMA TriangulatedIs ==
  ASSUME NEW scopes
  PROVE  \E p : Eliminates(p, scopes) /\ Triangulated(scopes) = p[Len(Names)].clusters
<1>. DEFINE n == Len(Names)
            task == [op |-> "eliminate"]
            base == Blank(scopes)
            Solves(g) == g = [s \in SUBSET DOMAIN Names |->
                                IF s = {} THEN base ELSE Eliminated(g[s \ {Max(s)}])]
            f == CHOOSE g : Solves(g)
<1>1. n \in Nat /\ DOMAIN Names = 1..n
  BY NetworkAssumption
<1>2. Triangulated(scopes) = f[DOMAIN Names].clusters
  BY DEF Triangulated, FoldLeft, MapThenFoldSet, Blank
<1>3. \A d, x : Round(task, d, x) = Eliminated(d)
  BY DEF Round
<1>4. \A s : Picked(task, s) = Max(s) /\ Rest(task, s) = s \ {Max(s)}
  BY DEF Picked, Rest
<1>. HIDE DEF task, base, n
<1>5. ASSUME NEW g PROVE Solves(g) <=> Rounds(g, task, base, Names, 1..n)
  <2>1. \A s : RoundAt(g, task, base, Names, s)
                 = IF s = {} THEN base ELSE Eliminated(g[s \ {Max(s)}])
    BY <1>3, <1>4 DEF RoundAt
  <2>. QED BY <1>1, <2>1, RoundsAre
<1>6. Solves(f)
  <2>1. \E g : Solves(g)
    <3>1. \E g : Rounds(g, task, base, Names, 1..n)
      BY <1>1, RoundsAlong DEF task
    <3>. HIDE DEF Solves
    <3>. QED BY <1>5, <3>1
  <2>. HIDE DEF Solves
  <2>. QED BY <2>1
<1>. HIDE DEF f
<1>7. Rounds(f, task, base, Names, 1..n)
  <2>. HIDE DEF Solves
  <2>. QED BY <1>5, <1>6
<1>8. Walked(Heads(f, n), task, base, Names, n)
  BY <1>1, <1>7, RoundsAlong DEF task
<1>9. Heads(f, n)[n] = f[DOMAIN Names]
  BY <1>1 DEF Heads
<1>10. Eliminates(Heads(f, n), scopes)
  BY <1>3, <1>8 DEF Walked, Eliminates, base, n
<1>. QED BY <1>2, <1>9, <1>10 DEF n

\* Among finitely many things one is the least by any integer key.
LEMMA LeastBy ==
  ASSUME NEW S, IsFiniteSet(S), S # {}, NEW f \in [S -> Int]
  PROVE  \E x \in S : \A y \in S : f[x] <= f[y]
<1>. DEFINE T == {s \in SUBSET S : s # {} /\ ~ \E x \in s : \A y \in s : f[x] <= f[y]}
<1>1. SUFFICES ASSUME T # {} PROVE FALSE
  OBVIOUS
<1>2. PICK s \in T : \A y \in T : y \subseteq s => y = s
  <2>1. T \in SUBSET SUBSET S
    OBVIOUS
  <2>. HIDE DEF T
  <2>. QED BY <1>1, <2>1, MinimalSubset
<1>3. s \in SUBSET S /\ s # {} /\ ~ \E x \in s : \A y \in s : f[x] <= f[y]
  BY <1>2
<1>4. PICK x \in s : TRUE
  BY <1>3
<1>5. f[x] \in Int /\ \A y \in s : f[y] \in Int
  BY <1>3, <1>4
<1>6. s \ {x} # {} /\ s \ {x} \notin T
  <2>1. s # {x}
    BY <1>3, <1>5
  <2>. HIDE DEF T
  <2>. QED BY <1>2, <1>4, <2>1
<1>7. PICK y \in s \ {x} : \A z \in s \ {x} : f[y] <= f[z]
  BY <1>3, <1>6
<1>8. CASE f[y] <= f[x]
  BY <1>3, <1>7, <1>8
<1>9. CASE ~ f[y] <= f[x]
  <2>1. \A z \in s : f[x] <= f[z]
    BY <1>5, <1>7, <1>9
  <2>. QED BY <1>3, <1>4, <2>1
<1>. QED BY <1>8, <1>9

LEMMA NamesOK ==
  /\ Len(Names) \in Nat /\ DOMAIN Names = 1..Len(Names)
  /\ \A v \in Variables : \E i \in DOMAIN Names : Names[i] = v
  /\ \A i \in DOMAIN Names : Names[i] \in Variables
  /\ IsFiniteSet(Variables) /\ Cardinality(Variables) = Len(Names)
<1>. DEFINE n == Len(Names)
<1>1. n \in Nat /\ DOMAIN Names = 1..n /\ Names \in [1..n -> Variables] /\ IsInjective(Names)
  BY NetworkAssumption
<1>2. Variables = {Names[i] : i \in DOMAIN Names}
  BY DEF Variables, Range
<1>. HIDE DEF n
<1>3. Names \in Bijection(1..n, Variables)
  BY <1>1, <1>2 DEF Bijection, Injection, Surjection
<1>4. ExistsBijection(1..n, Variables)
  BY <1>3 DEF ExistsBijection
<1>5. IsFiniteSet(1..n) /\ Cardinality(1..n) = n
  BY <1>1, FS_Interval
<1>6. IsFiniteSet(Variables) /\ Cardinality(Variables) = n
  BY <1>1, <1>4, <1>5, FS_CountingElements, FS_Bijection
<1>. QED BY <1>1, <1>2, <1>6 DEF n

\* A pair of two variables is a subset of two.
LEMMA PairsOK ==
  ASSUME NEW S
  PROVE  /\ \A u \in S, w \in S : u # w => {u, w} \in kSubset(2, S)
         /\ \A e \in kSubset(2, S) : e \subseteq S
<1>1. ASSUME NEW u \in S, NEW w \in S, u # w PROVE {u, w} \in kSubset(2, S)
  <2>1. IsFiniteSet({u}) /\ Cardinality({u}) = 1
    BY FS_Singleton
  <2>2. Cardinality({u} \cup {w}) = 2
    <3>1. w \notin {u}
      BY <1>1
    <3>2. Cardinality({u} \cup {w}) = Cardinality({u}) + 1
      BY <2>1, <3>1, FS_AddElement
    <3>. QED BY <2>1, <3>2
  <2>3. {u} \cup {w} = {u, w}
    OBVIOUS
  <2>. QED BY <2>2, <2>3 DEF kSubset
<1>. QED BY <1>1 DEF kSubset

LEMMA CheapestIn ==
  ASSUME NEW left \in SUBSET Variables, left # {}, NEW edges
  PROVE  Cheapest(left, edges) \in left
<1>1. ASSUME NEW v \in left PROVE EliminationKey(edges, v) \in Int
  <2>. DEFINE name == CHOOSE i \in DOMAIN Names : Names[i] = v
              base == Len(Names) + 1
              fill == Cardinality(Fill(edges, v))
              near == Cardinality(Adjacent(edges, v))
  <2>1. base \in Nat /\ name \in Nat
    BY NamesOK
  <2>2. Adjacent(edges, v) \in SUBSET Variables
    BY DEF Adjacent
  <2>3. IsFiniteSet(Adjacent(edges, v)) /\ near \in Nat
    BY <2>2, NamesOK, FS_Subset, FS_CardinalityType
  <2>4. IsFiniteSet(SUBSET Adjacent(edges, v))
    BY <2>3, FS_SUBSET
  <2>5. Fill(edges, v) \in SUBSET SUBSET Adjacent(edges, v)
    BY DEF Fill, kSubset
  <2>6. fill \in Nat
    BY <2>4, <2>5, FS_Subset, FS_CardinalityType
  <2>7. EliminationKey(edges, v) = fill * base * base + near * base + name
    BY DEF EliminationKey
  <2>. HIDE DEF fill, near, base, name
  <2>8. fill * base \in Nat /\ near * base \in Nat
    BY <2>1, <2>3, <2>6
  <2>9. (fill * base) * base \in Nat
    BY <2>1, <2>8
  <2>. QED BY <2>1, <2>7, <2>8, <2>9
<1>. DEFINE f == [v \in left |-> EliminationKey(edges, v)]
<1>2. IsFiniteSet(left)
  BY NamesOK, FS_Subset
<1>3. f \in [left -> Int]
  BY <1>1
<1>4. \E x \in left : \A y \in left : f[x] <= f[y]
  <2>. HIDE DEF f
  <2>. QED BY <1>2, <1>3, LeastBy
<1>5. \E x \in left : \A y \in left : EliminationKey(edges, x) <= EliminationKey(edges, y)
  BY <1>4
<1>. QED BY <1>5 DEF Cheapest

-----------------------------------------------------------------------------
(* The triangulation.  A clique of the graph ends up inside a cluster, and   *)
(* so does what a cluster leaves to its parent.                              *)

EliminatedClusters == Seq([elim : Variables, vars : SUBSET Variables])
Clique(d, s) == s \subseteq d.left /\ \A u \in s, w \in s : u # w => {u, w} \in d.edges
Leaves(c) == c.vars \ {c.elim}

\* The first cluster after the i-th that eliminates one of the variables that
\* the i-th leaves has them all.
TakesOver(C, i, j) ==
  /\ i < j /\ Leaves(C[i]) \subseteq C[j].vars /\ C[j].elim \in Leaves(C[i])
  /\ \A m \in DOMAIN C : C[m].elim \in Leaves(C[i]) => j <= m

\* After k eliminations.
Eliminating(d, k, scopes) ==
  /\ d.left \in SUBSET Variables /\ Cardinality(d.left) = Len(Names) - k
  /\ \A e \in d.edges : e \subseteq d.left
  /\ d.clusters \in EliminatedClusters /\ Len(d.clusters) = k
  /\ \A i \in DOMAIN d.clusters :
       d.clusters[i].elim \in d.clusters[i].vars /\ d.clusters[i].elim \notin d.left
  /\ \A v \in Variables \ d.left : \E i \in DOMAIN d.clusters : d.clusters[i].elim = v
  /\ \A i \in DOMAIN d.clusters, j \in DOMAIN d.clusters :
       d.clusters[i].elim = d.clusters[j].elim => i = j
  /\ \A s \in scopes :
       Clique(d, s) \/ \E i \in DOMAIN d.clusters : s \subseteq d.clusters[i].vars
  /\ \A i \in DOMAIN d.clusters :
       Clique(d, Leaves(d.clusters[i])) \/ \E j \in DOMAIN d.clusters : TakesOver(d.clusters, i, j)

LEMMA BlankOK ==
  ASSUME NEW scopes \in SUBSET SUBSET Variables
  PROVE  Eliminating(Blank(scopes), 0, scopes)
<1>. DEFINE d == Blank(scopes)
<1>1. d.left = Variables /\ d.edges = Graph(scopes) /\ d.clusters = <<>>
  BY DEF Blank
<1>2. \A e \in Graph(scopes) : e \subseteq Variables
  BY PairsOK DEF Graph
<1>3. \A s \in scopes : \A u \in s, w \in s : u # w => {u, w} \in Graph(scopes)
  BY PairsOK DEF Graph
<1>4. d.clusters \in EliminatedClusters /\ Len(d.clusters) = 0 /\ DOMAIN d.clusters = {}
  BY <1>1 DEF EliminatedClusters
<1>. HIDE DEF d
<1>5. \A s \in scopes : Clique(d, s)
  BY <1>1, <1>3 DEF Clique
<1>. QED BY <1>1, <1>2, <1>4, <1>5, NamesOK DEF Eliminating, d

\* What the elimination of v makes of the graph and of the clusters.
LEMMA EliminatedIs ==
  ASSUME NEW d, NEW k \in Nat, NEW scopes, Eliminating(d, k, scopes), k < Len(Names)
  PROVE  \E v \in d.left, near \in SUBSET d.left :
           /\ v \notin near /\ Eliminated(d).left = d.left \ {v}
           /\ near = {u \in d.left : u # v /\ {u, v} \in d.edges}
           /\ \A e \in Eliminated(d).edges : e \subseteq d.left \ {v}
           /\ \A u \in d.left \ {v}, w \in d.left \ {v} :
                u # w /\ ({u, w} \in d.edges \/ (u \in near /\ w \in near))
                => {u, w} \in Eliminated(d).edges
           /\ Eliminated(d).clusters = Append(d.clusters, [elim |-> v, vars |-> near \cup {v}])
<1>. DEFINE v == Cheapest(d.left, d.edges)
            near == Adjacent(d.edges, v)
<1>1. d.left \in SUBSET Variables /\ \A e \in d.edges : e \subseteq d.left
  BY DEF Eliminating
<1>2. d.left # {}
  <2>1. Cardinality(d.left) = Len(Names) - k
    BY DEF Eliminating
  <2>2. Cardinality({}) = 0 /\ Len(Names) \in Nat
    BY FS_EmptySet, NamesOK
  <2>3. Len(Names) - k # 0
    BY <2>2
  <2>. QED BY ONLY <2>1, <2>2, <2>3
<1>3. v \in d.left
  BY <1>1, <1>2, CheapestIn
<1>4. /\ Eliminated(d).left = d.left \ {v}
      /\ Eliminated(d).edges = {e \in d.edges \cup kSubset(2, near) : v \notin e}
      /\ Eliminated(d).clusters = Append(d.clusters, [elim |-> v, vars |-> near \cup {v}])
  BY DEF Eliminated
<1>5. near = {u \in Variables : {u, v} \in d.edges /\ u # v}
  BY DEF Adjacent
<1>. HIDE DEF v, near
<1>6. near \in SUBSET d.left /\ v \notin near /\ near = {u \in d.left : u # v /\ {u, v} \in d.edges}
  BY <1>1, <1>5
<1>7. \A e \in Eliminated(d).edges : e \subseteq d.left \ {v}
  BY <1>1, <1>4, <1>6, PairsOK
<1>8. ASSUME NEW u \in d.left \ {v}, NEW w \in d.left \ {v}, u # w,
             {u, w} \in d.edges \/ (u \in near /\ w \in near)
      PROVE  {u, w} \in Eliminated(d).edges
  <2>1. {u, w} \in d.edges \cup kSubset(2, near)
    BY <1>8, PairsOK
  <2>2. v \notin {u, w}
    OBVIOUS
  <2>. QED BY <1>4, <2>1, <2>2
<1>. QED BY <1>3, <1>4, <1>6, <1>7, <1>8

LEMMA EliminatedOK ==
  ASSUME NEW d, NEW k \in Nat, NEW scopes, Eliminating(d, k, scopes), k < Len(Names)
  PROVE  Eliminating(Eliminated(d), k + 1, scopes)
<1>. DEFINE C == d.clusters
            d2 == Eliminated(d)
<1>1. PICK v \in d.left, near \in SUBSET d.left :
           /\ v \notin near /\ Eliminated(d).left = d.left \ {v}
           /\ near = {u \in d.left : u # v /\ {u, v} \in d.edges}
           /\ \A e \in Eliminated(d).edges : e \subseteq d.left \ {v}
           /\ \A u \in d.left \ {v}, w \in d.left \ {v} :
                u # w /\ ({u, w} \in d.edges \/ (u \in near /\ w \in near))
                => {u, w} \in Eliminated(d).edges
           /\ Eliminated(d).clusters = Append(d.clusters, [elim |-> v, vars |-> near \cup {v}])
  BY EliminatedIs
<1>. DEFINE c == [elim |-> v, vars |-> near \cup {v}]
            D == Append(C, c)
<1>2. /\ d.left \in SUBSET Variables /\ Cardinality(d.left) = Len(Names) - k
      /\ C \in EliminatedClusters /\ Len(C) = k
  BY DEF Eliminating
<1>3. c.elim = v /\ c.vars = near \cup {v} /\ Leaves(c) = near
      /\ c \in [elim : Variables, vars : SUBSET Variables]
  BY <1>1, <1>2 DEF Leaves
<1>4. D \in EliminatedClusters /\ Len(D) = k + 1 /\ DOMAIN D = 1..(k + 1)
      /\ DOMAIN C = 1..k /\ D[k + 1] = c /\ \A i \in 1..k : D[i] = C[i]
  <2>. HIDE DEF c
  <2>. QED BY <1>2, <1>3 DEF EliminatedClusters
<1>5. d2.left = d.left \ {v} /\ d2.clusters = D
  BY <1>1
<1>6. /\ \A e \in d2.edges : e \subseteq d2.left
      /\ \A u \in d.left \ {v}, w \in d.left \ {v} :
           u # w /\ ({u, w} \in d.edges \/ (u \in near /\ w \in near)) => {u, w} \in d2.edges
  BY <1>1
<1>. HIDE DEF d2, D, C, c
<1>7. Cardinality(d2.left) = Len(Names) - (k + 1)
  <2>1. IsFiniteSet(d.left)
    BY <1>2, NamesOK, FS_Subset
  <2>2. Cardinality(d2.left) = Cardinality(d.left) - 1
    <3>1. Cardinality(d.left \ {v}) = Cardinality(d.left) - 1
      <4>1. v \in d.left
        OBVIOUS
      <4>. QED BY ONLY <2>1, <4>1, FS_RemoveElement
    <3>. QED BY <1>5, <3>1
  <2>3. Len(Names) \in Nat
    BY NamesOK
  <2>. QED BY <1>2, <2>2, <2>3
\* A clique of the graph that has v becomes part of v's cluster; another one stays.
<1>8. ASSUME NEW s, Clique(d, s)
      PROVE  IF v \in s THEN s \subseteq c.vars ELSE Clique(d2, s)
  <2>1. CASE v \in s
    <3>1. \A u \in s \ {v} : u \in near
      BY <1>1, <1>8, <2>1 DEF Clique
    <3>. QED BY <1>3, <2>1, <3>1
  <2>2. CASE v \notin s
    <3>1. s \subseteq d.left \ {v}
      BY <1>8, <2>2 DEF Clique
    <3>. QED BY <1>5, <1>6, <1>8, <2>2, <3>1 DEF Clique
  <2>. QED BY <2>1, <2>2
<1>9. Clique(d2, near)
  <2>1. near \subseteq d.left \ {v}
    BY <1>1
  <2>. QED BY <1>5, <1>6, <2>1 DEF Clique
<1>10. \A i \in 1..k : C[i].elim \in C[i].vars /\ C[i].elim \notin d.left
  BY <1>4 DEF Eliminating, C
<1>11. \A i \in DOMAIN D : D[i].elim \in D[i].vars /\ D[i].elim \notin d2.left
  <2>1. ASSUME NEW i \in 1..(k + 1), i \notin 1..k PROVE i = k + 1
    BY <2>1
  <2>. QED BY <1>3, <1>4, <1>5, <1>10, <2>1
<1>12. \A u \in Variables \ d2.left : \E i \in DOMAIN D : D[i].elim = u
  <2>1. ASSUME NEW u \in Variables \ d.left PROVE \E i \in 1..k : C[i].elim = u
    BY <1>4, <2>1 DEF Eliminating, C
  <2>2. 1..k \subseteq 1..(k + 1) /\ k + 1 \in 1..(k + 1)
    OBVIOUS
  <2>3. ASSUME NEW u \in Variables \ d2.left PROVE \E i \in DOMAIN D : D[i].elim = u
    <3>1. CASE u = v
      BY <1>3, <1>4, <2>2, <3>1
    <3>2. CASE u # v
      <4>1. u \in Variables \ d.left
        BY <1>5, <2>3, <3>2
      <4>2. PICK i \in 1..k : C[i].elim = u
        BY <2>1, <4>1
      <4>. QED BY <1>4, <2>2, <4>2
    <3>. QED BY <3>1, <3>2
  <2>. QED BY <2>3
<1>13. \A i \in DOMAIN D, j \in DOMAIN D : D[i].elim = D[j].elim => i = j
  <2>1. \A i \in 1..k, j \in 1..k : C[i].elim = C[j].elim => i = j
    BY <1>4 DEF Eliminating, C
  <2>2. \A i \in 1..k : C[i].elim # v
    BY <1>1, <1>10
  <2>3. \A i \in 1..(k + 1) : i \in 1..k \/ i = k + 1
    OBVIOUS
  <2>. QED BY <1>3, <1>4, <2>1, <2>2, <2>3
<1>14. ASSUME NEW s \in scopes
       PROVE  Clique(d2, s) \/ \E i \in DOMAIN D : s \subseteq D[i].vars
  <2>1. 1..k \subseteq 1..(k + 1) /\ k + 1 \in 1..(k + 1)
    OBVIOUS
  <2>2. Clique(d, s) \/ \E i \in 1..k : s \subseteq C[i].vars
    BY <1>4 DEF Eliminating, C
  <2>3. CASE Clique(d, s)
    BY <1>4, <1>8, <2>1, <2>3
  <2>4. CASE \E i \in 1..k : s \subseteq C[i].vars
    BY <1>4, <2>1, <2>4
  <2>. QED BY <2>2, <2>3, <2>4
<1>15. ASSUME NEW i \in 1..k
       PROVE  Clique(d2, Leaves(D[i])) \/ \E j \in DOMAIN D : TakesOver(D, i, j)
  <2>0. D[i] = C[i] /\ 1..k \subseteq 1..(k + 1) /\ k + 1 \in 1..(k + 1)
    BY <1>4
  <2>1. Clique(d, Leaves(C[i])) \/ \E j \in 1..k : TakesOver(C, i, j)
    BY <1>4 DEF Eliminating, C
  <2>2. CASE Clique(d, Leaves(C[i])) /\ v \notin Leaves(C[i])
    BY <1>8, <2>0, <2>2
  <2>3. CASE Clique(d, Leaves(C[i])) /\ v \in Leaves(C[i])
    <3>1. Leaves(C[i]) \subseteq D[k + 1].vars /\ D[k + 1].elim \in Leaves(C[i])
      BY <1>3, <1>4, <1>8, <2>3
    <3>2. ASSUME NEW m \in 1..(k + 1), D[m].elim \in Leaves(C[i]) PROVE k + 1 <= m
      <4>1. CASE m \in 1..k
        <5>1. C[m].elim \notin d.left /\ D[m] = C[m]
          BY <1>4, <1>10, <4>1
        <5>. QED BY <2>3, <3>2, <5>1 DEF Clique
      <4>. QED BY <4>1
    <3>3. i < k + 1
      OBVIOUS
    <3>4. TakesOver(D, i, k + 1)
      BY <1>4, <2>0, <3>1, <3>2, <3>3 DEF TakesOver
    <3>. QED BY <1>4, <2>0, <3>4
  <2>4. ASSUME NEW j \in 1..k, TakesOver(C, i, j) PROVE TakesOver(D, i, j)
    <3>1. /\ i < j /\ Leaves(C[i]) \subseteq C[j].vars /\ C[j].elim \in Leaves(C[i])
          /\ \A m \in 1..k : C[m].elim \in Leaves(C[i]) => j <= m
      BY <1>4, <2>4 DEF TakesOver
    <3>2. \A m \in 1..(k + 1) : D[m].elim \in Leaves(C[i]) => j <= m
      <4>1. \A m \in 1..(k + 1) : m \in 1..k \/ (m = k + 1 /\ j <= m)
        OBVIOUS
      <4>. QED BY <1>4, <3>1, <4>1
    <3>. QED BY <1>4, <2>0, <3>1, <3>2 DEF TakesOver
  <2>. QED BY <1>4, <2>0, <2>1, <2>2, <2>3, <2>4
<1>16. \A i \in DOMAIN D :
         Clique(d2, Leaves(D[i])) \/ \E j \in DOMAIN D : TakesOver(D, i, j)
  <2>1. \A i \in 1..(k + 1) : i \in 1..k \/ i = k + 1
    OBVIOUS
  <2>2. Clique(d2, Leaves(D[k + 1]))
    BY <1>3, <1>4, <1>9
  <2>. QED BY <1>4, <1>15, <2>1, <2>2
<1>17. d2.left \in SUBSET Variables
  BY <1>2, <1>5
<1>18. Eliminating(d2, k + 1, scopes)
  BY <1>4, <1>5, <1>6, <1>7, <1>11, <1>12, <1>13, <1>14, <1>16, <1>17 DEF Eliminating
<1>. QED BY <1>18 DEF d2

LEMMA LeastIs ==
  ASSUME NEW U, NEW j \in U, \A y \in U : y \in Int /\ j <= y
  PROVE  Min(U) = j
<1>1. Min(U) \in U /\ \A y \in U : Min(U) <= y
  BY DEF Min
<1>2. Min(U) <= j /\ j <= Min(U) /\ j \in Int /\ Min(U) \in Int
  BY <1>1
<1>. QED BY <1>2

LEMMA ListIsSeq ==
  ASSUME NEW X, NEW n \in Nat, NEW f \in [1..n -> X]
  PROVE  f \in Seq(X)
OBVIOUS

LEMMA SeqHas ==
  ASSUME NEW X, NEW f \in Seq(X)
  PROVE  /\ Len(f) \in Nat /\ DOMAIN f = 1..Len(f) /\ f \in [1..Len(f) -> X]
         /\ \A i \in DOMAIN f : f[i] \in X
OBVIOUS

\* What the clusters over some scopes are: one for each variable, a scope is
\* inside one of them, and a cluster leaves its separator to a later one.
Ordered(C) ==
  /\ C \in Seq([elim : Variables, vars : SUBSET Variables,
                sep : SUBSET Variables, parent : Nat])
  /\ \A i \in DOMAIN C : C[i].elim \in C[i].vars /\ C[i].sep = Leaves(C[i])
  /\ \A v \in Variables : \E i \in DOMAIN C : C[i].elim = v
  /\ \A i \in DOMAIN C :
       IF C[i].sep = {} THEN C[i].parent = 0
       ELSE C[i].parent \in DOMAIN C /\ i < C[i].parent /\ C[i].sep \subseteq C[C[i].parent].vars

LEMMA TriangulatedOK ==
  ASSUME NEW scopes \in SUBSET SUBSET Variables
  PROVE  \E d : Eliminating(d, Len(Names), scopes) /\ Triangulated(scopes) = d.clusters /\ d.left = {}
<1>1. PICK p : Eliminates(p, scopes) /\ Triangulated(scopes) = p[Len(Names)].clusters
  BY TriangulatedIs
<1>. DEFINE n == Len(Names)
            S == {k \in 0..n : Eliminating(p[k], k, scopes)}
<1>2. n \in Nat
  BY NamesOK
<1>3. 0 \in S
  BY <1>1, <1>2, BlankOK DEF Eliminates
<1>4. ASSUME NEW k \in 0..(n - 1), k \in S PROVE k + 1 \in S
  <2>1. k \in Nat /\ k < n /\ k + 1 \in 1..n /\ (k + 1) - 1 = k
    BY <1>2
  <2>2. p[k + 1] = Eliminated(p[k])
    BY <1>1, <2>1 DEF Eliminates
  <2>3. Eliminating(Eliminated(p[k]), k + 1, scopes)
    BY <1>4, <2>1, EliminatedOK
  <2>. QED BY <1>2, <2>1, <2>2, <2>3
<1>5. n \in S
  <2>. HIDE DEF S, n
  <2>1. \A k \in 0..n : k \in S
    BY ONLY <1>2, <1>3, <1>4, UpTo
  <2>. QED BY <1>2, <2>1
<1>6. Eliminating(p[n], n, scopes)
  BY <1>5
<1>7. p[n].left = {}
  <2>1. Cardinality(p[n].left) = n - n /\ p[n].left \in SUBSET Variables
    BY <1>6 DEF Eliminating
  <2>2. IsFiniteSet(p[n].left) /\ n - n = 0
    BY <1>2, <2>1, NamesOK, FS_Subset
  <2>. HIDE DEF n
  <2>. QED BY <2>1, <2>2, FS_EmptySet
<1>. QED BY <1>1, <1>6, <1>7

LEMMA ClustersOK ==
  ASSUME NEW scopes \in SUBSET SUBSET Variables
  PROVE  /\ Ordered(Clusters(scopes))
         /\ \A s \in scopes : s # {} => \E i \in DOMAIN Clusters(scopes) : s \subseteq Clusters(scopes)[i].vars
<1>1. PICK d : Eliminating(d, Len(Names), scopes) /\ Triangulated(scopes) = d.clusters /\ d.left = {}
  BY TriangulatedOK
<1>. DEFINE T == d.clusters
            C == Clusters(scopes)
            n == Len(Names)
            ups(i) == {At(T, u) : u \in Leaves(T[i])}
<1>2. n \in Nat /\ T \in EliminatedClusters /\ DOMAIN T = 1..n
  <2>1. n \in Nat /\ T \in EliminatedClusters /\ Len(T) = n
    BY <1>1, NamesOK DEF Eliminating
  <2>. HIDE DEF T, n
  <2>. QED BY <2>1 DEF EliminatedClusters
<1>3. C = [i \in 1..n |-> [elim |-> T[i].elim, vars |-> T[i].vars, sep |-> Leaves(T[i]),
                           parent |-> IF Leaves(T[i]) = {} THEN 0 ELSE Min(ups(i))]]
  BY <1>1, <1>2 DEF Clusters, Rooted, Leaves
<1>4. \A i \in 1..n : T[i].elim \in Variables /\ T[i].vars \in SUBSET Variables /\ T[i].elim \in T[i].vars
  <2>1. \A i \in DOMAIN T : T[i] \in [elim : Variables, vars : SUBSET Variables]
    <3>1. T \in Seq([elim : Variables, vars : SUBSET Variables])
      BY <1>2 DEF EliminatedClusters
    <3>. HIDE DEF T
    <3>. QED BY <3>1, SeqHas
  <2>2. \A i \in DOMAIN T : T[i].elim \in T[i].vars
    BY <1>1 DEF Eliminating
  <2>. HIDE DEF T
  <2>. QED BY <1>2, <2>1, <2>2
<1>5. /\ \A v \in Variables : \E i \in 1..n : T[i].elim = v
      /\ \A i \in 1..n, j \in 1..n : T[i].elim = T[j].elim => i = j
  BY <1>1, <1>2 DEF Eliminating
<1>6. \A v \in Variables : At(T, v) \in 1..n /\ T[At(T, v)].elim = v
  BY <1>2, <1>5 DEF At
<1>7. ASSUME NEW i \in 1..n, Leaves(T[i]) # {}
      PROVE  \E j \in 1..n : j = Min(ups(i)) /\ i < j /\ Leaves(T[i]) \subseteq T[j].vars
  <2>1. ~ Clique(d, Leaves(T[i]))
    BY <1>1, <1>7 DEF Clique
  <2>2. PICK j \in 1..n : TakesOver(T, i, j)
    BY <1>1, <1>2, <2>1 DEF Eliminating
  <2>3. /\ i < j /\ Leaves(T[i]) \subseteq T[j].vars /\ T[j].elim \in Leaves(T[i])
        /\ \A m \in 1..n : T[m].elim \in Leaves(T[i]) => j <= m
    BY <1>2, <2>2 DEF TakesOver
  <2>4. Leaves(T[i]) \subseteq Variables
    BY <1>4 DEF Leaves
  <2>5. j \in ups(i)
    <3>1. At(T, T[j].elim) = j
      BY <1>4, <1>5, <1>6
    <3>. QED BY <2>3, <3>1
  <2>6. \A y \in ups(i) : y \in 1..n /\ j <= y
    BY <1>6, <2>3, <2>4
  <2>7. j = Min(ups(i))
    <3>. DEFINE U == ups(i)
    <3>1. j \in U /\ \A y \in U : y \in Int /\ j <= y
      BY <2>5, <2>6
    <3>. HIDE DEF U
    <3>2. Min(U) = j
      BY ONLY <3>1, LeastIs
    <3>. QED BY <3>2 DEF U
  <2>. QED BY <2>3, <2>7
<1>. HIDE DEF ups
<1>8. C \in Seq([elim : Variables, vars : SUBSET Variables, sep : SUBSET Variables, parent : Nat])
  <2>1. ASSUME NEW i \in 1..n
        PROVE  C[i] \in [elim : Variables, vars : SUBSET Variables, sep : SUBSET Variables, parent : Nat]
    <3>1. Leaves(T[i]) \in SUBSET Variables
      BY <1>4 DEF Leaves
    <3>2. (IF Leaves(T[i]) = {} THEN 0 ELSE Min(ups(i))) \in Nat
      <4>. HIDE DEF T, n
      <4>. QED BY <1>2, <1>7
    <3>3. C[i] = [elim |-> T[i].elim, vars |-> T[i].vars, sep |-> Leaves(T[i]),
                  parent |-> IF Leaves(T[i]) = {} THEN 0 ELSE Min(ups(i))]
      BY <1>3
    <3>. HIDE DEF C
    <3>. QED BY <1>4, <3>1, <3>2, <3>3
  <2>2. C \in [1..n -> [elim : Variables, vars : SUBSET Variables, sep : SUBSET Variables, parent : Nat]]
    <3>. DEFINE F == [i \in 1..n |-> [elim |-> T[i].elim, vars |-> T[i].vars, sep |-> Leaves(T[i]),
                           parent |-> IF Leaves(T[i]) = {} THEN 0 ELSE Min(ups(i))]]
    <3>1. C = F /\ \A i \in 1..n : F[i] = C[i]
      BY <1>3
    <3>2. F = [i \in 1..n |-> F[i]]
      OBVIOUS
    <3>. HIDE DEF F, C
    <3>. QED BY <2>1, <3>1, <3>2
  <2>. HIDE DEF C, n, T
  <2>. QED BY <1>2, <2>2, ListIsSeq
<1>9. DOMAIN C = 1..n /\ \A i \in 1..n : /\ C[i].elim = T[i].elim /\ C[i].vars = T[i].vars
                                         /\ C[i].sep = Leaves(T[i])
                                         /\ C[i].parent = IF Leaves(T[i]) = {} THEN 0 ELSE Min(ups(i))
  BY <1>3
<1>10. \A s \in scopes : s # {} => \E i \in 1..n : s \subseteq T[i].vars
  BY <1>1, <1>2 DEF Eliminating, Clique
<1>. HIDE DEF C, T
<1>11. \A i \in 1..n : Leaves(C[i]) = Leaves(T[i])
  BY <1>9 DEF Leaves
<1>12. Ordered(C)
  <2>. HIDE DEF n
  <2>1. \A i \in DOMAIN C : C[i].elim \in C[i].vars /\ C[i].sep = Leaves(C[i])
    BY <1>4, <1>9, <1>11
  <2>2. \A v \in Variables : \E i \in DOMAIN C : C[i].elim = v
    BY <1>5, <1>9
  <2>3. ASSUME NEW i \in DOMAIN C
        PROVE  IF C[i].sep = {} THEN C[i].parent = 0
               ELSE /\ C[i].parent \in DOMAIN C /\ i < C[i].parent
                    /\ C[i].sep \subseteq C[C[i].parent].vars
    <3>1. CASE Leaves(T[i]) = {}
      BY <1>9, <3>1
    <3>2. CASE Leaves(T[i]) # {}
      <4>1. PICK j \in 1..n : j = Min(ups(i)) /\ i < j /\ Leaves(T[i]) \subseteq T[j].vars
        BY <1>7, <1>9, <3>2
      <4>2. C[i].sep # {} /\ C[i].parent = j
        BY <1>9, <3>2, <4>1
      <4>. QED BY <1>9, <4>1, <4>2
    <3>. QED BY <3>1, <3>2
  <2>. QED BY <1>8, <2>1, <2>2, <2>3 DEF Ordered
<1>13. \A s \in scopes : s # {} => \E i \in DOMAIN C : s \subseteq C[i].vars
  BY <1>9, <1>10
<1>. QED BY <1>12, <1>13 DEF C

\* The clusters with a variable are connected.
LEMMA OrderedConnected ==
  ASSUME NEW C, Ordered(C)
  PROVE  RunningIntersection(C)
<1>1. ASSUME NEW v \in Variables, NEW i \in DOMAIN C, v \in C[i].vars, v # C[i].elim
      PROVE  v \in C[C[i].parent].vars
  <2>1. v \in C[i].sep
    BY <1>1 DEF Ordered, Leaves
  <2>2. C[i].sep \subseteq C[C[i].parent].vars
    BY <2>1 DEF Ordered
  <2>. QED BY <2>1, <2>2
<1>. QED BY <1>1 DEF RunningIntersection

LEMMA CoveringIs ==
  ASSUME NEW C, Ordered(C), NEW scope
  PROVE  IF \E i \in DOMAIN C : scope \subseteq C[i].vars
         THEN Covering(C, scope) \in DOMAIN C /\ Covering(C, scope) # 0
         ELSE Covering(C, scope) = 0
<1>. DEFINE covering == {i \in DOMAIN C : scope \subseteq C[i].vars}
            own == {i \in covering : C[i].elim \in scope}
            smallest(S) == {i \in S : \A j \in S : Cardinality(C[i].vars) <= Cardinality(C[j].vars)}
            named(i) == CHOOSE k \in DOMAIN Names : Names[k] = C[i].elim
<1>1. Covering(C, scope) =
        CASE own # {} -> CHOOSE i \in smallest(own) : \A j \in smallest(own) : named(i) <= named(j)
          [] own = {} /\ covering # {} -> Min(smallest(covering))
          [] OTHER -> 0
  BY DEF Covering
<1>2. /\ Len(C) \in Nat /\ DOMAIN C = 1..Len(C)
      /\ \A i \in DOMAIN C : C[i].elim \in Variables /\ C[i].vars \in SUBSET Variables
  <2>1. C \in Seq([elim : Variables, vars : SUBSET Variables, sep : SUBSET Variables, parent : Nat])
    BY DEF Ordered
  <2>2. \A i \in DOMAIN C :
          C[i] \in [elim : Variables, vars : SUBSET Variables, sep : SUBSET Variables, parent : Nat]
    BY <2>1, SeqHas
  <2>. QED BY <2>1, <2>2, SeqHas
<1>3. IsFiniteSet(DOMAIN C) /\ DOMAIN C \subseteq Int /\ 0 \notin DOMAIN C
  BY <1>2, FS_Interval
<1>4. ASSUME NEW i \in DOMAIN C PROVE Cardinality(C[i].vars) \in Int /\ named(i) \in Int
  <2>1. IsFiniteSet(C[i].vars)
    BY <1>2, NamesOK, FS_Subset
  <2>2. \E k \in DOMAIN Names : Names[k] = C[i].elim
    BY <1>2, NamesOK
  <2>. QED BY <2>1, <2>2, FS_CardinalityType, NamesOK
<1>5. ASSUME NEW S \in SUBSET DOMAIN C, S # {}
      PROVE  smallest(S) # {} /\ smallest(S) \in SUBSET DOMAIN C /\ smallest(S) \subseteq S
  <2>. DEFINE f == [i \in S |-> Cardinality(C[i].vars)]
  <2>1. f \in [S -> Int] /\ IsFiniteSet(S)
    BY <1>3, <1>4, FS_Subset
  <2>2. \E x \in S : \A y \in S : f[x] <= f[y]
    <3>. HIDE DEF f
    <3>. QED BY <1>5, <2>1, LeastBy
  <2>. QED BY <2>2
<1>. HIDE DEF smallest
<1>6. ASSUME own # {} PROVE Covering(C, scope) \in own
  <2>. DEFINE S == smallest(own)
              f == [i \in S |-> named(i)]
  <2>1. S # {} /\ S \in SUBSET DOMAIN C /\ S \subseteq own
    BY <1>5, <1>6
  <2>. HIDE DEF S, own, named
  <2>2. f \in [S -> Int] /\ IsFiniteSet(S)
    BY <1>3, <1>4, <2>1, FS_Subset
  <2>3. \E x \in S : \A y \in S : f[x] <= f[y]
    <3>. HIDE DEF f
    <3>. QED BY <2>1, <2>2, LeastBy
  <2>4. \E x \in S : \A y \in S : named(x) <= named(y)
    BY <2>3
  <2>5. Covering(C, scope) = CHOOSE i \in S : \A j \in S : named(i) <= named(j)
    BY <1>1, <1>6 DEF S
  <2>. QED BY <2>1, <2>4, <2>5
<1>7. ASSUME own = {}, covering # {} PROVE Covering(C, scope) \in covering
  <2>. DEFINE S == smallest(covering)
              f == [i \in S |-> i]
  <2>1. S # {} /\ S \in SUBSET DOMAIN C /\ S \subseteq covering
    BY <1>5, <1>7
  <2>2. Covering(C, scope) = Min(S)
    BY <1>1, <1>7
  <2>. HIDE DEF S, own, covering
  <2>3. f \in [S -> Int] /\ IsFiniteSet(S)
    BY <1>3, <2>1, FS_Subset
  <2>4. \E x \in S : \A y \in S : f[x] <= f[y]
    <3>. HIDE DEF f
    <3>. QED BY <2>1, <2>3, LeastBy
  <2>5. \E x \in S : \A y \in S : x <= y
    BY <2>4
  <2>. QED BY <2>1, <2>2, <2>5 DEF Min
<1>8. own = {} /\ covering = {} => Covering(C, scope) = 0
  BY <1>1
<1>. HIDE DEF named
<1>. QED BY <1>3, <1>6, <1>7, <1>8

-----------------------------------------------------------------------------
(* Messages, evidence and restarts change tables, never clusters.            *)

TreeFields == {"scopes", "clusters", "table", "sep"}
Formed(t) ==
  DOMAIN t = TreeFields /\ Len(t.clusters) \in Nat /\ DOMAIN t.clusters = 1..Len(t.clusters)
Kept(t, u) == DOMAIN u = TreeFields /\ u.scopes = t.scopes /\ u.clusters = t.clusters

LEMMA OnceIs == \A x : Once(x) = x
BY DEF Once

LEMMA KeptFormed ==
  ASSUME NEW t, Formed(t), NEW u, Kept(t, u)
  PROVE  Formed(u)
BY DEF Formed, Kept

LEMMA TableKeeps ==
  ASSUME NEW t, Formed(t), NEW at, NEW x
  PROVE  Kept(t, [t EXCEPT !.table[at] = x])
BY DEF Formed, Kept, TreeFields

LEMMA PassedKeeps ==
  ASSUME NEW t, Formed(t), NEW edge
  PROVE  Kept(t, Passed(t, edge))
<1>1. \A dst, child, x, y : Kept(t, [t EXCEPT !.table[dst] = x, !.sep[child] = y])
  BY DEF Formed, Kept, TreeFields
<1>2. \E dst, child, x, y : Passed(t, edge) = Once([t EXCEPT !.table[dst] = x, !.sep[child] = y])
  <2>. DEFINE src == edge[1]
              dst == edge[2]
              child == IF t.clusters[src].parent = dst THEN src ELSE dst
              between == t.clusters[child].sep
              old == t.sep[child]
              message == Project(t.table[src], between)
              ratio == [k \in DOMAIN old |-> IF old[k] = Never THEN Never ELSE Over(message[k], old[k])]
              new == Product(t.table[dst], ratio, between)
  <2>1. Passed(t, edge) = Once([t EXCEPT !.table[dst] = new, !.sep[child] = message])
    BY DEF Passed
  <2>. HIDE DEF new, message, child, dst
  <2>. QED BY <2>1
<1>3. PICK dst, child, x, y : Passed(t, edge) = Once([t EXCEPT !.table[dst] = x, !.sep[child] = y])
  BY <1>2
<1>. DEFINE u == [t EXCEPT !.table[dst] = x, !.sep[child] = y]
<1>4. Kept(t, u)
  BY <1>1
<1>. HIDE DEF u
<1>5. Once(u) = u
  BY OnceIs
<1>6. Passed(t, edge) = u
  BY <1>3, <1>5 DEF u
<1>. QED BY <1>4, <1>6

\* Rounds that keep the clusters, all together keep them.
LEMMA RoundsKeep ==
  ASSUME NEW S, IsFiniteSet(S), NEW task, PicksIn(task, S), NEW base, Formed(base), NEW e,
         NEW g, Rounds(g, task, base, e, S),
         \A d, x : Formed(d) => Kept(d, Round(task, d, x))
  PROVE  Kept(base, g[S])
<1>. DEFINE T == {s \in SUBSET S : ~ Kept(base, g[s])}
<1>1. SUFFICES ASSUME T # {} PROVE FALSE
  OBVIOUS
<1>2. PICK s \in T : \A y \in T : y \subseteq s => y = s
  <2>1. T \in SUBSET SUBSET S
    OBVIOUS
  <2>. HIDE DEF T
  <2>. QED BY <1>1, <2>1, MinimalSubset
<1>3. g[s] = RoundAt(g, task, base, e, s)
  BY DEF Rounds
<1>4. Kept(base, base)
  BY DEF Kept, Formed
<1>5. s # {}
  BY <1>3, <1>4 DEF RoundAt
<1>6. Picked(task, s) \in s
  BY <1>5 DEF PicksIn
<1>7. Kept(base, g[Rest(task, s)])
  <2>1. Rest(task, s) \in SUBSET S /\ Rest(task, s) # s /\ Rest(task, s) \subseteq s
    BY <1>6 DEF Rest
  <2>. QED BY <1>2, <2>1
<1>8. g[s] = Round(task, g[Rest(task, s)], e[Picked(task, s)])
  BY <1>3, <1>5 DEF RoundAt
<1>9. Kept(g[Rest(task, s)], g[s])
  BY <1>7, <1>8, KeptFormed
<1>10. Kept(base, g[s])
  BY <1>7, <1>9 DEF Kept
<1>. QED BY <1>10

\* Every fold along a sequence is the recursion, and so keeps the clusters.
LEMMA MessagesKeep ==
  ASSUME NEW t, Formed(t), NEW n \in Nat, NEW seq, DOMAIN seq = 1..n
  PROVE  /\ Kept(t, FoldLeft(Passed, t, seq))
         /\ Kept(t, FoldLeft(PassedUp, t, seq))
         /\ Kept(t, FoldLeft(PassedDown, t, seq))
<1>. DEFINE pass == [op |-> "pass"]
            up == [op |-> "up"]
            down == [op |-> "down"]
            Solves(g) == g = [s \in SUBSET DOMAIN seq |->
                                IF s = {} THEN t ELSE Passed(g[s \ {Max(s)}], seq[Max(s)])]
            SolvesUp(g) == g = [s \in SUBSET DOMAIN seq |->
                                  IF s = {} THEN t ELSE PassedUp(g[s \ {Max(s)}], seq[Max(s)])]
            SolvesDown(g) == g = [s \in SUBSET DOMAIN seq |->
                                    IF s = {} THEN t ELSE PassedDown(g[s \ {Max(s)}], seq[Max(s)])]
            f == CHOOSE g : Solves(g)
            fUp == CHOOSE g : SolvesUp(g)
            fDown == CHOOSE g : SolvesDown(g)
<1>1. /\ FoldLeft(Passed, t, seq) = f[DOMAIN seq]
      /\ FoldLeft(PassedUp, t, seq) = fUp[DOMAIN seq]
      /\ FoldLeft(PassedDown, t, seq) = fDown[DOMAIN seq]
  BY DEF FoldLeft, MapThenFoldSet
<1>2. \A d, x : /\ Round(pass, d, x) = Passed(d, x)
                /\ Round(up, d, x) = PassedUp(d, x)
                /\ Round(down, d, x) = PassedDown(d, x)
  BY DEF Round
<1>3. \A s : /\ Picked(pass, s) = Max(s) /\ Rest(pass, s) = s \ {Max(s)}
             /\ Picked(up, s) = Max(s) /\ Rest(up, s) = s \ {Max(s)}
             /\ Picked(down, s) = Max(s) /\ Rest(down, s) = s \ {Max(s)}
  BY DEF Picked, Rest
<1>4. pass.op # "replay" /\ up.op # "replay" /\ down.op # "replay"
  OBVIOUS
<1>. HIDE DEF pass, up, down
<1>5. IsFiniteSet(1..n) /\ PicksIn(pass, 1..n) /\ PicksIn(up, 1..n) /\ PicksIn(down, 1..n)
  <2>1. \A s \in SUBSET (1..n) : s # {} => Max(s) \in s
    BY MaxUpTo
  <2>2. IsFiniteSet(1..n)
    BY FS_Interval
  <2>. QED BY <1>3, <2>1, <2>2 DEF PicksIn
<1>6. ASSUME NEW g
      PROVE  /\ Solves(g) <=> Rounds(g, pass, t, seq, 1..n)
             /\ SolvesUp(g) <=> Rounds(g, up, t, seq, 1..n)
             /\ SolvesDown(g) <=> Rounds(g, down, t, seq, 1..n)
  <2>1. \A s :
          /\ RoundAt(g, pass, t, seq, s) = IF s = {} THEN t ELSE Passed(g[s \ {Max(s)}], seq[Max(s)])
          /\ RoundAt(g, up, t, seq, s) = IF s = {} THEN t ELSE PassedUp(g[s \ {Max(s)}], seq[Max(s)])
          /\ RoundAt(g, down, t, seq, s) = IF s = {} THEN t ELSE PassedDown(g[s \ {Max(s)}], seq[Max(s)])
    BY <1>2, <1>3 DEF RoundAt
  <2>2. Solves(g) <=> Rounds(g, pass, t, seq, 1..n)
    BY <2>1, RoundsAre
  <2>3. SolvesUp(g) <=> Rounds(g, up, t, seq, 1..n)
    BY <2>1, RoundsAre
  <2>4. SolvesDown(g) <=> Rounds(g, down, t, seq, 1..n)
    BY <2>1, RoundsAre
  <2>. QED BY <2>2, <2>3, <2>4
<1>. HIDE DEF Solves, SolvesUp, SolvesDown
<1>7. (\E g : Solves(g)) /\ (\E g : SolvesUp(g)) /\ (\E g : SolvesDown(g))
  BY <1>5, <1>6, RoundsExist
<1>8. /\ Rounds(f, pass, t, seq, 1..n)
      /\ Rounds(fUp, up, t, seq, 1..n)
      /\ Rounds(fDown, down, t, seq, 1..n)
  BY <1>6, <1>7
<1>. HIDE DEF f, fUp, fDown
<1>9. \A d, x : Formed(d) => Kept(d, d) /\ Kept(d, Passed(d, x))
  BY PassedKeeps DEF Kept, Formed
<1>10. \A d, x : Formed(d) => Kept(d, PassedUp(d, x)) /\ Kept(d, PassedDown(d, x))
  BY <1>9 DEF PassedUp, PassedDown
<1>11. Kept(t, f[1..n])
  BY <1>2, <1>5, <1>8, <1>9, RoundsKeep
<1>12. Kept(t, fUp[1..n])
  BY <1>2, <1>5, <1>8, <1>10, RoundsKeep
<1>13. Kept(t, fDown[1..n])
  BY <1>2, <1>5, <1>8, <1>10, RoundsKeep
<1>. QED BY <1>1, <1>11, <1>12, <1>13

LEMMA CalibratedKeeps ==
  ASSUME NEW t, Formed(t)
  PROVE  Kept(t, Calibrated(t))
<1>. DEFINE n == Len(t.clusters)
            inOrder == [i \in DOMAIN t.clusters |-> i]
            back == Reverse(inOrder)
            risen == FoldLeft(PassedUp, t, inOrder)
<1>1. n \in Nat /\ DOMAIN t.clusters = 1..n
  BY DEF Formed
<1>2. DOMAIN inOrder = 1..n /\ Len(inOrder) = n
  <2>. HIDE DEF n
  <2>1. inOrder \in [1..n -> 1..n]
    BY <1>1
  <2>2. inOrder \in Seq(1..n)
    <3>. HIDE DEF inOrder
    <3>. QED BY <1>1, <2>1, ListIsSeq
  <2>. QED BY <1>1, <2>1, <2>2
<1>3. DOMAIN back = 1..n
  <2>. HIDE DEF n, inOrder
  <2>. QED BY <1>2 DEF Reverse
<1>4. Calibrated(t) = FoldLeft(PassedDown, risen, back)
  BY DEF Calibrated
<1>. HIDE DEF inOrder, back, n
<1>5. Kept(t, risen)
  BY <1>1, <1>2, MessagesKeep
<1>. HIDE DEF risen
<1>6. Formed(risen)
  BY <1>5, KeptFormed
<1>7. Kept(risen, FoldLeft(PassedDown, risen, back))
  BY <1>1, <1>3, <1>6, MessagesKeep
<1>. QED BY <1>4, <1>5, <1>7 DEF Kept

\* The search of Outward is finite.
LEMMA OnwardOK ==
  ASSUME NEW n \in Nat, NEW C, DOMAIN C = 1..n, NEW start,
         NEW path \in Seq(({start} \cup 1..n) \X (1..n))
  PROVE  Onward(C, start, path) \in Seq(({start} \cup 1..n) \X (1..n))
<1>. DEFINE X == ({start} \cup 1..n) \X (1..n)
            reached == {start} \cup {path[k][2] : k \in DOMAIN path}
            L == {link \in reached \X (DOMAIN C \ reached) : Linked(C, link[1], link[2])}
<1>1. \A k \in DOMAIN path : path[k][2] \in 1..n
  <2>1. \A k \in DOMAIN path : path[k] \in X
    BY SeqHas
  <2>. QED BY <2>1
<1>2. reached \subseteq {start} \cup 1..n
  BY <1>1
<1>3. L \in SUBSET X
  <2>. HIDE DEF reached
  <2>. QED BY <1>2
<1>4. IsFiniteSet(X)
  <2>0. IsFiniteSet(1..n)
    BY FS_Interval
  <2>1. IsFiniteSet(1..n) /\ IsFiniteSet({start})
    BY <2>0, FS_Singleton
  <2>2. IsFiniteSet({start} \cup 1..n)
    BY <2>1, FS_Union
  <2>. QED BY <2>1, <2>2, FS_Product
<1>5. Onward(C, start, path) = path \o SetToSeq(L)
  BY DEF Onward
<1>6. path \in Seq(X)
  OBVIOUS
<1>. HIDE DEF X, L
<1>7. IsFiniteSet(L)
  BY <1>3, <1>4, FS_Subset
<1>8. Cardinality(L) \in Nat /\ \E f \in [1..Cardinality(L) -> L] : IsInjective(f)
  <2>1. Cardinality(L) \in Nat /\ ExistsBijection(1..Cardinality(L), L)
    BY <1>7, FS_CardinalityType
  <2>. QED BY <2>1 DEF ExistsBijection, Bijection, Injection
<1>9. SetToSeq(L) \in [1..Cardinality(L) -> L]
  BY <1>8 DEF SetToSeq
<1>10. SetToSeq(L) \in Seq(L)
  BY <1>8, <1>9, ListIsSeq
<1>11. SetToSeq(L) \in Seq(X)
  BY <1>3, <1>10
<1>12. path \o SetToSeq(L) \in Seq(X)
  BY <1>6, <1>11
<1>. QED BY <1>5, <1>12 DEF X

LEMMA OutwardOK ==
  ASSUME NEW n \in Nat, NEW C, DOMAIN C = 1..n, NEW start
  PROVE  \E m \in Nat : DOMAIN Outward(C, start) = 1..m
<1>. DEFINE task == [op |-> "reach", clusters |-> C, start |-> start]
            len == Len(Names)
            Solves(g) == g = [s \in SUBSET DOMAIN Names |->
                                IF s = {} THEN <<>> ELSE Onward(C, start, g[s \ {Max(s)}])]
            f == CHOOSE g : Solves(g)
            X == ({start} \cup 1..n) \X (1..n)
            S == {k \in 0..len : f[1..k] \in Seq(X)}
<1>1. len \in Nat /\ DOMAIN Names = 1..len
  BY NamesOK
<1>2. Outward(C, start) = f[DOMAIN Names]
  BY DEF Outward, FoldLeft, MapThenFoldSet, Onward
<1>3. (\A d, x : Round(task, d, x) = Onward(C, start, d)) /\ task.op # "replay"
  BY DEF Round
<1>4. \A s : Picked(task, s) = Max(s) /\ Rest(task, s) = s \ {Max(s)}
  BY DEF Picked, Rest
<1>. HIDE DEF task, len
<1>5. ASSUME NEW g PROVE Solves(g) <=> Rounds(g, task, <<>>, Names, 1..len)
  <2>1. \A s : RoundAt(g, task, <<>>, Names, s)
                 = IF s = {} THEN <<>> ELSE Onward(C, start, g[s \ {Max(s)}])
    BY <1>3, <1>4 DEF RoundAt
  <2>. QED BY <1>1, <2>1, RoundsAre
<1>. HIDE DEF Solves
<1>6. \E g : Solves(g)
  BY <1>1, <1>3, <1>5, RoundsAlong
<1>7. Rounds(f, task, <<>>, Names, 1..len)
  BY <1>5, <1>6
<1>. HIDE DEF f
<1>8. Walked(Heads(f, len), task, <<>>, Names, len)
  BY <1>1, <1>3, <1>7, RoundsAlong
<1>9. f[1..0] = <<>> /\ \A k \in 1..len : f[1..k] = Onward(C, start, f[1..(k - 1)])
  <2>1. Heads(f, len)[0] = f[1..0]
    BY <1>1 DEF Heads
  <2>2. ASSUME NEW k \in 1..len
        PROVE  Heads(f, len)[k] = f[1..k] /\ Heads(f, len)[k - 1] = f[1..(k - 1)]
    BY <1>1 DEF Heads
  <2>. QED BY <1>3, <1>8, <2>1, <2>2 DEF Walked
<1>10. 0 \in S
  <2>1. <<>> \in Seq(X)
    OBVIOUS
  <2>2. 0 \in 0..len
    BY <1>1
  <2>. HIDE DEF X
  <2>3. f[1..0] \in Seq(X)
    BY <1>9, <2>1
  <2>. QED BY <2>2, <2>3
<1>11. ASSUME NEW k \in 0..(len - 1), k \in S PROVE k + 1 \in S
  <2>1. k + 1 \in 1..len /\ (k + 1) - 1 = k /\ k + 1 \in 0..len
    BY <1>1
  <2>2. f[1..(k + 1)] = Onward(C, start, f[1..k])
    BY <1>9, <2>1
  <2>3. Onward(C, start, f[1..k]) \in Seq(X)
    BY <1>11, OnwardOK
  <2>. QED BY <2>1, <2>2, <2>3
<1>12. f[1..len] \in Seq(X)
  <2>. HIDE DEF S
  <2>1. \A k \in 0..len : k \in S
    BY ONLY <1>1, <1>10, <1>11, UpTo
  <2>2. len \in S
    BY <1>1, <2>1
  <2>. QED BY <2>2 DEF S
<1>. HIDE DEF X
<1>. QED BY <1>1, <1>2, <1>12, SeqHas

LEMMA DistributeKeeps ==
  ASSUME NEW t, Formed(t), NEW start
  PROVE  Kept(t, Distribute(t, start))
<1>1. PICK m \in Nat : DOMAIN Outward(t.clusters, start) = 1..m
  BY OutwardOK DEF Formed
<1>2. Kept(t, FoldLeft(Passed, t, Outward(t.clusters, start)))
  BY <1>1, MessagesKeep
<1>. QED BY <1>2 DEF Distribute

LEMMA TableSentKeeps ==
  ASSUME NEW t, Formed(t), NEW at, NEW x
  PROVE  Kept(t, Distribute(Once([t EXCEPT !.table[at] = x]), at))
<1>. DEFINE u == [t EXCEPT !.table[at] = x]
<1>1. Kept(t, u)
  BY TableKeeps
<1>. HIDE DEF u
<1>2. Formed(u) /\ Once(u) = u
  BY <1>1, KeptFormed, OnceIs
<1>3. Kept(u, Distribute(u, at))
  BY <1>2, DistributeKeeps
<1>4. Kept(t, Distribute(Once(u), at))
  BY <1>1, <1>2, <1>3 DEF Kept
<1>. QED BY <1>4 DEF u

LEMMA ConditionKeeps ==
  ASSUME NEW t, Formed(t), NEW v, NEW o
  PROVE  Kept(t, Condition(t, v, o).tree)
<1>. DEFINE at == At(t.clusters, v)
            x == Zeroed(t.table[at], v, o)
            zeroed == Once([t EXCEPT !.table[at] = x])
            y == Normalized(zeroed.table[at])
            sent == Distribute(Once([zeroed EXCEPT !.table[at] = y]), at)
<1>1. Condition(t, v, o).tree = IF Total(zeroed.table[at]) = Never THEN zeroed ELSE sent
  BY DEF Condition
<1>. HIDE DEF at, x, y
<1>2. Kept(t, zeroed)
  <2>. DEFINE u == [t EXCEPT !.table[at] = x]
  <2>1. Kept(t, u)
    BY TableKeeps
  <2>. HIDE DEF u
  <2>2. Once(u) = u
    BY OnceIs
  <2>3. Kept(t, Once(u))
    BY <2>1, <2>2
  <2>. QED BY <2>3 DEF u
<1>. HIDE DEF zeroed
<1>3. Kept(zeroed, sent)
  BY <1>2, KeptFormed, TableSentKeeps
<1>. HIDE DEF sent
<1>. QED BY <1>1, <1>2, <1>3 DEF Kept

-----------------------------------------------------------------------------
(* What the tree keeps represented.                                          *)

Represents(t, scopes) ==
  \A s \in scopes : s # {} /\ \E i \in DOMAIN t.clusters : s \subseteq t.clusters[i].vars

\* The tree is formed, its clusters are ordered and within the width budget,
\* and each family and each scope that was traded is inside one of them.
TreeOK(t) ==
  /\ Formed(t) /\ Ordered(t.clusters) /\ Fits(t.clusters)
  /\ t.scopes \in SUBSET SUBSET Variables /\ Represents(t, Families \cup t.scopes)

LEMMA KeptOK ==
  ASSUME NEW t, TreeOK(t), NEW u, Kept(t, u)
  PROVE  TreeOK(u)
<1>1. Formed(u)
  BY KeptFormed DEF TreeOK
<1>. QED BY <1>1 DEF TreeOK, Kept, Represents

LEMMA FamiliesOK == \A s \in Families : s \in SUBSET Variables /\ s # {}
BY DEF Families, Family, Parents, IsComplete

LEMMA BuiltOK ==
  ASSUME NEW scopes \in SUBSET SUBSET Variables, \A s \in scopes : s # {},
         Fits(Clusters(Families \cup scopes)), NEW t, DOMAIN t = TreeFields,
         t.clusters = Clusters(Families \cup scopes), t.scopes = scopes
  PROVE  TreeOK(t)
<1>1. Families \cup scopes \in SUBSET SUBSET Variables
  BY FamiliesOK
<1>2. /\ Ordered(t.clusters)
      /\ \A s \in Families \cup scopes : s # {} => \E i \in DOMAIN t.clusters : s \subseteq t.clusters[i].vars
  BY <1>1, ClustersOK
<1>3. Len(t.clusters) \in Nat /\ DOMAIN t.clusters = 1..Len(t.clusters)
  BY <1>2, SeqHas DEF Ordered
<1>. QED BY <1>2, <1>3, FamiliesOK DEF TreeOK, Formed, Represents

LEMMA SeededOK == TreeOK(SeededTree) /\ SeededTree.scopes = {}
<1>. DEFINE C == Clusters(Families)
            factors(i) == {v \in Variables : Covering(C, Family(v)) = i}
            ones(S) == [a \in Assignments(S) |-> 0]
            table(i) == FoldSet(LAMBDA v, t : Product(t, Factor(v), Family(v)),
                                ones(C[i].vars), factors(i))
            tables == [i \in DOMAIN C |-> table(i)]
            seps == [i \in DOMAIN C |-> ones(C[i].sep)]
            t == [scopes |-> {}, clusters |-> C, table |-> tables, sep |-> seps]
<1>1. SeededTree = Calibrated(Once(t))
  BY DEF SeededTree
<1>. HIDE DEF tables, seps, C
<1>2. DOMAIN t = TreeFields /\ t.clusters = C /\ t.scopes = {}
  BY DEF TreeFields
<1>3. C = Clusters(Families \cup {}) /\ Fits(C)
  <2>1. Families \cup {} = Families
    OBVIOUS
  <2>. QED BY <2>1, WidthAssumption DEF C
<1>. HIDE DEF t
<1>4. TreeOK(t)
  BY <1>2, <1>3, BuiltOK
<1>5. Kept(t, Calibrated(t)) /\ Once(t) = t
  BY <1>4, CalibratedKeeps, OnceIs DEF TreeOK
<1>6. Kept(t, SeededTree)
  BY <1>1, <1>5
<1>. QED BY <1>2, <1>4, <1>6, KeptOK DEF Kept

LEMMA PreparedOK ==
  ASSUME NEW t, TreeOK(t), NEW scope \in SUBSET Variables, scope # {}, TradeFits(t, scope)
  PROVE  TreeOK(Prepared(t, scope))
<1>. DEFINE wide == IF Covering(t.clusters, scope) # 0 THEN t ELSE Restructured(t, scope)
<1>1. TreeOK(wide) /\ \E i \in DOMAIN wide.clusters : scope \subseteq wide.clusters[i].vars
  <2>1. CASE Covering(t.clusters, scope) # 0
    <3>1. \E i \in DOMAIN t.clusters : scope \subseteq t.clusters[i].vars
      BY <2>1, CoveringIs DEF TreeOK
    <3>. QED BY <2>1, <3>1
  <2>2. CASE Covering(t.clusters, scope) = 0
    <3>. DEFINE C == Clusters(Families \cup t.scopes \cup {scope})
                tables == [i \in DOMAIN C |-> Reassembled(t, C[i].vars)]
                u == [scopes |-> t.scopes \cup {scope}, clusters |-> C,
                      table |-> tables, sep |-> Separators(C, tables)]
    <3>1. wide = Once(u)
      BY <2>2 DEF Restructured
    <3>2. (Families \cup t.scopes) \cup {scope} = Families \cup (t.scopes \cup {scope})
      OBVIOUS
    <3>3. Fits(C)
      BY <2>2 DEF TradeFits
    <3>4. t.scopes \cup {scope} \in SUBSET SUBSET Variables /\ \A s \in t.scopes \cup {scope} : s # {}
      BY DEF TreeOK, Represents
    <3>5. C = Clusters(Families \cup (t.scopes \cup {scope}))
      BY <3>2
    <3>. HIDE DEF tables, C
    <3>6. DOMAIN u = TreeFields /\ u.clusters = C /\ u.scopes = t.scopes \cup {scope}
      BY DEF TreeFields
    <3>. HIDE DEF u, wide
    <3>7. TreeOK(u)
      BY <3>3, <3>4, <3>5, <3>6, BuiltOK
    <3>8. wide = u
      BY <3>1, OnceIs
    <3>9. \E i \in DOMAIN u.clusters : scope \subseteq u.clusters[i].vars
      BY <3>6, <3>7 DEF TreeOK, Represents
    <3>. QED BY <3>7, <3>8, <3>9
  <2>. QED BY <2>1, <2>2
<1>2. Prepared(t, scope) = Recorded(wide, scope)
  BY DEF Prepared
<1>. HIDE DEF wide
<1>3. CASE Recorded(wide, scope) = wide
  BY <1>1, <1>2, <1>3
<1>4. CASE Recorded(wide, scope) # wide
  <2>1. Recorded(wide, scope) = [wide EXCEPT !.scopes = @ \cup {scope}]
    BY <1>4 DEF Recorded
  <2>. DEFINE u == [wide EXCEPT !.scopes = @ \cup {scope}]
  <2>2. DOMAIN u = TreeFields /\ u.clusters = wide.clusters /\ u.scopes = wide.scopes \cup {scope}
    BY <1>1 DEF TreeOK, Formed, TreeFields
  <2>. HIDE DEF u
  <2>3. Formed(u)
    BY <1>1, <2>2 DEF TreeOK, Formed
  <2>4. TreeOK(u)
    BY <1>1, <2>2, <2>3 DEF TreeOK, Represents
  <2>. QED BY <1>2, <2>1, <2>4 DEF u
<1>. QED BY <1>3, <1>4

LEMMA TradeOK ==
  ASSUME NEW t, TreeOK(t), NEW v \in Variables, NEW context,
         DOMAIN context \subseteq Variables, NEW o, NEW target
  PROVE  TreeOK(Trade(t, v, o, target, context).tree)
<1>. DEFINE scope == Scope(v, context)
            ready == Prepared(t, scope)
            at == Covering(ready.clusters, scope)
            x == Reweighted(ready.table[at], v, o, target, context)
            sent == Distribute(Once([ready EXCEPT !.table[at] = x]), at)
<1>1. /\ ~TradeFits(t, scope) => Trade(t, v, o, target, context).tree = t
      /\ TradeFits(t, scope) => Trade(t, v, o, target, context).tree \in {ready, sent}
  BY DEF Trade
<1>2. scope \in SUBSET Variables /\ scope # {}
  BY DEF Scope
<1>. HIDE DEF scope, x, at
<1>3. ASSUME TradeFits(t, scope) PROVE TreeOK(ready) /\ TreeOK(sent)
  <2>1. TreeOK(ready)
    BY <1>2, <1>3, PreparedOK
  <2>. HIDE DEF ready
  <2>2. Kept(ready, sent)
    BY <2>1, TableSentKeeps DEF TreeOK
  <2>. QED BY <2>1, <2>2, KeptOK
<1>. HIDE DEF ready, sent
<1>. QED BY <1>1, <1>3

LEMMA ReplayedOK == TreeOK(Replayed)
<1>. DEFINE task == [op |-> "replay"]
            base == SeededTree
            item == [v \in Resolved |-> v]
            Solves(g) == g = [s \in SUBSET Resolved |->
                                IF s = {} THEN base
                                ELSE Condition(g[s \ {Chosen(s)}], Chosen(s), decided[Chosen(s)]).tree]
            f == CHOOSE g : Solves(g)
<1>1. Replayed = f[Resolved]
  BY DEF Replayed, FoldSet, MapThenFoldSet, Chosen
<1>2. \A d, x : Round(task, d, x) = Condition(d, x, decided[x]).tree
  BY DEF Round
<1>3. \A s : Picked(task, s) = Chosen(s) /\ Rest(task, s) = s \ {Chosen(s)}
  BY DEF Picked, Rest
<1>4. IsFiniteSet(Resolved)
  <2>1. Resolved \in SUBSET Variables
    BY DEF Resolved
  <2>. QED BY <2>1, NamesOK, FS_Subset
<1>5. TreeOK(base) /\ Formed(base)
  BY SeededOK DEF TreeOK
<1>. HIDE DEF task, base
<1>6. PicksIn(task, Resolved)
  BY <1>3, ChosenIn DEF PicksIn
<1>7. ASSUME NEW g PROVE Solves(g) <=> Rounds(g, task, base, item, Resolved)
  <2>. DEFINE step(s) == IF s = {} THEN base
                         ELSE Condition(g[s \ {Chosen(s)}], Chosen(s), decided[Chosen(s)]).tree
  <2>1. \A s \in SUBSET Resolved : RoundAt(g, task, base, item, s) = step(s)
    <3>1. \A s \in SUBSET Resolved : s # {} => item[Chosen(s)] = Chosen(s)
      BY ChosenIn
    <3>. HIDE DEF item
    <3>. QED BY <1>2, <1>3, <3>1 DEF RoundAt
  <2>2. [s \in SUBSET Resolved |-> RoundAt(g, task, base, item, s)] = [s \in SUBSET Resolved |-> step(s)]
    <3>. HIDE DEF item, step
    <3>. QED BY <2>1
  <2>3. Solves(g) <=> g = [s \in SUBSET Resolved |-> step(s)]
    OBVIOUS
  <2>. HIDE DEF Solves, item, step
  <2>. QED BY <2>2, <2>3, RoundsAre
<1>. HIDE DEF Solves, item
<1>8. Rounds(f, task, base, item, Resolved)
  <2>1. \E g : Solves(g)
    BY <1>4, <1>6, <1>7, RoundsExist
  <2>. QED BY <1>7, <2>1
<1>. HIDE DEF f
<1>9. \A d, x : Formed(d) => Kept(d, Round(task, d, x))
  BY <1>2, ConditionKeeps
<1>10. Kept(base, f[Resolved])
  BY <1>4, <1>5, <1>6, <1>8, <1>9, RoundsKeep
<1>. QED BY <1>1, <1>5, <1>10, KeptOK

LEMMA TreeInit == Init => TreeOK(fm)
BY SeededOK DEF Init

\* TreeOK is kept by every step: a trade restructures around everything traded
\* so far, and nothing else changes the clusters but a restart from the seeds.
LEMMA TreeStep == TreeOK(fm) /\ [Next]_vars => TreeOK(fm)'
<1>. SUFFICES ASSUME TreeOK(fm), [Next]_vars PROVE TreeOK(fm')
  BY DEF TreeOK, Formed, Represents
<1>1. ASSUME NEW t \in Traders, NEW bet \in Bets, NEW o \in Outcomes,
             NEW context \in Assignments(bet.given), Place(t, bet, o, context)
      PROVE  TreeOK(fm')
  <2>1. bet.variable \in Variables /\ DOMAIN context \subseteq Variables
    BY JointVenueAssumption DEF Assignments
  <2>2. fm' = Trade(fm, bet.variable, o, bet.edit, context).tree
    BY <1>1 DEF Place
  <2>. QED BY <2>1, <2>2, TradeOK
<1>2. ASSUME NEW v \in Decidable, NEW o \in Outcomes, ResolveVariable(v, o)
      PROVE  TreeOK(fm')
  <2>1. fm' = Condition(fm, v, o).tree
    BY <1>2 DEF ResolveVariable
  <2>2. Kept(fm, Condition(fm, v, o).tree)
    BY ConditionKeeps DEF TreeOK
  <2>. QED BY <2>1, <2>2, KeptOK
<1>3. ASSUME NEW v \in Decidable, VoidVariable(v) PROVE TreeOK(fm')
  BY <1>3 DEF VoidVariable, belief_vars
<1>4. CASE Restart
  <2>1. CASE UNCHANGED belief_vars
    BY <2>1 DEF belief_vars
  <2>2. CASE fm' = Replayed
    BY <2>2, ReplayedOK
  <2>. QED BY <1>4, <2>1, <2>2 DEF Restart
<1>5. CASE UNCHANGED vars
  BY <1>5 DEF vars, belief_vars
<1>. QED BY <1>1, <1>2, <1>3, <1>4, <1>5 DEF Next

\* The tree is well formed through trades, resolutions and restarts: every
\* variable has the cluster that eliminates it, each cluster's separator is
\* inside its parent, and the families and traded scopes are inside clusters.
THEOREM TreeKept == Spec => []TreeOK(fm)
<1>. QED BY TreeInit, TreeStep, PTL DEF Spec

\* No restructuring projects the effect of a trade away: families and traded
\* scopes stay covered, clusters stay connected and within the width budget.
THEOREM TradesRepresented == Spec => []TradesStayRepresented
<1>1. TreeOK(fm) => TradesStayRepresented
  <2>. SUFFICES ASSUME TreeOK(fm) PROVE TradesStayRepresented
    OBVIOUS
  <2>1. ASSUME NEW s \in Families \cup fm.scopes PROVE Covering(fm.clusters, s) # 0
    BY CoveringIs DEF TreeOK, Represents
  <2>2. RunningIntersection(fm.clusters) /\ Fits(fm.clusters)
    BY OrderedConnected DEF TreeOK
  <2>. QED BY <2>1, <2>2 DEF TradesStayRepresented
<1>. QED BY <1>1, TreeKept, PTL
=============================================================================
