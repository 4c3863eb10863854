--------------------------- MODULE OrderBookProofs ---------------------------
(***************************************************************************)
(* OrderBook.tla for any traders, prices, sizes and number of orders: what *)
(* every lock, share and set of the market stands for, that matching stops *)
(* only when nothing crosses, that it serves the queue in order and        *)
(* nobody beyond its limit, and that the book implements CompleteSets.     *)
(***************************************************************************)
EXTENDS OrderBook, LedgerProofs

-----------------------------------------------------------------------------
(* Constants, orders and the yes axis                                      *)

LEMMA ConstantsOK ==
  /\ IsFiniteSet(Traders) /\ Escrow \notin Traders /\ IsFiniteSet(Parties)
  /\ Traders \subseteq Parties /\ Escrow \in Parties
  /\ IsFiniteSet(LockKeys) /\ EscrowLock \in LockKeys
  /\ \A i \in OrderIds : OrderLock(i) \in LockKeys
  /\ \A i : OrderLock(i) # EscrowLock
  /\ \A i, j : OrderLock(i) = OrderLock(j) => i = j
  /\ One \in Nat /\ One % 2 = 0 /\ Prices \subseteq 1..(One - 1) /\ Sizes \subseteq Nat \ {0}
  /\ Funds \in Nat /\ MaxOrders \in Nat /\ OrderIds = 1..MaxOrders
<1>1. IsFiniteSet(Parties)
  BY OrderBookAssumption, FS_AddElement DEF Parties
<1>2. IsFiniteSet(OrderIds)
  BY OrderBookAssumption, FS_Interval DEF OrderIds
<1>3. IsFiniteSet({"limit_order"} \X OrderIds)
  BY <1>2, FS_Singleton, FS_Product
<1>4. {"limit_order"} \X OrderIds = {OrderLock(i) : i \in OrderIds}
  BY DEF OrderLock
<1>5. IsFiniteSet(LockKeys)
  BY <1>3, <1>4, FS_AddElement DEF LockKeys
<1>6. /\ \A i : OrderLock(i) # EscrowLock
      /\ \A i, j : OrderLock(i) = OrderLock(j) => i = j
  BY DEF OrderLock, EscrowLock
<1>. QED BY <1>1, <1>5, <1>6, OrderBookAssumption DEF Parties, OrderIds, LockKeys

LEMMA OrderTyped ==
  ASSUME NEW q \in Order
  PROVE  /\ q.account \in Traders /\ q.side \in Sides /\ q.outcome \in BookOutcomes
         /\ q.price \in Prices /\ q.price \in Nat /\ 1 <= q.price /\ q.price <= One - 1
         /\ q.size \in Nat /\ q.remaining \in Nat /\ q.reserved \in Nat
         /\ YesPrice(q) \in Int /\ 1 <= YesPrice(q) /\ YesPrice(q) <= One - 1
<1>0. /\ q.account \in Traders /\ q.side \in Sides /\ q.outcome \in BookOutcomes
      /\ q.price \in Prices /\ q.size \in Sizes /\ q.remaining \in Nat /\ q.reserved \in Nat
  BY DEF Order
<1>1. /\ q.price \in Nat /\ 1 <= q.price /\ q.price <= One - 1 /\ One \in Nat
      /\ q.size \in Nat
  <2>1. One \in Nat /\ Prices \subseteq 1..(One - 1) /\ Sizes \subseteq Nat \ {0}
    BY ConstantsOK
  <2>2. q.price \in 1..(One - 1)
    BY ONLY <1>0, <2>1
  <2>3. q.size \in Nat
    BY ONLY <1>0, <2>1
  <2>. QED BY ONLY <2>1, <2>2, <2>3
<1>2. YesPrice(q) \in Int /\ 1 <= YesPrice(q) /\ YesPrice(q) <= One - 1
  BY <1>1 DEF YesPrice
<1>. QED BY <1>0, <1>1, <1>2

\* What an order's own fields say of each other: a live order has something
\* left, a filled one has not, and the reservation is what a live ask has left.
Fits(q) ==
  /\ q \in Order /\ q.remaining <= q.size
  /\ (Live(q) => q.remaining > 0) /\ (q.status = "filled" => q.remaining = 0)
  /\ q.reserved = IF q.side = "ask" /\ Live(q) THEN q.remaining ELSE 0

\* Orders i (the taker) and j (the maker) trade.
Trading(O, i, j) ==
  /\ i \in DOMAIN O /\ j \in DOMAIN O /\ i # j
  /\ Fits(O[i]) /\ Fits(O[j]) /\ Live(O[i]) /\ Live(O[j])
  /\ IsBid(O[i]) # IsBid(O[j])
  /\ IF IsBid(O[i]) THEN Crosses(O[i], O[j]) ELSE Crosses(O[j], O[i])

MakerTakes(O, i, j) == j \in Makers(O, i)

LEMMA MakersTrade ==
  ASSUME NEW O, NEW i \in DOMAIN O, NEW j, MakerTakes(O, i, j),
         Fits(O[i]), Live(O[i]), \A m \in DOMAIN O : Fits(O[m])
  PROVE  Trading(O, i, j)
BY DEF MakerTakes, Makers, Trading

\* Whatever the pair of intents, nobody trades beyond its own price, and the two
\* prices are one price or make up a set.
LEMMA TradePrices ==
  ASSUME NEW O, NEW i, NEW j, Trading(O, i, j)
  PROVE  LET x == SharePrice(O, j, i)
             y == SharePrice(O, j, j)
         IN  /\ x \in Nat /\ y = O[j].price
             /\ O[i].side = "bid" => x <= O[i].price
             /\ O[i].side = "ask" => x >= O[i].price
             /\ O[i].side # O[j].side => x = y /\ O[i].outcome = O[j].outcome
             /\ O[i].side = O[j].side => x + y = One /\ O[i].outcome # O[j].outcome
<1>. DEFINE q == O[i]
            p == O[j]
<1>1. q \in Order /\ p \in Order /\ IsBid(q) # IsBid(p)
      /\ IF IsBid(q) THEN YesPrice(q) >= YesPrice(p) ELSE YesPrice(p) >= YesPrice(q)
  BY DEF Trading, Fits, Crosses
<1>2. q.price \in Nat /\ q.price <= One - 1 /\ p.price \in Nat /\ p.price <= One - 1 /\ One \in Nat
  BY <1>1, OrderTyped, ConstantsOK
<1>3. q.side \in Sides /\ p.side \in Sides /\ q.outcome \in BookOutcomes /\ p.outcome \in BookOutcomes
  BY <1>1, OrderTyped
<1>. HIDE DEF q, p
<1>4. /\ q.side # p.side => q.outcome = p.outcome
      /\ q.side = p.side => q.outcome # p.outcome
      /\ IsBid(q) <=> (q.side = "bid" <=> q.outcome = "yes")
  BY <1>1, <1>3 DEF IsBid, Sides, BookOutcomes
<1>5. /\ SharePrice(O, j, i) = IF q.outcome = "yes" THEN YesPrice(p) ELSE One - YesPrice(p)
      /\ SharePrice(O, j, j) = IF p.outcome = "yes" THEN YesPrice(p) ELSE One - YesPrice(p)
  BY DEF SharePrice, q, p
<1>. DEFINE x == SharePrice(O, j, i)
            y == SharePrice(O, j, j)
<1>6. y = p.price
  BY <1>2, <1>5 DEF YesPrice
<1>7. x \in Nat
  BY <1>2, <1>5 DEF YesPrice
<1>8. (q.side = "bid" => x <= q.price) /\ (q.side = "ask" => x >= q.price)
  BY <1>1, <1>2, <1>3, <1>4, <1>5 DEF YesPrice, Sides, BookOutcomes
<1>9. q.side # p.side => x = y
  BY <1>4, <1>5
<1>10. q.side = p.side => x + y = One
  BY <1>2, <1>3, <1>4, <1>5 DEF YesPrice, BookOutcomes
<1>. QED BY <1>4, <1>6, <1>7, <1>8, <1>9, <1>10 DEF q, p

-----------------------------------------------------------------------------
(* One order advances: its reservation and its owner's shares              *)

OrderBooks == UNION {[D -> Order] : D \in SUBSET OrderIds}
Holdings == [Traders -> [BookOutcomes -> Nat]]

LEMMA OrderBooksOK ==
  ASSUME NEW O
  PROVE  O \in OrderBooks <=> DOMAIN O \subseteq OrderIds /\ O \in [DOMAIN O -> Order]
<1>1. ASSUME O \in OrderBooks PROVE DOMAIN O \subseteq OrderIds /\ O \in [DOMAIN O -> Order]
  <2>1. PICK D \in SUBSET OrderIds : O \in [D -> Order]
    BY <1>1 DEF OrderBooks
  <2>. QED BY <2>1
<1>. QED BY <1>1 DEF OrderBooks

LEMMA BookFinite ==
  ASSUME NEW O \in OrderBooks
  PROVE  IsFiniteSet(DOMAIN O) /\ DOMAIN O \subseteq OrderIds /\ O \in [DOMAIN O -> Order]
         /\ \A i \in DOMAIN O : O[i] \in Order
<1>1. IsFiniteSet(OrderIds)
  BY ConstantsOK, FS_Interval
<1>. QED BY <1>1, OrderBooksOK, FS_Subset

ReservedOf(O, t, o) ==
  [i \in DOMAIN O |-> IF O[i].account = t /\ O[i].outcome = o THEN O[i].reserved ELSE 0]
IssuedOf(S, o) == [t \in Traders |-> S[t][o]]

\* Every order fits, and no trader has reserved more shares than it has.
Covered(O, S) ==
  /\ O \in OrderBooks /\ \A i \in DOMAIN O : Fits(O[i])
  /\ S \in Holdings
  /\ \A t \in Traders, o \in BookOutcomes : SumFunction(ReservedOf(O, t, o)) <= S[t][o]

\* O with another order at i; q with another amount of it left.
Replaced(O, i, q) == [O EXCEPT ![i] = q]
AfterFill(p, q, n) ==
  /\ p.account = q.account /\ p.side = q.side /\ p.outcome = q.outcome
  /\ p.price = q.price /\ p.size = q.size
  /\ p.remaining = q.remaining - n
  /\ p.reserved = q.reserved - IF q.side = "ask" THEN n ELSE 0
  /\ p.status = IF q.remaining = n THEN "filled" ELSE "partial"

LEMMA AdvanceOK ==
  ASSUME NEW q, Fits(q), Live(q), NEW n \in Nat, n > 0, n <= q.remaining
  PROVE  Fits(Advance(q, n)) /\ AfterFill(Advance(q, n), q, n)
<1>1. q \in Order /\ q.remaining \in Nat /\ q.reserved \in Nat /\ q.size \in Nat
  BY OrderTyped DEF Fits
<1>. DEFINE r == q.remaining - n
            u == IF q.side = "ask" THEN q.reserved - n ELSE q.reserved
            v == IF q.remaining = n THEN "filled" ELSE "partial"
<1>2. Advance(q, n) = [q EXCEPT !.remaining = r, !.reserved = u, !.status = v]
  BY DEF Advance
<1>3. r \in Nat /\ u \in Nat
  BY <1>1 DEF Fits
<1>4. v \in {"partial", "filled"}
  OBVIOUS
<1>. DEFINE p == Advance(q, n)
<1>5. /\ p \in Order /\ p.account = q.account /\ p.side = q.side /\ p.outcome = q.outcome
      /\ p.price = q.price /\ p.size = q.size /\ p.remaining = r /\ p.reserved = u /\ p.status = v
  <2>. HIDE DEF r, u, v
  <2>. QED BY <1>1, <1>2, <1>3, <1>4 DEF Order
<1>. HIDE DEF p
<1>6. u = q.reserved - IF q.side = "ask" THEN n ELSE 0
  BY <1>1
<1>7. AfterFill(p, q, n)
  BY <1>5, <1>6 DEF AfterFill
<1>8. Live(p) <=> q.remaining # n
  BY <1>5 DEF Live
<1>9. /\ p.remaining <= p.size /\ (Live(p) => p.remaining > 0)
      /\ (p.status = "filled" => p.remaining = 0)
  BY <1>1, <1>5, <1>8 DEF Fits
<1>10. p.reserved = IF p.side = "ask" /\ Live(p) THEN p.remaining ELSE 0
  BY <1>1, <1>5, <1>6, <1>8 DEF Fits
<1>. QED BY <1>5, <1>7, <1>9, <1>10 DEF Fits, p

LEMMA ReservedTyped ==
  ASSUME NEW O \in OrderBooks, NEW t, NEW o
  PROVE  /\ ReservedOf(O, t, o) \in [DOMAIN O -> Nat]
         /\ SumFunction(ReservedOf(O, t, o)) \in Nat
         /\ \A i \in DOMAIN O : ReservedOf(O, t, o)[i] <= SumFunction(ReservedOf(O, t, o))
<1>1. ReservedOf(O, t, o) \in [DOMAIN O -> Nat]
  BY BookFinite, OrderTyped DEF ReservedOf
<1>2. IsFiniteSet(DOMAIN O)
  BY BookFinite
<1>. DEFINE f == ReservedOf(O, t, o)
            I == DOMAIN O
<1>. HIDE DEF f, I
<1>. QED BY <1>1, <1>2, SumBounds DEF f, I

\* An order of the book is replaced by one of the same account and outcome.
LEMMA ReservedMoves ==
  ASSUME NEW O \in OrderBooks, NEW i \in DOMAIN O, NEW q \in Order,
         q.account = O[i].account, q.outcome = O[i].outcome, NEW t, NEW o
  PROVE  /\ Replaced(O, i, q) \in OrderBooks
         /\ DOMAIN Replaced(O, i, q) = DOMAIN O /\ Replaced(O, i, q)[i] = q
         /\ \A m \in DOMAIN O : m # i => Replaced(O, i, q)[m] = O[m]
         /\ SumFunction(ReservedOf(Replaced(O, i, q), t, o)) =
              SumFunction(ReservedOf(O, t, o))
                + IF q.account = t /\ q.outcome = o THEN q.reserved - O[i].reserved ELSE 0
<1>. DEFINE N == Replaced(O, i, q)
            I == DOMAIN O
            f == ReservedOf(O, t, o)
            v == IF q.account = t /\ q.outcome = o THEN q.reserved ELSE 0
<1>1. O \in [I -> Order] /\ IsFiniteSet(I) /\ I \subseteq OrderIds
  BY BookFinite
<1>2. N \in [I -> Order] /\ DOMAIN N = I /\ N[i] = q /\ \A m \in I : m # i => N[m] = O[m]
  BY <1>1 DEF Replaced
<1>. HIDE DEF N
<1>3. N \in OrderBooks
  BY <1>1, <1>2, OrderBooksOK
<1>4. f \in [I -> Nat] /\ q.reserved \in Nat /\ O[i].reserved \in Nat
  BY <1>1, ReservedTyped, OrderTyped
<1>5. f[i] = IF q.account = t /\ q.outcome = o THEN O[i].reserved ELSE 0
  BY DEF ReservedOf
<1>6. ReservedOf(N, t, o) = [f EXCEPT ![i] = v]
  <2>1. DOMAIN ReservedOf(N, t, o) = I /\ DOMAIN f = I
    BY <1>2 DEF ReservedOf
  <2>2. ReservedOf(N, t, o)[i] = v
    BY <1>2 DEF ReservedOf
  <2>3. \A m \in I : m # i => ReservedOf(N, t, o)[m] = f[m]
    BY <1>2 DEF ReservedOf
  <2>4. ReservedOf(N, t, o) = [m \in I |-> ReservedOf(N, t, o)[m]]
    BY <1>2 DEF ReservedOf
  <2>. HIDE DEF f, I, v
  <2>. QED BY <1>4, <2>1, <2>2, <2>3, <2>4
<1>7. SumFunction(f) \in Int /\ SumFunction([f EXCEPT ![i] = v]) = SumFunction(f) + v - f[i]
  <2>1. f \in [I -> Int] /\ v \in Int /\ i \in I
    BY <1>4
  <2>. HIDE DEF f, I, v
  <2>. QED BY <1>1, <2>1, SumExcept
<1>8. SumFunction(ReservedOf(N, t, o)) =
        SumFunction(f) + IF q.account = t /\ q.outcome = o THEN q.reserved - O[i].reserved ELSE 0
  <2>. HIDE DEF f, I
  <2>. QED BY <1>4, <1>5, <1>6, <1>7
<1>. QED BY <1>2, <1>3, <1>8 DEF N

\* What a trade of n gives the order's owner: shares when it buys.
Signed(q, n) == IF q.side = "bid" THEN n ELSE -n

LEMMA IssuedTyped ==
  ASSUME NEW S \in Holdings, NEW o \in BookOutcomes
  PROVE  /\ IssuedOf(S, o) \in [Traders -> Nat] /\ SumFunction(IssuedOf(S, o)) \in Nat
         /\ \A t \in Traders : S[t][o] \in Nat /\ S[t][o] <= SumFunction(IssuedOf(S, o))
<1>. DEFINE f == IssuedOf(S, o)
<1>1. f \in [Traders -> Nat] /\ \A t \in Traders : f[t] = S[t][o]
  BY DEF Holdings, IssuedOf
<1>2. IsFiniteSet(Traders)
  BY ConstantsOK
<1>. HIDE DEF f
<1>3. SumFunction(f) \in Nat /\ \A t \in Traders : f[t] <= SumFunction(f)
  BY <1>1, <1>2, SumBounds
<1>. QED BY <1>1, <1>3 DEF f

LEMMA AddPositionOK ==
  ASSUME NEW S \in Holdings, NEW q \in Order, NEW n \in Nat,
         q.side = "ask" => n <= S[q.account][q.outcome]
  PROVE  LET N == AddPosition(S, q, n)
         IN  /\ N \in Holdings
             /\ \A t \in Traders, o \in BookOutcomes :
                  N[t][o] = S[t][o] + IF t = q.account /\ o = q.outcome THEN Signed(q, n) ELSE 0
             /\ \A o \in BookOutcomes :
                  SumFunction(IssuedOf(N, o)) =
                    SumFunction(IssuedOf(S, o)) + IF o = q.outcome THEN Signed(q, n) ELSE 0
<1>. DEFINE N == AddPosition(S, q, n)
            a == q.account
            w == q.outcome
            v == S[a][w] + Signed(q, n)
<1>1. a \in Traders /\ w \in BookOutcomes /\ q.side \in Sides /\ S[a][w] \in Nat
  BY OrderTyped DEF Holdings
<1>2. v \in Nat /\ Signed(q, n) \in Int
  BY <1>1 DEF Signed, Sides
<1>3. N = [S EXCEPT ![a][w] = v]
  <2>1. (IF q.side = "bid" THEN S[a][w] + n ELSE S[a][w] - n) = v
    BY <1>1 DEF Signed
  <2>. HIDE DEF v
  <2>. QED BY <2>1 DEF AddPosition
<1>. HIDE DEF N
<1>4. N \in Holdings
  BY <1>1, <1>2, <1>3 DEF Holdings
<1>5. ASSUME NEW t \in Traders, NEW o \in BookOutcomes
      PROVE  N[t][o] = IF t = a /\ o = w THEN v ELSE S[t][o]
  <2>. HIDE DEF v
  <2>. QED BY <1>1, <1>3 DEF Holdings
<1>6. ASSUME NEW t \in Traders, NEW o \in BookOutcomes
      PROVE  N[t][o] = S[t][o] + IF t = a /\ o = w THEN Signed(q, n) ELSE 0
  <2>1. S[t][o] \in Nat
    BY IssuedTyped
  <2>. QED BY <1>2, <1>5, <2>1
<1>7. ASSUME NEW o \in BookOutcomes
      PROVE  SumFunction(IssuedOf(N, o)) =
               SumFunction(IssuedOf(S, o)) + IF o = w THEN Signed(q, n) ELSE 0
  <2>. DEFINE f == IssuedOf(S, o)
  <2>1. f \in [Traders -> Int] /\ SumFunction(f) \in Int /\ IsFiniteSet(Traders)
    BY IssuedTyped, ConstantsOK
  <2>2. CASE o # w
    <3>1. IssuedOf(N, o) = f
      BY <1>5, <2>2 DEF IssuedOf
    <3>. HIDE DEF f
    <3>. QED BY <2>1, <2>2, <3>1 DEF f
  <2>3. CASE o = w
    <3>1. IssuedOf(N, o) = [f EXCEPT ![a] = v]
      <4>. HIDE DEF v, N, w
      <4>1. \A t \in Traders : N[t][o] = IF t = a THEN v ELSE S[t][o]
        BY <1>1, <1>5, <2>3
      <4>. QED BY <4>1 DEF IssuedOf
    <3>2. f[a] = S[a][w]
      BY <1>1, <2>3 DEF IssuedOf
    <3>. HIDE DEF f, v
    <3>3. SumFunction([f EXCEPT ![a] = v]) = SumFunction(f) + v - f[a]
      <4>1. v \in Int /\ a \in Traders
        BY <1>1, <1>2
      <4>. HIDE DEF a
      <4>. QED BY ONLY <2>1, <4>1, SumExcept
    <3>. QED BY <1>1, <1>2, <2>1, <2>3, <3>1, <3>2, <3>3 DEF f, v
  <2>. QED BY <2>2, <2>3
<1>. QED BY <1>4, <1>6, <1>7 DEF N

\* An order of the book trades n: with its owner's shares, what is reserved of
\* them goes down.
Advanced(O, i, n) == Replaced(O, i, Advance(O[i], n))

LEMMA AdvanceKeeps ==
  ASSUME NEW O, NEW S, Covered(O, S), NEW i \in DOMAIN O, Live(O[i]),
         NEW n \in Nat, n > 0, n <= O[i].remaining
  PROVE  /\ Covered(Advanced(O, i, n), AddPosition(S, O[i], n))
         /\ DOMAIN Advanced(O, i, n) = DOMAIN O /\ AfterFill(Advanced(O, i, n)[i], O[i], n)
         /\ \A m \in DOMAIN O : m # i => Advanced(O, i, n)[m] = O[m]
         /\ \A o \in BookOutcomes :
              SumFunction(IssuedOf(AddPosition(S, O[i], n), o)) =
                SumFunction(IssuedOf(S, o)) + IF o = O[i].outcome THEN Signed(O[i], n) ELSE 0
<1>. DEFINE q == O[i]
            p == Advance(q, n)
            N == Advanced(O, i, n)
            P == AddPosition(S, q, n)
<1>1. O \in OrderBooks /\ S \in Holdings /\ Fits(q) /\ q \in Order
  BY DEF Covered, Fits
<1>2. Fits(p) /\ AfterFill(p, q, n) /\ p \in Order
  BY <1>1, AdvanceOK DEF Fits
<1>3. q.account \in Traders /\ q.outcome \in BookOutcomes /\ q.side \in Sides /\ q.reserved \in Nat
  BY <1>1, OrderTyped
<1>. HIDE DEF p
<1>4. q.side = "ask" => n <= S[q.account][q.outcome]
  <2>1. q.side = "ask" => q.reserved = q.remaining
    BY <1>1 DEF Fits
  <2>2. /\ ReservedOf(O, q.account, q.outcome)[i] = q.reserved
        /\ ReservedOf(O, q.account, q.outcome)[i] <= SumFunction(ReservedOf(O, q.account, q.outcome))
        /\ SumFunction(ReservedOf(O, q.account, q.outcome)) \in Nat
    <3>1. ReservedOf(O, q.account, q.outcome)[i] = q.reserved
      BY DEF ReservedOf
    <3>. QED BY <1>1, <3>1, ReservedTyped
  <2>3. SumFunction(ReservedOf(O, q.account, q.outcome)) <= S[q.account][q.outcome]
    BY <1>3 DEF Covered
  <2>4. S[q.account][q.outcome] \in Nat
    BY <1>1, <1>3, IssuedTyped
  <2>. HIDE DEF q
  <2>5. n <= q.remaining
    BY DEF q
  <2>. QED BY <1>3, <2>1, <2>2, <2>3, <2>4, <2>5
<1>5. /\ P \in Holdings
      /\ \A t \in Traders, o \in BookOutcomes :
           P[t][o] = S[t][o] + IF t = q.account /\ o = q.outcome THEN Signed(q, n) ELSE 0
      /\ \A o \in BookOutcomes :
           SumFunction(IssuedOf(P, o)) =
             SumFunction(IssuedOf(S, o)) + IF o = q.outcome THEN Signed(q, n) ELSE 0
  BY <1>1, <1>4, AddPositionOK
<1>. HIDE DEF P
<1>6. /\ N \in OrderBooks /\ DOMAIN N = DOMAIN O /\ N[i] = p
      /\ \A m \in DOMAIN O : m # i => N[m] = O[m]
      /\ \A t, o : SumFunction(ReservedOf(N, t, o)) =
           SumFunction(ReservedOf(O, t, o))
             + IF p.account = t /\ p.outcome = o THEN p.reserved - q.reserved ELSE 0
  <2>1. p.account = O[i].account /\ p.outcome = O[i].outcome /\ N = Replaced(O, i, p)
    BY <1>2 DEF AfterFill, Advanced, p
  <2>. HIDE DEF N
  <2>. QED BY <1>1, <1>2, <2>1, ReservedMoves
<1>. HIDE DEF N
<1>7. ASSUME NEW t \in Traders, NEW o \in BookOutcomes
      PROVE  SumFunction(ReservedOf(N, t, o)) <= P[t][o]
  <2>1. /\ P[t][o] = S[t][o] + IF t = q.account /\ o = q.outcome THEN Signed(q, n) ELSE 0
        /\ S[t][o] \in Nat /\ SumFunction(ReservedOf(O, t, o)) \in Nat
        /\ SumFunction(ReservedOf(O, t, o)) <= S[t][o]
    BY <1>1, <1>5, IssuedTyped, ReservedTyped DEF Covered
  <2>2. SumFunction(ReservedOf(N, t, o)) =
           SumFunction(ReservedOf(O, t, o))
             + IF p.account = t /\ p.outcome = o THEN p.reserved - q.reserved ELSE 0
    BY <1>6
  <2>3. p.account = q.account /\ p.outcome = q.outcome
        /\ p.reserved = q.reserved - IF q.side = "ask" THEN n ELSE 0
    BY <1>2 DEF AfterFill
  <2>. HIDE DEF q
  <2>. QED BY <1>3, <2>1, <2>2, <2>3 DEF Signed, Sides
<1>8. \A m \in DOMAIN N : Fits(N[m])
  BY <1>2, <1>6 DEF Covered
<1>9. Covered(N, P)
  BY <1>5, <1>6, <1>7, <1>8 DEF Covered
<1>. QED BY <1>2, <1>5, <1>6, <1>9 DEF N, P

-----------------------------------------------------------------------------
(* The money of one trade                                                  *)

Sound(L) == SoundLedger(L, Parties, LockKeys)

\* N is L after the bid q = order i gave up x of its lock and paid c of it.
Paid(N, L, q, i, x, c, to) ==
  /\ Sound(N) /\ Credits(N) = Credits(L)
  /\ \A b \in Parties :
       /\ N.available[b] = L.available[b] + (IF b = q.account THEN x - c ELSE 0)
                             + IF b = to THEN c ELSE 0
       /\ N.frozen[b] = L.frozen[b] - IF b = q.account THEN x ELSE 0
  /\ \A b \in Parties, k \in LockKeys :
       N.locks[b][k] = L.locks[b][k] - IF b = q.account /\ k = OrderLock(i) THEN x ELSE 0

LEMMA SoundEntries ==
  ASSUME NEW L, Sound(L)
  PROVE  /\ \A b \in Parties : L.available[b] \in Int /\ L.frozen[b] \in Int
         /\ \A b \in Parties, k \in LockKeys : L.locks[b][k] \in Nat
         /\ Credits(L) \in Int
<1>1. IsFiniteSet(Parties)
  BY ConstantsOK
<1>2. Credits(L) \in Int
  <2>1. SumFunction(L.available) \in Int /\ SumFunction(L.frozen) \in Int
    BY <1>1, CreditsInt DEF Sound
  <2>. QED BY <2>1 DEF Credits
<1>. QED BY <1>2, SoundFields DEF Sound

LEMMA LowersHere ==
  ASSUME NEW L, Sound(L), NEW a \in Parties, NEW k \in LockKeys,
         NEW x \in Int, x <= L.locks[a][k]
  PROVE  Lowers(DecreaseLock(L, a, k, x), L, Parties, LockKeys, a, k, x)
BY ConstantsOK, DecreaseLowers DEF Sound

LEMMA HandsOverHere ==
  ASSUME NEW L, Sound(L), NEW a \in Parties, NEW b \in Parties, NEW x \in Int
  PROVE  HandsOver(TransferAvailable(L, a, b, x), L, Parties, LockKeys, a, b, x)
BY ConstantsOK, TransferHandsOver DEF Sound

LEMMA SpendPays ==
  ASSUME NEW L, Sound(L), NEW O, NEW i \in OrderIds, O[i] \in Order, NEW price \in Nat,
         NEW n \in Nat, NEW to \in Parties,
         O[i].price * n <= L.locks[O[i].account][OrderLock(i)]
  PROVE  Paid(SpendBid(L, O, i, price, n, to), L, O[i], i, O[i].price * n, price * n, to)
<1>. DEFINE q == O[i]
            x == q.price * n
            c == price * n
            M == DecreaseLock(L, q.account, OrderLock(i), x)
            N == TransferAvailable(M, q.account, to, c)
<1>1. q.account \in Parties /\ q.price \in Nat /\ OrderLock(i) \in LockKeys
  BY OrderTyped, ConstantsOK
<1>2. x \in Nat /\ c \in Nat /\ x <= L.locks[q.account][OrderLock(i)]
  BY <1>1
<1>3. SpendBid(L, O, i, price, n, to) = N
  BY DEF SpendBid
<1>. HIDE DEF x, c, q
<1>4. Lowers(M, L, Parties, LockKeys, q.account, OrderLock(i), x)
  BY <1>1, <1>2, LowersHere
<1>. HIDE DEF M
<1>5. Sound(M)
  BY <1>4 DEF Lowers, Sound
<1>6. HandsOver(N, M, Parties, LockKeys, q.account, to, c)
  BY <1>1, <1>2, <1>5, HandsOverHere
<1>. HIDE DEF N
<1>7. Sound(N) /\ Credits(N) = Credits(L)
  BY <1>4, <1>6 DEF Sound, HandsOver, Lowers
<1>8. ASSUME NEW b \in Parties
      PROVE  /\ N.available[b] = L.available[b] + (IF b = q.account THEN x - c ELSE 0)
                             + IF b = to THEN c ELSE 0
             /\ N.frozen[b] = L.frozen[b] - IF b = q.account THEN x ELSE 0
  <2>1. L.available[b] \in Int /\ L.frozen[b] \in Int
    BY SoundEntries
  <2>2. /\ M.available[b] = L.available[b] + IF b = q.account THEN x ELSE 0
        /\ M.frozen[b] = L.frozen[b] - IF b = q.account THEN x ELSE 0
    BY <1>4 DEF Lowers
  <2>3. /\ N.available[b] = M.available[b] - (IF b = q.account THEN c ELSE 0) + IF b = to THEN c ELSE 0
        /\ N.frozen[b] = M.frozen[b]
    BY <1>6 DEF HandsOver
  <2>. QED BY <1>2, <2>1, <2>2, <2>3
<1>9. ASSUME NEW b \in Parties, NEW k \in LockKeys
      PROVE  N.locks[b][k] = L.locks[b][k] - IF b = q.account /\ k = OrderLock(i) THEN x ELSE 0
  BY <1>4, <1>6 DEF Lowers, HandsOver
<1>10. Paid(N, L, q, i, x, c, to)
  BY <1>7, <1>8, <1>9 DEF Paid
<1>. QED BY <1>3, <1>10 DEF q, x, c

\* What the trade of the orders i and j costs each, in credits.
Cost(O, i, j, m, n) == SharePrice(O, j, m) * n

LEMMA TradeAmounts ==
  ASSUME NEW O, NEW i, NEW j, Trading(O, i, j), NEW n \in Nat
  PROVE  /\ SharePrice(O, j, i) \in Nat /\ SharePrice(O, j, j) \in Nat
         /\ Cost(O, i, j, i, n) \in Nat /\ Cost(O, i, j, j, n) \in Nat /\ One * n \in Nat
         /\ O[i].price * n \in Nat /\ O[j].price * n \in Nat
         /\ O[i].side = "bid" => Cost(O, i, j, i, n) <= O[i].price * n
         /\ O[i].side = "ask" => Cost(O, i, j, i, n) >= O[i].price * n
         /\ Cost(O, i, j, j, n) = O[j].price * n
         /\ O[i].side # O[j].side => Cost(O, i, j, i, n) = Cost(O, i, j, j, n)
         /\ O[i].side = O[j].side => Cost(O, i, j, i, n) + Cost(O, i, j, j, n) = One * n
<1>. DEFINE x == SharePrice(O, j, i)
            y == SharePrice(O, j, j)
<1>1. /\ x \in Nat /\ y = O[j].price
      /\ O[i].side = "bid" => x <= O[i].price
      /\ O[i].side = "ask" => x >= O[i].price
      /\ O[i].side # O[j].side => x = y
      /\ O[i].side = O[j].side => x + y = One
  BY TradePrices
<1>2. O[i].price \in Nat /\ O[j].price \in Nat /\ One \in Nat
  BY OrderTyped, ConstantsOK DEF Trading, Fits
<1>. HIDE DEF x, y
<1>3. ASSUME NEW a \in Nat, NEW b \in Nat PROVE a * n \in Nat /\ (a <= b => a * n <= b * n)
                                               /\ (a + b) * n = a * n + b * n
  OBVIOUS
<1>4. O[i].side = "bid" => x * n <= O[i].price * n
  BY <1>1, <1>2, <1>3
<1>5. O[i].side = "ask" => x * n >= O[i].price * n
  BY <1>1, <1>2, <1>3
<1>6. O[i].side = O[j].side => x * n + y * n = One * n
  BY <1>1, <1>2, <1>3
<1>7. x * n \in Nat /\ y * n \in Nat /\ One * n \in Nat /\ O[i].price * n \in Nat /\ O[j].price * n \in Nat
  BY <1>1, <1>2, <1>3
<1>. QED BY <1>1, <1>2, <1>4, <1>5, <1>6, <1>7 DEF Cost, x, y

\* The lock a bid gives up for n shares, looked for among t's under m's key;
\* what an order that trades n for c brings t in; the sets a trade makes.
Used(q, i, n, t, m) == IF q.side = "bid" /\ q.account = t /\ m = i THEN q.price * n ELSE 0
Gain(q, c, t) == IF q.account = t THEN -Signed(q, c) ELSE 0
SetsGain(O, i, j, n) == IF O[i].side = O[j].side THEN Signed(O[i], n) ELSE 0

\* N is L after the orders i and j of O traded n.
TradeOK(N, L, O, i, j, n) ==
  /\ Sound(N) /\ Credits(N) = Credits(L)
  /\ \A t \in Traders :
       /\ N.available[t] >= L.available[t]
       /\ Wealth(N, t) = Wealth(L, t) + Gain(O[i], Cost(O, i, j, i, n), t)
                                      + Gain(O[j], Cost(O, i, j, j, n), t)
  /\ N.available[Escrow] = L.available[Escrow]
  /\ \A t \in Traders, m \in OrderIds :
       N.locks[t][OrderLock(m)] =
         L.locks[t][OrderLock(m)] - Used(O[i], i, n, t, m) - Used(O[j], j, n, t, m)
  /\ \A m \in OrderIds : N.locks[Escrow][OrderLock(m)] = L.locks[Escrow][OrderLock(m)]
  /\ N.locks[Escrow][EscrowLock] = L.locks[Escrow][EscrowLock] + One * SetsGain(O, i, j, n)

\* A bid's lock holds what its shares may cost, and the escrow the sets.
Backed(L, O, i, n) == O[i].side = "bid" => O[i].price * n <= L.locks[O[i].account][OrderLock(i)]

\* A share changes hands: the bid b pays the owner of the ask s.
LEMMA ShareMoves ==
  ASSUME NEW L, Sound(L), NEW O \in OrderBooks, NEW i, NEW j, Trading(O, i, j),
         NEW n \in Nat, Backed(L, O, i, n), Backed(L, O, j, n), O[i].side # O[j].side,
         NEW b, NEW s, (b = i /\ s = j) \/ (b = j /\ s = i), O[b].side = "bid"
  PROVE  TradeOK(SpendBid(L, O, b, SharePrice(O, j, b), n, O[s].account), L, O, i, j, n)
<1>. DEFINE c == SharePrice(O, j, b) * n
            x == O[b].price * n
            N == SpendBid(L, O, b, SharePrice(O, j, b), n, O[s].account)
<1>1. /\ i \in OrderIds /\ j \in OrderIds /\ O[i] \in Order /\ O[j] \in Order /\ i # j
      /\ b \in OrderIds /\ s \in OrderIds /\ O[b] \in Order /\ O[s] \in Order
  BY BookFinite DEF Trading
<1>2. /\ Cost(O, i, j, b, n) = c /\ c = Cost(O, i, j, i, n) /\ c = Cost(O, i, j, j, n)
      /\ c \in Nat /\ x \in Nat /\ c <= x /\ SharePrice(O, j, b) \in Nat
  BY TradeAmounts DEF Cost
<1>3. /\ O[b].account \in Traders /\ O[s].account \in Traders /\ O[b].account \in Parties
      /\ O[s].account \in Parties /\ O[s].side = "ask" /\ Traders \subseteq Parties
      /\ Escrow \in Parties /\ Escrow \notin Traders
      /\ \A m \in OrderIds : OrderLock(m) \in LockKeys /\ OrderLock(m) # EscrowLock
      /\ EscrowLock \in LockKeys /\ One \in Nat
      /\ \A m \in OrderIds : OrderLock(m) = OrderLock(b) <=> m = b
  BY <1>1, OrderTyped, ConstantsOK DEF Sides
<1>4. Paid(N, L, O[b], b, x, c, O[s].account)
  <2>1. O[b].price * n <= L.locks[O[b].account][OrderLock(b)]
    BY DEF Backed
  <2>. QED BY <1>1, <1>2, <1>3, <2>1, SpendPays
<1>. HIDE DEF N, x, c
<1>5. ASSUME NEW t \in Traders
      PROVE  /\ N.available[t] >= L.available[t]
             /\ Wealth(N, t) = Wealth(L, t) + Gain(O[b], c, t) + Gain(O[s], c, t)
  <2>1. L.available[t] \in Int /\ L.frozen[t] \in Int
    BY <1>3, SoundEntries
  <2>2. /\ N.available[t] = L.available[t] + (IF t = O[b].account THEN x - c ELSE 0)
                             + IF t = O[s].account THEN c ELSE 0
        /\ N.frozen[t] = L.frozen[t] - IF t = O[b].account THEN x ELSE 0
    BY <1>3, <1>4 DEF Paid
  <2>3. /\ Gain(O[b], c, t) = IF t = O[b].account THEN -c ELSE 0
        /\ Gain(O[s], c, t) = IF t = O[s].account THEN c ELSE 0
    BY <1>2, <1>3 DEF Gain, Signed
  <2>4. N.available[t] >= L.available[t]
    BY <1>2, <2>1, <2>2
  <2>5. N.available[t] + N.frozen[t] = L.available[t] + L.frozen[t] + Gain(O[b], c, t) + Gain(O[s], c, t)
    BY <1>2, <2>1, <2>2, <2>3
  <2>. QED BY <2>4, <2>5 DEF Wealth
<1>6. \A t \in Traders :
        /\ N.available[t] >= L.available[t]
        /\ Wealth(N, t) = Wealth(L, t) + Gain(O[i], c, t) + Gain(O[j], c, t)
  <2>1. ASSUME NEW t \in Traders
        PROVE  Wealth(L, t) \in Int /\ Gain(O[b], c, t) \in Int /\ Gain(O[s], c, t) \in Int
    BY <1>2, <1>3, SoundEntries DEF Gain, Signed, Wealth
  <2>. QED BY <1>5, <2>1
<1>7. N.available[Escrow] = L.available[Escrow]
  <2>1. L.available[Escrow] \in Int
    BY <1>3, SoundEntries
  <2>. QED BY <1>3, <1>4, <2>1 DEF Paid
<1>8. ASSUME NEW t \in Traders, NEW m \in OrderIds
      PROVE  N.locks[t][OrderLock(m)] =
               L.locks[t][OrderLock(m)] - Used(O[i], i, n, t, m) - Used(O[j], j, n, t, m)
  <2>1. L.locks[t][OrderLock(m)] \in Nat
    BY <1>3, SoundEntries
  <2>2. N.locks[t][OrderLock(m)] =
          L.locks[t][OrderLock(m)] - IF t = O[b].account /\ m = b THEN x ELSE 0
    BY <1>3, <1>4 DEF Paid
  <2>3. Used(O[b], b, n, t, m) = (IF t = O[b].account /\ m = b THEN x ELSE 0)
        /\ Used(O[s], s, n, t, m) = 0
    BY <1>3 DEF Used, x
  <2>. QED BY <1>2, <2>1, <2>2, <2>3
<1>9. /\ \A m \in OrderIds : N.locks[Escrow][OrderLock(m)] = L.locks[Escrow][OrderLock(m)]
      /\ N.locks[Escrow][EscrowLock] = L.locks[Escrow][EscrowLock]
  <2>1. ASSUME NEW k \in LockKeys PROVE N.locks[Escrow][k] = L.locks[Escrow][k]
    <3>1. L.locks[Escrow][k] \in Nat
      BY <1>3, SoundEntries
    <3>. QED BY <1>3, <1>4, <3>1 DEF Paid
  <2>. QED BY <1>3, <2>1
<1>10. SetsGain(O, i, j, n) = 0 /\ L.locks[Escrow][EscrowLock] + One * 0 = L.locks[Escrow][EscrowLock]
  BY <1>3, SoundEntries DEF SetsGain
<1>11. Sound(N) /\ Credits(N) = Credits(L)
  BY <1>4 DEF Paid
<1>. QED BY <1>2, <1>6, <1>7, <1>8, <1>9, <1>10, <1>11 DEF TradeOK, N

\* Two bids mint sets: both pay the escrow, which locks what they paid.
LEMMA SetsMinted ==
  ASSUME NEW L, Sound(L), NEW O \in OrderBooks, NEW i, NEW j, Trading(O, i, j),
         NEW n \in Nat, Backed(L, O, i, n), Backed(L, O, j, n),
         O[i].side = "bid", O[j].side = "bid"
  PROVE  TradeOK(Freeze(SpendBid(SpendBid(L, O, i, SharePrice(O, j, i), n, Escrow),
                                 O, j, SharePrice(O, j, j), n, Escrow),
                        Escrow, EscrowLock, One * n),
                 L, O, i, j, n)
<1>. DEFINE c == SharePrice(O, j, i) * n
            d == SharePrice(O, j, j) * n
            x == O[i].price * n
            y == O[j].price * n
            z == One * n
            a == O[i].account
            e == O[j].account
            P == SpendBid(L, O, i, SharePrice(O, j, i), n, Escrow)
            Q == SpendBid(P, O, j, SharePrice(O, j, j), n, Escrow)
            N == Freeze(Q, Escrow, EscrowLock, z)
<1>1. /\ i \in OrderIds /\ j \in OrderIds /\ O[i] \in Order /\ O[j] \in Order /\ i # j
  BY BookFinite DEF Trading
<1>2. /\ c \in Nat /\ d \in Nat /\ x \in Nat /\ y \in Nat /\ z \in Nat /\ c <= x /\ d <= y /\ c + d = z
      /\ Cost(O, i, j, i, n) = c /\ Cost(O, i, j, j, n) = d
      /\ SharePrice(O, j, i) \in Nat /\ SharePrice(O, j, j) \in Nat
  BY TradeAmounts DEF Cost
<1>3. /\ a \in Traders /\ e \in Traders /\ Traders \subseteq Parties
      /\ Escrow \in Parties /\ Escrow \notin Traders
      /\ \A m \in OrderIds : OrderLock(m) \in LockKeys /\ OrderLock(m) # EscrowLock
      /\ EscrowLock \in LockKeys
      /\ \A m, k \in OrderIds : OrderLock(m) = OrderLock(k) <=> m = k
  BY <1>1, OrderTyped, ConstantsOK
<1>4. Paid(P, L, O[i], i, x, c, Escrow)
  <2>1. x <= L.locks[O[i].account][OrderLock(i)]
    BY DEF Backed
  <2>. QED BY <1>1, <1>2, <1>3, <2>1, SpendPays
<1>5. y <= P.locks[e][OrderLock(j)] /\ Sound(P)
  <2>1. y <= L.locks[e][OrderLock(j)] /\ L.locks[e][OrderLock(j)] \in Nat
    BY <1>1, <1>3, SoundEntries DEF Backed
  <2>2. OrderLock(j) \in LockKeys /\ OrderLock(j) # OrderLock(i) /\ e \in Parties
    BY <1>1, <1>3
  <2>. HIDE DEF x, y, e, P
  <2>3. P.locks[e][OrderLock(j)] = L.locks[e][OrderLock(j)]
    BY <1>4, <2>1, <2>2 DEF Paid
  <2>. QED BY <1>4, <2>1, <2>3 DEF Paid
<1>. HIDE DEF P
<1>6. Paid(Q, P, O[j], j, y, d, Escrow)
  BY <1>1, <1>2, <1>3, <1>5, SpendPays
<1>. HIDE DEF Q
<1>7. Lowers(N, Q, Parties, LockKeys, Escrow, EscrowLock, -z)
  <2>1. SoundLedger(Q, Parties, LockKeys)
    BY <1>6 DEF Paid, Sound
  <2>. HIDE DEF z
  <2>. QED BY <1>2, <1>3, <2>1, ConstantsOK, FreezeLowers
<1>. HIDE DEF N, c, d, x, y, z
<1>8. ASSUME NEW t \in Traders
      PROVE  /\ N.available[t] >= L.available[t]
             /\ Wealth(N, t) = Wealth(L, t) + Gain(O[i], c, t) + Gain(O[j], d, t)
  <2>1. L.available[t] \in Int /\ L.frozen[t] \in Int /\ t \in Parties /\ t # Escrow
    BY <1>3, SoundEntries
  <2>2. /\ P.available[t] = L.available[t] + IF t = a THEN x - c ELSE 0
        /\ P.frozen[t] = L.frozen[t] - IF t = a THEN x ELSE 0
    BY <1>2, <1>4, <2>1 DEF Paid
  <2>3. /\ Q.available[t] = P.available[t] + IF t = e THEN y - d ELSE 0
        /\ Q.frozen[t] = P.frozen[t] - IF t = e THEN y ELSE 0
    BY <1>2, <1>6, <2>1, <2>2 DEF Paid
  <2>4. N.available[t] = Q.available[t] /\ N.frozen[t] = Q.frozen[t]
    BY <1>2, <1>7, <2>1, <2>2, <2>3 DEF Lowers
  <2>5. /\ Gain(O[i], c, t) = IF t = a THEN -c ELSE 0
        /\ Gain(O[j], d, t) = IF t = e THEN -d ELSE 0
    BY <1>2 DEF Gain, Signed
  <2>. HIDE DEF a, e
  <2>6. N.available[t] >= L.available[t]
    BY <1>2, <2>1, <2>2, <2>3, <2>4
  <2>7. N.available[t] + N.frozen[t] = L.available[t] + L.frozen[t] + Gain(O[i], c, t) + Gain(O[j], d, t)
    BY <1>2, <2>1, <2>2, <2>3, <2>4, <2>5
  <2>. QED BY <2>6, <2>7 DEF Wealth
<1>9. N.available[Escrow] = L.available[Escrow]
  <2>1. L.available[Escrow] \in Int /\ a # Escrow /\ e # Escrow
    BY <1>3, SoundEntries
  <2>2. P.available[Escrow] = L.available[Escrow] + c
    BY <1>2, <1>3, <1>4, <2>1 DEF Paid
  <2>3. Q.available[Escrow] = P.available[Escrow] + d
    BY <1>2, <1>3, <1>6, <2>1, <2>2 DEF Paid
  <2>4. N.available[Escrow] = Q.available[Escrow] - z
    BY <1>2, <1>3, <1>7, <2>1, <2>2, <2>3 DEF Lowers
  <2>. QED BY <1>2, <2>1, <2>2, <2>3, <2>4
<1>10. ASSUME NEW b \in Parties, NEW k \in LockKeys
       PROVE  N.locks[b][k] = L.locks[b][k]
                - (IF b = a /\ k = OrderLock(i) THEN x ELSE 0)
                - (IF b = e /\ k = OrderLock(j) THEN y ELSE 0)
                + IF b = Escrow /\ k = EscrowLock THEN z ELSE 0
  <2>1. L.locks[b][k] \in Nat
    BY SoundEntries
  <2>2. P.locks[b][k] = L.locks[b][k] - IF b = a /\ k = OrderLock(i) THEN x ELSE 0
    BY <1>4 DEF Paid
  <2>3. Q.locks[b][k] = P.locks[b][k] - IF b = e /\ k = OrderLock(j) THEN y ELSE 0
    BY <1>6 DEF Paid
  <2>4. N.locks[b][k] = Q.locks[b][k] - IF b = Escrow /\ k = EscrowLock THEN -z ELSE 0
    BY <1>7 DEF Lowers
  <2>. HIDE DEF a, e
  <2>. QED BY <1>2, <2>1, <2>2, <2>3, <2>4
<1>11. ASSUME NEW t \in Traders, NEW m \in OrderIds
       PROVE  N.locks[t][OrderLock(m)] =
                L.locks[t][OrderLock(m)] - Used(O[i], i, n, t, m) - Used(O[j], j, n, t, m)
  <2>1. L.locks[t][OrderLock(m)] \in Nat /\ t \in Parties /\ t # Escrow /\ OrderLock(m) \in LockKeys
    BY <1>3, SoundEntries
  <2>2. /\ Used(O[i], i, n, t, m) = IF t = a /\ m = i THEN x ELSE 0
        /\ Used(O[j], j, n, t, m) = IF t = e /\ m = j THEN y ELSE 0
    BY DEF Used, x, y
  <2>3. (OrderLock(m) = OrderLock(i) <=> m = i) /\ (OrderLock(m) = OrderLock(j) <=> m = j)
    BY <1>1, <1>3
  <2>4. N.locks[t][OrderLock(m)] = L.locks[t][OrderLock(m)]
                - (IF t = a /\ OrderLock(m) = OrderLock(i) THEN x ELSE 0)
                - (IF t = e /\ OrderLock(m) = OrderLock(j) THEN y ELSE 0)
                + IF t = Escrow /\ OrderLock(m) = EscrowLock THEN z ELSE 0
    BY <1>10, <2>1
  <2>. HIDE DEF a, e
  <2>. QED BY <1>2, <2>1, <2>2, <2>3, <2>4
<1>12. /\ \A m \in OrderIds : N.locks[Escrow][OrderLock(m)] = L.locks[Escrow][OrderLock(m)]
       /\ N.locks[Escrow][EscrowLock] = L.locks[Escrow][EscrowLock] + z
  <2>0. a # Escrow /\ e # Escrow
    BY <1>3
  <2>. HIDE DEF a, e
  <2>1. ASSUME NEW k \in LockKeys
        PROVE  N.locks[Escrow][k] = L.locks[Escrow][k] + IF k = EscrowLock THEN z ELSE 0
    <3>1. L.locks[Escrow][k] \in Nat
      BY <1>3, SoundEntries
    <3>2. N.locks[Escrow][k] = L.locks[Escrow][k]
                - (IF Escrow = a /\ k = OrderLock(i) THEN x ELSE 0)
                - (IF Escrow = e /\ k = OrderLock(j) THEN y ELSE 0)
                + IF Escrow = Escrow /\ k = EscrowLock THEN z ELSE 0
      BY <1>3, <1>10
    <3>. QED BY <1>2, <2>0, <3>1, <3>2
  <2>2. ASSUME NEW m \in OrderIds PROVE N.locks[Escrow][OrderLock(m)] = L.locks[Escrow][OrderLock(m)]
    <3>1. L.locks[Escrow][OrderLock(m)] \in Nat /\ OrderLock(m) \in LockKeys /\ OrderLock(m) # EscrowLock
      BY <1>3, SoundEntries
    <3>. QED BY <2>1, <3>1
  <2>. QED BY <1>3, <2>1, <2>2
<1>13. One * SetsGain(O, i, j, n) = z
  BY DEF SetsGain, Signed, z
<1>14. Sound(N) /\ Credits(N) = Credits(L)
  BY <1>4, <1>6, <1>7 DEF Paid, Lowers, Sound
<1>15. TradeOK(N, L, O, i, j, n)
  BY <1>2, <1>8, <1>9, <1>11, <1>12, <1>13, <1>14 DEF TradeOK
<1>. QED BY <1>15 DEF N, Q, P, z

\* Two asks redeem sets: the escrow gives up their collateral and pays both.
LEMMA SetsRedeemed ==
  ASSUME NEW L, Sound(L), NEW O \in OrderBooks, NEW i, NEW j, Trading(O, i, j),
         NEW n \in Nat, O[i].side = "ask", O[j].side = "ask",
         One * n <= L.locks[Escrow][EscrowLock]
  PROVE  TradeOK(TransferAvailable(
                   TransferAvailable(DecreaseLock(L, Escrow, EscrowLock, One * n),
                                     Escrow, O[i].account, SharePrice(O, j, i) * n),
                   Escrow, O[j].account, SharePrice(O, j, j) * n),
                 L, O, i, j, n)
<1>. DEFINE c == SharePrice(O, j, i) * n
            d == SharePrice(O, j, j) * n
            z == One * n
            a == O[i].account
            e == O[j].account
            P == DecreaseLock(L, Escrow, EscrowLock, z)
            Q == TransferAvailable(P, Escrow, a, c)
            N == TransferAvailable(Q, Escrow, e, d)
<1>1. /\ i \in OrderIds /\ j \in OrderIds /\ O[i] \in Order /\ O[j] \in Order /\ i # j
  BY BookFinite DEF Trading
<1>2. /\ c \in Nat /\ d \in Nat /\ z \in Nat /\ c + d = z
      /\ Cost(O, i, j, i, n) = c /\ Cost(O, i, j, j, n) = d
  BY TradeAmounts DEF Cost
<1>3. /\ a \in Traders /\ e \in Traders /\ Traders \subseteq Parties
      /\ Escrow \in Parties /\ Escrow \notin Traders
      /\ \A m \in OrderIds : OrderLock(m) \in LockKeys /\ OrderLock(m) # EscrowLock
      /\ EscrowLock \in LockKeys
  BY <1>1, OrderTyped, ConstantsOK
<1>4. Lowers(P, L, Parties, LockKeys, Escrow, EscrowLock, z)
  <2>1. z \in Int /\ z <= L.locks[Escrow][EscrowLock]
    BY <1>2
  <2>. HIDE DEF z
  <2>. QED BY <1>3, <2>1, LowersHere
<1>. HIDE DEF P
<1>5. HandsOver(Q, P, Parties, LockKeys, Escrow, a, c)
  <2>1. Sound(P) /\ c \in Int /\ a \in Parties
    BY <1>2, <1>3, <1>4 DEF Lowers, Sound
  <2>. HIDE DEF c, a
  <2>. QED BY <1>3, <2>1, HandsOverHere
<1>. HIDE DEF Q
<1>6. HandsOver(N, Q, Parties, LockKeys, Escrow, e, d)
  <2>1. Sound(Q) /\ d \in Int /\ e \in Parties
    BY <1>2, <1>3, <1>5 DEF HandsOver, Sound
  <2>. HIDE DEF d, e
  <2>. QED BY <1>3, <2>1, HandsOverHere
<1>. HIDE DEF N, c, d, z
<1>7. ASSUME NEW t \in Traders
      PROVE  /\ N.available[t] >= L.available[t]
             /\ Wealth(N, t) = Wealth(L, t) + Gain(O[i], c, t) + Gain(O[j], d, t)
  <2>1. L.available[t] \in Int /\ L.frozen[t] \in Int /\ t \in Parties /\ t # Escrow
    BY <1>3, SoundEntries
  <2>2. P.available[t] = L.available[t] /\ P.frozen[t] = L.frozen[t]
    BY <1>2, <1>4, <2>1 DEF Lowers
  <2>3. /\ Q.available[t] = P.available[t] + IF t = a THEN c ELSE 0
        /\ Q.frozen[t] = P.frozen[t]
    BY <1>2, <1>5, <2>1, <2>2 DEF HandsOver
  <2>4. /\ N.available[t] = Q.available[t] + IF t = e THEN d ELSE 0
        /\ N.frozen[t] = Q.frozen[t]
    BY <1>2, <1>6, <2>1, <2>2, <2>3 DEF HandsOver
  <2>5. /\ Gain(O[i], c, t) = IF t = a THEN c ELSE 0
        /\ Gain(O[j], d, t) = IF t = e THEN d ELSE 0
    BY <1>2 DEF Gain, Signed
  <2>. HIDE DEF a, e
  <2>6. N.available[t] >= L.available[t]
    BY <1>2, <2>1, <2>2, <2>3, <2>4
  <2>7. N.available[t] + N.frozen[t] = L.available[t] + L.frozen[t] + Gain(O[i], c, t) + Gain(O[j], d, t)
    BY <1>2, <2>1, <2>2, <2>3, <2>4, <2>5
  <2>. QED BY <2>6, <2>7 DEF Wealth
<1>8. N.available[Escrow] = L.available[Escrow]
  <2>1. L.available[Escrow] \in Int /\ a # Escrow /\ e # Escrow
    BY <1>3, SoundEntries
  <2>2. P.available[Escrow] = L.available[Escrow] + z
    BY <1>2, <1>3, <1>4, <2>1 DEF Lowers
  <2>3. Q.available[Escrow] = P.available[Escrow] - c
    BY <1>2, <1>3, <1>5, <2>1, <2>2 DEF HandsOver
  <2>4. N.available[Escrow] = Q.available[Escrow] - d
    BY <1>2, <1>3, <1>6, <2>1, <2>2, <2>3 DEF HandsOver
  <2>. QED BY <1>2, <2>1, <2>2, <2>3, <2>4
<1>9. ASSUME NEW b \in Parties, NEW k \in LockKeys
      PROVE  N.locks[b][k] = L.locks[b][k] - IF b = Escrow /\ k = EscrowLock THEN z ELSE 0
  BY <1>4, <1>5, <1>6 DEF Lowers, HandsOver
<1>10. ASSUME NEW t \in Traders, NEW m \in OrderIds
       PROVE  N.locks[t][OrderLock(m)] =
                L.locks[t][OrderLock(m)] - Used(O[i], i, n, t, m) - Used(O[j], j, n, t, m)
  <2>1. L.locks[t][OrderLock(m)] \in Nat /\ t \in Parties /\ t # Escrow /\ OrderLock(m) \in LockKeys
    BY <1>3, SoundEntries
  <2>2. Used(O[i], i, n, t, m) = 0 /\ Used(O[j], j, n, t, m) = 0
    BY DEF Used
  <2>. QED BY <1>9, <2>1, <2>2
<1>11. /\ \A m \in OrderIds : N.locks[Escrow][OrderLock(m)] = L.locks[Escrow][OrderLock(m)]
       /\ N.locks[Escrow][EscrowLock] = L.locks[Escrow][EscrowLock] + (-z)
  <2>1. ASSUME NEW m \in OrderIds PROVE N.locks[Escrow][OrderLock(m)] = L.locks[Escrow][OrderLock(m)]
    <3>1. L.locks[Escrow][OrderLock(m)] \in Nat /\ OrderLock(m) \in LockKeys /\ OrderLock(m) # EscrowLock
      BY <1>3, SoundEntries
    <3>. QED BY <1>3, <1>9, <3>1
  <2>2. L.locks[Escrow][EscrowLock] \in Nat
    BY <1>3, SoundEntries
  <2>. QED BY <1>2, <1>3, <1>9, <2>1, <2>2
<1>12. One * SetsGain(O, i, j, n) = -z
  <2>1. One \in Nat
    BY ConstantsOK
  <2>. QED BY <2>1 DEF SetsGain, Signed, z
<1>13. Sound(N) /\ Credits(N) = Credits(L)
  BY <1>4, <1>5, <1>6 DEF HandsOver, Lowers, Sound
<1>14. TradeOK(N, L, O, i, j, n)
  BY <1>2, <1>7, <1>8, <1>10, <1>11, <1>12, <1>13 DEF TradeOK
<1>. QED BY <1>14 DEF N, Q, P, z, c, d

\* The four cases of _fill.
LEMMA MoneyMoves ==
  ASSUME NEW d, Sound(d.ledger), d.orders \in OrderBooks, NEW i, NEW j, Trading(d.orders, i, j),
         NEW n \in Nat, Backed(d.ledger, d.orders, i, n), Backed(d.ledger, d.orders, j, n),
         d.orders[i].side = "ask" /\ d.orders[j].side = "ask"
           => One * n <= d.ledger.locks[Escrow][EscrowLock]
  PROVE  TradeOK(MoveMoney(d, i, j, n), d.ledger, d.orders, i, j, n)
<1>. DEFINE O == d.orders
            L == d.ledger
<1>1. O[i].side \in Sides /\ O[j].side \in Sides
  BY OrderTyped DEF Trading, Fits
<1>2. CASE O[i].side = "bid" /\ O[j].side = "ask"
  <2>1. MoveMoney(d, i, j, n) = SpendBid(L, O, i, SharePrice(O, j, i), n, O[j].account)
    BY <1>2 DEF MoveMoney
  <2>2. O[i].side # O[j].side
    BY <1>2
  <2>. HIDE DEF O, L
  <2>. QED BY <1>2, <2>1, <2>2, ShareMoves DEF O, L
<1>3. CASE O[i].side = "ask" /\ O[j].side = "bid"
  <2>1. MoveMoney(d, i, j, n) = SpendBid(L, O, j, SharePrice(O, j, j), n, O[i].account)
    BY <1>3 DEF MoveMoney
  <2>2. O[i].side # O[j].side
    BY <1>3
  <2>. QED BY <1>3, <2>1, <2>2, ShareMoves
<1>4. CASE O[i].side = "bid" /\ O[j].side = "bid"
  <2>1. MoveMoney(d, i, j, n) =
          Freeze(SpendBid(SpendBid(L, O, i, SharePrice(O, j, i), n, Escrow),
                          O, j, SharePrice(O, j, j), n, Escrow),
                 Escrow, EscrowLock, One * n)
    BY <1>4 DEF MoveMoney
  <2>. QED BY <1>4, <2>1, SetsMinted
<1>5. CASE O[i].side = "ask" /\ O[j].side = "ask"
  <2>1. MoveMoney(d, i, j, n) =
          TransferAvailable(
            TransferAvailable(DecreaseLock(L, Escrow, EscrowLock, One * n),
                              Escrow, O[i].account, SharePrice(O, j, i) * n),
            Escrow, O[j].account, SharePrice(O, j, j) * n)
    BY <1>5 DEF MoveMoney
  <2>. QED BY <1>5, <2>1, SetsRedeemed
<1>. QED BY <1>1, <1>2, <1>3, <1>4, <1>5 DEF Sides

-----------------------------------------------------------------------------
(* Custody: what every lock, share and set stands for; one fill keeps it    *)

LockFor(O, t, m) ==
  IF m \in DOMAIN O /\ O[m].account = t /\ O[m].side = "bid" /\ Live(O[m])
  THEN O[m].price * O[m].remaining ELSE 0

\* The ledger of a market with the orders O and z sets.
Held(L, O, z) ==
  /\ Sound(L)
  /\ \A a \in Parties : L.available[a] >= 0
  /\ \A t \in Traders, m \in OrderIds : L.locks[t][OrderLock(m)] = LockFor(O, t, m)
  /\ \A m \in OrderIds : L.locks[Escrow][OrderLock(m)] = 0
  /\ L.locks[Escrow][EscrowLock] = One * z /\ L.available[Escrow] = 0

AllIssued(S, z) == z \in Nat /\ \A o \in BookOutcomes : SumFunction(IssuedOf(S, o)) = z

Custody(d) ==
  Held(d.ledger, d.orders, d.sets) /\ Covered(d.orders, d.shares) /\ AllIssued(d.shares, d.sets)

LEMMA Multiples ==
  ASSUME NEW a \in Nat, NEW b \in Int, NEW c \in Int
  PROVE  /\ a * b \in Int /\ a * (b - c) = a * b - a * c /\ a * (b + c) = a * b + a * c
         /\ b <= c => a * b <= a * c
OBVIOUS

LEMMA LockForTyped ==
  ASSUME NEW O \in OrderBooks, NEW t, NEW m
  PROVE  LockFor(O, t, m) \in Nat
<1>1. CASE m \in DOMAIN O
  <2>1. O[m].price \in Nat /\ O[m].remaining \in Nat
    BY <1>1, BookFinite, OrderTyped
  <2>2. O[m].price * O[m].remaining \in Nat
    BY <2>1
  <2>. QED BY <2>2 DEF LockFor
<1>. QED BY <1>1 DEF LockFor

\* What is left of a bid is what its lock is left with.
LEMMA LockForMoves ==
  ASSUME NEW O \in OrderBooks, NEW i \in DOMAIN O, Fits(O[i]), Live(O[i]), NEW n \in Nat, n > 0,
         n <= O[i].remaining, NEW P, DOMAIN P = DOMAIN O, AfterFill(P[i], O[i], n),
         \A m \in DOMAIN O : m # i => P[m] = O[m], NEW t, NEW m
  PROVE  /\ LockFor(P, t, m) = LockFor(O, t, m) - Used(O[i], i, n, t, m)
         /\ Used(O[i], i, n, t, m) \in Nat
<1>. DEFINE q == O[i]
            p == P[i]
<1>1. q.price \in Nat /\ q.remaining \in Nat
  BY OrderTyped DEF Fits
<1>2. p.account = q.account /\ p.side = q.side /\ p.price = q.price /\ p.remaining = q.remaining - n
      /\ (Live(p) <=> q.remaining # n)
  BY DEF AfterFill, Live
<1>3. q.price * n \in Nat /\ q.price * q.remaining \in Nat
      /\ q.price * (q.remaining - n) = q.price * q.remaining - q.price * n
  BY <1>1
<1>4. q.remaining = n => q.price * q.remaining - q.price * n = 0
  BY <1>3
<1>5. CASE m = i
  <2>1. /\ LockFor(P, t, m) = IF q.account = t /\ q.side = "bid" /\ q.remaining # n
                              THEN q.price * (q.remaining - n) ELSE 0
        /\ LockFor(O, t, m) = IF q.account = t /\ q.side = "bid" THEN q.price * q.remaining ELSE 0
        /\ Used(O[i], i, n, t, m) = IF q.account = t /\ q.side = "bid" THEN q.price * n ELSE 0
    BY <1>2, <1>5 DEF LockFor, Used
  <2>. DEFINE u == q.price * n
              v == q.price * q.remaining
              w == q.price * (q.remaining - n)
  <2>2. u \in Nat /\ v \in Nat /\ w = v - u /\ (q.remaining = n => v - u = 0)
    BY <1>3, <1>4
  <2>. HIDE DEF u, v, w
  <2>3. /\ LockFor(P, t, m) = IF q.account = t /\ q.side = "bid" /\ q.remaining # n THEN w ELSE 0
        /\ LockFor(O, t, m) = IF q.account = t /\ q.side = "bid" THEN v ELSE 0
        /\ Used(O[i], i, n, t, m) = IF q.account = t /\ q.side = "bid" THEN u ELSE 0
    BY <2>1 DEF u, v, w
  <2>. HIDE DEF q
  <2>. QED BY <2>2, <2>3
<1>6. CASE m # i
  <2>1. Used(O[i], i, n, t, m) = 0
    BY <1>6 DEF Used
  <2>2. LockFor(P, t, m) = LockFor(O, t, m)
    BY <1>6 DEF LockFor
  <2>3. LockFor(O, t, m) \in Nat
    BY LockForTyped
  <2>. QED BY <1>6, <2>1, <2>2, <2>3
<1>. QED BY <1>5, <1>6

Filled(d, i, j, n) == Advanced(Advanced(d.orders, i, n), j, n)

\* e is what a fill of n makes of the orders and shares of d.
Trades(e, d, i, j, n) ==
  /\ DOMAIN e.orders = DOMAIN d.orders
  /\ AfterFill(e.orders[i], d.orders[i], n) /\ AfterFill(e.orders[j], d.orders[j], n)
  /\ \A m \in DOMAIN d.orders : m # i /\ m # j => e.orders[m] = d.orders[m]
  /\ Covered(e.orders, e.shares) /\ AllIssued(e.shares, e.sets)
  /\ e.sets = d.sets + SetsGain(d.orders, i, j, n)

\* The orders and shares of a fill: the taker's step, then the maker's.
LEMMA FillAdvances ==
  ASSUME NEW d, Covered(d.orders, d.shares), AllIssued(d.shares, d.sets), NEW i, NEW j,
         Trading(d.orders, i, j), NEW n \in Nat, n > 0,
         n <= d.orders[i].remaining, n <= d.orders[j].remaining
  PROVE  /\ Trades(Fill(d, i, j, n), d, i, j, n)
         /\ Fill(d, i, j, n).orders = Filled(d, i, j, n)
         /\ d.orders[i].side = "ask" /\ d.orders[j].side = "ask" => n <= d.sets
<1>. DEFINE O == d.orders
            e == Fill(d, i, j, n)
            P == Advanced(O, i, n)
            S == AddPosition(d.shares, O[i], n)
            Q == Advanced(P, j, n)
            T == AddPosition(S, P[j], n)
            gain == SetsGain(O, i, j, n)
<1>1. i \in DOMAIN O /\ j \in DOMAIN O /\ i # j /\ Live(O[i]) /\ Live(O[j])
      /\ O[i].side \in Sides /\ O[j].side \in Sides
      /\ O[i].outcome \in BookOutcomes /\ O[j].outcome \in BookOutcomes
  BY OrderTyped DEF Trading, Fits
<1>2. /\ Covered(P, S) /\ DOMAIN P = DOMAIN O /\ AfterFill(P[i], O[i], n)
      /\ \A m \in DOMAIN O : m # i => P[m] = O[m]
      /\ \A o \in BookOutcomes :
           SumFunction(IssuedOf(S, o)) =
             SumFunction(IssuedOf(d.shares, o)) + IF o = O[i].outcome THEN Signed(O[i], n) ELSE 0
  BY <1>1, AdvanceKeeps
<1>3. P[j] = O[j]
  BY <1>1, <1>2
<1>4. e.orders = Q /\ e.shares = AddPosition(S, O[j], n) /\ e.sets = SetsAfter(d, i, j, n)
  BY <1>1 DEF Fill, Advanced, Replaced
<1>. HIDE DEF P, S, e
<1>5. /\ Covered(Q, T) /\ DOMAIN Q = DOMAIN P /\ AfterFill(Q[j], P[j], n)
      /\ \A m \in DOMAIN P : m # j => Q[m] = P[m]
      /\ \A o \in BookOutcomes :
           SumFunction(IssuedOf(T, o)) =
             SumFunction(IssuedOf(S, o)) + IF o = P[j].outcome THEN Signed(P[j], n) ELSE 0
  <2>1. j \in DOMAIN P /\ Live(P[j]) /\ n <= P[j].remaining
    BY <1>1, <1>2, <1>3
  <2>. QED BY <1>2, <2>1, AdvanceKeeps
<1>. HIDE DEF Q, T
<1>6. e.shares = T
  BY <1>3, <1>4 DEF T
<1>7. /\ O[i].side # O[j].side => O[i].outcome = O[j].outcome
      /\ O[i].side = O[j].side => O[i].outcome # O[j].outcome
  BY TradePrices
<1>8. SetsAfter(d, i, j, n) = d.sets + gain /\ gain \in Int /\ d.sets \in Nat
  <2>1. d.sets \in Nat
    BY DEF AllIssued
  <2>2. CASE O[i].side = "bid" /\ O[j].side = "bid"
    BY <2>1, <2>2 DEF SetsAfter, SetsGain, Signed
  <2>3. CASE O[i].side = "ask" /\ O[j].side = "ask"
    <3>1. {O[i].side, O[j].side} = {"ask"}
      BY <2>3
    <3>2. SetsAfter(d, i, j, n) = d.sets - n
      BY <3>1 DEF SetsAfter
    <3>3. gain = -n
      BY <2>3 DEF SetsGain, Signed
    <3>. QED BY <2>1, <3>2, <3>3
  <2>4. CASE O[i].side # O[j].side
    <3>1. {O[i].side, O[j].side} # {"ask"} /\ {O[i].side, O[j].side} # {"bid"}
      BY <2>4
    <3>2. SetsAfter(d, i, j, n) = d.sets
      BY <3>1 DEF SetsAfter
    <3>3. gain = 0
      BY <2>4 DEF SetsGain
    <3>. QED BY <2>1, <3>2, <3>3
  <2>. QED BY <1>1, <2>2, <2>3, <2>4 DEF Sides
<1>9. ASSUME NEW o \in BookOutcomes
      PROVE  /\ SumFunction(IssuedOf(T, o)) = d.sets + gain
             /\ SumFunction(IssuedOf(T, o)) \in Nat /\ SumFunction(IssuedOf(S, o)) \in Nat
  <2>1. SumFunction(IssuedOf(T, o)) \in Nat /\ SumFunction(IssuedOf(S, o)) \in Nat
    BY <1>2, <1>5, IssuedTyped DEF Covered
  <2>2. SumFunction(IssuedOf(d.shares, o)) = d.sets
    BY DEF AllIssued
  <2>3. /\ SumFunction(IssuedOf(S, o)) = d.sets + IF o = O[i].outcome THEN Signed(O[i], n) ELSE 0
        /\ SumFunction(IssuedOf(T, o)) =
             SumFunction(IssuedOf(S, o)) + IF o = O[j].outcome THEN Signed(O[j], n) ELSE 0
    BY <1>2, <1>3, <1>5, <2>2
  <2>4. Signed(O[i], n) \in Int /\ Signed(O[j], n) \in Int
        /\ (O[i].side # O[j].side => Signed(O[i], n) + Signed(O[j], n) = 0)
        /\ (O[i].side = O[j].side => Signed(O[i], n) = Signed(O[j], n))
        /\ gain = IF O[i].side = O[j].side THEN Signed(O[i], n) ELSE 0
    BY <1>1 DEF Signed, Sides, SetsGain
  <2>. HIDE DEF gain
  <2>5. O[i].side = O[j].side => o = O[i].outcome \/ o = O[j].outcome
    BY <1>1, <1>7 DEF BookOutcomes
  <2>6. CASE O[i].side = O[j].side
    BY <1>7, <1>8, <2>1, <2>3, <2>4, <2>5, <2>6
  <2>7. CASE O[i].side # O[j].side
    BY <1>7, <1>8, <2>1, <2>3, <2>4, <2>7
  <2>. QED BY <2>1, <2>6, <2>7
<1>10. AllIssued(T, d.sets + gain)
  <2>1. "yes" \in BookOutcomes
    BY DEF BookOutcomes
  <2>2. d.sets + gain \in Nat
    BY <1>9, <2>1
  <2>. QED BY <1>9, <2>2 DEF AllIssued
<1>11. O[i].side = "ask" /\ O[j].side = "ask" => n <= d.sets
  <2>1. SumFunction(IssuedOf(S, O[i].outcome)) = d.sets + Signed(O[i], n)
        /\ SumFunction(IssuedOf(S, O[i].outcome)) \in Nat
    BY <1>1, <1>2, <1>9 DEF AllIssued
  <2>2. O[i].side = "ask" => Signed(O[i], n) = -n
    BY DEF Signed
  <2>. QED BY <1>8, <2>1, <2>2
<1>12. AfterFill(Q[i], O[i], n) /\ AfterFill(Q[j], O[j], n)
       /\ \A m \in DOMAIN O : m # i /\ m # j => Q[m] = O[m]
  BY <1>1, <1>2, <1>3, <1>5
<1>13. Trades(e, d, i, j, n)
  BY <1>2, <1>4, <1>5, <1>6, <1>8, <1>10, <1>12 DEF Trades
<1>. QED BY <1>4, <1>11, <1>13 DEF e, Filled, P, Q

\* One fill: money, orders, shares and sets still stand for each other.
LEMMA FillKeeps ==
  ASSUME NEW d, Custody(d), NEW i, NEW j, Trading(d.orders, i, j), NEW n \in Nat, n > 0,
         n <= d.orders[i].remaining, n <= d.orders[j].remaining
  PROVE  /\ Custody(Fill(d, i, j, n))
         /\ TradeOK(Fill(d, i, j, n).ledger, d.ledger, d.orders, i, j, n)
         /\ Trades(Fill(d, i, j, n), d, i, j, n)
<1>. DEFINE e == Fill(d, i, j, n)
            O == d.orders
            L == d.ledger
            N == e.ledger
            P == e.orders
            gain == SetsGain(O, i, j, n)
<1>1. /\ Sound(L) /\ O \in OrderBooks /\ Covered(O, d.shares) /\ AllIssued(d.shares, d.sets)
      /\ i \in DOMAIN O /\ j \in DOMAIN O /\ i # j /\ i \in OrderIds /\ j \in OrderIds
      /\ Fits(O[i]) /\ Fits(O[j]) /\ Live(O[i]) /\ Live(O[j])
      /\ O[i] \in Order /\ O[j] \in Order
  <2>1. O \in OrderBooks
    BY DEF Custody, Covered
  <2>. QED BY <2>1, BookFinite DEF Custody, Held, Trading, Fits
<1>2. /\ P = Filled(d, i, j, n) /\ DOMAIN P = DOMAIN O
      /\ AfterFill(P[i], O[i], n) /\ AfterFill(P[j], O[j], n)
      /\ \A m \in DOMAIN O : m # i /\ m # j => P[m] = O[m]
      /\ Covered(P, e.shares) /\ AllIssued(e.shares, e.sets) /\ e.sets = d.sets + gain
      /\ O[i].side = "ask" /\ O[j].side = "ask" => n <= d.sets
  <2>1. /\ Trades(e, d, i, j, n) /\ P = Filled(d, i, j, n)
        /\ O[i].side = "ask" /\ O[j].side = "ask" => n <= d.sets
    BY <1>1, FillAdvances
  <2>. HIDE DEF e
  <2>. QED BY <2>1 DEF Trades
<1>3. One \in Nat /\ d.sets \in Nat /\ gain \in Int /\ e.sets \in Nat
  <2>1. gain \in Int
    BY <1>1 DEF SetsGain, Signed
  <2>. HIDE DEF e, gain
  <2>. QED BY <1>1, <1>2, <2>1, ConstantsOK DEF AllIssued
<1>4. ASSUME NEW m \in {i, j} PROVE Backed(L, O, m, n)
  <2>1. CASE O[m].side = "bid"
    <3>1. /\ O[m].account \in Traders /\ O[m].price \in Nat /\ O[m].remaining \in Nat
          /\ m \in OrderIds /\ m \in DOMAIN O /\ Live(O[m]) /\ n <= O[m].remaining
      BY <1>1, OrderTyped
    <3>2. L.locks[O[m].account][OrderLock(m)] = O[m].price * O[m].remaining
      BY <2>1, <3>1 DEF Custody, Held, LockFor
    <3>3. O[m].price * n <= O[m].price * O[m].remaining
      BY <3>1, Multiples
    <3>. QED BY <3>2, <3>3 DEF Backed
  <2>. QED BY <2>1 DEF Backed
<1>5. O[i].side = "ask" /\ O[j].side = "ask" => One * n <= L.locks[Escrow][EscrowLock]
  <2>1. L.locks[Escrow][EscrowLock] = One * d.sets
    BY DEF Custody, Held
  <2>. QED BY <1>2, <1>3, <2>1, Multiples
<1>6. N = MoveMoney(d, i, j, n)
  BY DEF Fill
<1>7. TradeOK(N, L, O, i, j, n)
  BY <1>1, <1>4, <1>5, <1>6, MoneyMoves
<1>. HIDE DEF e, gain
<1>8. \A a \in Parties : N.available[a] >= 0
  <2>1. ASSUME NEW t \in Traders PROVE N.available[t] >= 0
    <3>1. t \in Parties /\ L.available[t] \in Int /\ L.available[t] >= 0 /\ N.available[t] \in Int
      BY <1>1, <1>7, ConstantsOK, SoundEntries DEF Custody, Held, TradeOK
    <3>. QED BY <1>7, <3>1 DEF TradeOK
  <2>2. N.available[Escrow] >= 0
    BY <1>7 DEF TradeOK, Custody, Held
  <2>. QED BY <2>1, <2>2 DEF Parties
<1>9. ASSUME NEW t \in Traders, NEW m \in OrderIds
      PROVE  N.locks[t][OrderLock(m)] = LockFor(P, t, m)
  <2>. DEFINE M == Advanced(O, i, n)
  <2>1. /\ M \in OrderBooks /\ DOMAIN M = DOMAIN O /\ AfterFill(M[i], O[i], n)
        /\ \A k \in DOMAIN O : k # i => M[k] = O[k]
    BY <1>1, AdvanceKeeps DEF Trading, Covered
  <2>. HIDE DEF M
  <2>2. LockFor(M, t, m) = LockFor(O, t, m) - Used(O[i], i, n, t, m)
    BY <1>1, <2>1, LockForMoves
  <2>3. /\ DOMAIN P = DOMAIN M /\ AfterFill(P[j], M[j], n) /\ M[j] = O[j]
        /\ \A k \in DOMAIN M : k # j => P[k] = M[k]
    <3>1. P = Advanced(M, j, n)
      BY <1>2 DEF Filled, M
    <3>2. M[j] = O[j]
      BY <1>1, <2>1
    <3>3. \A k \in DOMAIN M : k # j => P[k] = M[k]
      BY <3>1 DEF Advanced, Replaced
    <3>. QED BY <1>2, <2>1, <3>2, <3>3
  <2>4. LockFor(P, t, m) = LockFor(M, t, m) - Used(O[j], j, n, t, m)
    <3>1. j \in DOMAIN M /\ Fits(M[j]) /\ Live(M[j]) /\ n <= M[j].remaining
      BY <1>1, <2>1, <2>3
    <3>2. LockFor(P, t, m) = LockFor(M, t, m) - Used(M[j], j, n, t, m)
      BY <2>1, <2>3, <3>1, LockForMoves
    <3>. QED BY <2>3, <3>2
  <2>5. N.locks[t][OrderLock(m)] = LockFor(O, t, m) - Used(O[i], i, n, t, m) - Used(O[j], j, n, t, m)
    BY <1>7 DEF TradeOK, Custody, Held
  <2>. QED BY <2>2, <2>4, <2>5
<1>10. \A m \in OrderIds : N.locks[Escrow][OrderLock(m)] = 0
  BY <1>7 DEF TradeOK, Custody, Held
<1>11. N.locks[Escrow][EscrowLock] = One * e.sets
  <2>1. N.locks[Escrow][EscrowLock] = One * d.sets + One * gain
    BY <1>7 DEF TradeOK, Custody, Held, gain
  <2>. QED BY <1>2, <1>3, <2>1, Multiples
<1>12. N.available[Escrow] = 0 /\ Sound(N)
  BY <1>7 DEF TradeOK, Custody, Held
<1>13. Held(N, P, e.sets)
  BY <1>8, <1>9, <1>10, <1>11, <1>12 DEF Held
<1>14. Custody(e)
  BY <1>2, <1>13 DEF Custody
<1>15. Trades(e, d, i, j, n)
  BY <1>2 DEF Trades, gain
<1>. QED BY <1>7, <1>14, <1>15 DEF e

-----------------------------------------------------------------------------
(* The queue: makers of one side are totally ordered, so there is a best    *)

LEMMA AheadOrders ==
  ASSUME NEW O \in OrderBooks, NEW i \in DOMAIN O, NEW j \in DOMAIN O, NEW k \in DOMAIN O,
         IsBid(O[i]) = IsBid(O[j]), IsBid(O[j]) = IsBid(O[k])
  PROVE  /\ i # j => Ahead(O, i, j) \/ Ahead(O, j, i)
         /\ ~ (Ahead(O, i, j) /\ Ahead(O, j, i))
         /\ Ahead(O, i, j) /\ Ahead(O, j, k) => Ahead(O, i, k)
<1>. DEFINE p == YesPrice(O[i])
            q == YesPrice(O[j])
            r == YesPrice(O[k])
<1>1. i \in Int /\ j \in Int /\ k \in Int /\ p \in Int /\ q \in Int /\ r \in Int
  BY BookFinite, OrderTyped, ConstantsOK
<1>. HIDE DEF p, q, r
<1>2. CASE IsBid(O[i])
  <2>1. /\ Ahead(O, i, j) <=> p > q \/ (p = q /\ i < j)
        /\ Ahead(O, j, i) <=> q > p \/ (p = q /\ j < i)
        /\ Ahead(O, j, k) <=> q > r \/ (q = r /\ j < k)
        /\ Ahead(O, i, k) <=> p > r \/ (p = r /\ i < k)
    BY <1>2 DEF Ahead, p, q, r
  <2>. QED BY <1>1, <2>1
<1>3. CASE ~ IsBid(O[i])
  <2>1. /\ Ahead(O, i, j) <=> p < q \/ (p = q /\ i < j)
        /\ Ahead(O, j, i) <=> q < p \/ (p = q /\ j < i)
        /\ Ahead(O, j, k) <=> q < r \/ (q = r /\ j < k)
        /\ Ahead(O, i, k) <=> p < r \/ (p = r /\ i < k)
    BY <1>3 DEF Ahead, p, q, r
  <2>. QED BY <1>1, <2>1
<1>. QED BY <1>2, <1>3

LEMMA MakersOK ==
  ASSUME NEW O \in OrderBooks, NEW i \in DOMAIN O
  PROVE  /\ Makers(O, i) \subseteq DOMAIN O \ {i} /\ IsFiniteSet(Makers(O, i))
         /\ \A j \in Makers(O, i) : Live(O[j]) /\ IsBid(O[j]) # IsBid(O[i])
         /\ \A j, k \in Makers(O, i) : IsBid(O[j]) = IsBid(O[k])
<1>1. Makers(O, i) \subseteq DOMAIN O \ {i}
      /\ \A j \in Makers(O, i) : Live(O[j]) /\ IsBid(O[j]) # IsBid(O[i])
  BY DEF Makers
<1>2. IsFiniteSet(Makers(O, i))
  <2>1. IsFiniteSet(DOMAIN O) /\ Makers(O, i) \in SUBSET DOMAIN O
    BY <1>1, BookFinite
  <2>. QED BY <2>1, FS_Subset
<1>3. \A j : IsBid(O[j]) \in BOOLEAN
  BY DEF IsBid
<1>. QED BY <1>1, <1>2, <1>3

LEMMA BestIs ==
  ASSUME NEW O \in OrderBooks, NEW i \in DOMAIN O, Makers(O, i) # {}
  PROVE  /\ Best(O, i) \in Makers(O, i)
         /\ \A j \in Makers(O, i) : j # Best(O, i) => Ahead(O, Best(O, i), j)
<1>. DEFINE M == Makers(O, i)
            First(s) == \E x \in s : \A y \in s \ {x} : Ahead(O, x, y)
            T == {s \in SUBSET M : s # {} /\ ~ First(s)}
<1>1. /\ M \subseteq DOMAIN O /\ IsFiniteSet(M)
      /\ \A j, k \in M : IsBid(O[j]) = IsBid(O[k])
  BY MakersOK
<1>. HIDE DEF M
<1>2. T = {}
  <2>. SUFFICES ASSUME T # {} PROVE FALSE
    OBVIOUS
  <2>1. PICK s \in T : \A y \in T : y \subseteq s => y = s
    <3>1. T \in SUBSET SUBSET M
      OBVIOUS
    <3>. HIDE DEF T
    <3>. QED BY <1>1, <3>1, MinimalSubset
  <2>2. PICK x \in s : x \in M
    BY <2>1
  <2>3. s \ {x} # {}
    <3>1. s # {x}
      BY <2>1
    <3>. QED BY <2>2, <3>1
  <2>4. s \ {x} \notin T
    <3>1. s \ {x} # s
      BY <2>2
    <3>. HIDE DEF T
    <3>. QED BY <2>1, <3>1
  <2>5. PICK y \in s \ {x} : \A z \in (s \ {x}) \ {y} : Ahead(O, y, z)
    BY <2>1, <2>3, <2>4
  <2>6. y \in M /\ x # y /\ s \subseteq M
    BY <2>1, <2>5
  <2>7. CASE Ahead(O, y, x)
    <3>1. \A z \in s \ {y} : Ahead(O, y, z)
      BY <2>5, <2>7
    <3>. QED BY <2>1, <2>5, <3>1
  <2>8. CASE Ahead(O, x, y)
    <3>1. ASSUME NEW z \in s \ {x} PROVE Ahead(O, x, z)
      <4>1. CASE z = y
        BY <2>8, <4>1
      <4>2. CASE z # y
        <5>1. Ahead(O, y, z) /\ z \in M
          BY <2>5, <2>6, <4>2
        <5>. QED BY <1>1, <2>2, <2>6, <2>8, <5>1, AheadOrders
      <4>. QED BY <4>1, <4>2
    <3>. QED BY <2>1, <2>2, <3>1
  <2>9. Ahead(O, x, y) \/ Ahead(O, y, x)
    <3>1. x \in DOMAIN O /\ y \in DOMAIN O /\ IsBid(O[x]) = IsBid(O[y])
      BY <1>1, <2>2, <2>6
    <3>. QED BY <2>6, <3>1, AheadOrders
  <2>. QED BY <2>7, <2>8, <2>9
<1>3. First(M)
  BY <1>2 DEF M
<1>. QED BY <1>3 DEF Best, M

-----------------------------------------------------------------------------
(* Matching: from the desk b that order k came to, to the desk d            *)

\* What the orders of t were filled for at their own prices, order by order.
Worth(p, q, t) == Gain(q, q.price * (q.remaining - p.remaining), t)
ValueOf(P, O, t) == [i \in DOMAIN O |-> Worth(P[i], O[i], t)]
Value(P, O, t) == SumFunction(ValueOf(P, O, t))

SameOrder(p, q) ==
  /\ p.account = q.account /\ p.side = q.side /\ p.outcome = q.outcome
  /\ p.price = q.price /\ p.size = q.size

\* What may have become of order i since b.
Progressed(b, d, k, i) ==
  /\ SameOrder(d.orders[i], b.orders[i])
  /\ d.orders[i].remaining <= b.orders[i].remaining
  /\ \/ d.orders[i] = b.orders[i]
     \/ /\ Live(b.orders[i]) /\ d.orders[i].status \in {"partial", "filled"}
        /\ i = k \/ IsBid(b.orders[i]) # IsBid(b.orders[k])

\* Who is ahead of a filled order is filled.
InTurn(b, d, k) ==
  \A i, j \in DOMAIN b.orders \ {k} :
    /\ d.orders[i].remaining < b.orders[i].remaining
    /\ Live(b.orders[j]) /\ IsBid(b.orders[i]) = IsBid(b.orders[j]) /\ Ahead(b.orders, j, i)
    => d.orders[j].status = "filled"

WithinLimits(b, d) ==
  \A t \in Traders : Wealth(d.ledger, t) >= Wealth(b.ledger, t) + Value(d.orders, b.orders, t)

Followed(b, d, k) ==
  /\ Custody(d) /\ DOMAIN d.orders = DOMAIN b.orders
  /\ Credits(d.ledger) = Credits(b.ledger)
  /\ \A i \in DOMAIN b.orders : Progressed(b, d, k, i)
  /\ InTurn(b, d, k) /\ WithinLimits(b, d)

\* The taker is done, or there is another maker less for each round.
Ending(d, k, s) ==
  \/ d.orders[k].remaining = 0
  \/ Makers(d.orders, k) = {}
  \/ Cardinality(Makers(d.orders, k)) + Cardinality(s) < k

LEMMA GainTyped ==
  ASSUME NEW q, NEW c \in Int, NEW t
  PROVE  Gain(q, c, t) \in Int
BY DEF Gain, Signed

LEMMA ValueTyped ==
  ASSUME NEW O \in OrderBooks, NEW P \in OrderBooks, DOMAIN P = DOMAIN O, NEW t
  PROVE  /\ ValueOf(P, O, t) \in [DOMAIN O -> Int] /\ Value(P, O, t) \in Int
         /\ \A i \in DOMAIN O : ValueOf(P, O, t)[i] = Worth(P[i], O[i], t)
<1>1. ASSUME NEW i \in DOMAIN O PROVE Worth(P[i], O[i], t) \in Int
  <2>1. O[i].price \in Nat /\ O[i].remaining \in Nat /\ P[i].remaining \in Nat
    BY BookFinite, OrderTyped
  <2>2. O[i].price * (O[i].remaining - P[i].remaining) \in Int
    BY <2>1
  <2>. QED BY <2>2, GainTyped DEF Worth
<1>2. ValueOf(P, O, t) \in [DOMAIN O -> Int] /\ DOMAIN ValueOf(P, O, t) = DOMAIN O
  BY <1>1 DEF ValueOf
<1>3. IsFiniteSet(DOMAIN O)
  BY BookFinite
<1>. DEFINE f == ValueOf(P, O, t)
            S == DOMAIN O
<1>4. SumFunctionOnSet(f, S) \in Int
  <2>. HIDE DEF f, S
  <2>. QED BY <1>2, <1>3, SumRemove DEF f, S
<1>. QED BY <1>2, <1>4 DEF SumFunction, Value, ValueOf

\* Order i trades n more.
LEMMA ValueMoves ==
  ASSUME NEW O \in OrderBooks, NEW P \in OrderBooks, NEW Q \in OrderBooks,
         DOMAIN P = DOMAIN O, DOMAIN Q = DOMAIN O, NEW i \in DOMAIN O, NEW n \in Nat,
         Q[i].remaining = P[i].remaining - n,
         \A m \in DOMAIN O : m # i => Q[m].remaining = P[m].remaining, NEW t
  PROVE  Value(Q, O, t) = Value(P, O, t) + Gain(O[i], O[i].price * n, t)
<1>. DEFINE f == ValueOf(P, O, t)
            g == ValueOf(Q, O, t)
            q == O[i]
            v == g[i]
            S == DOMAIN O
<1>1. /\ f \in [S -> Int] /\ g \in [S -> Int] /\ IsFiniteSet(S) /\ i \in S
      /\ \A m \in S : f[m] = Worth(P[m], O[m], t) /\ g[m] = Worth(Q[m], O[m], t)
  BY ValueTyped, BookFinite
<1>2. v = f[i] + Gain(q, q.price * n, t) /\ Gain(q, q.price * n, t) \in Int
  <2>1. q.price \in Nat /\ q.remaining \in Nat /\ P[i].remaining \in Nat
    BY BookFinite, OrderTyped
  <2>. DEFINE x == q.price * (q.remaining - P[i].remaining)
              y == q.price * n
              z == q.price * (q.remaining - (P[i].remaining - n))
  <2>2. x \in Int /\ y \in Int /\ z = x + y
    <3>1. q.remaining - (P[i].remaining - n) = (q.remaining - P[i].remaining) + n
      BY <2>1
    <3>. QED BY <2>1, <3>1, Multiples
  <2>3. f[i] = Gain(q, x, t) /\ v = Gain(q, z, t)
    BY <1>1 DEF Worth
  <2>. HIDE DEF x, y, z, v, f, q
  <2>4. Gain(q, z, t) = Gain(q, x, t) + Gain(q, y, t) /\ Gain(q, y, t) \in Int
    BY <2>2 DEF Gain, Signed
  <2>. QED BY <2>3, <2>4 DEF y
<1>3. \A m \in S : m # i => g[m] = f[m]
  BY <1>1 DEF Worth
<1>. HIDE DEF f, g, S, q
<1>4. g = [f EXCEPT ![i] = v]
  BY <1>1, <1>3
<1>. HIDE DEF v
<1>5. SumFunction(f) \in Int /\ SumFunction([f EXCEPT ![i] = v]) = SumFunction(f) + v - f[i]
  <2>1. v \in Int /\ f[i] \in Int
    BY <1>1, <1>2
  <2>. QED BY <1>1, <2>1, SumExcept
<1>6. f[i] \in Int
  BY <1>1
<1>. QED BY <1>2, <1>4, <1>5, <1>6 DEF Value, f, g, q

LEMMA SameAxis ==
  ASSUME NEW p, NEW q, SameOrder(p, q)
  PROVE  (IsBid(p) <=> IsBid(q)) /\ YesPrice(p) = YesPrice(q) /\ IsBid(p) = IsBid(q)
BY DEF SameOrder, IsBid, YesPrice

LEMMA MinOfTwo ==
  ASSUME NEW x \in Nat, NEW y \in Nat
  PROVE  LET m == Min({x, y}) IN m \in Nat /\ m <= x /\ m <= y /\ m \in {x, y}
<1>1. \E m \in {x, y} : \A z \in {x, y} : m <= z
  OBVIOUS
<1>. QED BY <1>1 DEF Min

\* What a round starts from: someone to trade with.
LEMMA RoundTrades ==
  ASSUME NEW b, b.orders \in OrderBooks, NEW k \in DOMAIN b.orders, Live(b.orders[k]),
         NEW d, Followed(b, d, k), d.orders[k].remaining # 0, Makers(d.orders, k) # {}
  PROVE  LET j == Best(d.orders, k)
             n == Min({d.orders[k].remaining, d.orders[j].remaining})
         IN  /\ FillBest(d, k) = Fill(d, k, j, n) /\ Trading(d.orders, k, j)
             /\ n \in Nat /\ n > 0 /\ n <= d.orders[k].remaining /\ n <= d.orders[j].remaining
             /\ n = d.orders[k].remaining \/ n = d.orders[j].remaining
             /\ \A m \in Makers(d.orders, k) : m # j => Ahead(d.orders, j, m)
<1>. DEFINE O == d.orders
            j == Best(O, k)
            n == Min({O[k].remaining, O[j].remaining})
<1>1. /\ O \in OrderBooks /\ k \in DOMAIN O /\ \A m \in DOMAIN O : Fits(O[m])
  BY DEF Followed, Custody, Covered
<1>2. Live(O[k])
  <2>1. Progressed(b, d, k, k) /\ Fits(O[k])
    BY <1>1 DEF Followed
  <2>. QED BY <2>1 DEF Progressed, Fits, Live
<1>3. j \in Makers(O, k) /\ \A m \in Makers(O, k) : m # j => Ahead(O, j, m)
  BY <1>1, BestIs
<1>4. FillBest(d, k) = Fill(d, k, j, n)
  BY DEF FillBest
<1>. HIDE DEF j
<1>5. Trading(O, k, j)
  BY <1>1, <1>2, <1>3, MakersTrade DEF MakerTakes
<1>6. O[k].remaining \in Nat /\ O[j].remaining \in Nat /\ O[j].remaining > 0
  BY <1>5, OrderTyped DEF Trading, Fits
<1>7. n \in Nat /\ n <= O[k].remaining /\ n <= O[j].remaining /\ n \in {O[k].remaining, O[j].remaining}
  BY <1>6, MinOfTwo
<1>. HIDE DEF n
<1>8. n > 0
  BY <1>6, <1>7
<1>. QED BY <1>3, <1>4, <1>5, <1>7, <1>8 DEF j, n

\* What a trade at the maker's price brings the owners is at least what the
\* orders ask for it.
LEMMA RoundWithinLimits ==
  ASSUME NEW b, b.orders \in OrderBooks, NEW k \in DOMAIN b.orders, NEW j \in DOMAIN b.orders,
         NEW d, Followed(b, d, k), Trading(d.orders, k, j), NEW n \in Nat, NEW e,
         TradeOK(e.ledger, d.ledger, d.orders, k, j, n), Trades(e, d, k, j, n), Sound(b.ledger)
  PROVE  WithinLimits(b, e)
<1>. DEFINE O == b.orders
            P == d.orders
            Q == e.orders
            M == [P EXCEPT ![k] = Q[k]]
<1>1. /\ P \in OrderBooks /\ Q \in OrderBooks /\ DOMAIN P = DOMAIN O /\ DOMAIN Q = DOMAIN O
      /\ SameOrder(P[k], O[k]) /\ SameOrder(P[j], O[j]) /\ k # j
      /\ Sound(d.ledger) /\ Sound(e.ledger)
  BY DEF Followed, Custody, Covered, Trades, Progressed, Trading, TradeOK, Held
<1>2. /\ M \in OrderBooks /\ DOMAIN M = DOMAIN O /\ M[k] = Q[k]
      /\ \A m \in DOMAIN O : m # k => M[m] = P[m]
  <2>1. P \in [DOMAIN O -> Order] /\ Q \in [DOMAIN O -> Order] /\ DOMAIN O \subseteq OrderIds
    BY <1>1, BookFinite
  <2>2. M \in [DOMAIN O -> Order] /\ DOMAIN M = DOMAIN O
    BY <2>1
  <2>3. M[k] = Q[k] /\ \A m \in DOMAIN O : m # k => M[m] = P[m]
    BY <1>1
  <2>. HIDE DEF M
  <2>. QED BY <2>1, <2>2, <2>3, OrderBooksOK
<1>3. /\ Q[k].remaining = P[k].remaining - n /\ Q[j].remaining = P[j].remaining - n
      /\ \A m \in DOMAIN O : m # k /\ m # j => Q[m] = P[m]
  BY <1>1 DEF Trades, AfterFill
<1>. HIDE DEF M, O, P, Q
<1>4. ASSUME NEW t \in Traders
      PROVE  Wealth(e.ledger, t) >= Wealth(b.ledger, t) + Value(Q, O, t)
  <2>. DEFINE x == Gain(O[k], O[k].price * n, t)
              y == Gain(O[j], O[j].price * n, t)
              c == Gain(P[k], Cost(P, k, j, k, n), t)
              f == Gain(P[j], Cost(P, k, j, j, n), t)
  <2>1. Value(M, O, t) = Value(P, O, t) + x
    <3>1. k \in DOMAIN O
      BY DEF O
    <3>2. O \in OrderBooks /\ P \in OrderBooks /\ M \in OrderBooks /\ DOMAIN P = DOMAIN O
          /\ DOMAIN M = DOMAIN O /\ M[k].remaining = P[k].remaining - n
          /\ \A m \in DOMAIN O : m # k => M[m].remaining = P[m].remaining
      BY <1>1, <1>2, <1>3 DEF O
    <3>. QED BY ONLY <3>1, <3>2, n \in Nat, ValueMoves
  <2>2. Value(Q, O, t) = Value(M, O, t) + y
    <3>1. j \in DOMAIN O /\ Q[j].remaining = M[j].remaining - n
      BY <1>1, <1>2, <1>3 DEF O
    <3>2. \A m \in DOMAIN O : m # j => Q[m].remaining = M[m].remaining
      BY <1>2, <1>3
    <3>3. O \in OrderBooks /\ M \in OrderBooks /\ Q \in OrderBooks /\ DOMAIN M = DOMAIN O
          /\ DOMAIN Q = DOMAIN O
      BY <1>1, <1>2 DEF O
    <3>. QED BY ONLY <3>1, <3>2, <3>3, n \in Nat, ValueMoves
  <2>3. x \in Int /\ y \in Int /\ c \in Int /\ f \in Int /\ c >= x /\ f >= y
    <3>1. /\ Cost(P, k, j, k, n) \in Nat /\ Cost(P, k, j, j, n) \in Nat
          /\ P[k].price * n \in Nat /\ P[j].price * n \in Nat
          /\ P[k].side = "bid" => Cost(P, k, j, k, n) <= P[k].price * n
          /\ P[k].side = "ask" => Cost(P, k, j, k, n) >= P[k].price * n
          /\ Cost(P, k, j, j, n) = P[j].price * n
      <4>1. Trading(P, k, j)
        BY DEF P
      <4>. HIDE DEF x, y, c, f
      <4>. QED BY ONLY <4>1, n \in Nat, TradeAmounts
    <3>2. P[k].side \in Sides
      BY OrderTyped DEF Trading, Fits, P
    <3>3. x = Gain(P[k], P[k].price * n, t) /\ y = Gain(P[j], P[j].price * n, t)
      BY <1>1 DEF SameOrder, Gain, Signed
    <3>. DEFINE u == P[k].price * n
                v == P[j].price * n
                w == Cost(P, k, j, k, n)
                z == Cost(P, k, j, j, n)
    <3>. HIDE DEF u, v, w, z, x, y
    <3>4. /\ u \in Int /\ v \in Int /\ w \in Int /\ z = v
          /\ (P[k].side = "bid" => w <= u) /\ (P[k].side = "ask" => w >= u)
          /\ x = Gain(P[k], u, t) /\ y = Gain(P[j], v, t)
          /\ c = Gain(P[k], w, t) /\ f = Gain(P[j], z, t)
      BY <3>1, <3>3 DEF u, v, w, z
    <3>. HIDE DEF c, f
    <3>5. c >= x
      BY <3>2, <3>4 DEF Gain, Signed, Sides
    <3>6. f = y
      BY <3>4
    <3>7. x \in Int /\ y \in Int /\ c \in Int
      BY <3>4, GainTyped
    <3>. QED BY <3>5, <3>6, <3>7
  <2>4. Wealth(e.ledger, t) = Wealth(d.ledger, t) + c + f
    BY DEF TradeOK, P
  <2>5. Wealth(d.ledger, t) >= Wealth(b.ledger, t) + Value(P, O, t)
    BY DEF Followed, WithinLimits, P, O
  <2>6. Wealth(d.ledger, t) \in Int /\ Wealth(b.ledger, t) \in Int
    <3>1. t \in Parties
      BY ConstantsOK
    <3>. QED BY <1>1, <3>1, SoundEntries DEF Wealth
  <2>7. Value(P, O, t) \in Int
    BY <1>1, ValueTyped DEF O
  <2>. HIDE DEF x, y, c, f
  <2>. QED BY <2>1, <2>2, <2>3, <2>4, <2>5, <2>6, <2>7
<1>. QED BY <1>4 DEF WithinLimits, Q, O

\* A live order ahead of a maker is a maker.
LEMMA AheadCrosses ==
  ASSUME NEW P \in OrderBooks, NEW k \in DOMAIN P, NEW j, Trading(P, k, j),
         NEW w \in DOMAIN P, w # k, Live(P[w]), IsBid(P[w]) = IsBid(P[j]), Ahead(P, w, j)
  PROVE  w \in Makers(P, k)
<1>1. /\ P[k] \in Order /\ P[j] \in Order /\ P[w] \in Order /\ IsBid(P[k]) # IsBid(P[j])
      /\ IF IsBid(P[k]) THEN Crosses(P[k], P[j]) ELSE Crosses(P[j], P[k])
  BY BookFinite DEF Trading, Fits
<1>2. YesPrice(P[k]) \in Int /\ YesPrice(P[j]) \in Int /\ YesPrice(P[w]) \in Int
  BY <1>1, OrderTyped
<1>3. IsBid(P[k]) \in BOOLEAN /\ IsBid(P[j]) \in BOOLEAN /\ IsBid(P[w]) \in BOOLEAN
  BY DEF IsBid
<1>4. IF IsBid(P[k]) THEN Crosses(P[k], P[w]) ELSE Crosses(P[w], P[k])
  <2>1. CASE IsBid(P[k])
    <3>1. ~ IsBid(P[w]) /\ YesPrice(P[k]) >= YesPrice(P[j])
      BY <1>1, <1>3, <2>1 DEF Crosses
    <3>2. YesPrice(P[w]) <= YesPrice(P[j])
      BY <1>2, <3>1 DEF Ahead
    <3>. QED BY <1>2, <2>1, <3>1, <3>2 DEF Crosses
  <2>2. CASE ~ IsBid(P[k])
    <3>1. IsBid(P[w]) /\ YesPrice(P[j]) >= YesPrice(P[k])
      BY <1>1, <1>3, <2>2 DEF Crosses
    <3>2. YesPrice(P[w]) >= YesPrice(P[j])
      BY <1>2, <3>1 DEF Ahead
    <3>. QED BY <1>2, <2>2, <3>1, <3>2 DEF Crosses
  <2>. QED BY <2>1, <2>2
<1>5. IsBid(P[w]) # IsBid(P[k])
  BY <1>1
<1>. QED BY <1>4, <1>5 DEF Makers

LEMMA AheadSame ==
  ASSUME NEW P, NEW O, NEW i, NEW j, SameOrder(P[i], O[i]), SameOrder(P[j], O[j])
  PROVE  Ahead(P, i, j) <=> Ahead(O, i, j)
<1>1. /\ IsBid(P[i]) <=> IsBid(O[i])
      /\ YesPrice(P[i]) = YesPrice(O[i]) /\ YesPrice(P[j]) = YesPrice(O[j])
  BY SameAxis
<1>. QED BY <1>1 DEF Ahead

\* A round keeps to the queue.
LEMMA RoundInTurn ==
  ASSUME NEW b, b.orders \in OrderBooks, NEW k \in DOMAIN b.orders, NEW j \in DOMAIN b.orders,
         NEW d, Followed(b, d, k), Trading(d.orders, k, j), NEW n \in Nat, NEW e,
         Trades(e, d, k, j, n),
         \A m \in Makers(d.orders, k) : m # j => Ahead(d.orders, j, m)
  PROVE  InTurn(b, e, k)
<1>. DEFINE O == b.orders
            P == d.orders
            Q == e.orders
<1>1. /\ P \in OrderBooks /\ DOMAIN P = DOMAIN O /\ DOMAIN Q = DOMAIN O /\ k # j
      /\ \A m \in DOMAIN O : m # k /\ m # j => Q[m] = P[m]
      /\ \A m \in DOMAIN O : Progressed(b, d, k, m) /\ SameOrder(P[m], O[m]) /\ Fits(P[m])
      /\ Live(P[j]) /\ O \in OrderBooks
  BY DEF Followed, Custody, Covered, Trades, Progressed, Trading
<1>2. SUFFICES ASSUME NEW u \in DOMAIN O \ {k}, NEW w \in DOMAIN O \ {k},
                      Q[u].remaining < O[u].remaining, Live(O[w]),
                      IsBid(O[u]) = IsBid(O[w]), Ahead(O, w, u)
               PROVE  Q[w].status = "filled"
  BY DEF InTurn
<1>3. CASE P[u].remaining < O[u].remaining
  <2>1. P[w].status = "filled"
    BY <1>2, <1>3 DEF Followed, InTurn
  <2>2. w # j
    BY <1>1, <2>1 DEF Live
  <2>. QED BY <1>1, <2>1, <2>2
<1>4. CASE ~ (P[u].remaining < O[u].remaining)
  <2>1. u = j
    BY <1>1, <1>2, <1>4
  <2>2. w # j
    <3>1. ~ Ahead(O, j, j)
      BY <1>1, AheadOrders
    <3>. QED BY <1>2, <2>1, <3>1
  <2>3. Q[w] = P[w]
    BY <1>1, <2>2
  <2>4. ~ Live(P[w])
    <3>1. SUFFICES ASSUME Live(P[w]) PROVE FALSE
      OBVIOUS
    <3>2. IsBid(P[w]) = IsBid(P[j])
      BY <1>1, <1>2, <2>1, SameAxis
    <3>3. Ahead(P, w, j)
      BY <1>1, <1>2, <2>1, AheadSame
    <3>4. w \in Makers(P, k)
      BY <1>1, <3>1, <3>2, <3>3, AheadCrosses
    <3>5. Ahead(P, j, w)
      BY <2>2, <3>4
    <3>. QED BY <1>1, <3>2, <3>3, <3>5, AheadOrders
  <2>5. P[w].status = "filled"
    <3>1. Progressed(b, d, k, w) /\ Live(O[w])
      BY <1>1, <1>2
    <3>. QED BY <2>4, <3>1 DEF Progressed, Live
  <2>. QED BY <2>3, <2>5
<1>. QED BY <1>3, <1>4

\* A round follows on, and unless the taker is done it leaves a maker less.
LEMMA RoundFollows ==
  ASSUME NEW b, b.orders \in OrderBooks, Sound(b.ledger), NEW k \in DOMAIN b.orders,
         Live(b.orders[k]), NEW d, Followed(b, d, k),
         d.orders[k].remaining # 0, Makers(d.orders, k) # {}
  PROVE  /\ Followed(b, FillBest(d, k), k)
         /\ \/ FillBest(d, k).orders[k].remaining = 0
            \/ \E j \in Makers(d.orders, k) :
                 Makers(FillBest(d, k).orders, k) \subseteq Makers(d.orders, k) \ {j}
<1>. DEFINE O == b.orders
            P == d.orders
            j == Best(P, k)
            n == Min({P[k].remaining, P[j].remaining})
            e == FillBest(d, k)
            Q == e.orders
<1>1. /\ e = Fill(d, k, j, n) /\ Trading(P, k, j)
      /\ n \in Nat /\ n > 0 /\ n <= P[k].remaining /\ n <= P[j].remaining
      /\ n = P[k].remaining \/ n = P[j].remaining
      /\ \A m \in Makers(P, k) : m # j => Ahead(P, j, m)
  BY RoundTrades
<1>2. j \in Makers(P, k)
  BY BestIs DEF Followed, Custody, Covered
<1>. HIDE DEF j, n, e
<1>3. /\ P \in OrderBooks /\ DOMAIN P = DOMAIN O /\ j \in DOMAIN O /\ k # j
      /\ \A m \in DOMAIN O : Progressed(b, d, k, m) /\ SameOrder(P[m], O[m])
      /\ Custody(d) /\ Credits(d.ledger) = Credits(b.ledger)
      /\ P[k].remaining \in Nat /\ P[j].remaining \in Nat
      /\ O[k].remaining \in Nat /\ O[j].remaining \in Nat
  <2>1. P \in OrderBooks /\ DOMAIN P = DOMAIN O /\ j \in DOMAIN O /\ k # j
    BY <1>1 DEF Followed, Custody, Covered, Trading
  <2>2. /\ P[k].remaining \in Nat /\ P[j].remaining \in Nat
        /\ O[k].remaining \in Nat /\ O[j].remaining \in Nat
    BY <2>1, BookFinite, OrderTyped
  <2>. QED BY <2>1, <2>2 DEF Followed, Progressed
<1>4. /\ Custody(e) /\ TradeOK(e.ledger, d.ledger, P, k, j, n) /\ Trades(e, d, k, j, n)
  BY <1>1, <1>3, FillKeeps
<1>5. /\ DOMAIN Q = DOMAIN P /\ AfterFill(Q[k], P[k], n) /\ AfterFill(Q[j], P[j], n)
      /\ \A m \in DOMAIN P : m # k /\ m # j => Q[m] = P[m]
  BY <1>4 DEF Trades
<1>6. IsBid(O[j]) # IsBid(O[k]) /\ IsBid(P[j]) # IsBid(P[k])
  BY <1>1, <1>3, SameAxis DEF Trading
<1>7. Live(O[j])
  BY <1>1, <1>3 DEF Trading, Progressed
<1>8. ASSUME NEW m \in DOMAIN O PROVE Progressed(b, e, k, m)
  <2>1. CASE m # k /\ m # j
    BY <1>3, <1>5, <2>1 DEF Progressed
  <2>2. CASE m \in {k, j}
    <3>1. AfterFill(Q[m], P[m], n) /\ SameOrder(P[m], O[m])
      BY <1>3, <1>5, <2>2
    <3>2. SameOrder(Q[m], O[m]) /\ Q[m].status \in {"partial", "filled"}
          /\ Q[m].remaining = P[m].remaining - n
      BY <3>1 DEF AfterFill, SameOrder
    <3>3. Q[m].remaining <= O[m].remaining
      <4>1. P[m].remaining <= O[m].remaining /\ P[m].remaining \in Nat /\ O[m].remaining \in Nat
        BY <1>3, <2>2 DEF Progressed
      <4>. QED BY <1>1, <3>2, <4>1
    <3>4. Live(O[m]) /\ (m = k \/ IsBid(O[m]) # IsBid(O[k]))
      BY <1>6, <1>7, <2>2
    <3>. QED BY <3>2, <3>3, <3>4 DEF Progressed
  <2>. QED BY <2>1, <2>2
<1>9. InTurn(b, e, k)
  BY <1>1, <1>3, <1>4, RoundInTurn
<1>10. WithinLimits(b, e)
  BY <1>1, <1>3, <1>4, RoundWithinLimits
<1>11. Credits(e.ledger) = Credits(b.ledger)
  BY <1>3, <1>4 DEF TradeOK
<1>12. Followed(b, e, k)
  BY <1>3, <1>4, <1>5, <1>8, <1>9, <1>10, <1>11 DEF Followed
<1>13. CASE n = P[k].remaining
  <2>1. Q[k].remaining = 0
    BY <1>3, <1>5, <1>13 DEF AfterFill
  <2>. QED BY <1>12, <2>1 DEF e
<1>14. CASE n = P[j].remaining
  <2>1. ~ Live(Q[j])
    BY <1>5, <1>14 DEF AfterFill, Live
  <2>2. ASSUME NEW m \in Makers(Q, k) PROVE m \in Makers(P, k) \ {j}
    <3>1. m # j /\ m # k /\ m \in DOMAIN Q
      BY <2>1 DEF Makers
    <3>2. Q[m] = P[m]
      BY <1>5, <3>1
    <3>3. IsBid(Q[k]) = IsBid(P[k]) /\ YesPrice(Q[k]) = YesPrice(P[k])
      BY <1>5 DEF AfterFill, IsBid, YesPrice
    <3>4. m \in Makers(P, k)
      BY <1>5, <3>1, <3>2, <3>3 DEF Makers, Crosses
    <3>. QED BY <3>1, <3>4
  <2>. QED BY <1>2, <1>12, <2>2 DEF e
<1>. QED BY <1>1, <1>13, <1>14

\* The recursion by which _match is folded over its rounds.
Round(k) == DOMAIN [i \in 1..k |-> i]
IsMatching(g, b, k) ==
  g = [s \in SUBSET Round(k) |-> IF s = {} THEN b ELSE FillBest(g[s \ {Max(s)}], k)]

\* The desks matching goes through, b being the first.
Desks(b, k) ==
  {d \in [ledger : Ledgers(Parties, LockKeys), orders : [DOMAIN b.orders -> Order],
          shares : Holdings, sets : Nat] : Followed(b, d, k)}

\* What matching begins with: the order k is the latest, and live.
Begins(b, k) ==
  /\ b \in Desks(b, k) /\ k \in OrderIds /\ DOMAIN b.orders = 1..k /\ Live(b.orders[k])

LEMMA BeginFacts ==
  ASSUME NEW b, NEW k, Begins(b, k)
  PROVE  /\ b.orders \in OrderBooks /\ Sound(b.ledger) /\ k \in DOMAIN b.orders
         /\ Live(b.orders[k]) /\ DOMAIN b.orders = 1..k /\ k \in Nat /\ k > 0
         /\ Round(k) = 1..k /\ IsFiniteSet(1..k) /\ Cardinality(1..k) = k
<1>1. k \in Nat /\ k > 0
  BY ConstantsOK DEF Begins
<1>2. IsFiniteSet(1..k) /\ Cardinality(1..k) = k
  BY <1>1, FS_Interval
<1>3. b.orders \in OrderBooks /\ Sound(b.ledger)
  BY DEF Begins, Desks, Followed, Custody, Covered, Held
<1>. QED BY <1>1, <1>2, <1>3 DEF Begins, Round

LEMMA RoundStays ==
  ASSUME NEW b, NEW k, Begins(b, k), NEW d \in Desks(b, k)
  PROVE  FillBest(d, k) \in Desks(b, k)
<1>. DEFINE e == FillBest(d, k)
<1>1. CASE d.orders[k].remaining = 0 \/ Makers(d.orders, k) = {}
  BY <1>1 DEF FillBest
<1>2. CASE ~ (d.orders[k].remaining = 0 \/ Makers(d.orders, k) = {})
  <2>1. Followed(b, d, k)
    BY DEF Desks
  <2>2. Followed(b, e, k)
    BY <1>2, <2>1, BeginFacts, RoundFollows
  <2>3. e = [ledger |-> e.ledger, orders |-> e.orders, shares |-> e.shares, sets |-> e.sets]
    <3>1. \E m, n : e = Fill(d, k, m, n)
      BY <1>2 DEF FillBest
    <3>2. PICK m, n : e = Fill(d, k, m, n)
      BY <3>1
    <3>. HIDE DEF e
    <3>. QED BY <3>2 DEF Fill
  <2>. HIDE DEF e
  <2>4. e.ledger \in Ledgers(Parties, LockKeys) /\ e.shares \in Holdings /\ e.sets \in Nat
        /\ e.orders \in OrderBooks /\ DOMAIN e.orders = DOMAIN b.orders
    BY <2>2 DEF Followed, Custody, Covered, Held, Sound, SoundLedger, AllIssued
  <2>5. e.orders \in [DOMAIN b.orders -> Order]
    BY <2>4, BookFinite
  <2>6. e \in [ledger : Ledgers(Parties, LockKeys), orders : [DOMAIN b.orders -> Order],
          shares : Holdings, sets : Nat]
    <3>. DEFINE L == e.ledger
                O == e.orders
                S == e.shares
                z == e.sets
                DD == DOMAIN b.orders
    <3>1. /\ e = [ledger |-> L, orders |-> O, shares |-> S, sets |-> z]
          /\ L \in Ledgers(Parties, LockKeys) /\ O \in [DD -> Order] /\ S \in Holdings /\ z \in Nat
      BY <2>3, <2>4, <2>5
    <3>. HIDE DEF L, O, S, z, DD
    <3>2. e \in [ledger : Ledgers(Parties, LockKeys), orders : [DD -> Order],
                 shares : Holdings, sets : Nat]
      BY ONLY <3>1
    <3>. QED BY <3>2 DEF DD
  <2>. QED BY <2>2, <2>6 DEF Desks, e
<1>. QED BY <1>1, <1>2

LEMMA MaxIn ==
  ASSUME NEW k \in Nat, NEW s \in SUBSET (1..k), s # {}
  PROVE  Max(s) \in s
<1>1. IsFiniteSet(1..k)
  BY FS_Interval
<1>2. IsFiniteSet(s) /\ s \subseteq Int
  <2>1. IsFiniteSet(s)
    BY <1>1, FS_Subset
  <2>2. s \subseteq Int
    OBVIOUS
  <2>. QED BY <2>1, <2>2
<1>3. \E x \in s : \A y \in s : x >= y
  BY <1>2, LargestMember
<1>. QED BY <1>3 DEF Max

LEMMA MatchingExists ==
  ASSUME NEW b, NEW k, Begins(b, k)
  PROVE  \E g : IsMatching(g, b, k)
<1>. DEFINE I == 1..k
            D == Desks(b, k)
            h == [p \in D \X I |-> FillBest(p[1], k)]
            c == [s \in SUBSET I |-> Max(s)]
<1>1. IsFiniteSet(I) /\ k \in Nat /\ Round(k) = I
  BY BeginFacts
<1>2. h \in Steps(D, I)
  BY RoundStays DEF Steps
<1>3. b \in D
  BY DEF Begins
<1>4. Picks(c, I)
  BY <1>1, MaxIn DEF Picks
<1>5. PICK g : FoldsInto(g, h, b, c, I, D)
  <2>. HIDE DEF D, h, c, I
  <2>. QED BY ONLY <1>1, <1>2, <1>3, <1>4, FoldInto
<1>6. \A s \in SUBSET I : g[s] = IF s = {} THEN b ELSE FillBest(g[s \ {Max(s)}], k)
  <2>1. ASSUME NEW s \in SUBSET I, s # {}
        PROVE  g[s] = FillBest(g[s \ {Max(s)}], k)
    <3>1. g[s] = h[<<g[s \ {c[s]}], c[s]>>]
      BY <1>5, <2>1 DEF FoldStep, FoldsInto
    <3>2. c[s] = Max(s) /\ Max(s) \in I
      BY <1>1, <2>1, MaxIn
    <3>3. g[s \ {Max(s)}] \in D
      BY <1>5 DEF FoldsInto
    <3>. HIDE DEF D, c, I
    <3>. QED BY <3>1, <3>2, <3>3
  <2>. QED BY <1>5, <2>1 DEF FoldStep, FoldsInto
<1>7. g = [s \in SUBSET I |-> IF s = {} THEN b ELSE FillBest(g[s \ {Max(s)}], k)]
  <2>. HIDE DEF D
  <2>. QED BY <1>5, <1>6 DEF FoldsInto
<1>. QED BY <1>1, <1>7 DEF IsMatching

\* Every desk on the way follows on, and the rounds run out.
EndsWith(d, b, k, s) == d \in Desks(b, k) /\ Ending(d, k, s)

LEMMA RoundEnds ==
  ASSUME NEW b, NEW k, Begins(b, k), NEW s \in SUBSET (1..k), NEW x \in s,
         NEW d, EndsWith(d, b, k, s \ {x})
  PROVE  EndsWith(FillBest(d, k), b, k, s)
<1>. DEFINE e == FillBest(d, k)
            M == Makers(d.orders, k)
<1>1. d \in Desks(b, k) /\ e \in Desks(b, k) /\ Followed(b, d, k) /\ Followed(b, e, k)
  BY RoundStays DEF EndsWith, Desks
<1>2. CASE d.orders[k].remaining = 0 \/ M = {}
  <2>1. e = d
    BY <1>2 DEF FillBest
  <2>. HIDE DEF e
  <2>. QED BY <1>1, <1>2, <2>1 DEF EndsWith, Ending, e
<1>3. CASE ~ (d.orders[k].remaining = 0 \/ M = {})
  <2>1. Cardinality(M) + Cardinality(s \ {x}) < k
    BY <1>3 DEF EndsWith, Ending
  <2>2. /\ d.orders \in OrderBooks /\ e.orders \in OrderBooks /\ DOMAIN d.orders = DOMAIN b.orders
        /\ k \in DOMAIN d.orders
    BY <1>1, BeginFacts DEF Followed, Custody, Covered
  <2>3. IsFiniteSet(s) /\ IsFiniteSet(M) /\ k \in Nat
    <3>1. IsFiniteSet(1..k) /\ k \in Nat
      BY BeginFacts
    <3>. QED BY <2>2, <3>1, MakersOK, FS_Subset
  <2>4. /\ Cardinality(s) \in Nat /\ Cardinality(s \ {x}) = Cardinality(s) - 1
        /\ Cardinality(M) \in Nat
    BY <2>3, FS_RemoveElement, FS_CardinalityType
  <2>5. \/ e.orders[k].remaining = 0
        \/ \E j \in M : Makers(e.orders, k) \subseteq M \ {j}
    BY <1>1, <1>3, BeginFacts, RoundFollows
  <2>. HIDE DEF e, M
  <2>6. ASSUME NEW j \in M, Makers(e.orders, k) \subseteq M \ {j}
        PROVE  Cardinality(Makers(e.orders, k)) + Cardinality(s) < k
    <3>1. IsFiniteSet(M \ {j}) /\ Cardinality(M \ {j}) = Cardinality(M) - 1
      BY <2>3, FS_RemoveElement
    <3>2. IsFiniteSet(Makers(e.orders, k)) /\ Cardinality(Makers(e.orders, k)) <= Cardinality(M \ {j})
      BY <2>6, <3>1, FS_Subset
    <3>3. Cardinality(Makers(e.orders, k)) \in Nat
      BY <3>2, FS_CardinalityType
    <3>. QED BY <2>1, <2>3, <2>4, <3>1, <3>2, <3>3
  <2>. QED BY <1>1, <2>5, <2>6 DEF EndsWith, Ending, e
<1>. QED BY <1>2, <1>3

\* When matching returns, the taker is done or nothing crosses it.
LEMMA MatchedEnds ==
  ASSUME NEW b, NEW k, Begins(b, k)
  PROVE  /\ Matched(b, k) \in Desks(b, k)
         /\ Matched(b, k).orders[k].remaining = 0 \/ Makers(Matched(b, k).orders, k) = {}
<1>. DEFINE g == CHOOSE f : IsMatching(f, b, k)
            I == 1..k
            T == {s \in SUBSET I : ~ EndsWith(g[s], b, k, s)}
<1>1. IsMatching(g, b, k)
  BY MatchingExists
<1>2. Matched(b, k) = g[I]
  <2>1. Matched(b, k) = g[Round(k)]
    BY DEF Matched, FoldLeft, MapThenFoldSet, IsMatching, Round
  <2>. QED BY <2>1, BeginFacts
<1>. HIDE DEF g
<1>3. /\ k \in Nat /\ k > 0 /\ Round(k) = I /\ IsFiniteSet(I) /\ Cardinality(I) = k
      /\ b.orders \in OrderBooks /\ k \in DOMAIN b.orders /\ DOMAIN b.orders = I
  BY BeginFacts
<1>4. T = {}
  <2>. SUFFICES ASSUME T # {} PROVE FALSE
    OBVIOUS
  <2>1. PICK s \in T : \A y \in T : y \subseteq s => y = s
    <3>1. T \in SUBSET SUBSET I
      OBVIOUS
    <3>. HIDE DEF T, I
    <3>. QED BY <1>3, <3>1, MinimalSubset
  <2>2. s \in SUBSET I /\ ~ EndsWith(g[s], b, k, s)
    OBVIOUS
  <2>3. CASE s = {}
    <3>1. g[s] = b
      BY <1>1, <1>3, <2>2, <2>3 DEF IsMatching
    <3>2. Cardinality(Makers(b.orders, k)) < k
      <4>1. Makers(b.orders, k) \in SUBSET (I \ {k})
        BY <1>3, MakersOK
      <4>2. IsFiniteSet(I \ {k}) /\ Cardinality(I \ {k}) = k - 1
        BY <1>3, FS_RemoveElement
      <4>3. IsFiniteSet(Makers(b.orders, k)) /\ Cardinality(Makers(b.orders, k)) <= k - 1
        <5>. HIDE DEF I
        <5>. QED BY <4>1, <4>2, FS_Subset
      <4>4. Cardinality(Makers(b.orders, k)) \in Nat
        BY <4>3, FS_CardinalityType
      <4>. QED BY <1>3, <4>3, <4>4
    <3>3. Cardinality(Makers(b.orders, k)) + Cardinality(s) < k
      <4>1. Cardinality(s) = 0 /\ Cardinality(Makers(b.orders, k)) \in Nat
        BY <1>3, <2>3, FS_EmptySet, MakersOK, FS_CardinalityType
      <4>. QED BY <3>2, <4>1
    <3>. QED BY <2>2, <3>1, <3>3 DEF EndsWith, Ending, Begins
  <2>4. CASE s # {}
    <3>. DEFINE x == Max(s)
    <3>1. x \in s /\ g[s] = FillBest(g[s \ {x}], k)
      BY <1>1, <1>3, <2>2, <2>4, MaxIn DEF IsMatching
    <3>. HIDE DEF x
    <3>2. EndsWith(g[s \ {x}], b, k, s \ {x})
      BY <2>1, <2>2, <3>1
    <3>. HIDE DEF T
    <3>. QED BY <2>2, <3>1, <3>2, RoundEnds
  <2>. QED BY <2>3, <2>4
<1>5. EndsWith(g[I], b, k, I)
  BY <1>4
<1>6. ~ (Cardinality(Makers(g[I].orders, k)) + Cardinality(I) < k) \/ Makers(g[I].orders, k) = {}
  <2>1. g[I].orders \in OrderBooks /\ k \in DOMAIN g[I].orders
    BY <1>3, <1>5 DEF EndsWith, Desks, Followed, Custody, Covered
  <2>2. Cardinality(Makers(g[I].orders, k)) \in Nat
    BY <2>1, MakersOK, FS_CardinalityType
  <2>. QED BY <1>3, <2>2
<1>. QED BY <1>2, <1>5, <1>6 DEF EndsWith, Ending

-----------------------------------------------------------------------------
(* place_order: the new order joins the book with its lock or reservation    *)

Uncrossed(O) ==
  \A i, j \in DOMAIN O : Live(O[i]) /\ Live(O[j]) /\ IsBid(O[i]) /\ ~ IsBid(O[j]) => ~ Crosses(O[i], O[j])

\* N is the book O with the order q placed as number k.
Joins(N, O, q, k) ==
  /\ N \in OrderBooks /\ k \in OrderIds /\ DOMAIN O = 1..(k - 1) /\ DOMAIN N = 1..k
  /\ N[k] = q /\ \A m \in DOMAIN O : N[m] = O[m]

\* What the guards of place_order have checked.
Allowed(d, q) ==
  /\ q \in Order /\ Fits(q) /\ q.status = "open"
  /\ q.side = "bid" => CanPay(d.ledger, q.account, q.price * q.remaining)
  /\ q.side = "ask" =>
       d.shares[q.account][q.outcome] - SumFunction(ReservedOf(d.orders, q.account, q.outcome))
         >= q.remaining

LEMMA NewOrderFits ==
  ASSUME NEW t \in Traders, NEW side \in Sides, NEW o \in BookOutcomes, NEW price \in Prices,
         NEW n \in Sizes
  PROVE  LET q == NewOrder(t, side, o, price, n)
         IN  /\ q \in Order /\ Fits(q) /\ q.status = "open" /\ q.account = t /\ q.side = side
             /\ q.outcome = o /\ q.price = price /\ q.size = n /\ q.remaining = n
<1>1. n \in Nat /\ n > 0
  <2>1. Sizes \subseteq Nat \ {0}
    BY ConstantsOK
  <2>. QED BY ONLY <2>1, n \in Sizes
<1>. DEFINE r == IF side = "ask" THEN n ELSE 0
<1>2. r \in Nat
  BY <1>1
<1>3. NewOrder(t, side, o, price, n) =
        [account |-> t, side |-> side, outcome |-> o, price |-> price,
         size |-> n, remaining |-> n, reserved |-> r, status |-> "open"]
  BY DEF NewOrder
<1>. DEFINE q == NewOrder(t, side, o, price, n)
<1>4. /\ q \in Order /\ q.account = t /\ q.side = side /\ q.outcome = o /\ q.price = price
      /\ q.size = n /\ q.remaining = n /\ q.reserved = r /\ q.status = "open"
  <2>. HIDE DEF r
  <2>. QED BY <1>1, <1>2, <1>3 DEF Order
<1>. HIDE DEF q
<1>. QED BY <1>1, <1>4 DEF Fits, Live, q

LEMMA JoinedReserved ==
  ASSUME NEW O \in OrderBooks, NEW N, NEW q \in Order, NEW k, Joins(N, O, q, k), NEW t, NEW o
  PROVE  SumFunction(ReservedOf(N, t, o)) =
           SumFunction(ReservedOf(O, t, o))
             + IF q.account = t /\ q.outcome = o THEN q.reserved ELSE 0
<1>. DEFINE I == 1..(k - 1)
            J == 1..k
            f == ReservedOf(O, t, o)
            g == ReservedOf(N, t, o)
            v == IF q.account = t /\ q.outcome = o THEN q.reserved ELSE 0
<1>1. J = I \cup {k} /\ k \notin I /\ IsFiniteSet(I) /\ DOMAIN O = I /\ DOMAIN N = J
  <2>1. k \in Nat /\ k > 0
    BY ConstantsOK DEF Joins
  <2>2. IsFiniteSet(I) /\ J = I \cup {k} /\ k \notin I
    BY <2>1, FS_Interval
  <2>. QED BY <2>2 DEF Joins
<1>2. f \in [I -> Int] /\ g \in [J -> Int] /\ v \in Int
  <2>1. f \in [DOMAIN O -> Nat] /\ g \in [DOMAIN N -> Nat] /\ q.reserved \in Nat
    BY ReservedTyped, OrderTyped DEF Joins
  <2>. HIDE DEF f, g
  <2>. QED BY <1>1, <2>1
<1>3. \A m \in J : g[m] = (IF m \in I THEN f[m] ELSE 0) + (IF m = k THEN v ELSE 0)
  <2>1. ASSUME NEW m \in I PROVE g[m] = f[m] /\ m # k
    BY <1>1 DEF Joins, ReservedOf
  <2>2. g[k] = v
    BY <1>1 DEF Joins, ReservedOf
  <2>. HIDE DEF f, g, v
  <2>3. ASSUME NEW m \in I PROVE f[m] \in Int
    BY <1>2
  <2>. QED BY <1>1, <1>2, <2>1, <2>2, <2>3
<1>. HIDE DEF f, g, v, I, J
<1>4. SumFunction(g) = SumFunction(f) + v
  <2>1. IsFiniteSet(J) /\ k \in J /\ g \in [J -> Int] /\ J \ {k} = I
    BY <1>1, <1>2, FS_AddElement
  <2>2. f \in [J \ {k} -> Int] /\ \A m \in J \ {k} : f[m] = g[m]
    <3>1. ASSUME NEW m \in I PROVE f[m] = g[m]
      BY <1>1, <1>2, <1>3
    <3>. QED BY <1>2, <2>1, <3>1
  <2>3. SumFunction(g) = SumFunction(f) + g[k]
    BY ONLY <2>1, <2>2, SumWithout
  <2>4. g[k] = v
    BY <1>1, <1>2, <1>3
  <2>. QED BY <2>3, <2>4
<1>. QED BY <1>4 DEF f, g, v

LEMMA JoinedCovered ==
  ASSUME NEW d, Covered(d.orders, d.shares), NEW q, Allowed(d, q), NEW N, NEW k,
         Joins(N, d.orders, q, k)
  PROVE  Covered(N, d.shares)
<1>1. d.orders \in OrderBooks /\ q \in Order /\ N \in OrderBooks /\ d.shares \in Holdings
  BY DEF Covered, Allowed, Joins
<1>2. \A m \in DOMAIN N : Fits(N[m])
  <2>1. DOMAIN N = DOMAIN d.orders \cup {k}
    <3>1. k \in Nat /\ k > 0
      BY ConstantsOK DEF Joins
    <3>. QED BY <3>1 DEF Joins
  <2>. QED BY <2>1 DEF Joins, Allowed, Covered
<1>3. ASSUME NEW t \in Traders, NEW o \in BookOutcomes
      PROVE  SumFunction(ReservedOf(N, t, o)) <= d.shares[t][o]
  <2>. DEFINE r == SumFunction(ReservedOf(d.orders, t, o))
              s == d.shares[t][o]
  <2>1. SumFunction(ReservedOf(N, t, o)) = r + IF q.account = t /\ q.outcome = o THEN q.reserved ELSE 0
    BY <1>1, JoinedReserved
  <2>2. r \in Nat /\ s \in Nat /\ r <= s
    BY <1>1, ReservedTyped, IssuedTyped DEF Covered
  <2>3. q.reserved = IF q.side = "ask" THEN q.remaining ELSE 0
    BY DEF Allowed, Fits, Live
  <2>4. q.remaining \in Nat
    BY <1>1, OrderTyped
  <2>5. q.side = "ask" /\ q.account = t /\ q.outcome = o => s - r >= q.remaining
    BY DEF Allowed
  <2>. HIDE DEF r, s
  <2>6. SumFunction(ReservedOf(N, t, o)) <= s
    BY <2>1, <2>2, <2>3, <2>4, <2>5
  <2>. QED BY <2>6 DEF s
<1>. QED BY <1>1, <1>2, <1>3 DEF Covered

\* A bid freezes its price for its size, an ask nothing: nobody is richer or poorer.
LockedFor(L, q, k) ==
  IF q.side = "bid" THEN Freeze(L, q.account, OrderLock(k), q.price * q.remaining) ELSE L

LEMMA JoinedHeld ==
  ASSUME NEW d, Held(d.ledger, d.orders, d.sets), NEW q, Allowed(d, q), NEW N, NEW k,
         Joins(N, d.orders, q, k), d.orders \in OrderBooks
  PROVE  LET M == LockedFor(d.ledger, q, k)
         IN  /\ Held(M, N, d.sets) /\ Credits(M) = Credits(d.ledger)
             /\ \A t \in Traders : Wealth(M, t) = Wealth(d.ledger, t)
<1>. DEFINE L == d.ledger
            O == d.orders
            M == LockedFor(L, q, k)
            x == q.price * q.remaining
            y == IF q.side = "bid" THEN x ELSE 0
<1>1. /\ q.account \in Traders /\ q.side \in Sides /\ q.price \in Nat /\ q.remaining \in Nat
      /\ Live(q) /\ k \in OrderIds /\ k \notin DOMAIN O /\ k \in DOMAIN N /\ N[k] = q
      /\ \A m \in OrderIds : m # k => (m \in DOMAIN N <=> m \in DOMAIN O)
      /\ \A m \in DOMAIN O : N[m] = O[m]
  <2>1. k \in Nat /\ k > 0
    BY ConstantsOK DEF Joins
  <2>. QED BY <2>1, OrderTyped, ConstantsOK DEF Joins, Allowed, Live
<1>2. x \in Nat /\ y \in Nat
  BY <1>1
<1>3. Sound(L)
  BY DEF Held
<1>4. /\ q.account \in Parties /\ OrderLock(k) \in LockKeys /\ Traders \subseteq Parties
      /\ Escrow \in Parties /\ Escrow \notin Traders
      /\ \A m \in OrderIds : OrderLock(m) \in LockKeys /\ OrderLock(m) # EscrowLock
      /\ EscrowLock \in LockKeys
      /\ \A m \in OrderIds : OrderLock(m) = OrderLock(k) <=> m = k
  BY <1>1, ConstantsOK
<1>5. Lowers(M, L, Parties, LockKeys, q.account, OrderLock(k), -y)
  <2>1. CASE q.side = "bid"
    <3>1. M = Freeze(L, q.account, OrderLock(k), x)
      BY <2>1 DEF LockedFor
    <3>2. Lowers(Freeze(L, q.account, OrderLock(k), x), L, Parties, LockKeys,
                 q.account, OrderLock(k), -x)
      <4>1. SoundLedger(L, Parties, LockKeys)
        BY <1>3 DEF Sound
      <4>. HIDE DEF x
      <4>. QED BY <1>2, <1>4, <4>1, ConstantsOK, FreezeLowers
    <3>. QED BY <2>1, <3>1, <3>2
  <2>2. CASE q.side # "bid"
    <3>1. M = L /\ y = 0
      BY <2>2 DEF LockedFor
    <3>. HIDE DEF M, L
    <3>2. ASSUME NEW b \in Parties
          PROVE  L.available[b] = L.available[b] + 0 /\ L.frozen[b] = L.frozen[b] - 0
      BY <1>3, SoundEntries
    <3>3. ASSUME NEW b \in Parties, NEW j \in LockKeys PROVE L.locks[b][j] = L.locks[b][j] - 0
      BY <1>3, SoundEntries
    <3>4. SoundLedger(M, Parties, LockKeys)
      BY <1>3, <3>1 DEF Sound
    <3>. HIDE DEF y
    <3>5. -y = 0
      <4>1. \A z \in Int : z <= 0 /\ 0 <= z => -z <= 0 /\ 0 <= -z
        OBVIOUS
      <4>2. y = 0
        BY <3>1
      <4>3. y \in Int
        BY <1>2
      <4>4. -y \in Int /\ -y <= 0 /\ 0 <= -y
        BY ONLY <4>1, <4>2, <4>3
      <4>. QED BY ONLY <4>4
    <3>. QED BY <3>1, <3>2, <3>3, <3>4, <3>5 DEF Lowers
  <2>. QED BY <2>1, <2>2
<1>6. q.side = "bid" => L.available[q.account] >= x
  BY DEF Allowed, CanPay
<1>. HIDE DEF M, x
<1>7. /\ Sound(M) /\ Credits(M) = Credits(L)
      /\ \A b \in Parties : /\ M.available[b] = L.available[b] + IF b = q.account THEN -y ELSE 0
                            /\ M.frozen[b] = L.frozen[b] - IF b = q.account THEN -y ELSE 0
      /\ \A b \in Parties, j \in LockKeys :
           M.locks[b][j] = L.locks[b][j] - IF b = q.account /\ j = OrderLock(k) THEN -y ELSE 0
  BY <1>5 DEF Lowers, Sound
<1>8. \A b \in Parties : L.available[b] \in Int /\ L.frozen[b] \in Int /\ L.available[b] >= 0
  BY <1>3, SoundEntries DEF Held
<1>9. ASSUME NEW t \in Traders PROVE Wealth(M, t) = Wealth(L, t)
  BY <1>2, <1>4, <1>7, <1>8 DEF Wealth
<1>10. ASSUME NEW b \in Parties PROVE M.available[b] >= 0
  <2>1. b = q.account => L.available[b] >= y
    BY <1>6, <1>8
  <2>. HIDE DEF y
  <2>. QED BY <1>2, <1>7, <1>8, <2>1
<1>11. ASSUME NEW t \in Traders, NEW m \in OrderIds
       PROVE  M.locks[t][OrderLock(m)] = LockFor(N, t, m)
  <2>1. /\ L.locks[t][OrderLock(m)] = LockFor(O, t, m) /\ LockFor(O, t, m) \in Nat
    BY LockForTyped DEF Held
  <2>2. M.locks[t][OrderLock(m)] = LockFor(O, t, m) - IF t = q.account /\ m = k THEN -y ELSE 0
    BY <1>4, <1>7, <2>1
  <2>3. CASE m # k
    <3>1. LockFor(N, t, m) = LockFor(O, t, m)
      BY <1>1, <2>3 DEF LockFor
    <3>. QED BY <2>1, <2>2, <2>3, <3>1
  <2>4. CASE m = k
    <3>1. LockFor(O, t, m) = 0
      BY <1>1, <2>4 DEF LockFor
    <3>2. LockFor(N, t, m) = IF t = q.account THEN y ELSE 0
      BY <1>1, <2>4 DEF LockFor, x
    <3>. HIDE DEF y
    <3>. QED BY <1>2, <2>2, <2>4, <3>1, <3>2
  <2>. QED BY <2>3, <2>4
<1>12. ASSUME NEW j \in LockKeys PROVE M.locks[Escrow][j] = L.locks[Escrow][j]
  <2>1. L.locks[Escrow][j] \in Nat
    BY <1>3, <1>4, SoundEntries
  <2>. QED BY <1>1, <1>4, <1>7, <2>1
<1>13. M.available[Escrow] = L.available[Escrow]
  BY <1>1, <1>4, <1>7, <1>8
<1>. HIDE DEF L
<1>14. Held(M, N, d.sets)
  BY <1>4, <1>7, <1>10, <1>11, <1>12, <1>13 DEF Held, L
<1>. QED BY <1>7, <1>9, <1>14 DEF M, L

\* The desk order k is matched from.
Placed(d, q, N, k) ==
  [ledger |-> LockedFor(d.ledger, q, k), orders |-> N, shares |-> d.shares, sets |-> d.sets]

LEMMA NothingFilled ==
  ASSUME NEW O \in OrderBooks, NEW t
  PROVE  Value(O, O, t) = 0
<1>. DEFINE f == ValueOf(O, O, t)
            I == DOMAIN O
<1>1. f \in [I -> Int] /\ IsFiniteSet(I)
  BY ValueTyped, BookFinite
<1>2. ASSUME NEW i \in I PROVE f[i] = 0
  <2>1. O[i].price \in Nat /\ O[i].remaining \in Nat
    BY BookFinite, OrderTyped
  <2>2. O[i].price * (O[i].remaining - O[i].remaining) = 0
    BY <2>1
  <2>. QED BY <2>2 DEF ValueOf, Worth, Gain, Signed
<1>. HIDE DEF f, I
<1>3. SumFunction(f) = 0
  BY <1>1, <1>2, SumZero
<1>. QED BY <1>3 DEF f, Value

LEMMA StandsStill ==
  ASSUME NEW b, NEW k, Custody(b)
  PROVE  Followed(b, b, k)
<1>1. b.orders \in OrderBooks /\ \A i \in DOMAIN b.orders : b.orders[i].remaining \in Nat
  <2>1. b.orders \in OrderBooks
    BY DEF Custody, Covered
  <2>. QED BY <2>1, BookFinite, OrderTyped
<1>2. \A i \in DOMAIN b.orders : Progressed(b, b, k, i)
  BY <1>1 DEF Progressed, SameOrder
<1>3. InTurn(b, b, k)
  BY <1>1 DEF InTurn
<1>4. WithinLimits(b, b)
  <2>1. ASSUME NEW t \in Traders
        PROVE  Wealth(b.ledger, t) >= Wealth(b.ledger, t) + Value(b.orders, b.orders, t)
    <3>1. Wealth(b.ledger, t) \in Int
      BY ConstantsOK, SoundEntries DEF Wealth, Custody, Held
    <3>2. Value(b.orders, b.orders, t) = 0
      BY <1>1, NothingFilled
    <3>. QED BY <3>1, <3>2
  <2>. QED BY <2>1 DEF WithinLimits
<1>. QED BY <1>2, <1>3, <1>4 DEF Followed

LEMMA PlacedBegins ==
  ASSUME NEW d, Custody(d), NEW q, Allowed(d, q), NEW N, NEW k, Joins(N, d.orders, q, k)
  PROVE  Begins(Placed(d, q, N, k), k)
<1>. DEFINE b == Placed(d, q, N, k)
            M == LockedFor(d.ledger, q, k)
<1>1. b.ledger = M /\ b.orders = N /\ b.shares = d.shares /\ b.sets = d.sets
  BY DEF Placed
<1>2. /\ d.orders \in OrderBooks /\ N \in OrderBooks /\ k \in OrderIds /\ DOMAIN N = 1..k
      /\ N[k] = q /\ Live(q) /\ k \in 1..k
  <2>1. k \in 1..k
    BY ConstantsOK DEF Joins
  <2>. QED BY <2>1 DEF Custody, Covered, Joins, Allowed, Live
<1>3. Covered(N, d.shares)
  BY JoinedCovered DEF Custody
<1>4. Held(M, N, d.sets)
  BY <1>2, JoinedHeld DEF Custody
<1>5. M \in Ledgers(Parties, LockKeys) /\ d.shares \in Holdings /\ d.sets \in Nat
      /\ N \in [DOMAIN N -> Order]
  BY <1>2, <1>4, BookFinite DEF Held, Sound, SoundLedger, Custody, Covered, AllIssued
<1>6. Custody(b)
  BY <1>1, <1>3, <1>4 DEF Custody
<1>7. Followed(b, b, k)
  BY <1>6, StandsStill
<1>8. b \in [ledger : Ledgers(Parties, LockKeys), orders : [DOMAIN b.orders -> Order],
             shares : Holdings, sets : Nat]
  <2>1. b = [ledger |-> M, orders |-> N, shares |-> d.shares, sets |-> d.sets]
    BY DEF Placed
  <2>. HIDE DEF b, M
  <2>. QED BY <1>1, <1>5, <2>1
<1>. HIDE DEF b
<1>. QED BY <1>1, <1>2, <1>7, <1>8 DEF Begins, Desks, b

\* A sound and uncrossed book takes an order and is sound and uncrossed again.
LEMMA PlacedEnds ==
  ASSUME NEW d, Custody(d), Uncrossed(d.orders), NEW q, Allowed(d, q), NEW N, NEW k,
         Joins(N, d.orders, q, k)
  PROVE  LET b == Placed(d, q, N, k)
             e == Matched(b, k)
         IN  /\ Followed(b, e, k) /\ Uncrossed(e.orders)
             /\ e.orders \in [1..k -> Order]
<1>. DEFINE b == Placed(d, q, N, k)
            e == Matched(b, k)
            P == e.orders
<1>1. Begins(b, k)
  BY PlacedBegins
<1>2. e \in Desks(b, k) /\ (P[k].remaining = 0 \/ Makers(P, k) = {})
  BY <1>1, MatchedEnds
<1>3. b.orders = N /\ DOMAIN N = 1..k /\ DOMAIN d.orders = 1..(k - 1)
      /\ N[k] = q /\ \A m \in DOMAIN d.orders : N[m] = d.orders[m]
  BY DEF Placed, Joins
<1>. HIDE DEF e
<1>4. Followed(b, e, k) /\ P \in [1..k -> Order]
  BY <1>2, <1>3 DEF Desks
<1>5. k \in 1..k /\ k \in Nat /\ \A m \in 1..k : m = k \/ m \in 1..(k - 1)
  BY ConstantsOK DEF Joins
<1>6. ASSUME NEW m \in 1..k PROVE Progressed(b, e, k, m) /\ SameOrder(P[m], N[m]) /\ Fits(P[m])
  BY <1>3, <1>4 DEF Followed, Custody, Covered, Progressed
<1>7. ASSUME NEW i \in 1..k, NEW j \in 1..k, Live(P[i]), Live(P[j]), IsBid(P[i]), ~ IsBid(P[j])
      PROVE  ~ Crosses(P[i], P[j])
  <2>1. CASE i = k \/ j = k
    <3>1. Live(P[k])
      BY <1>7, <2>1
    <3>2. P[k].remaining > 0
      BY <1>5, <1>6, <3>1 DEF Fits
    <3>3. Makers(P, k) = {}
      BY <1>2, <3>2
    <3>4. i # j /\ DOMAIN P = 1..k
      BY <1>4, <1>7
    <3>. QED BY <1>7, <2>1, <3>3, <3>4 DEF Makers
  <2>2. CASE i # k /\ j # k
    <3>1. i \in DOMAIN d.orders /\ j \in DOMAIN d.orders /\ N[i] = d.orders[i] /\ N[j] = d.orders[j]
      BY <1>3, <1>5, <2>2
    <3>2. Live(N[i]) /\ Live(N[j])
      BY <1>3, <1>6, <1>7 DEF Progressed
    <3>3. IsBid(N[i]) /\ ~ IsBid(N[j]) /\ YesPrice(P[i]) = YesPrice(N[i]) /\ YesPrice(P[j]) = YesPrice(N[j])
      BY <1>6, <1>7, SameAxis
    <3>4. ~ Crosses(N[i], N[j])
      BY <3>1, <3>2, <3>3 DEF Uncrossed
    <3>. QED BY <3>3, <3>4 DEF Crosses
  <2>. QED BY <2>1, <2>2
<1>8. Uncrossed(P)
  BY <1>4, <1>7 DEF Uncrossed
<1>. QED BY <1>4, <1>8 DEF e

-----------------------------------------------------------------------------
(* cancel: one order or, when the market settles, each that is live          *)

CancelledIn(O, s) == [i \in DOMAIN O |-> IF i \in s THEN CancelledOrder(O[i]) ELSE O[i]]
Unlocked(L, q, i) == IF q.side = "bid" THEN ReleaseLock(L, q.account, OrderLock(i)) ELSE L

\* The same credits, and everybody as rich.
KeepsWealth(N, L) ==
  Credits(N) = Credits(L) /\ \A t \in Traders : Wealth(N, t) = Wealth(L, t)

LEMMA CancelledFits ==
  ASSUME NEW q, Fits(q), Live(q)
  PROVE  LET p == CancelledOrder(q)
         IN  /\ p \in Order /\ Fits(p) /\ ~ Live(p) /\ p.reserved = 0 /\ SameOrder(p, q)
             /\ p.remaining = q.remaining
<1>. DEFINE p == CancelledOrder(q)
<1>1. q \in Order /\ 0 \in Nat
  BY DEF Fits
<1>2. p = [q EXCEPT !.status = "cancelled", !.reserved = 0]
  BY DEF CancelledOrder
<1>3. /\ p \in Order /\ p.status = "cancelled" /\ p.reserved = 0 /\ SameOrder(p, q)
      /\ p.remaining = q.remaining
  BY <1>1, <1>2 DEF Order, SameOrder
<1>. HIDE DEF p
<1>4. ~ Live(p)
  BY <1>3 DEF Live
<1>5. p.remaining <= p.size
  BY <1>3 DEF Fits, SameOrder
<1>. QED BY <1>3, <1>4, <1>5 DEF Fits, p

LEMMA CancelledBook ==
  ASSUME NEW O \in OrderBooks, \A i \in DOMAIN O : Fits(O[i]), NEW s \in SUBSET DOMAIN O,
         \A i \in s : Live(O[i])
  PROVE  LET N == CancelledIn(O, s)
         IN  /\ N \in OrderBooks /\ DOMAIN N = DOMAIN O
             /\ \A i \in DOMAIN O : Fits(N[i]) /\ SameOrder(N[i], O[i]) /\ N[i].remaining = O[i].remaining
             /\ \A i \in s : ~ Live(N[i]) /\ N[i].reserved = 0
             /\ \A i \in DOMAIN O \ s : N[i] = O[i]
<1>. DEFINE N == CancelledIn(O, s)
<1>1. /\ DOMAIN N = DOMAIN O /\ \A i \in s : N[i] = CancelledOrder(O[i])
      /\ \A i \in DOMAIN O \ s : N[i] = O[i]
      /\ N = [i \in DOMAIN O |-> N[i]]
  BY DEF CancelledIn
<1>. HIDE DEF N
<1>2. ASSUME NEW i \in DOMAIN O
      PROVE  Fits(N[i]) /\ SameOrder(N[i], O[i]) /\ N[i].remaining = O[i].remaining /\ N[i] \in Order
  <2>1. CASE i \in s
    BY <1>1, <2>1, CancelledFits
  <2>2. CASE i \notin s
    BY <1>1, <2>2 DEF SameOrder, Fits
  <2>. QED BY <2>1, <2>2
<1>3. \A i \in s : ~ Live(N[i]) /\ N[i].reserved = 0
  BY <1>1, CancelledFits
<1>4. N \in OrderBooks
  <2>1. N \in [DOMAIN O -> Order]
    BY <1>1, <1>2
  <2>2. DOMAIN O \subseteq OrderIds
    BY BookFinite
  <2>. QED BY <1>1, <2>1, <2>2, OrderBooksOK
<1>. QED BY <1>1, <1>2, <1>3, <1>4 DEF N

\* Unlocking the last of the cancelled orders u.
LEMMA UnlockHolds ==
  ASSUME NEW O \in OrderBooks, \A m \in DOMAIN O : Fits(O[m]), NEW u \in SUBSET DOMAIN O,
         \A m \in u : Live(O[m]), NEW i \in u, NEW L, NEW z, Held(L, CancelledIn(O, u \ {i}), z)
  PROVE  LET M == Unlocked(L, O[i], i)
         IN  Held(M, CancelledIn(O, u), z) /\ KeepsWealth(M, L)
<1>. DEFINE M == Unlocked(L, O[i], i)
            q == O[i]
            P == CancelledIn(O, u \ {i})
            N == CancelledIn(O, u)
            x == IF q.side = "bid" THEN L.locks[q.account][OrderLock(i)] ELSE 0
<1>1. /\ q \in Order /\ q.account \in Traders /\ q.side \in Sides /\ i \in OrderIds /\ i \in DOMAIN O
  BY BookFinite, OrderTyped
<1>2. /\ DOMAIN P = DOMAIN O /\ DOMAIN N = DOMAIN O /\ P[i] = q /\ ~ Live(N[i]) /\ P \in OrderBooks
      /\ \A m \in DOMAIN O : m # i => N[m] = P[m]
  <2>1. DOMAIN P = DOMAIN O /\ P[i] = q /\ P \in OrderBooks
    BY <1>1, CancelledBook
  <2>2. DOMAIN N = DOMAIN O /\ ~ Live(N[i])
    BY CancelledBook
  <2>3. \A m \in DOMAIN O : m # i => N[m] = P[m]
    BY DEF CancelledIn
  <2>. QED BY <2>1, <2>2, <2>3
<1>3. /\ q.account \in Parties /\ OrderLock(i) \in LockKeys /\ Traders \subseteq Parties
      /\ Escrow \in Parties /\ Escrow \notin Traders
      /\ \A m \in OrderIds : OrderLock(m) \in LockKeys /\ OrderLock(m) # EscrowLock
      /\ EscrowLock \in LockKeys
      /\ \A m \in OrderIds : OrderLock(m) = OrderLock(i) <=> m = i
  BY <1>1, ConstantsOK
<1>4. Sound(L)
  BY DEF Held
<1>5. x \in Nat /\ x = LockFor(P, q.account, i)
  <2>1. LockFor(P, q.account, i) \in Nat
    BY <1>2, LockForTyped
  <2>2. L.locks[q.account][OrderLock(i)] = LockFor(P, q.account, i)
    BY <1>1 DEF Held
  <2>3. q.side # "bid" => LockFor(P, q.account, i) = 0
    BY <1>2 DEF LockFor
  <2>. QED BY <2>1, <2>2, <2>3
<1>. HIDE DEF P, N, q
<1>6. Lowers(M, L, Parties, LockKeys, q.account, OrderLock(i), x)
  <2>1. CASE q.side = "bid"
    <3>1. M = ReleaseLock(L, q.account, OrderLock(i))
      BY <2>1 DEF Unlocked, q
    <3>. HIDE DEF M
    <3>. QED BY <1>3, <1>4, <2>1, <3>1, ConstantsOK, ReleaseLowers DEF Sound
  <2>2. CASE q.side # "bid"
    <3>1. M = L /\ x = 0
      BY <2>2 DEF Unlocked, q
    <3>. HIDE DEF M, x
    <3>2. ASSUME NEW b \in Parties
          PROVE  L.available[b] = L.available[b] + 0 /\ L.frozen[b] = L.frozen[b] - 0
      BY <1>4, SoundEntries
    <3>3. ASSUME NEW b \in Parties, NEW j \in LockKeys PROVE L.locks[b][j] = L.locks[b][j] - 0
      BY <1>4, SoundEntries
    <3>4. SoundLedger(M, Parties, LockKeys)
      BY <1>4, <3>1 DEF Sound
    <3>. QED BY <3>1, <3>2, <3>3, <3>4 DEF Lowers
  <2>. QED BY <2>1, <2>2
<1>. HIDE DEF M, x
<1>7. /\ Sound(M) /\ Credits(M) = Credits(L)
      /\ \A b \in Parties : /\ M.available[b] = L.available[b] + IF b = q.account THEN x ELSE 0
                            /\ M.frozen[b] = L.frozen[b] - IF b = q.account THEN x ELSE 0
      /\ \A b \in Parties, j \in LockKeys :
           M.locks[b][j] = L.locks[b][j] - IF b = q.account /\ j = OrderLock(i) THEN x ELSE 0
  BY <1>6 DEF Lowers, Sound
<1>8. \A b \in Parties : L.available[b] \in Int /\ L.frozen[b] \in Int /\ L.available[b] >= 0
  BY <1>4, SoundEntries DEF Held
<1>9. KeepsWealth(M, L)
  BY <1>3, <1>5, <1>7, <1>8 DEF Wealth, KeepsWealth
<1>10. \A b \in Parties : M.available[b] >= 0
  BY <1>5, <1>7, <1>8
<1>11. ASSUME NEW t \in Traders, NEW m \in OrderIds
       PROVE  M.locks[t][OrderLock(m)] = LockFor(N, t, m)
  <2>1. /\ L.locks[t][OrderLock(m)] = LockFor(P, t, m) /\ LockFor(P, t, m) \in Nat
    BY <1>2, LockForTyped DEF Held, P
  <2>2. M.locks[t][OrderLock(m)] = LockFor(P, t, m) - IF t = q.account /\ m = i THEN x ELSE 0
    BY <1>3, <1>7, <2>1
  <2>3. CASE m # i
    <3>1. LockFor(N, t, m) = LockFor(P, t, m)
      BY <1>2, <2>3 DEF LockFor
    <3>. QED BY <2>1, <2>2, <2>3, <3>1
  <2>4. CASE m = i
    <3>1. LockFor(N, t, m) = 0
      BY <1>2, <2>4 DEF LockFor
    <3>2. t # q.account => LockFor(P, t, m) = 0
      BY <1>2, <2>4 DEF LockFor
    <3>. QED BY <1>5, <2>1, <2>2, <2>4, <3>1, <3>2
  <2>. QED BY <2>3, <2>4
<1>12. ASSUME NEW j \in LockKeys PROVE M.locks[Escrow][j] = L.locks[Escrow][j]
  <2>1. L.locks[Escrow][j] \in Nat
    BY <1>3, <1>4, SoundEntries
  <2>. QED BY <1>1, <1>3, <1>7, <2>1
<1>13. M.available[Escrow] = L.available[Escrow]
  BY <1>1, <1>3, <1>7, <1>8
<1>14. Held(M, N, z)
  BY <1>3, <1>7, <1>10, <1>11, <1>12, <1>13 DEF Held
<1>. QED BY <1>9, <1>14 DEF M, N, q

\* One order is cancelled.
LEMMA CancelKeeps ==
  ASSUME NEW d, Custody(d), NEW i \in DOMAIN d.orders, Live(d.orders[i]), NEW e,
         e.ledger = Unlocked(d.ledger, d.orders[i], i),
         e.orders = Replaced(d.orders, i, CancelledOrder(d.orders[i])),
         e.shares = d.shares, e.sets = d.sets
  PROVE  Custody(e) /\ KeepsWealth(e.ledger, d.ledger) /\ (Uncrossed(d.orders) => Uncrossed(e.orders))
<1>. DEFINE O == d.orders
            q == CancelledOrder(O[i])
            N == e.orders
<1>1. /\ O \in OrderBooks /\ (\A m \in DOMAIN O : Fits(O[m])) /\ Held(d.ledger, O, d.sets)
      /\ O \in [DOMAIN O -> Order] /\ AllIssued(d.shares, d.sets)
  BY BookFinite DEF Custody, Covered
<1>2. CancelledIn(O, {i} \ {i}) = O /\ CancelledIn(O, {i}) = Replaced(O, i, q)
  BY <1>1 DEF CancelledIn, Replaced
<1>3. /\ q \in Order /\ Fits(q) /\ ~ Live(q) /\ q.reserved = 0
      /\ q.account = O[i].account /\ q.outcome = O[i].outcome
  BY <1>1, CancelledFits DEF SameOrder
<1>4. Held(e.ledger, N, e.sets) /\ KeepsWealth(e.ledger, d.ledger)
  <2>1. Held(d.ledger, CancelledIn(O, {i} \ {i}), d.sets)
    BY <1>1, <1>2
  <2>2. {i} \in SUBSET DOMAIN O /\ i \in {i} /\ \A m \in {i} : Live(O[m])
    OBVIOUS
  <2>. HIDE DEF q
  <2>3. Held(Unlocked(d.ledger, O[i], i), CancelledIn(O, {i}), d.sets)
        /\ KeepsWealth(Unlocked(d.ledger, O[i], i), d.ledger)
    BY <1>1, <2>1, <2>2, UnlockHolds
  <2>4. N = CancelledIn(O, {i})
    BY <1>2 DEF q
  <2>. QED BY <2>3, <2>4
<1>. HIDE DEF q
<1>5. /\ N \in OrderBooks /\ DOMAIN N = DOMAIN O /\ N[i] = q
      /\ \A m \in DOMAIN O : m # i => N[m] = O[m]
      /\ \A t, o : SumFunction(ReservedOf(N, t, o)) =
           SumFunction(ReservedOf(O, t, o))
             + IF q.account = t /\ q.outcome = o THEN q.reserved - O[i].reserved ELSE 0
  <2>1. N = Replaced(O, i, q)
    BY DEF q
  <2>2. /\ O \in OrderBooks /\ i \in DOMAIN O /\ q \in Order
        /\ q.account = O[i].account /\ q.outcome = O[i].outcome
    BY <1>1, <1>3
  <2>. HIDE DEF N, O
  <2>. QED BY ONLY <2>1, <2>2, ReservedMoves
<1>6. ASSUME NEW t \in Traders, NEW o \in BookOutcomes
      PROVE  SumFunction(ReservedOf(N, t, o)) <= d.shares[t][o]
  <2>1. /\ SumFunction(ReservedOf(O, t, o)) \in Nat /\ SumFunction(ReservedOf(O, t, o)) <= d.shares[t][o]
        /\ d.shares[t][o] \in Nat /\ O[i].reserved \in Nat
    BY <1>1, ReservedTyped, IssuedTyped, OrderTyped DEF Custody, Covered
  <2>2. SumFunction(ReservedOf(N, t, o)) =
           SumFunction(ReservedOf(O, t, o))
             + IF q.account = t /\ q.outcome = o THEN q.reserved - O[i].reserved ELSE 0
    BY <1>5
  <2>. QED BY <1>3, <2>1, <2>2
<1>7. \A m \in DOMAIN N : Fits(N[m])
  BY <1>1, <1>3, <1>5
<1>8. Covered(N, e.shares)
  BY <1>5, <1>6, <1>7 DEF Covered, Custody
<1>9. Uncrossed(O) => Uncrossed(N)
  BY <1>3, <1>5 DEF Uncrossed
<1>. QED BY <1>1, <1>4, <1>8, <1>9 DEF Custody

-----------------------------------------------------------------------------
(* resolve and void: unlock every live bid, release the escrow, pay everybody *)

IsUnlocking(g, L, O, V) ==
  g = [s \in SUBSET V |-> IF s = {} THEN L
                          ELSE Unlocked(g[s \ {Chosen(s)}], O[Chosen(s)], Chosen(s))]
Unlocking(L, O, V) == (CHOOSE g : IsUnlocking(g, L, O, V))[V]

IsPaying(g, L, pay, T) ==
  g = [s \in SUBSET T |-> IF s = {} THEN L
                          ELSE TransferAvailable(g[s \ {Chosen(s)}], Escrow, Chosen(s), pay[Chosen(s)])]
Paying(L, pay, T) == (CHOOSE g : IsPaying(g, L, pay, T))[T]

SoundLedgers == {L \in Ledgers(Parties, LockKeys) : Sound(L)}

LEMMA UnlockingExists ==
  ASSUME NEW O \in OrderBooks, NEW V \in SUBSET DOMAIN O, NEW L, Sound(L)
  PROVE  \E g : IsUnlocking(g, L, O, V)
<1>. DEFINE D == SoundLedgers
            h == [p \in D \X V |-> Unlocked(p[1], O[p[2]], p[2])]
            c == [s \in SUBSET V |-> Chosen(s)]
<1>1. IsFiniteSet(V)
  BY BookFinite, FS_Subset
<1>2. ASSUME NEW M \in D, NEW i \in V PROVE Unlocked(M, O[i], i) \in D
  <2>1. O[i] \in Order /\ i \in OrderIds /\ O[i].account \in Parties /\ OrderLock(i) \in LockKeys
    BY BookFinite, OrderTyped, ConstantsOK
  <2>2. CASE O[i].side = "bid"
    <3>1. Lowers(ReleaseLock(M, O[i].account, OrderLock(i)), M, Parties, LockKeys,
                 O[i].account, OrderLock(i), M.locks[O[i].account][OrderLock(i)])
      BY <2>1, ConstantsOK, ReleaseLowers DEF SoundLedgers, Sound
    <3>. QED BY <2>2, <3>1 DEF Unlocked, Lowers, SoundLedgers, Sound, SoundLedger
  <2>3. CASE O[i].side # "bid"
    BY <2>3 DEF Unlocked
  <2>. QED BY <2>2, <2>3
<1>3. h \in Steps(D, V)
  <2>. HIDE DEF D
  <2>. QED BY <1>2 DEF Steps
<1>4. L \in D
  BY DEF SoundLedgers, Sound, SoundLedger
<1>5. Picks(c, V)
  BY ChosenIn DEF Picks
<1>6. PICK g : FoldsInto(g, h, L, c, V, D)
  <2>. HIDE DEF D, h, c
  <2>. QED BY ONLY <1>1, <1>3, <1>4, <1>5, FoldInto
<1>7. ASSUME NEW s \in SUBSET V
      PROVE  g[s] = IF s = {} THEN L ELSE Unlocked(g[s \ {Chosen(s)}], O[Chosen(s)], Chosen(s))
  <2>1. CASE s = {}
    BY <1>6, <2>1 DEF FoldStep, FoldsInto
  <2>2. CASE s # {}
    <3>1. g[s] = h[<<g[s \ {c[s]}], c[s]>>]
      BY <1>6, <2>2 DEF FoldStep, FoldsInto
    <3>2. c[s] = Chosen(s) /\ Chosen(s) \in V
      BY <2>2, ChosenIn
    <3>3. g[s \ {Chosen(s)}] \in D
      BY <1>6 DEF FoldsInto
    <3>. HIDE DEF D, c
    <3>. QED BY <2>2, <3>1, <3>2, <3>3
  <2>. QED BY <2>1, <2>2
<1>8. g = [s \in SUBSET V |-> IF s = {} THEN L
                              ELSE Unlocked(g[s \ {Chosen(s)}], O[Chosen(s)], Chosen(s))]
  <2>. HIDE DEF D
  <2>. QED BY <1>6, <1>7 DEF FoldsInto
<1>. QED BY <1>8 DEF IsUnlocking

LEMMA UnlockingHolds ==
  ASSUME NEW O \in OrderBooks, \A m \in DOMAIN O : Fits(O[m]), NEW V \in SUBSET DOMAIN O,
         \A m \in V : Live(O[m]), NEW L, NEW z, Held(L, O, z)
  PROVE  LET M == Unlocking(L, O, V)
         IN  Held(M, CancelledIn(O, V), z) /\ KeepsWealth(M, L)
<1>. DEFINE g == CHOOSE f : IsUnlocking(f, L, O, V)
            OK(s) == Held(g[s], CancelledIn(O, s), z) /\ KeepsWealth(g[s], L)
            T == {s \in SUBSET V : ~ OK(s)}
<1>1. IsUnlocking(g, L, O, V)
  <2>1. \E f : IsUnlocking(f, L, O, V)
    BY UnlockingExists DEF Held
  <2>. QED BY <2>1
<1>2. IsFiniteSet(V)
  BY BookFinite, FS_Subset
<1>3. Unlocking(L, O, V) = g[V]
  BY DEF Unlocking
<1>. HIDE DEF g
<1>4. T = {}
  <2>. SUFFICES ASSUME T # {} PROVE FALSE
    OBVIOUS
  <2>1. PICK s \in T : \A y \in T : y \subseteq s => y = s
    <3>1. T \in SUBSET SUBSET V
      OBVIOUS
    <3>. HIDE DEF T
    <3>. QED BY <1>2, <3>1, MinimalSubset
  <2>2. s \in SUBSET V /\ ~ OK(s)
    OBVIOUS
  <2>3. CASE s = {}
    <3>1. g[s] = L
      BY <1>1, <2>2, <2>3 DEF IsUnlocking
    <3>2. CancelledIn(O, s) = O
      <4>1. O \in [DOMAIN O -> Order]
        BY BookFinite
      <4>. QED BY <2>3, <4>1 DEF CancelledIn
    <3>3. KeepsWealth(L, L)
      BY DEF KeepsWealth
    <3>. QED BY <2>2, <3>1, <3>2, <3>3
  <2>4. CASE s # {}
    <3>. DEFINE i == Chosen(s)
                M == g[s \ {i}]
    <3>1. i \in s /\ g[s] = Unlocked(M, O[i], i)
      BY <1>1, <2>2, <2>4, ChosenIn DEF IsUnlocking
    <3>. HIDE DEF i
    <3>2. OK(s \ {i})
      BY <2>1, <2>2, <3>1
    <3>3. Held(Unlocked(M, O[i], i), CancelledIn(O, s), z) /\ KeepsWealth(Unlocked(M, O[i], i), M)
      <4>1. Held(M, CancelledIn(O, s \ {i}), z) /\ s \in SUBSET DOMAIN O /\ \A m \in s : Live(O[m])
        BY <2>2, <3>2
      <4>. HIDE DEF M
      <4>. QED BY <3>1, <4>1, UnlockHolds
    <3>4. KeepsWealth(g[s], L)
      BY <3>1, <3>2, <3>3 DEF KeepsWealth
    <3>. QED BY <2>2, <3>1, <3>3, <3>4
  <2>. QED BY <2>3, <2>4
<1>5. OK(V)
  BY <1>4
<1>. QED BY <1>3, <1>5

LEMMA PayingExists ==
  ASSUME NEW L, Sound(L), NEW pay \in [Traders -> Nat]
  PROVE  \E g : IsPaying(g, L, pay, Traders)
<1>. DEFINE D == SoundLedgers
            h == [p \in D \X Traders |-> TransferAvailable(p[1], Escrow, p[2], pay[p[2]])]
            c == [s \in SUBSET Traders |-> Chosen(s)]
<1>1. IsFiniteSet(Traders)
  BY ConstantsOK
<1>2. ASSUME NEW M \in D, NEW t \in Traders PROVE TransferAvailable(M, Escrow, t, pay[t]) \in D
  <2>1. Sound(M) /\ t \in Parties /\ Escrow \in Parties /\ pay[t] \in Int
    BY ConstantsOK DEF SoundLedgers
  <2>2. HandsOver(TransferAvailable(M, Escrow, t, pay[t]), M, Parties, LockKeys, Escrow, t, pay[t])
    BY <2>1, HandsOverHere
  <2>. QED BY <2>2 DEF HandsOver, SoundLedgers, Sound, SoundLedger
<1>3. h \in Steps(D, Traders)
  <2>. HIDE DEF D
  <2>. QED BY <1>2 DEF Steps
<1>4. L \in D
  BY DEF SoundLedgers, Sound, SoundLedger
<1>5. Picks(c, Traders)
  BY ChosenIn DEF Picks
<1>6. PICK g : FoldsInto(g, h, L, c, Traders, D)
  <2>. HIDE DEF D, h, c
  <2>. QED BY ONLY <1>1, <1>3, <1>4, <1>5, FoldInto
<1>7. ASSUME NEW s \in SUBSET Traders
      PROVE  g[s] = IF s = {} THEN L
                    ELSE TransferAvailable(g[s \ {Chosen(s)}], Escrow, Chosen(s), pay[Chosen(s)])
  <2>1. CASE s = {}
    BY <1>6, <2>1 DEF FoldStep, FoldsInto
  <2>2. CASE s # {}
    <3>1. g[s] = h[<<g[s \ {c[s]}], c[s]>>]
      BY <1>6, <2>2 DEF FoldStep, FoldsInto
    <3>2. c[s] = Chosen(s) /\ Chosen(s) \in Traders
      BY <2>2, ChosenIn
    <3>3. g[s \ {Chosen(s)}] \in D
      BY <1>6 DEF FoldsInto
    <3>. HIDE DEF D, c
    <3>. QED BY <2>2, <3>1, <3>2, <3>3
  <2>. QED BY <2>1, <2>2
<1>8. g = [s \in SUBSET Traders |->
             IF s = {} THEN L
             ELSE TransferAvailable(g[s \ {Chosen(s)}], Escrow, Chosen(s), pay[Chosen(s)])]
  <2>. HIDE DEF D
  <2>. QED BY <1>6, <1>7 DEF FoldsInto
<1>. QED BY <1>8 DEF IsPaying

\* M is L after the escrow paid the traders in s.
HasPaid(M, L, pay, s) ==
  /\ Sound(M) /\ Credits(M) = Credits(L) /\ M.frozen = L.frozen /\ M.locks = L.locks
  /\ M.available[Escrow] = L.available[Escrow] - SumFunctionOnSet(pay, s)
  /\ \A t \in Traders : M.available[t] = L.available[t] + IF t \in s THEN pay[t] ELSE 0

LEMMA PayingPays ==
  ASSUME NEW L, Sound(L), NEW pay \in [Traders -> Nat]
  PROVE  HasPaid(Paying(L, pay, Traders), L, pay, Traders)
<1>. DEFINE g == CHOOSE f : IsPaying(f, L, pay, Traders)
            T == {s \in SUBSET Traders : ~ HasPaid(g[s], L, pay, s)}
<1>1. IsPaying(g, L, pay, Traders)
  <2>1. \E f : IsPaying(f, L, pay, Traders)
    BY PayingExists
  <2>. QED BY <2>1
<1>2. /\ IsFiniteSet(Traders) /\ Escrow \in Parties /\ Escrow \notin Traders /\ Traders \subseteq Parties
      /\ pay \in [Traders -> Int]
  BY ConstantsOK
<1>3. Paying(L, pay, Traders) = g[Traders]
  BY DEF Paying
<1>. HIDE DEF g
<1>4. /\ \A b \in Parties : L.available[b] \in Int
      /\ \A s \in SUBSET Traders : SumFunctionOnSet(pay, s) \in Int
      /\ \A s \in SUBSET Traders : \A x \in s :
           SumFunctionOnSet(pay, s) = pay[x] + SumFunctionOnSet(pay, s \ {x})
  BY <1>2, SoundEntries, SumRemove
<1>5. T = {}
  <2>. SUFFICES ASSUME T # {} PROVE FALSE
    OBVIOUS
  <2>1. PICK s \in T : \A y \in T : y \subseteq s => y = s
    <3>1. T \in SUBSET SUBSET Traders
      OBVIOUS
    <3>. HIDE DEF T
    <3>. QED BY <1>2, <3>1, MinimalSubset
  <2>2. s \in SUBSET Traders /\ ~ HasPaid(g[s], L, pay, s)
    OBVIOUS
  <2>3. CASE s = {}
    <3>1. g[s] = L
      BY <1>1, <2>2, <2>3 DEF IsPaying
    <3>2. SumFunctionOnSet(pay, s) = 0
      BY <2>3, FS_EmptySet, SumUnfold
    <3>3. \A t \in Traders : L.available[t] = L.available[t] + IF t \in s THEN pay[t] ELSE 0
      BY <1>2, <1>4, <2>3
    <3>. QED BY <1>2, <1>4, <2>2, <3>1, <3>2, <3>3 DEF HasPaid
  <2>4. CASE s # {}
    <3>. DEFINE x == Chosen(s)
                M == g[s \ {x}]
                N == g[s]
    <3>1. x \in s /\ N = TransferAvailable(M, Escrow, x, pay[x])
      BY <1>1, <2>2, <2>4, ChosenIn DEF IsPaying
    <3>. HIDE DEF x
    <3>2. HasPaid(M, L, pay, s \ {x})
      BY <2>1, <2>2, <3>1
    <3>. HIDE DEF M, N, T
    <3>3. x \in Traders /\ pay[x] \in Int /\ x \in Parties /\ x # Escrow
      BY <1>2, <2>2, <3>1
    <3>4. HandsOver(N, M, Parties, LockKeys, Escrow, x, pay[x])
      BY <1>2, <3>1, <3>2, <3>3, HandsOverHere DEF HasPaid
    <3>5. N.available[Escrow] = L.available[Escrow] - SumFunctionOnSet(pay, s)
      <4>1. N.available[Escrow] = M.available[Escrow] - pay[x] + 0
        BY <1>2, <3>3, <3>4 DEF HandsOver
      <4>2. M.available[Escrow] = L.available[Escrow] - SumFunctionOnSet(pay, s \ {x})
        BY <3>2 DEF HasPaid
      <4>3. SumFunctionOnSet(pay, s) = pay[x] + SumFunctionOnSet(pay, s \ {x})
            /\ SumFunctionOnSet(pay, s \ {x}) \in Int
        BY <1>4, <2>2, <3>1
      <4>. QED BY <1>2, <1>4, <3>3, <4>1, <4>2, <4>3
    <3>6. ASSUME NEW t \in Traders
          PROVE  N.available[t] = L.available[t] + IF t \in s THEN pay[t] ELSE 0
      <4>1. N.available[t] = M.available[t] - 0 + IF t = x THEN pay[x] ELSE 0
        BY <1>2, <3>4 DEF HandsOver
      <4>2. M.available[t] = L.available[t] + IF t \in s \ {x} THEN pay[t] ELSE 0
        BY <3>2 DEF HasPaid
      <4>3. L.available[t] \in Int /\ pay[t] \in Int
        BY <1>2, <1>4
      <4>. QED BY <3>1, <4>1, <4>2, <4>3
    <3>7. Sound(N) /\ Credits(N) = Credits(L) /\ N.frozen = L.frozen /\ N.locks = L.locks
      BY <3>2, <3>4 DEF HandsOver, HasPaid, Sound
    <3>. QED BY <2>2, <3>5, <3>6, <3>7 DEF HasPaid, N
  <2>. QED BY <2>3, <2>4
<1>6. HasPaid(g[Traders], L, pay, Traders)
  BY <1>5
<1>. QED BY <1>3, <1>6

LiveOnes(O) == {i \in DOMAIN O : Live(O[i])}
SettledLedger(L, O, pay) ==
  Paying(ReleaseLock(Unlocking(L, O, LiveOnes(O)), Escrow, EscrowLock), pay, Traders)

LEMMA NobodyHolds ==
  /\ NoShares \in Holdings /\ AllIssued(NoShares, 0)
  /\ \A t \in Traders, o \in BookOutcomes : NoShares[t][o] = 0
<1>1. NoShares \in Holdings /\ \A t \in Traders, o \in BookOutcomes : NoShares[t][o] = 0
  BY DEF NoShares, Holdings
<1>2. ASSUME NEW o \in BookOutcomes PROVE SumFunction(IssuedOf(NoShares, o)) = 0
  <2>. DEFINE f == IssuedOf(NoShares, o)
  <2>1. f \in [Traders -> Int] /\ \A t \in Traders : f[t] = 0
    BY <1>1 DEF IssuedOf
  <2>2. IsFiniteSet(Traders)
    BY ConstantsOK
  <2>. HIDE DEF f
  <2>3. SumFunction(f) = 0
    BY <2>1, <2>2, SumZero
  <2>. QED BY <2>3 DEF f
<1>. QED BY <1>1, <1>2 DEF AllIssued

\* A book where nothing is live reserves nothing and locks nothing.
LEMMA DeadBook ==
  ASSUME NEW N \in OrderBooks, \A i \in DOMAIN N : Fits(N[i]) /\ ~ Live(N[i])
  PROVE  /\ Covered(N, NoShares) /\ Uncrossed(N)
         /\ \A t, m : LockFor(N, t, m) = 0
<1>1. ASSUME NEW t \in Traders, NEW o \in BookOutcomes
      PROVE  SumFunction(ReservedOf(N, t, o)) = 0
  <2>. DEFINE f == ReservedOf(N, t, o)
              I == DOMAIN N
  <2>1. f \in [I -> Int] /\ IsFiniteSet(I)
    BY ReservedTyped, BookFinite
  <2>2. \A i \in I : f[i] = 0
    BY DEF ReservedOf, Fits
  <2>. HIDE DEF f, I
  <2>3. SumFunction(f) = 0
    BY <2>1, <2>2, SumZero
  <2>. QED BY <2>3 DEF f
<1>2. Covered(N, NoShares)
  BY <1>1, NobodyHolds DEF Covered
<1>. QED BY <1>2 DEF Uncrossed, LockFor

\* A settlement that pays out what the escrow holds leaves it empty.
LEMMA SettleKeeps ==
  ASSUME NEW d, Custody(d), NEW pay \in [Traders -> Nat], SumFunction(pay) = One * d.sets,
         NEW e, e.ledger = SettledLedger(d.ledger, d.orders, pay),
         e.orders = CancelledIn(d.orders, LiveOnes(d.orders)), e.shares = NoShares, e.sets = 0
  PROVE  /\ Custody(e) /\ Uncrossed(e.orders) /\ Credits(e.ledger) = Credits(d.ledger)
         /\ \A t \in Traders : Wealth(e.ledger, t) = Wealth(d.ledger, t) + pay[t]
<1>. DEFINE O == d.orders
            V == LiveOnes(O)
            L == d.ledger
            P == CancelledIn(O, V)
            M == Unlocking(L, O, V)
            R == ReleaseLock(M, Escrow, EscrowLock)
            N == Paying(R, pay, Traders)
            z == One * d.sets
<1>1. /\ O \in OrderBooks /\ (\A m \in DOMAIN O : Fits(O[m])) /\ Held(L, O, d.sets)
      /\ V \in SUBSET DOMAIN O /\ (\A m \in V : Live(O[m])) /\ d.sets \in Nat
  BY DEF Custody, Covered, LiveOnes, AllIssued
<1>2. /\ Traders \subseteq Parties /\ Escrow \in Parties /\ Escrow \notin Traders
      /\ EscrowLock \in LockKeys /\ IsFiniteSet(Traders)
      /\ \A m \in OrderIds : OrderLock(m) \in LockKeys /\ OrderLock(m) # EscrowLock
      /\ One \in Nat
  BY ConstantsOK
<1>3. z \in Nat
  BY <1>1, <1>2
<1>4. /\ P \in OrderBooks /\ \A m \in DOMAIN P : Fits(P[m]) /\ ~ Live(P[m])
  <2>1. /\ P \in OrderBooks /\ DOMAIN P = DOMAIN O /\ \A m \in DOMAIN O : Fits(P[m])
        /\ \A m \in V : ~ Live(P[m])
        /\ \A m \in DOMAIN O \ V : P[m] = O[m]
    BY <1>1, CancelledBook
  <2>2. \A m \in DOMAIN O \ V : ~ Live(O[m])
    BY DEF LiveOnes
  <2>. QED BY <2>1, <2>2
<1>5. /\ Covered(P, NoShares) /\ Uncrossed(P) /\ \A t, m : LockFor(P, t, m) = 0
  <2>. HIDE DEF P
  <2>. QED BY <1>4, DeadBook
<1>6. Held(M, P, d.sets) /\ KeepsWealth(M, L)
  BY <1>1, UnlockingHolds
<1>. HIDE DEF M, P, L, V
<1>7. /\ Sound(M) /\ M.locks[Escrow][EscrowLock] = z /\ M.available[Escrow] = 0
      /\ \A m \in OrderIds : M.locks[Escrow][OrderLock(m)] = 0
      /\ \A t \in Traders, m \in OrderIds : M.locks[t][OrderLock(m)] = 0
      /\ \A t \in Traders : M.available[t] >= 0 /\ M.available[t] \in Int /\ M.frozen[t] \in Int
      /\ \A b \in Parties, k \in LockKeys : M.locks[b][k] \in Nat
  BY <1>2, <1>5, <1>6, SoundEntries DEF Held
<1>8. Lowers(R, M, Parties, LockKeys, Escrow, EscrowLock, z)
  BY <1>2, <1>7, ConstantsOK, ReleaseLowers DEF Sound
<1>. HIDE DEF R, z
<1>9. /\ Sound(R) /\ Credits(R) = Credits(L) /\ R.available[Escrow] = z
      /\ R.locks[Escrow][EscrowLock] = 0
      /\ \A m \in OrderIds : R.locks[Escrow][OrderLock(m)] = 0
      /\ \A t \in Traders, m \in OrderIds : R.locks[t][OrderLock(m)] = 0
  <2>1. Sound(R) /\ Credits(R) = Credits(L)
    BY <1>6, <1>8 DEF Lowers, Sound, KeepsWealth
  <2>2. R.available[Escrow] = z
    BY <1>2, <1>3, <1>7, <1>8 DEF Lowers
  <2>3. R.locks[Escrow][EscrowLock] = 0
    BY <1>2, <1>3, <1>7, <1>8 DEF Lowers
  <2>4. ASSUME NEW m \in OrderIds PROVE R.locks[Escrow][OrderLock(m)] = 0
    BY <1>2, <1>7, <1>8 DEF Lowers
  <2>5. ASSUME NEW t \in Traders, NEW m \in OrderIds PROVE R.locks[t][OrderLock(m)] = 0
    BY <1>2, <1>7, <1>8 DEF Lowers
  <2>. QED BY <2>1, <2>2, <2>3, <2>4, <2>5
<1>10. ASSUME NEW t \in Traders
       PROVE  R.available[t] = M.available[t] /\ R.frozen[t] = M.frozen[t]
  BY <1>2, <1>7, <1>8 DEF Lowers
<1>11. HasPaid(N, R, pay, Traders)
  BY <1>9, PayingPays
<1>. HIDE DEF N
<1>12. e.ledger = N
  BY DEF SettledLedger, N, R, M, L, V
<1>13. N.available[Escrow] = 0
  <2>1. SumFunctionOnSet(pay, Traders) = z
    <3>1. DOMAIN pay = Traders
      OBVIOUS
    <3>. QED BY <3>1 DEF SumFunction, z
  <2>. QED BY <1>3, <1>9, <1>11, <2>1 DEF HasPaid
<1>14. ASSUME NEW t \in Traders
       PROVE  /\ N.available[t] = M.available[t] + pay[t] /\ N.frozen[t] = M.frozen[t]
              /\ N.available[t] >= 0 /\ Wealth(N, t) = Wealth(M, t) + pay[t]
  <2>1. N.available[t] = M.available[t] + pay[t] /\ N.frozen[t] = M.frozen[t]
    BY <1>10, <1>11 DEF HasPaid
  <2>2. M.available[t] >= 0 /\ M.available[t] \in Int /\ M.frozen[t] \in Int /\ pay[t] \in Nat
    BY <1>7
  <2>3. N.available[t] >= 0 /\ N.available[t] + N.frozen[t] = M.available[t] + M.frozen[t] + pay[t]
    BY <2>1, <2>2
  <2>. QED BY <2>1, <2>3 DEF Wealth
<1>15. Held(N, P, 0)
  <2>1. \A a \in Parties : N.available[a] >= 0
    BY <1>13, <1>14 DEF Parties
  <2>2. Sound(N) /\ N.locks = R.locks
    BY <1>11 DEF HasPaid
  <2>3. One * 0 = 0
    BY <1>2
  <2>. QED BY <1>5, <1>9, <1>13, <2>1, <2>2, <2>3 DEF Held
<1>16. Custody(e)
  BY <1>5, <1>12, <1>15, NobodyHolds DEF Custody, P, V
<1>17. \A t \in Traders : Wealth(e.ledger, t) = Wealth(d.ledger, t) + pay[t]
  BY <1>6, <1>12, <1>14 DEF KeepsWealth, L
<1>18. Credits(e.ledger) = Credits(d.ledger)
  BY <1>9, <1>11, <1>12 DEF HasPaid, L
<1>. QED BY <1>5, <1>16, <1>17, <1>18 DEF P, V

\* What resolve pays is One for each share of the outcome.
LEMMA ResolvePays ==
  ASSUME NEW S \in Holdings, NEW z, AllIssued(S, z), NEW o \in BookOutcomes
  PROVE  LET pay == [t \in Traders |-> One * S[t][o]]
         IN  pay \in [Traders -> Nat] /\ SumFunction(pay) = One * z
<1>. DEFINE f == IssuedOf(S, o)
            pay == [t \in Traders |-> One * S[t][o]]
<1>1. f \in [Traders -> Nat] /\ SumFunction(f) = z /\ \A t \in Traders : f[t] = S[t][o]
  BY IssuedTyped DEF AllIssued, IssuedOf
<1>2. One \in Nat /\ IsFiniteSet(Traders)
  BY ConstantsOK
<1>3. \A t \in Traders : pay[t] = One * f[t]
  BY <1>1
<1>. HIDE DEF f
<1>4. pay \in [Traders -> Nat]
  BY <1>1, <1>2
<1>. HIDE DEF pay
<1>5. SumFunction(pay) = One * SumFunction(f)
  <2>1. f \in [Traders -> Int] /\ pay \in [Traders -> Int] /\ One \in Int
    BY <1>1, <1>2, <1>4
  <2>. QED BY ONLY <1>2, <1>3, <2>1, SumTimes
<1>. QED BY <1>1, <1>4, <1>5 DEF pay

\* What void pays is half of One for each share.
LEMMA VoidPays ==
  ASSUME NEW S \in Holdings, NEW z, AllIssued(S, z)
  PROVE  LET pay == [t \in Traders |-> (One * (S[t]["yes"] + S[t]["no"])) \div 2]
         IN  pay \in [Traders -> Nat] /\ SumFunction(pay) = One * z
<1>. DEFINE f == IssuedOf(S, "yes")
            g == IssuedOf(S, "no")
            k == [t \in Traders |-> f[t] + g[t]]
            half == One \div 2
            pay == [t \in Traders |-> (One * (S[t]["yes"] + S[t]["no"])) \div 2]
<1>1. /\ f \in [Traders -> Nat] /\ SumFunction(f) = z /\ \A t \in Traders : f[t] = S[t]["yes"]
      /\ g \in [Traders -> Nat] /\ SumFunction(g) = z /\ \A t \in Traders : g[t] = S[t]["no"]
      /\ z \in Nat
  BY IssuedTyped DEF AllIssued, IssuedOf, BookOutcomes
<1>2. One \in Nat /\ IsFiniteSet(Traders) /\ One % 2 = 0
  BY ConstantsOK
<1>3. half \in Nat /\ One = 2 * half
  BY <1>2
<1>. HIDE DEF f, g, half
<1>4. k \in [Traders -> Nat] /\ \A t \in Traders : k[t] = f[t] + g[t]
  BY <1>1
<1>5. ASSUME NEW t \in Traders PROVE pay[t] = half * k[t] /\ half * k[t] \in Nat
  <2>. DEFINE w == half * k[t]
  <2>1. w \in Nat
    BY <1>3, <1>4
  <2>2. One * (S[t]["yes"] + S[t]["no"]) = 2 * w
    <3>1. S[t]["yes"] + S[t]["no"] = k[t] /\ k[t] \in Nat
      BY <1>1, <1>4
    <3>. HIDE DEF k
    <3>2. One * k[t] = 2 * (half * k[t])
      BY <1>3, <3>1
    <3>. QED BY <3>1, <3>2
  <2>3. pay[t] = (2 * w) \div 2
    BY <2>2
  <2>. HIDE DEF w, pay
  <2>4. pay[t] = w
    BY <2>1, <2>3
  <2>. QED BY <2>1, <2>4 DEF w
<1>. HIDE DEF k
<1>6. pay \in [Traders -> Nat]
  <2>1. \A t \in Traders : pay[t] \in Nat
    BY <1>5
  <2>. QED BY <2>1
<1>. HIDE DEF pay
<1>7. SumFunction(k) = z + z
  <2>1. f \in [Traders -> Int] /\ g \in [Traders -> Int] /\ k \in [Traders -> Int]
    BY <1>1, <1>4
  <2>2. SumFunction(k) = SumFunction(f) + SumFunction(g)
    <3>1. \A t \in Traders : k[t] = f[t] + g[t]
      BY <1>4
    <3>2. IsFiniteSet(Traders)
      BY <1>2
    <3>. QED BY ONLY <2>1, <3>1, <3>2, SumAdd
  <2>. QED BY <1>1, <2>2
<1>8. SumFunction(pay) = half * SumFunction(k)
  <2>1. k \in [Traders -> Int] /\ pay \in [Traders -> Int] /\ half \in Int
    BY <1>3, <1>4, <1>6
  <2>. QED BY ONLY <1>2, <1>5, <2>1, SumTimes
<1>9. half * (z + z) = One * z
  BY <1>1, <1>3
<1>. QED BY <1>6, <1>7, <1>8, <1>9 DEF pay

-----------------------------------------------------------------------------
(* The inductive invariant: every lock, share and set stands for something,  *)
(* and nothing crosses.                                                      *)

Desk == [ledger |-> ledger, orders |-> orders, shares |-> shares, sets |-> sets]

MarketInv ==
  /\ Held(ledger, orders, sets) /\ Covered(orders, shares) /\ AllIssued(shares, sets)
  /\ Uncrossed(orders)
  /\ orders \in Seq(Order) /\ Len(orders) <= MaxOrders
  /\ status \in {"none", "open", "resolved", "void"}
  /\ resolution \in BookOutcomes \cup {NoOutcome}

\* What a step leaves of the desk is what the invariant says of it.
LEMMA BookIsSeq ==
  ASSUME NEW n \in Nat, NEW O \in [1..n -> Order]
  PROVE  O \in Seq(Order) /\ Len(O) = n
OBVIOUS

LEMMA SeqIsBook ==
  ASSUME NEW O \in Seq(Order), Len(O) <= MaxOrders
  PROVE  /\ O \in OrderBooks /\ DOMAIN O = 1..Len(O) /\ Len(O) \in Nat
         /\ O \in [1..Len(O) -> Order] /\ \A i \in DOMAIN O : O[i] \in Order /\ i \in OrderIds
<1>1. DOMAIN O = 1..Len(O) /\ Len(O) \in Nat /\ O \in [1..Len(O) -> Order]
  OBVIOUS
<1>2. 1..Len(O) \subseteq OrderIds
  BY <1>1, ConstantsOK
<1>. HIDE DEF Order
<1>3. O \in OrderBooks
  BY <1>1, <1>2, OrderBooksOK
<1>. QED BY <1>1, <1>2, <1>3

LEMMA DeskKept ==
  ASSUME MarketInv
  PROVE  /\ Custody(Desk) /\ Uncrossed(Desk.orders) /\ orders \in OrderBooks
         /\ DOMAIN orders = 1..Len(orders) /\ Len(orders) \in Nat
         /\ \A i \in DOMAIN orders : orders[i] \in Order /\ Fits(orders[i]) /\ i \in OrderIds
         /\ Desk.ledger = ledger /\ Desk.orders = orders /\ Desk.shares = shares /\ Desk.sets = sets
<1>1. Desk.ledger = ledger /\ Desk.orders = orders /\ Desk.shares = shares /\ Desk.sets = sets
  BY DEF Desk
<1>2. /\ orders \in OrderBooks /\ DOMAIN orders = 1..Len(orders) /\ Len(orders) \in Nat
      /\ \A i \in DOMAIN orders : orders[i] \in Order /\ i \in OrderIds
  BY SeqIsBook DEF MarketInv
<1>. QED BY <1>1, <1>2 DEF MarketInv, Custody, Covered

\* What place_order matches from, and what it ends with.
LEMMA PlaceFacts ==
  ASSUME MarketInv, NEW t \in Traders, NEW side \in Sides, NEW o \in BookOutcomes,
         NEW price \in Prices, NEW n \in Sizes, PlaceOrder(t, side, o, price, n)
  PROVE  LET k == Len(orders) + 1
             q == NewOrder(t, side, o, price, n)
             N == Append(orders, q)
             b == Placed(Desk, q, N, k)
             e == Matched(b, k)
         IN  /\ Joins(N, orders, q, k) /\ q.size = q.remaining /\ q \in Order
             /\ Followed(b, e, k) /\ Uncrossed(e.orders) /\ e.orders \in [1..k -> Order]
             /\ b.orders = N /\ Held(b.ledger, N, sets) /\ KeepsWealth(b.ledger, ledger)
             /\ ledger' = e.ledger /\ orders' = e.orders /\ shares' = e.shares /\ sets' = e.sets
             /\ k <= MaxOrders /\ status = "open" /\ UNCHANGED <<status, resolution>>
<1>. DEFINE k == Len(orders) + 1
            q == NewOrder(t, side, o, price, n)
            N == Append(orders, q)
            b == Placed(Desk, q, N, k)
            e == Matched(b, k)
            c == [ledger |-> IF side = "bid" THEN Freeze(ledger, t, OrderLock(k), price * n) ELSE ledger,
                  orders |-> Append(orders, NewOrder(t, side, o, price, n)),
                  shares |-> shares, sets |-> sets]
<1>1. /\ Custody(Desk) /\ Uncrossed(Desk.orders) /\ orders \in OrderBooks
      /\ DOMAIN orders = 1..Len(orders) /\ Len(orders) \in Nat
      /\ Desk.ledger = ledger /\ Desk.orders = orders /\ Desk.shares = shares /\ Desk.sets = sets
  BY DeskKept
<1>2. /\ q \in Order /\ Fits(q) /\ q.status = "open" /\ q.account = t /\ q.side = side
      /\ q.outcome = o /\ q.price = price /\ q.size = n /\ q.remaining = n
  BY NewOrderFits
<1>. HIDE DEF q
<1>3. k \in Nat /\ k > 0 /\ k <= MaxOrders /\ k \in OrderIds /\ k - 1 = Len(orders) /\ status = "open"
  <2>1. k <= MaxOrders /\ status = "open"
    BY DEF PlaceOrder
  <2>. QED BY <1>1, <2>1, ConstantsOK
<1>4. /\ N \in [1..k -> Order] /\ DOMAIN N = 1..k /\ N[k] = q
      /\ \A m \in DOMAIN orders : N[m] = orders[m]
  <2>1. N \in Seq(Order) /\ Len(N) = k /\ N[k] = q /\ \A m \in 1..Len(orders) : N[m] = orders[m]
    BY <1>2 DEF MarketInv
  <2>. HIDE DEF N, k
  <2>2. N \in [1..Len(N) -> Order]
    BY <2>1
  <2>. QED BY <1>1, <2>1, <2>2
<1>. HIDE DEF N
<1>5. N \in OrderBooks
  <2>1. DOMAIN N \subseteq OrderIds
    BY <1>3, <1>4, ConstantsOK
  <2>. QED BY <1>4, <2>1, OrderBooksOK
<1>6. Joins(N, orders, q, k)
  <2>1. DOMAIN orders = 1..(k - 1)
    BY <1>1, <1>3
  <2>. HIDE DEF k
  <2>. QED BY <1>3, <1>4, <1>5, <2>1 DEF Joins
<1>7. /\ side = "bid" => CanPay(ledger, t, price * n)
      /\ side = "ask" => shares[t][o] - SumFunction(ReservedOf(orders, t, o)) >= n
  <2>1. Reserved(t, o) = SumFunction(ReservedOf(orders, t, o))
    BY DEF Reserved, ReservedOf
  <2>. QED BY <2>1 DEF PlaceOrder
<1>8. Allowed(Desk, q)
  BY <1>1, <1>2, <1>7 DEF Allowed
<1>9. c = b
  <2>1. LockedFor(ledger, q, k) =
          IF side = "bid" THEN Freeze(ledger, t, OrderLock(k), price * n) ELSE ledger
    BY <1>2 DEF LockedFor
  <2>. QED BY <1>1, <2>1 DEF Placed, N, q
<1>10. /\ ledger' = e.ledger /\ orders' = e.orders /\ shares' = e.shares /\ sets' = e.sets
       /\ UNCHANGED <<status, resolution>>
  <2>1. /\ ledger' = Matched(c, k).ledger /\ orders' = Matched(c, k).orders
        /\ shares' = Matched(c, k).shares /\ sets' = Matched(c, k).sets
        /\ UNCHANGED <<status, resolution>>
    BY DEF PlaceOrder
  <2>. HIDE DEF c, b
  <2>. QED BY <1>9, <2>1
<1>11. Followed(b, e, k) /\ Uncrossed(e.orders) /\ e.orders \in [1..k -> Order]
  <2>1. Joins(N, Desk.orders, q, k)
    BY <1>1, <1>6
  <2>. HIDE DEF k
  <2>. QED BY <1>1, <1>8, <2>1, PlacedEnds
<1>12. b.ledger = LockedFor(ledger, q, k) /\ b.orders = N
  BY <1>1 DEF Placed
<1>. HIDE DEF b, k
<1>13. Held(b.ledger, N, sets) /\ KeepsWealth(b.ledger, ledger)
  <2>1. Held(Desk.ledger, Desk.orders, Desk.sets) /\ Desk.orders \in OrderBooks /\ Joins(N, Desk.orders, q, k)
    BY <1>1, <1>6 DEF Custody
  <2>2. /\ Held(LockedFor(Desk.ledger, q, k), N, Desk.sets)
        /\ Credits(LockedFor(Desk.ledger, q, k)) = Credits(Desk.ledger)
        /\ \A x \in Traders : Wealth(LockedFor(Desk.ledger, q, k), x) = Wealth(Desk.ledger, x)
    BY <1>8, <2>1, JoinedHeld
  <2>. QED BY <1>1, <1>12, <2>2 DEF KeepsWealth
<1>. HIDE DEF e
<1>. QED BY <1>2, <1>3, <1>6, <1>10, <1>11, <1>12, <1>13 DEF e, b, k, N, q

LEMMA PlaceStep ==
  ASSUME MarketInv, NEW t \in Traders, NEW side \in Sides, NEW o \in BookOutcomes,
         NEW price \in Prices, NEW n \in Sizes, PlaceOrder(t, side, o, price, n)
  PROVE  MarketInv'
<1>. DEFINE k == Len(orders) + 1
            q == NewOrder(t, side, o, price, n)
            b == Placed(Desk, q, Append(orders, q), k)
            e == Matched(b, k)
<1>1. /\ Followed(b, e, k) /\ Uncrossed(e.orders) /\ e.orders \in [1..k -> Order]
      /\ ledger' = e.ledger /\ orders' = e.orders /\ shares' = e.shares /\ sets' = e.sets
      /\ k <= MaxOrders /\ UNCHANGED <<status, resolution>>
  BY PlaceFacts
<1>2. k \in Nat
  BY DeskKept
<1>. HIDE DEF b, e, k
<1>3. Held(e.ledger, e.orders, e.sets) /\ Covered(e.orders, e.shares) /\ AllIssued(e.shares, e.sets)
  BY <1>1 DEF Followed, Custody
<1>4. e.orders \in Seq(Order) /\ Len(e.orders) = k
  BY <1>1, <1>2, BookIsSeq
<1>. QED BY <1>1, <1>3, <1>4 DEF MarketInv

\* A step after which nobody is richer and no order has been filled.
QuietStep ==
  /\ shares' = shares /\ sets' = sets /\ KeepsWealth(ledger', ledger)
  /\ DOMAIN orders' = DOMAIN orders
  /\ \A i \in DOMAIN orders :
       SameOrder(orders'[i], orders[i]) /\ orders'[i].remaining = orders[i].remaining

LEMMA CreateStep ==
  ASSUME MarketInv, CreateMarket
  PROVE  MarketInv' /\ QuietStep
BY DEF MarketInv, CreateMarket, QuietStep, KeepsWealth, SameOrder

LEMMA CancelStep ==
  ASSUME MarketInv, NEW i \in DOMAIN orders, Cancel(i)
  PROVE  MarketInv' /\ QuietStep /\ UNCHANGED <<status, resolution>>
<1>. DEFINE q == CancelledOrder(orders[i])
            N == Replaced(orders, i, q)
            M == Unlocked(ledger, orders[i], i)
            e == [ledger |-> M, orders |-> N, shares |-> shares, sets |-> sets]
<1>1. /\ Custody(Desk) /\ Uncrossed(Desk.orders)
      /\ orders \in [1..Len(orders) -> Order] /\ Len(orders) \in Nat /\ i \in 1..Len(orders)
      /\ Fits(orders[i]) /\ Len(orders) <= MaxOrders
      /\ Desk.ledger = ledger /\ Desk.orders = orders /\ Desk.shares = shares /\ Desk.sets = sets
  BY DeskKept, SeqIsBook DEF MarketInv
<1>2. /\ Live(orders[i]) /\ orders' = N /\ ledger' = M
      /\ UNCHANGED <<status, resolution, shares, sets>>
  BY DEF Cancel, Replaced, UnlockBid, Unlocked
<1>3. /\ q \in Order /\ SameOrder(q, orders[i]) /\ q.remaining = orders[i].remaining
  BY <1>1, <1>2, CancelledFits
<1>4. e.ledger = M /\ e.orders = N /\ e.shares = shares /\ e.sets = sets
  OBVIOUS
<1>5. N = Replaced(Desk.orders, i, CancelledOrder(Desk.orders[i]))
      /\ M = Unlocked(Desk.ledger, Desk.orders[i], i)
  BY <1>1
<1>. HIDE DEF e, M, q
<1>6. Custody(e) /\ KeepsWealth(M, ledger) /\ Uncrossed(N)
  <2>1. i \in DOMAIN Desk.orders /\ Live(Desk.orders[i])
    BY <1>1, <1>2
  <2>. HIDE DEF N
  <2>. QED BY <1>1, <1>4, <1>5, <2>1, CancelKeeps
<1>7. /\ N \in [1..Len(orders) -> Order] /\ DOMAIN N = 1..Len(orders) /\ N[i] = q
      /\ \A m \in 1..Len(orders) : m # i => N[m] = orders[m]
  BY <1>1, <1>3 DEF Replaced
<1>. HIDE DEF N
<1>8. N \in Seq(Order) /\ Len(N) = Len(orders)
  BY <1>1, <1>7, BookIsSeq
<1>9. QuietStep
  <2>1. ASSUME NEW m \in DOMAIN orders
        PROVE  SameOrder(N[m], orders[m]) /\ N[m].remaining = orders[m].remaining
    <3>1. CASE m = i
      BY <1>3, <1>7, <3>1
    <3>2. CASE m # i
      BY <1>1, <1>7, <3>2 DEF SameOrder
    <3>. QED BY <3>1, <3>2
  <2>2. DOMAIN N = DOMAIN orders
    BY <1>1, <1>7
  <2>. QED BY <1>2, <1>6, <2>1, <2>2 DEF QuietStep
<1>10. Held(ledger', orders', sets') /\ Covered(orders', shares') /\ AllIssued(shares', sets')
  BY <1>2, <1>4, <1>6 DEF Custody
<1>11. Uncrossed(orders') /\ orders' \in Seq(Order) /\ Len(orders') <= MaxOrders
  BY <1>1, <1>2, <1>6, <1>8
<1>. QED BY <1>2, <1>9, <1>10, <1>11 DEF MarketInv

\* A restart finds every reservation under its order again.
LEMMA RestartStep ==
  ASSUME MarketInv, Restart
  PROVE  UNCHANGED vars
<1>1. /\ orders \in OrderBooks /\ DOMAIN orders = 1..Len(orders)
      /\ orders \in [DOMAIN orders -> Order]
      /\ \A i \in DOMAIN orders : orders[i] \in Order /\ orders[i].reserved \in Nat
  BY DeskKept, BookFinite, OrderTyped
<1>. DEFINE bare == [i \in DOMAIN orders |-> [orders[i] EXCEPT !.reserved = 0]]
            kept == {i \in DOMAIN orders : orders[i].reserved > 0}
            r(i) == IF i \in kept THEN orders[i].reserved ELSE 0
<1>2. /\ status' = status /\ resolution' = resolution /\ sets' = sets /\ shares' = shares
      /\ ledger' = ledger
      /\ orders' = [i \in DOMAIN orders |-> [bare[i] EXCEPT !.reserved = r(i)]]
  BY DEF Restart, Snapshot
<1>3. ASSUME NEW i \in DOMAIN orders PROVE [bare[i] EXCEPT !.reserved = r(i)] = orders[i]
  <2>1. r(i) = orders[i].reserved
    BY <1>1
  <2>2. bare[i] = [orders[i] EXCEPT !.reserved = 0]
    OBVIOUS
  <2>. HIDE DEF r, bare
  <2>. QED BY <1>1, <2>1, <2>2 DEF Order
<1>4. orders' = orders
  <2>. HIDE DEF r, bare
  <2>. QED BY <1>1, <1>2, <1>3
<1>. QED BY <1>2, <1>4 DEF vars

LEMMA StutterStep ==
  ASSUME MarketInv, UNCHANGED vars
  PROVE  MarketInv' /\ QuietStep
BY DEF MarketInv, vars, QuietStep, KeepsWealth, SameOrder

\* What a settlement pays makes the traders that much richer.
LEMMA SettleStep ==
  ASSUME MarketInv, NEW pay \in [Traders -> Nat], SumFunction(pay) = One * sets, Settle(pay),
         status' \in {"none", "open", "resolved", "void"},
         resolution' \in BookOutcomes \cup {NoOutcome}
  PROVE  /\ MarketInv' /\ shares' = NoShares /\ status = "open"
         /\ \A t \in Traders : Wealth(ledger', t) = Wealth(ledger, t) + pay[t]
         /\ DOMAIN orders' = DOMAIN orders
         /\ \A i \in DOMAIN orders :
              SameOrder(orders'[i], orders[i]) /\ orders'[i].remaining = orders[i].remaining
<1>. DEFINE V == LiveOnes(orders)
            N == CancelledIn(orders, V)
            M == SettledLedger(ledger, orders, pay)
            e == [ledger |-> M, orders |-> N, shares |-> NoShares, sets |-> 0]
<1>1. /\ Custody(Desk) /\ orders \in OrderBooks /\ DOMAIN orders = 1..Len(orders)
      /\ Len(orders) \in Nat /\ \A i \in DOMAIN orders : Fits(orders[i])
      /\ Len(orders) <= MaxOrders
      /\ Desk.ledger = ledger /\ Desk.orders = orders /\ Desk.shares = shares /\ Desk.sets = sets
  BY DeskKept DEF MarketInv
<1>2. /\ status = "open" /\ orders' = N /\ shares' = NoShares /\ sets' = 0
  BY DEF Settle, CancelledIn, LiveOnes
<1>3. ledger' = M
  <2>1. FoldSet(LAMBDA i, L : UnlockBid(L, i), ledger, {i \in DOMAIN orders : Live(orders[i])})
          = Unlocking(ledger, orders, V)
    BY DEF FoldSet, MapThenFoldSet, UnlockBid, Unlocked, Unlocking, IsUnlocking, Chosen, LiveOnes
  <2>. DEFINE R == ReleaseLock(Unlocking(ledger, orders, V), Escrow, EscrowLock)
  <2>2. FoldSet(LAMBDA t, L : TransferAvailable(L, Escrow, t, pay[t]), R, Traders)
          = Paying(R, pay, Traders)
    <3>. HIDE DEF R
    <3>. QED BY DEF FoldSet, MapThenFoldSet, Paying, IsPaying, Chosen
  <2>. QED BY <2>1, <2>2 DEF Settle, SettledLedger
<1>4. e.ledger = M /\ e.orders = N /\ e.shares = NoShares /\ e.sets = 0
  OBVIOUS
<1>. HIDE DEF e, M, N
<1>5. /\ Custody(e) /\ Uncrossed(e.orders)
      /\ \A t \in Traders : Wealth(e.ledger, t) = Wealth(ledger, t) + pay[t]
  <2>1. e.ledger = SettledLedger(Desk.ledger, Desk.orders, pay)
        /\ e.orders = CancelledIn(Desk.orders, LiveOnes(Desk.orders))
    BY <1>1, <1>4 DEF M, N
  <2>2. SumFunction(pay) = One * Desk.sets
    BY <1>1
  <2>. QED BY <1>1, <1>4, <2>1, <2>2, SettleKeeps
<1>6. /\ N \in OrderBooks /\ DOMAIN N = DOMAIN orders
      /\ \A i \in DOMAIN orders : SameOrder(N[i], orders[i]) /\ N[i].remaining = orders[i].remaining
  <2>1. V \in SUBSET DOMAIN orders /\ \A i \in V : Live(orders[i])
    BY DEF LiveOnes
  <2>. HIDE DEF V
  <2>. QED BY <1>1, <2>1, CancelledBook DEF N
<1>7. N \in Seq(Order) /\ Len(N) = Len(orders)
  <2>1. N \in [1..Len(orders) -> Order]
    BY <1>1, <1>6, BookFinite
  <2>. QED BY <1>1, <2>1, BookIsSeq
<1>8. Held(ledger', orders', sets') /\ Covered(orders', shares') /\ AllIssued(shares', sets')
  BY <1>2, <1>3, <1>4, <1>5 DEF Custody
<1>9. Uncrossed(orders') /\ orders' \in Seq(Order) /\ Len(orders') <= MaxOrders
  BY <1>1, <1>2, <1>4, <1>5, <1>7
<1>10. MarketInv'
  BY <1>8, <1>9 DEF MarketInv
<1>. QED BY <1>2, <1>3, <1>4, <1>5, <1>6, <1>10

LEMMA ResolveStep ==
  ASSUME MarketInv, NEW o \in BookOutcomes, Resolve(o)
  PROVE  /\ MarketInv' /\ shares' = NoShares /\ status = "open"
         /\ \A t \in Traders : Wealth(ledger', t) = Wealth(ledger, t) + One * shares[t][o]
         /\ DOMAIN orders' = DOMAIN orders
         /\ \A i \in DOMAIN orders :
              SameOrder(orders'[i], orders[i]) /\ orders'[i].remaining = orders[i].remaining
<1>. DEFINE pay == [t \in Traders |-> One * shares[t][o]]
<1>1. pay \in [Traders -> Nat] /\ SumFunction(pay) = One * sets
  BY ResolvePays DEF MarketInv, Covered
<1>2. Settle(pay) /\ status' = "resolved" /\ resolution' = o
  BY DEF Resolve
<1>3. \A t \in Traders : pay[t] = One * shares[t][o]
  OBVIOUS
<1>. HIDE DEF pay
<1>. QED BY <1>1, <1>2, <1>3, SettleStep

LEMMA VoidStep ==
  ASSUME MarketInv, Void
  PROVE  /\ MarketInv' /\ shares' = NoShares /\ status = "open"
         /\ \A t \in Traders : Wealth(ledger', t) =
              Wealth(ledger, t) + (One * (shares[t]["yes"] + shares[t]["no"])) \div 2
         /\ DOMAIN orders' = DOMAIN orders
         /\ \A i \in DOMAIN orders :
              SameOrder(orders'[i], orders[i]) /\ orders'[i].remaining = orders[i].remaining
<1>. DEFINE pay == [t \in Traders |-> (One * (shares[t]["yes"] + shares[t]["no"])) \div 2]
<1>1. pay \in [Traders -> Nat] /\ SumFunction(pay) = One * sets
  BY VoidPays DEF MarketInv, Covered
<1>2. Settle(pay) /\ status' = "void" /\ UNCHANGED resolution
  BY DEF Void
<1>3. resolution' \in BookOutcomes \cup {NoOutcome}
  BY <1>2 DEF MarketInv
<1>4. \A t \in Traders : pay[t] = (One * (shares[t]["yes"] + shares[t]["no"])) \div 2
  OBVIOUS
<1>. HIDE DEF pay
<1>. QED BY <1>1, <1>2, <1>3, <1>4, SettleStep

LEMMA MarketInit == Init => MarketInv
<1>. SUFFICES ASSUME Init PROVE MarketInv
  OBVIOUS
<1>. DEFINE E == EmptyLedger(Parties, LockKeys)
            v == [a \in Parties |-> IF a \in Traders THEN Funds ELSE 0]
<1>1. /\ ledger = [E EXCEPT !.available = v] /\ orders = <<>> /\ shares = NoShares /\ sets = 0
      /\ status = "none" /\ resolution = NoOutcome
  BY DEF Init
<1>2. E \in Ledgers(Parties, LockKeys) /\ FrozenMatchesLocks(E)
  BY ConstantsOK, EmptyLedgerIsSound
<1>3. v \in [Parties -> Int] /\ \A a \in Parties : v[a] >= 0
  BY ConstantsOK
<1>4. v[Escrow] = 0
  BY ConstantsOK
<1>5. \A b \in Parties, k \in LockKeys : E.locks[b][k] = 0
  BY DEF EmptyLedger
<1>. HIDE DEF E, v
<1>6. /\ ledger \in Ledgers(Parties, LockKeys) /\ ledger.available = v
      /\ ledger.frozen = E.frozen /\ ledger.locks = E.locks
  BY <1>1, <1>2, <1>3 DEF Ledgers
<1>7. Sound(ledger)
  BY <1>2, <1>6 DEF Sound, SoundLedger, FrozenMatchesLocks
<1>8. <<>> \in Seq(Order) /\ Len(<<>>) = 0 /\ DOMAIN <<>> = {}
  OBVIOUS
<1>9. orders \in OrderBooks
  <2>1. Len(orders) <= MaxOrders /\ orders \in Seq(Order)
    BY <1>1, <1>8, ConstantsOK
  <2>. QED BY <2>1, SeqIsBook
<1>10. Covered(orders, shares) /\ Uncrossed(orders) /\ \A t, m : LockFor(orders, t, m) = 0
  BY <1>1, <1>8, <1>9, DeadBook
<1>11. One * 0 = 0
  BY ConstantsOK
<1>12. Held(ledger, orders, sets)
  BY <1>1, <1>3, <1>4, <1>5, <1>6, <1>7, <1>10, <1>11, ConstantsOK DEF Held
<1>13. AllIssued(shares, sets)
  BY <1>1, NobodyHolds
<1>. QED BY <1>1, <1>8, <1>10, <1>12, <1>13, ConstantsOK DEF MarketInv

LEMMA MarketStep == MarketInv /\ [Next]_vars => MarketInv'
<1>. SUFFICES ASSUME MarketInv, [Next]_vars PROVE MarketInv'
  OBVIOUS
<1>1. CASE CreateMarket
  BY <1>1, CreateStep
<1>2. ASSUME NEW t \in Traders, NEW side \in Sides, NEW o \in BookOutcomes,
             NEW price \in Prices, NEW n \in Sizes, PlaceOrder(t, side, o, price, n)
      PROVE  MarketInv'
  BY <1>2, PlaceStep
<1>3. ASSUME NEW i \in DOMAIN orders, Cancel(i) PROVE MarketInv'
  BY <1>3, CancelStep
<1>4. ASSUME NEW o \in BookOutcomes, Resolve(o) PROVE MarketInv'
  BY <1>4, ResolveStep
<1>5. CASE Void
  BY <1>5, VoidStep
<1>6. CASE Restart
  BY <1>6, RestartStep, StutterStep
<1>7. CASE UNCHANGED vars
  BY <1>7, StutterStep
<1>. QED BY <1>1, <1>2, <1>3, <1>4, <1>5, <1>6, <1>7 DEF Next

\* The desk stays in order: whatever is placed, matched, cancelled, settled and
\* restarted, each lock and reservation is what a live order or the sets need.
THEOREM MarketKept == Spec => []MarketInv
<1>. QED BY MarketInit, MarketStep, PTL DEF Spec

\* The types, for any numbers of traders, prices and orders.
THEOREM TypeCorrect == Spec => []TypeOK
<1>1. MarketInv => TypeOK
  <2>. SUFFICES ASSUME MarketInv PROVE TypeOK
    OBVIOUS
  <2>1. ledger \in Ledgers(Parties, LockKeys)
    BY DEF MarketInv, Held, Sound, SoundLedger
  <2>2. shares \in [Traders -> [BookOutcomes -> Nat]] /\ sets \in Nat
    BY DEF MarketInv, Covered, AllIssued, Holdings
  <2>. QED BY <2>1, <2>2 DEF MarketInv, TypeOK
<1>. QED BY <1>1, MarketKept, PTL

\* Every set is backed by One in the escrow's lock, as many yes as no shares are
\* out, and nothing loose is left with the escrow (engine.py, _fill).
THEOREM SetsBacked == Spec => []SetsAreBacked
<1>1. MarketInv => SetsAreBacked
  BY DEF MarketInv, SetsAreBacked, Held, AllIssued, IssuedOf
<1>. QED BY <1>1, MarketKept, PTL

LEMMA CoveredFromInv == MarketInv => OrdersAreCovered
<1>. SUFFICES ASSUME MarketInv PROVE OrdersAreCovered
  OBVIOUS
<1>1. ASSUME NEW i \in DOMAIN orders
      PROVE  LET order == orders[i]
                 open  == IF Live(order) THEN order.remaining ELSE 0
             IN  /\ ledger.locks[order.account][OrderLock(i)] =
                        (IF order.side = "bid" THEN order.price * open ELSE 0)
                 /\ order.reserved = IF order.side = "ask" THEN open ELSE 0
  <2>. DEFINE q == orders[i]
  <2>1. /\ q \in Order /\ Fits(q) /\ i \in OrderIds /\ q.account \in Traders /\ q.price \in Nat
    BY DeskKept, OrderTyped
  <2>2. ledger.locks[q.account][OrderLock(i)] = LockFor(orders, q.account, i)
    BY <2>1 DEF MarketInv, Held
  <2>3. q.price * 0 = 0
    BY <2>1
  <2>4. LockFor(orders, q.account, i) =
          IF q.side = "bid" THEN q.price * (IF Live(q) THEN q.remaining ELSE 0) ELSE 0
    <3>1. LockFor(orders, q.account, i) =
            IF q.side = "bid" /\ Live(q) THEN q.price * q.remaining ELSE 0
      BY DEF LockFor
    <3>. HIDE DEF q
    <3>2. CASE Live(q)
      BY <3>1, <3>2
    <3>3. CASE ~ Live(q)
      BY <2>3, <3>1, <3>3
    <3>. QED BY <3>2, <3>3
  <2>5. q.reserved = IF q.side = "ask" THEN (IF Live(q) THEN q.remaining ELSE 0) ELSE 0
    BY <2>1 DEF Fits
  <2>. QED BY <2>2, <2>4, <2>5
<1>2. \A t \in Traders, o \in BookOutcomes : Reserved(t, o) <= shares[t][o]
  <2>1. \A t, o : Reserved(t, o) = SumFunction(ReservedOf(orders, t, o))
    BY DEF Reserved, ReservedOf
  <2>. QED BY <2>1 DEF MarketInv, Covered
<1>. QED BY <1>1, <1>2 DEF OrdersAreCovered

\* What rests on the book is covered by locks and shares, and nothing crosses,
\* however many fills, self-trades and cancels came before.
THEOREM RestingSound == Spec => []RestingOrdersAreSound
<1>1. MarketInv => BookIsUncrossed
  BY DEF MarketInv, Uncrossed, BookIsUncrossed
<1>2. MarketInv => RestingOrdersAreSound
  BY <1>1, CoveredFromInv DEF RestingOrdersAreSound
<1>. QED BY <1>2, MarketKept, PTL

-----------------------------------------------------------------------------
(* What a step may do: priority and limits                                   *)

\* What place_order fills of the orders it finds, and of its own.
LEMMA PlaceFills ==
  ASSUME MarketInv, NEW t \in Traders, NEW side \in Sides, NEW o \in BookOutcomes,
         NEW price \in Prices, NEW n \in Sizes, PlaceOrder(t, side, o, price, n)
  PROVE  LET k == Len(orders) + 1
             N == Append(orders, NewOrder(t, side, o, price, n))
         IN  /\ N \in OrderBooks /\ orders' \in OrderBooks /\ DOMAIN orders' = DOMAIN N
             /\ DOMAIN N = 1..k /\ DOMAIN orders = 1..(k - 1) /\ k \in Nat
             /\ \A i \in DOMAIN orders : N[i] = orders[i]
             /\ \A i \in DOMAIN N :
                  /\ SameOrder(orders'[i], N[i])
                  /\ JustFilled(i) = N[i].remaining - orders'[i].remaining
<1>. DEFINE k == Len(orders) + 1
            q == NewOrder(t, side, o, price, n)
            N == Append(orders, q)
            b == Placed(Desk, q, N, k)
            e == Matched(b, k)
<1>1. /\ Joins(N, orders, q, k) /\ q.size = q.remaining
      /\ Followed(b, e, k) /\ e.orders \in [1..k -> Order]
      /\ b.orders = N /\ orders' = e.orders
  BY PlaceFacts
<1>2. Len(orders) \in Nat
  BY DeskKept
<1>. HIDE DEF b, e, q, N
<1>3. /\ N \in OrderBooks /\ DOMAIN N = 1..k /\ DOMAIN orders = 1..(k - 1) /\ k \in Nat
      /\ N[k] = q /\ \A i \in DOMAIN orders : N[i] = orders[i]
  BY <1>1, <1>2 DEF Joins
<1>4. orders' \in OrderBooks /\ DOMAIN orders' = DOMAIN N
  BY <1>1 DEF Followed, Custody, Covered
<1>5. ASSUME NEW i \in DOMAIN N
      PROVE  /\ SameOrder(orders'[i], N[i])
             /\ JustFilled(i) = N[i].remaining - orders'[i].remaining
  <2>1. SameOrder(orders'[i], N[i])
    BY <1>1 DEF Followed, Progressed
  <2>2. /\ N[i].size \in Nat /\ N[i].remaining \in Nat /\ orders'[i].remaining \in Nat
    BY <1>3, <1>4, BookFinite, OrderTyped
  <2>3. FilledOf(orders', i) = N[i].size - orders'[i].remaining
    BY <1>4, <2>1 DEF FilledOf, SameOrder
  <2>4. FilledOf(orders, i) = N[i].size - N[i].remaining
    <3>1. CASE i \in DOMAIN orders
      BY <1>3, <3>1 DEF FilledOf
    <3>2. CASE i \notin DOMAIN orders
      <4>1. i = k
        BY <1>3, <3>2
      <4>2. N[i].size - N[i].remaining = 0
        BY <1>1, <1>3, <2>2, <4>1
      <4>. QED BY <3>2, <4>2 DEF FilledOf
    <3>. QED BY <3>1, <3>2
  <2>5. JustFilled(i) = FilledOf(orders', i) - FilledOf(orders, i)
    BY DEF JustFilled
  <2>. QED BY <2>1, <2>2, <2>3, <2>4, <2>5
<1>. QED BY <1>3, <1>4, <1>5 DEF N, q

LEMMA QuietFills ==
  ASSUME MarketInv, MarketInv', DOMAIN orders' = DOMAIN orders,
         \A i \in DOMAIN orders :
           SameOrder(orders'[i], orders[i]) /\ orders'[i].remaining = orders[i].remaining
  PROVE  \A i \in DOMAIN orders : JustFilled(i) = 0
<1>. SUFFICES ASSUME NEW i \in DOMAIN orders PROVE JustFilled(i) = 0
  OBVIOUS
<1>1. FilledOf(orders', i) = FilledOf(orders, i) /\ FilledOf(orders, i) = orders[i].size - orders[i].remaining
  BY DEF FilledOf, SameOrder
<1>2. orders[i].size \in Nat /\ orders[i].remaining \in Nat
  BY DeskKept, OrderTyped
<1>. QED BY <1>1, <1>2 DEF JustFilled

\* The step property of PriceTimePriority.
InPriority ==
  \A i, j \in DOMAIN orders :
    JustFilled(i) > 0 /\ Live(orders[j]) /\ IsBid(orders[i]) = IsBid(orders[j])
      /\ Ahead(orders, j, i)
    => orders'[j].status = "filled"

LEMMA PlaceInPriority ==
  ASSUME MarketInv, NEW t \in Traders, NEW side \in Sides, NEW o \in BookOutcomes,
         NEW price \in Prices, NEW n \in Sizes, PlaceOrder(t, side, o, price, n)
  PROVE  InPriority
<1>. DEFINE k == Len(orders) + 1
            q == NewOrder(t, side, o, price, n)
            N == Append(orders, q)
            b == Placed(Desk, q, N, k)
            e == Matched(b, k)
<1>1. Followed(b, e, k) /\ b.orders = N /\ orders' = e.orders
  BY PlaceFacts
<1>2. /\ N \in OrderBooks /\ orders' \in OrderBooks /\ DOMAIN orders' = DOMAIN N
      /\ DOMAIN N = 1..k /\ DOMAIN orders = 1..(k - 1) /\ k \in Nat
      /\ \A i \in DOMAIN orders : N[i] = orders[i]
      /\ \A i \in DOMAIN N : JustFilled(i) = N[i].remaining - orders'[i].remaining
  BY PlaceFills
<1>. HIDE DEF b, e, q, N, k
<1>3. SUFFICES ASSUME NEW i \in DOMAIN orders, NEW j \in DOMAIN orders,
                      JustFilled(i) > 0, Live(orders[j]), IsBid(orders[i]) = IsBid(orders[j]),
                      Ahead(orders, j, i)
               PROVE  orders'[j].status = "filled"
  BY DEF InPriority
<1>4. i \in DOMAIN N \ {k} /\ j \in DOMAIN N \ {k} /\ N[i] = orders[i] /\ N[j] = orders[j]
  BY <1>2
<1>5. orders'[i].remaining < N[i].remaining
  <2>1. orders'[i].remaining \in Nat /\ N[i].remaining \in Nat
    BY <1>2, <1>4, BookFinite, OrderTyped
  <2>. QED BY <1>2, <1>3, <1>4, <2>1
<1>6. Ahead(N, j, i)
  BY <1>3, <1>4 DEF Ahead
<1>7. InTurn(b, e, k)
  BY <1>1 DEF Followed
<1>. QED BY <1>1, <1>3, <1>4, <1>5, <1>6, <1>7 DEF InTurn

LEMMA QuietInPriority ==
  ASSUME \A i \in DOMAIN orders : JustFilled(i) = 0
  PROVE  InPriority
BY DEF InPriority

LEMMA EveryStepInPriority == MarketInv /\ [Next]_vars => InPriority
<1>. SUFFICES ASSUME MarketInv, [Next]_vars PROVE InPriority
  OBVIOUS
<1>0. MarketInv'
  BY MarketStep
<1>1. QuietStep => InPriority
  BY <1>0, QuietFills, QuietInPriority DEF QuietStep
<1>2. CASE CreateMarket
  BY <1>1, <1>2, CreateStep
<1>3. ASSUME NEW t \in Traders, NEW side \in Sides, NEW o \in BookOutcomes,
             NEW price \in Prices, NEW n \in Sizes, PlaceOrder(t, side, o, price, n)
      PROVE  InPriority
  BY <1>3, PlaceInPriority
<1>4. ASSUME NEW i \in DOMAIN orders, Cancel(i) PROVE InPriority
  BY <1>1, <1>4, CancelStep
<1>5. ASSUME NEW o \in BookOutcomes, Resolve(o) PROVE InPriority
  BY <1>0, <1>5, ResolveStep, QuietFills, QuietInPriority
<1>6. CASE Void
  BY <1>0, <1>6, VoidStep, QuietFills, QuietInPriority
<1>7. CASE Restart
  BY <1>1, <1>7, RestartStep, StutterStep
<1>8. CASE UNCHANGED vars
  BY <1>1, <1>8, StutterStep
<1>. QED BY <1>2, <1>3, <1>4, <1>5, <1>6, <1>7, <1>8 DEF Next

\* Whenever a call fills a resting order, every order ahead of it in the queue
\* has been filled to the end (engine.py, _match and its sort key).
THEOREM PriorityKept == Spec => PriceTimePriority
<1>1. MarketInv /\ [Next]_vars => [InPriority]_vars
  BY EveryStepInPriority
<1>2. [][InPriority]_vars => PriceTimePriority
  BY PTL DEF PriceTimePriority, InPriority
<1>. QED BY <1>1, <1>2, MarketKept, PTL DEF Spec

\* What order i did in the step, at its own price.
LEMMA OwnPrice ==
  ASSUME NEW p, NEW q, SameOrder(p, q), q \in Order, p.remaining \in Nat, NEW t
  PROVE  Worth(p, q, t) =
           LET value == p.price * (q.remaining - p.remaining)
           IN  IF p.account # t THEN 0 ELSE IF p.side = "bid" THEN -value ELSE value
<1>. DEFINE x == q.price * (q.remaining - p.remaining)
<1>1. q.price \in Nat /\ q.remaining \in Nat /\ q.side \in Sides
  BY OrderTyped
<1>2. x \in Int
  BY <1>1
<1>3. p.price = q.price /\ p.account = q.account /\ p.side = q.side
  BY DEF SameOrder
<1>4. Worth(p, q, t) = IF q.account = t THEN -Signed(q, x) ELSE 0
  BY DEF Worth, Gain
<1>5. Signed(q, x) = IF q.side = "bid" THEN x ELSE -x
  BY DEF Signed
<1>6. p.price * (q.remaining - p.remaining) = x
  BY <1>3
<1>. HIDE DEF x
<1>7. -(-x) = x
  BY <1>2
<1>8. Worth(p, q, t) = IF p.account # t THEN 0 ELSE IF p.side = "bid" THEN -x ELSE x
  BY <1>3, <1>4, <1>5, <1>7
<1>. QED BY <1>6, <1>8

\* The step property of LimitsHonoured.
InLimits ==
  status' = "open" =>
    \A t \in Traders : Wealth(ledger', t) - Wealth(ledger, t) >= AtOwnPrices(t)

LEMMA PlaceInLimits ==
  ASSUME MarketInv, NEW t \in Traders, NEW side \in Sides, NEW o \in BookOutcomes,
         NEW price \in Prices, NEW n \in Sizes, PlaceOrder(t, side, o, price, n)
  PROVE  InLimits
<1>. DEFINE k == Len(orders) + 1
            q == NewOrder(t, side, o, price, n)
            N == Append(orders, q)
            b == Placed(Desk, q, N, k)
            e == Matched(b, k)
<1>1. /\ Followed(b, e, k) /\ b.orders = N /\ Held(b.ledger, N, sets) /\ KeepsWealth(b.ledger, ledger)
      /\ ledger' = e.ledger /\ orders' = e.orders
  BY PlaceFacts
<1>2. /\ N \in OrderBooks /\ orders' \in OrderBooks /\ DOMAIN orders' = DOMAIN N
      /\ \A i \in DOMAIN N : SameOrder(orders'[i], N[i])
                             /\ JustFilled(i) = N[i].remaining - orders'[i].remaining
  BY PlaceFills
<1>. HIDE DEF b, e, q, N, k
<1>3. SUFFICES ASSUME NEW x \in Traders
               PROVE  Wealth(ledger', x) - Wealth(ledger, x) >= AtOwnPrices(x)
  BY DEF InLimits
<1>4. AtOwnPrices(x) = Value(orders', N, x)
  <2>1. ASSUME NEW i \in DOMAIN N
        PROVE  Worth(orders'[i], N[i], x) =
                 LET value == orders'[i].price * JustFilled(i)
                 IN  IF orders'[i].account # x THEN 0
                     ELSE IF orders'[i].side = "bid" THEN -value ELSE value
    <3>1. SameOrder(orders'[i], N[i]) /\ N[i] \in Order /\ orders'[i].remaining \in Nat
      BY <1>2, BookFinite, OrderTyped
    <3>2. JustFilled(i) = N[i].remaining - orders'[i].remaining
      BY <1>2
    <3>. QED BY <3>1, <3>2, OwnPrice
  <2>2. ValueOf(orders', N, x) =
          [i \in DOMAIN orders' |->
             LET value == orders'[i].price * JustFilled(i)
             IN  IF orders'[i].account # x THEN 0
                 ELSE IF orders'[i].side = "bid" THEN -value ELSE value]
    BY <1>2, <2>1 DEF ValueOf
  <2>. QED BY <2>2 DEF AtOwnPrices, Value
<1>5. Value(orders', N, x) \in Int
  BY <1>2, ValueTyped
<1>6. Wealth(ledger', x) >= Wealth(ledger, x) + Value(orders', N, x)
  BY <1>1 DEF Followed, WithinLimits, KeepsWealth
<1>7. Wealth(ledger', x) \in Int /\ Wealth(ledger, x) \in Int
  <2>1. Sound(e.ledger) /\ Sound(ledger)
    BY <1>1 DEF MarketInv, Held, Followed, Custody
  <2>2. x \in Parties
    BY ConstantsOK
  <2>. QED BY <1>1, <2>1, <2>2, SoundEntries DEF Wealth
<1>. QED BY <1>4, <1>5, <1>6, <1>7

LEMMA QuietInLimits ==
  ASSUME MarketInv, MarketInv', QuietStep
  PROVE  InLimits
<1>. SUFFICES ASSUME NEW x \in Traders
              PROVE  Wealth(ledger', x) - Wealth(ledger, x) >= AtOwnPrices(x)
  BY DEF InLimits
<1>. DEFINE I == DOMAIN orders'
            f == [i \in DOMAIN orders' |->
                    LET value == orders'[i].price * JustFilled(i)
                    IN  IF orders'[i].account # x THEN 0
                        ELSE IF orders'[i].side = "bid" THEN -value ELSE value]
<1>1. orders \in OrderBooks /\ I = DOMAIN orders /\ IsFiniteSet(I)
  BY DeskKept, BookFinite DEF QuietStep
<1>2. ASSUME NEW i \in I PROVE f[i] = 0
  <2>1. JustFilled(i) = 0 /\ orders'[i].price = orders[i].price /\ orders[i].price \in Nat
    BY <1>1, QuietFills, BookFinite, OrderTyped DEF QuietStep, SameOrder
  <2>. DEFINE value == orders'[i].price * JustFilled(i)
  <2>2. value = 0
    BY <2>1
  <2>3. f[i] = IF orders'[i].account # x THEN 0
               ELSE IF orders'[i].side = "bid" THEN -value ELSE value
    OBVIOUS
  <2>. HIDE DEF value, f
  <2>4. -value = 0
    <3>. DEFINE w == -value
    <3>1. \A z \in Int : z <= 0 /\ 0 <= z => -z <= 0 /\ 0 <= -z
      OBVIOUS
    <3>2. value \in Int /\ value <= 0 /\ 0 <= value
      BY <2>2
    <3>3. w \in Int
      BY <3>2
    <3>4. w <= 0 /\ 0 <= w
      BY <3>1, <3>2
    <3>. HIDE DEF w
    <3>5. w = 0
      BY <3>3, <3>4
    <3>. QED BY <3>5 DEF w
  <2>. QED BY <2>2, <2>3, <2>4
<1>3. DOMAIN f = I
  OBVIOUS
<1>4. AtOwnPrices(x) = SumFunction(f)
  BY DEF AtOwnPrices
<1>. HIDE DEF f, I
<1>5. SumFunction(f) = 0
  <2>1. f \in [I -> Int]
    <3>1. f = [i \in I |-> f[i]]
      BY <1>3 DEF f, I
    <3>. QED BY <1>2, <3>1
  <2>. QED BY <1>1, <1>2, <2>1, SumZero
<1>6. Wealth(ledger', x) = Wealth(ledger, x)
  BY DEF QuietStep, KeepsWealth
<1>7. Wealth(ledger, x) \in Int
  BY ConstantsOK, SoundEntries DEF Wealth, MarketInv, Held
<1>. QED BY <1>4, <1>5, <1>6, <1>7

LEMMA EveryStepInLimits == MarketInv /\ [Next]_vars => InLimits
<1>. SUFFICES ASSUME MarketInv, [Next]_vars PROVE InLimits
  OBVIOUS
<1>0. MarketInv'
  BY MarketStep
<1>1. QuietStep => InLimits
  BY <1>0, QuietInLimits
<1>2. CASE CreateMarket
  BY <1>1, <1>2, CreateStep
<1>3. ASSUME NEW t \in Traders, NEW side \in Sides, NEW o \in BookOutcomes,
             NEW price \in Prices, NEW n \in Sizes, PlaceOrder(t, side, o, price, n)
      PROVE  InLimits
  BY <1>3, PlaceInLimits
<1>4. ASSUME NEW i \in DOMAIN orders, Cancel(i) PROVE InLimits
  BY <1>1, <1>4, CancelStep
<1>5. ASSUME NEW o \in BookOutcomes, Resolve(o) PROVE InLimits
  BY <1>5 DEF InLimits, Resolve
<1>6. CASE Void
  BY <1>6 DEF InLimits, Void
<1>7. CASE Restart
  BY <1>1, <1>7, RestartStep, StutterStep
<1>8. CASE UNCHANGED vars
  BY <1>1, <1>8, StutterStep
<1>. QED BY <1>2, <1>3, <1>4, <1>5, <1>6, <1>7, <1>8 DEF Next

\* While the market is open no call leaves anybody with less than the prices of
\* its own orders imply, as taker, as maker or as both (engine.py, _fill).
THEOREM LimitsKept == Spec => LimitsHonoured
<1>1. MarketInv /\ [Next]_vars => [InLimits]_vars
  BY EveryStepInLimits
<1>2. [][InLimits]_vars => LimitsHonoured
  BY PTL DEF LimitsHonoured, InLimits
<1>. QED BY <1>1, <1>2, MarketKept, PTL DEF Spec
-----------------------------------------------------------------------------
(* The book is the market in complete sets it promises to be                *)

Richness(L) == [t \in Traders |-> Wealth(L, t)]

\* The traders together have what the escrow has not: all the credits less One
\* for every set.
LEMMA WealthIsTheRest ==
  ASSUME NEW L, NEW O \in OrderBooks, NEW z \in Nat, Held(L, O, z)
  PROVE  /\ Richness(L) \in [Traders -> Nat]
         /\ SumFunction(Richness(L)) \in Int
         /\ SumFunction(Richness(L)) + One * z = Credits(L)
<1>1. /\ IsFiniteSet(Parties) /\ IsFiniteSet(LockKeys) /\ Traders = Parties \ {Escrow}
      /\ Escrow \in Parties /\ EscrowLock \in LockKeys
  BY ConstantsOK DEF Parties, LockKeys
<1>2. /\ L.available \in [Parties -> Int] /\ L.frozen \in [Parties -> Int]
      /\ L.locks \in [Parties -> [LockKeys -> Nat]]
      /\ \A a \in Parties : L.frozen[a] = SumFunction(L.locks[a])
  BY SoundFields DEF Held, Sound, Matches
<1>3. \A a \in Parties : L.available[a] \in Nat /\ L.frozen[a] \in Nat
  <2>1. ASSUME NEW a \in Parties PROVE L.frozen[a] \in Nat
    <3>1. L.locks[a] \in [LockKeys -> Nat]
      BY <1>2
    <3>. QED BY <1>1, <1>2, <3>1, SumBounds
  <2>. QED BY <1>2, <2>1 DEF Held
<1>4. L.frozen[Escrow] = One * z
  <2>. DEFINE g == L.locks[Escrow]
              f == [k \in LockKeys \ {EscrowLock} |-> 0]
  <2>1. g \in [LockKeys -> Int] /\ \A k \in LockKeys \ {EscrowLock} : g[k] = 0
    <3>1. g \in [LockKeys -> Nat]
      BY <1>1, <1>2
    <3>2. \A m \in OrderIds : g[OrderLock(m)] = 0
      BY DEF Held
    <3>3. \A k \in LockKeys \ {EscrowLock} : \E m \in OrderIds : k = OrderLock(m)
      BY DEF LockKeys
    <3>. HIDE DEF g
    <3>. QED BY <3>1, <3>2, <3>3
  <2>2. f \in [LockKeys \ {EscrowLock} -> Int] /\ \A k \in LockKeys \ {EscrowLock} : f[k] = 0
    OBVIOUS
  <2>. HIDE DEF f, g
  <2>3. IsFiniteSet(LockKeys \ {EscrowLock})
    BY <1>1, FS_RemoveElement
  <2>4. SumFunction(f) = 0
    BY <2>2, <2>3, SumZero
  <2>5. \A k \in LockKeys \ {EscrowLock} : f[k] = g[k]
    BY <2>1, <2>2
  <2>6. SumFunction(g) = SumFunction(f) + g[EscrowLock]
    BY ONLY <1>1, <2>1, <2>2, <2>5, SumWithout
  <2>7. g[EscrowLock] = One * z /\ One * z \in Int /\ L.frozen[Escrow] = SumFunction(g)
    BY <1>1, <1>2, ConstantsOK DEF Held, g
  <2>. QED BY <2>4, <2>6, <2>7
<1>. DEFINE total == [a \in Parties |-> L.available[a] + L.frozen[a]]
            w == Richness(L)
<1>5. total \in [Parties -> Int] /\ \A a \in Parties : total[a] = L.available[a] + L.frozen[a]
  BY <1>3
<1>6. w \in [Traders -> Nat] /\ \A t \in Traders : w[t] = total[t]
  BY <1>1, <1>3 DEF Richness, Wealth
<1>7. total[Escrow] = One * z
  BY <1>1, <1>2, <1>4, <1>5, ConstantsOK DEF Held
<1>. HIDE DEF total, w
<1>8. SumFunction(total) = Credits(L)
  <2>1. SumFunction(total) = SumFunction(L.available) + SumFunction(L.frozen)
    BY ONLY <1>1, <1>2, <1>5, SumAdd
  <2>. QED BY <2>1 DEF Credits
<1>9. SumFunction(total) = SumFunction(w) + total[Escrow] /\ SumFunction(w) \in Int
  <2>1. w \in [Parties \ {Escrow} -> Int]
    BY <1>1, <1>6
  <2>2. \A t \in Parties \ {Escrow} : w[t] = total[t]
    BY <1>1, <1>6
  <2>3. IsFiniteSet(Parties) /\ Escrow \in Parties
    BY <1>1
  <2>4. total \in [Parties -> Int]
    BY <1>5
  <2>. QED BY ONLY <2>1, <2>2, <2>3, <2>4, SumWithout
<1>. QED BY <1>6, <1>7, <1>8, <1>9 DEF w

\* The sum is one operator, whichever module it is reached through.
LEMMA SameSum ==
  ASSUME NEW f
  PROVE  Abstract!SumFunction(f) = SumFunction(f)
BY DEF SumFunction, SumFunctionOnSet, FoldFunctionOnSet, MapThenFoldSet,
       Abstract!SumFunction, Abstract!SumFunctionOnSet, Abstract!FoldFunctionOnSet,
       Abstract!MapThenFoldSet

\* What the invariant says to the abstract market.
LEMMA AbstractReading ==
  ASSUME MarketInv
  PROVE  /\ Richness(ledger) \in [Traders -> Nat]
         /\ shares \in [Traders -> [BookOutcomes -> Nat]]
         /\ \A o \in BookOutcomes :
              Abstract!SumFunction(Richness(ledger)) + One * Abstract!Issued(o, shares)
                = Credits(ledger)
<1>1. orders \in OrderBooks /\ Held(ledger, orders, sets) /\ sets \in Nat
  BY DeskKept DEF MarketInv, AllIssued
<1>2. Richness(ledger) \in [Traders -> Nat] /\ SumFunction(Richness(ledger)) + One * sets = Credits(ledger)
  BY <1>1, WealthIsTheRest
<1>3. shares \in [Traders -> [BookOutcomes -> Nat]]
  BY DEF MarketInv, Covered, Holdings
<1>4. \A o \in BookOutcomes : Abstract!Issued(o, shares) = sets
  BY SameSum DEF MarketInv, AllIssued, IssuedOf, Abstract!Issued
<1>. QED BY <1>2, <1>3, <1>4, SameSum

Readable ==
  /\ Richness(ledger) \in [Traders -> Nat]
  /\ shares \in [Traders -> [BookOutcomes -> Nat]]
  /\ \A o \in BookOutcomes :
       Abstract!SumFunction(Richness(ledger)) + One * Abstract!Issued(o, shares) = Credits(ledger)

LEMMA MarketReadable == MarketInv => Readable
BY AbstractReading DEF Readable

\* A step that keeps the credits and the state of the market is a trade.
LEMMA TradeStep ==
  ASSUME MarketInv, MarketInv', status = "open", UNCHANGED <<status, resolution>>,
         Credits(ledger') = Credits(ledger)
  PROVE  Abstract!Trade
<1>1. Readable
  BY MarketReadable
<1>2. Readable'
  BY MarketReadable, MarketInv', PTL
<1>. QED BY <1>1, <1>2 DEF Abstract!Trade, Readable, Richness, Abstract!Issued

LEMMA QuietMaps ==
  ASSUME QuietStep, UNCHANGED <<status, resolution>>
  PROVE  UNCHANGED Abstract!vars
BY DEF QuietStep, KeepsWealth, Abstract!vars

LEMMA OpenMaps ==
  ASSUME MarketInv, CreateMarket
  PROVE  Abstract!Open
BY CreateStep DEF CreateMarket, QuietStep, KeepsWealth, Abstract!Open

LEMMA PlaceMaps ==
  ASSUME MarketInv, NEW t \in Traders, NEW side \in Sides, NEW o \in BookOutcomes,
         NEW price \in Prices, NEW n \in Sizes, PlaceOrder(t, side, o, price, n)
  PROVE  Abstract!Trade
<1>. DEFINE k == Len(orders) + 1
            q == NewOrder(t, side, o, price, n)
            b == Placed(Desk, q, Append(orders, q), k)
            e == Matched(b, k)
<1>1. /\ Followed(b, e, k) /\ KeepsWealth(b.ledger, ledger) /\ ledger' = e.ledger
      /\ status = "open" /\ UNCHANGED <<status, resolution>>
  BY PlaceFacts
<1>. HIDE DEF b, e, k
<1>2. Credits(ledger') = Credits(ledger)
  BY <1>1 DEF Followed, KeepsWealth
<1>. QED BY <1>1, <1>2, PlaceStep, TradeStep

LEMMA ResolveMaps ==
  ASSUME MarketInv, NEW o \in BookOutcomes, Resolve(o)
  PROVE  Abstract!Resolve(o)
<1>1. status = "open" /\ \A t \in Traders : Wealth(ledger', t) = Wealth(ledger, t) + One * shares[t][o]
  BY ResolveStep
<1>2. shares' = Abstract!NoShares
  BY ResolveStep DEF NoShares, Abstract!NoShares
<1>3. status' = "resolved" /\ resolution' = o
  BY DEF Resolve
<1>. QED BY <1>1, <1>2, <1>3 DEF Abstract!Resolve

LEMMA VoidMaps ==
  ASSUME MarketInv, Void
  PROVE  Abstract!Void
<1>1. status = "open" /\ \A t \in Traders : Wealth(ledger', t) =
                           Wealth(ledger, t) + (One * (shares[t]["yes"] + shares[t]["no"])) \div 2
  BY VoidStep
<1>2. shares' = Abstract!NoShares
  BY VoidStep DEF NoShares, Abstract!NoShares
<1>3. status' = "void" /\ UNCHANGED resolution
  BY DEF Void
<1>4. ASSUME NEW t \in Traders PROVE Abstract!SumFunction(shares[t]) = shares[t]["yes"] + shares[t]["no"]
  <2>. DEFINE s == shares[t]
              r == [o \in BookOutcomes \ {"yes"} |-> s[o]]
              none == [o \in {"no"} \ {"no"} |-> 0]
  <2>1. s \in [BookOutcomes -> Int]
    BY DEF MarketInv, Covered, Holdings
  <2>2. /\ BookOutcomes \ {"yes"} = {"no"} /\ {"no"} \ {"no"} = {}
        /\ "yes" \in BookOutcomes /\ "no" \in BookOutcomes
    BY DEF BookOutcomes
  <2>3. /\ r \in [BookOutcomes \ {"yes"} -> Int] /\ \A o \in BookOutcomes \ {"yes"} : r[o] = s[o]
        /\ r \in [{"no"} -> Int]
    BY <2>1, <2>2
  <2>4. none \in [{"no"} \ {"no"} -> Int] /\ \A o \in {"no"} \ {"no"} : none[o] = r[o]
    OBVIOUS
  <2>5. IsFiniteSet(BookOutcomes) /\ IsFiniteSet({"no"}) /\ IsFiniteSet({"no"} \ {"no"})
    <3>1. IsFiniteSet({"no"}) /\ IsFiniteSet({"no"} \ {"no"})
      BY FS_Singleton, FS_RemoveElement
    <3>2. IsFiniteSet({"no"} \cup {"yes"}) /\ BookOutcomes = {"no"} \cup {"yes"}
      <4>1. IsFiniteSet({"no"} \cup {"yes"})
        BY ONLY <3>1, FS_AddElement
      <4>. QED BY <4>1 DEF BookOutcomes
    <3>. QED BY <3>1, <3>2
  <2>. HIDE DEF r, none, s
  <2>6. SumFunction(s) = SumFunction(r) + s["yes"]
    <3>1. "yes" \in BookOutcomes
      BY <2>2
    <3>2. r \in [BookOutcomes \ {"yes"} -> Int]
      BY <2>3
    <3>3. \A o \in BookOutcomes \ {"yes"} : r[o] = s[o]
      BY <2>3
    <3>4. IsFiniteSet(BookOutcomes)
      BY <2>5
    <3>. QED BY ONLY <2>1, <3>1, <3>2, <3>3, <3>4, SumWithout
  <2>7. SumFunction(r) = SumFunction(none) + r["no"]
    <3>1. "no" \in {"no"}
      OBVIOUS
    <3>. QED BY ONLY <2>3, <2>4, <2>5, <3>1, SumWithout
  <2>8. SumFunction(none) = 0
    <3>1. \A o \in {"no"} \ {"no"} : none[o] = 0
      OBVIOUS
    <3>. QED BY ONLY <2>4, <2>5, <3>1, SumZero
  <2>9. r["no"] = s["no"] /\ s["no"] \in Int /\ s["yes"] \in Int
    BY <2>1, <2>2, <2>3
  <2>10. SumFunction(s) = s["yes"] + s["no"]
    BY <2>6, <2>7, <2>8, <2>9
  <2>. QED BY <2>10, SameSum DEF s
<1>. QED BY <1>1, <1>2, <1>3, <1>4 DEF Abstract!Void

LEMMA StepMaps == MarketInv /\ [Next]_vars => [Abstract!Next]_(Abstract!vars)
<1>. SUFFICES ASSUME MarketInv, [Next]_vars PROVE [Abstract!Next]_(Abstract!vars)
  OBVIOUS
<1>1. CASE CreateMarket
  BY <1>1, OpenMaps DEF Abstract!Next
<1>2. ASSUME NEW t \in Traders, NEW side \in Sides, NEW o \in BookOutcomes,
             NEW price \in Prices, NEW n \in Sizes, PlaceOrder(t, side, o, price, n)
      PROVE  Abstract!Next
  BY <1>2, PlaceMaps DEF Abstract!Next
<1>3. ASSUME NEW i \in DOMAIN orders, Cancel(i) PROVE UNCHANGED Abstract!vars
  BY <1>3, CancelStep, QuietMaps
<1>4. ASSUME NEW o \in BookOutcomes, Resolve(o) PROVE Abstract!Next
  BY <1>4, ResolveMaps DEF Abstract!Next
<1>5. CASE Void
  BY <1>5, VoidMaps DEF Abstract!Next
<1>6. CASE Restart
  <2>1. UNCHANGED vars
    BY <1>6, RestartStep
  <2>. QED BY <2>1, StutterStep, QuietMaps DEF vars
<1>7. CASE UNCHANGED vars
  BY <1>7, StutterStep, QuietMaps DEF vars
<1>. QED BY <1>1, <1>2, <1>3, <1>4, <1>5, <1>6, <1>7 DEF Next

LEMMA InitMaps == Init => Abstract!Init
<1>. SUFFICES ASSUME Init PROVE Abstract!Init
  OBVIOUS
<1>1. \A t \in Traders : Wealth(ledger, t) = Funds
  <2>. DEFINE E == EmptyLedger(Parties, LockKeys)
              v == [a \in Parties |-> IF a \in Traders THEN Funds ELSE 0]
  <2>1. E.frozen = [a \in Parties |-> 0] /\ E.available = [a \in Parties |-> 0]
    BY DEF EmptyLedger
  <2>2. \A t \in Traders : t \in Parties /\ v[t] = Funds
    BY ConstantsOK
  <2>3. ledger = [E EXCEPT !.available = v]
    BY DEF Init
  <2>4. E \in Ledgers(Parties, LockKeys)
    BY ConstantsOK, EmptyLedgerIsSound
  <2>. HIDE DEF E, v
  <2>5. ledger.available = v /\ ledger.frozen = E.frozen
    BY <2>3, <2>4 DEF Ledgers
  <2>. QED BY <2>1, <2>2, <2>5, ConstantsOK DEF Wealth
<1>2. /\ shares = Abstract!NoShares /\ status = "none" /\ resolution = Abstract!NoOutcome
  BY DEF Init, NoShares, NoOutcome, Abstract!NoShares, Abstract!NoOutcome
<1>. QED BY <1>1, <1>2 DEF Abstract!Init

\* Every behaviour of the book is, seen without its orders, a behaviour of the
\* market in complete sets: the calls of engine.py only trade, resolve and void.
THEOREM IsAMarketInCompleteSets == Spec => ImplementsCompleteSets
<1>1. Init => Abstract!Init
  BY InitMaps
<1>2. MarketInv /\ [Next]_vars => [Abstract!Next]_(Abstract!vars)
  BY StepMaps
<1>. QED BY <1>1, <1>2, MarketKept, PTL DEF Spec, ImplementsCompleteSets, Abstract!Spec
=============================================================================
