-------------------------- MODULE BatchRoundProofs ---------------------------
(***************************************************************************)
(* Proofs about the batch venue, for all traders, markets, orders and      *)
(* prices: what was saved can be loaded, nobody is overdrawn, the escrow   *)
(* has what it owes up to the rounding of the fills, a round is left half  *)
(* filled only when its orders buy different sides, a payout stops half    *)
(* way only by rounding, and what a pass announced is on disk.             *)
(***************************************************************************)
EXTENDS BatchRound, LedgerProofs

LEMMA ConstantsOK ==
  /\ IsFiniteSet(Traders) /\ Traders \cap Markets = {} /\ Nobody \notin Traders
  /\ IsFiniteSet(Markets) /\ Cardinality(Markets) \in Nat
  /\ Markets = 1..Cardinality(Markets)
  /\ Spread \in Nat /\ Spread > 0 /\ NetCap \in Nat /\ NetCap > 0 /\ Funds \in Nat
  /\ Unit = 4 * Spread
  /\ IsFiniteSet(Parties) /\ Traders \subseteq Parties /\ Markets \subseteq Parties
<1>1. IsFiniteSet(Parties)
  BY BatchRoundAssumption, FS_Union DEF Parties
<1>2. Cardinality(Markets) \in Nat
  BY BatchRoundAssumption, FS_CardinalityType
<1>. QED BY <1>1, <1>2, BatchRoundAssumption DEF Unit, Parties

-----------------------------------------------------------------------------
(* The cost function: convex, between 0 and Unit for each share            *)

\* The larger and the smaller of two numbers.
LEMMA MaxOfTwo ==
  ASSUME NEW x \in Int, NEW y \in Int
  PROVE  Max({x, y}) = IF x >= y THEN x ELSE y
<1>. DEFINE z == IF x >= y THEN x ELSE y
<1>1. z \in {x, y} /\ \A w \in {x, y} : z >= w
  OBVIOUS
<1>2. Max({x, y}) \in {x, y} /\ \A w \in {x, y} : Max({x, y}) >= w
  BY <1>1 DEF Max
<1>. QED BY <1>2

LEMMA MinOfTwo ==
  ASSUME NEW x \in Int, NEW y \in Int
  PROVE  Min({x, y}) = IF x =< y THEN x ELSE y
<1>. DEFINE z == IF x =< y THEN x ELSE y
<1>1. z \in {x, y} /\ \A w \in {x, y} : z =< w
  OBVIOUS
<1>2. Min({x, y}) \in {x, y} /\ \A w \in {x, y} : Min({x, y}) =< w
  BY <1>1 DEF Min
<1>. QED BY <1>2

\* The price of one more share at q: the slope of the cost.
Slope(q) == IF q <= -Spread THEN 0 ELSE IF q >= Spread THEN Unit ELSE 2 * (q + Spread)

LEMMA CostIsInt ==
  ASSUME NEW q \in Int
  PROVE  Cost(q) \in Int /\ Slope(q) \in Int /\ 0 <= Slope(q) /\ Slope(q) <= Unit
<1>1. Spread \in Int /\ Unit \in Int /\ Unit = 4 * Spread /\ Spread > 0
  BY ConstantsOK
<1>2. Unit * q \in Int /\ (q + Spread) * (q + Spread) \in Int
  BY <1>1
<1>. QED BY <1>1, <1>2 DEF Cost, Slope

\* The three forms of the cost, in u = q + Spread and twice the spread, d.
LEMMA TangentInside ==
  ASSUME NEW u \in Int, NEW v \in Int, NEW d \in Int, 0 < u, u < d
  PROVE  /\ v * v - u * u - 2 * u * (v - u) >= 0
         /\ v >= d => 2 * d * v - d * d - u * u - 2 * u * (v - u) >= 0
         /\ v <= 0 => 0 - u * u - 2 * u * (v - u) >= 0
         /\ u * u >= 2 * d * u - d * d
<1>1. (v - u) * (v - u) >= 0 /\ (d - u) * (d - u) >= 0
  OBVIOUS
<1>2. v * v - u * u - 2 * u * (v - u) = (v - u) * (v - u)
  OBVIOUS
<1>3. ASSUME v >= d
      PROVE  2 * d * v - d * d - u * u - 2 * u * (v - u) >= 0
  <2>1. 2 * d * v - d * d - u * u - 2 * u * (v - u) = 2 * ((d - u) * (v - d)) + (d - u) * (d - u)
    OBVIOUS
  <2>2. (d - u) * (v - d) >= 0
    BY <1>3
  <2>3. (d - u) * (v - d) \in Int /\ (d - u) * (d - u) \in Int
    OBVIOUS
  <2>. QED BY <1>1, <2>1, <2>2, <2>3
<1>4. ASSUME v <= 0
      PROVE  0 - u * u - 2 * u * (v - u) >= 0
  <2>1. 0 - u * u - 2 * u * (v - u) = u * (u - 2 * v)
    OBVIOUS
  <2>2. u * (u - 2 * v) >= 0
    BY <1>4
  <2>. QED BY <2>1, <2>2
<1>5. u * u - (2 * d * u - d * d) = (d - u) * (d - u)
  OBVIOUS
<1>6. u * u >= 2 * d * u - d * d
  <2>1. u * u \in Int /\ 2 * d * u - d * d \in Int
    OBVIOUS
  <2>. QED BY <1>1, <1>5, <2>1
<1>. QED BY <1>1, <1>2, <1>3, <1>4, <1>6

\* The cost lies above its tangents.
LEMMA Tangent ==
  ASSUME NEW x \in Int, NEW y \in Int
  PROVE  Cost(y) >= Cost(x) + Slope(x) * (y - x)
<1>. DEFINE u == x + Spread
            v == y + Spread
            d == 2 * Spread
<1>1. Spread \in Int /\ Spread > 0 /\ Unit = 4 * Spread
  BY ConstantsOK
<1>2. u \in Int /\ v \in Int /\ d \in Int /\ x = u - Spread /\ y = v - Spread /\ d > 0
  BY <1>1
<1>3. Cost(x) = (IF u <= 0 THEN 0 ELSE IF u >= d THEN 2 * d * u - d * d ELSE u * u)
  BY <1>1 DEF Cost
<1>4. Cost(y) = (IF v <= 0 THEN 0 ELSE IF v >= d THEN 2 * d * v - d * d ELSE v * v)
  BY <1>1 DEF Cost
<1>5. Slope(x) = (IF u <= 0 THEN 0 ELSE IF u >= d THEN 2 * d ELSE 2 * u) /\ y - x = v - u
  BY <1>1 DEF Slope
<1>. HIDE DEF u, v, d
<1>6. CASE 0 < u /\ u < d
  <2>1. Cost(x) = u * u /\ Slope(x) * (y - x) = 2 * u * (v - u)
    BY <1>2, <1>3, <1>5, <1>6
  <2>2. /\ v * v - u * u - 2 * u * (v - u) >= 0
        /\ v >= d => 2 * d * v - d * d - u * u - 2 * u * (v - u) >= 0
        /\ v <= 0 => 0 - u * u - 2 * u * (v - u) >= 0
    BY <1>2, <1>6, TangentInside
  <2>3. u * u \in Int /\ v * v \in Int /\ 2 * u * (v - u) \in Int /\ 2 * d * v - d * d \in Int
    BY <1>2
  <2>. QED BY <1>2, <1>4, <2>1, <2>2, <2>3
<1>7. CASE u <= 0
  <2>1. Cost(x) = 0 /\ Slope(x) * (y - x) = 0
    BY <1>2, <1>3, <1>5, <1>7
  <2>2. v >= d => 2 * d * v - d * d = d * d + 2 * d * (v - d)
    BY <1>2
  <2>3. v >= d => d * d >= 0 /\ 2 * d * (v - d) >= 0
    BY <1>2
  <2>4. v * v >= 0 /\ d * d \in Int /\ 2 * d * (v - d) \in Int /\ v * v \in Int
    BY <1>2
  <2>5. Cost(y) >= 0
    BY <1>4, <2>2, <2>3, <2>4
  <2>. QED BY <2>1, <2>5
<1>8. CASE u >= d
  <2>1. Cost(x) + Slope(x) * (y - x) = 2 * d * v - d * d
    BY <1>2, <1>3, <1>5, <1>8
  <2>2. v <= 0 => 2 * d * v - d * d <= 0
    <3>1. v <= 0 => d * v <= 0
      BY <1>2
    <3>2. d * d >= 0 /\ d * d \in Int /\ d * v \in Int /\ 2 * d * v = 2 * (d * v)
      BY <1>2
    <3>. QED BY <3>1, <3>2
  <2>3. 0 < v /\ v < d => v * v >= 2 * d * v - d * d
    BY <1>2, TangentInside
  <2>. QED BY <1>2, <1>4, <2>1, <2>2, <2>3
<1>. QED BY <1>2, <1>6, <1>7, <1>8

\* What a position pays is never more than what the cost function holds for it:
\* a tangent of slope 0, one of slope Unit, and the symmetry of the two sides.
LEMMA CostBounds ==
  ASSUME NEW q \in Int
  PROVE  /\ Cost(q) \in Int /\ Cost(q) >= 0 /\ Cost(q) >= Unit * q
         /\ Cost(q) = Cost(-q) + Unit * q
<1>1. Spread \in Int /\ Spread > 0 /\ Unit = 4 * Spread
  BY ConstantsOK
<1>2. Cost(q) \in Int
  BY CostIsInt
<1>3. Cost(-Spread) = 0 /\ Slope(-Spread) = 0 /\ Cost(Spread) = Unit * Spread /\ Slope(Spread) = Unit
  BY <1>1 DEF Cost, Slope
<1>4. Cost(q) >= Cost(-Spread) + Slope(-Spread) * (q - (-Spread))
  BY <1>1, Tangent
<1>5. Cost(q) >= Cost(Spread) + Slope(Spread) * (q - Spread)
  BY <1>1, Tangent
<1>6. Cost(q) >= 0
  <2>1. 0 * (q - (-Spread)) = 0
    BY <1>1
  <2>. QED BY <1>2, <1>3, <1>4, <2>1
<1>7. Cost(q) >= Unit * q
  <2>1. Unit * Spread + Unit * (q - Spread) = Unit * q
    BY <1>1
  <2>. QED BY <1>2, <1>3, <1>5, <2>1
<1>8. (q + Spread) * (q + Spread) = (Spread - q) * (Spread - q) + Unit * q
  BY <1>1
<1>9. (Spread - q) * (Spread - q) = (-q + Spread) * (-q + Spread) /\ Unit * (-q) = -(Unit * q)
  BY <1>1
<1>10. Cost(q) = Cost(-q) + Unit * q
  <2>1. Unit * q \in Int
    BY <1>1
  <2>2. (-q <= -Spread) = (q >= Spread) /\ (-q >= Spread) = (q <= -Spread)
    BY <1>1
  <2>. QED BY <1>1, <1>8, <1>9, <2>1, <2>2 DEF Cost
<1>. QED BY <1>2, <1>6, <1>7, <1>10

\* A share more costs something between nothing and Unit.
LEMMA CostGrows ==
  ASSUME NEW q \in Int, NEW n \in Nat
  PROVE  /\ Cost(q) \in Int /\ Cost(q + n) \in Int
         /\ 0 <= Cost(q + n) - Cost(q) /\ Cost(q + n) - Cost(q) <= Unit * n
<1>1. Unit \in Int /\ Unit >= 0
  BY ConstantsOK
<1>2. /\ Cost(q) \in Int /\ Slope(q) \in Int /\ 0 <= Slope(q)
      /\ Cost(q + n) \in Int /\ Slope(q + n) \in Int /\ Slope(q + n) <= Unit
  BY CostIsInt
<1>3. Cost(q + n) >= Cost(q) + Slope(q) * n
  <2>1. (q + n) - q = n /\ q + n \in Int
    OBVIOUS
  <2>2. Cost(q + n) >= Cost(q) + Slope(q) * ((q + n) - q)
    BY <2>1, Tangent
  <2>. QED BY <2>1, <2>2
<1>4. Cost(q) >= Cost(q + n) + Slope(q + n) * (0 - n)
  <2>1. q - (q + n) = 0 - n /\ q + n \in Int
    OBVIOUS
  <2>2. Cost(q) >= Cost(q + n) + Slope(q + n) * (q - (q + n))
    BY <2>1, Tangent
  <2>. QED BY <2>1, <2>2
<1>5. Slope(q) * n >= 0 /\ Slope(q) * n \in Int
  BY <1>2
<1>6. Slope(q + n) * (0 - n) = 0 - Slope(q + n) * n
  BY <1>2
<1>7. Slope(q + n) * n <= Unit * n /\ Slope(q + n) * n \in Int /\ Unit * n \in Int
  <2>1. (Unit - Slope(q + n)) * n >= 0
    BY <1>1, <1>2
  <2>2. (Unit - Slope(q + n)) * n = Unit * n - Slope(q + n) * n
    BY <1>1, <1>2
  <2>3. Slope(q + n) * n \in Int /\ Unit * n \in Int
    BY <1>1, <1>2
  <2>. QED BY <2>1, <2>2, <2>3
<1>. QED BY <1>2, <1>3, <1>4, <1>5, <1>6, <1>7

\* The first a shares cost no more, on average, than the first b.
LEMMA CostConvex ==
  ASSUME NEW q \in Int, NEW a \in Nat, NEW b \in Nat, a <= b
  PROVE  b * (Cost(q + a) - Cost(q)) <= a * (Cost(q + b) - Cost(q))
<1>. DEFINE x == Cost(q)
            y == Cost(q + a)
            z == Cost(q + b)
            k == Slope(q + a)
<1>1. x \in Int /\ y \in Int /\ z \in Int /\ k \in Int
  BY CostIsInt
<1>2. z >= y + k * (b - a)
  <2>1. (q + b) - (q + a) = b - a /\ q + a \in Int /\ q + b \in Int
    OBVIOUS
  <2>2. Cost(q + b) >= Cost(q + a) + Slope(q + a) * ((q + b) - (q + a))
    BY <2>1, Tangent
  <2>. QED BY <2>1, <2>2
<1>3. x >= y + k * (0 - a)
  <2>1. q - (q + a) = 0 - a /\ q + a \in Int
    OBVIOUS
  <2>2. Cost(q) >= Cost(q + a) + Slope(q + a) * (q - (q + a))
    BY <2>1, Tangent
  <2>. QED BY <2>1, <2>2
<1>. HIDE DEF x, y, z, k
<1>4. a * (z - y - k * (b - a)) >= 0 /\ (b - a) * (x - y + k * a) >= 0
  <2>1. z - y - k * (b - a) \in Int /\ z - y - k * (b - a) >= 0
    <3>1. k * (b - a) \in Int
      BY <1>1
    <3>. QED BY <1>1, <1>2, <3>1
  <2>2. x - y + k * a \in Int /\ x - y + k * a >= 0
    <3>1. k * (0 - a) = 0 - k * a /\ k * a \in Int
      BY <1>1
    <3>. QED BY <1>1, <1>3, <3>1
  <2>3. b - a \in Int /\ b - a >= 0 /\ a \in Int /\ a >= 0
    OBVIOUS
  <2>4. \A i, j \in Int : i >= 0 /\ j >= 0 => i * j >= 0
    OBVIOUS
  <2>. QED BY <2>1, <2>2, <2>3, <2>4
<1>5. a * (z - x) - b * (y - x)
        = a * (z - y - k * (b - a)) + (b - a) * (x - y + k * a)
  BY <1>1
<1>6. a * (z - x) \in Int /\ b * (y - x) \in Int
      /\ a * (z - y - k * (b - a)) \in Int /\ (b - a) * (x - y + k * a) \in Int
  BY <1>1
<1>7. b * (y - x) <= a * (z - x)
  BY <1>4, <1>5, <1>6
<1>. QED BY <1>7 DEF x, y, z

-----------------------------------------------------------------------------
(* Prices                                                                  *)

IsPrice(P) ==
  /\ P = [num |-> P.num, den |-> P.den]
  /\ P.den \in Nat /\ P.den > 0 /\ P.num \in Nat /\ P.num <= Unit * P.den

\* _clearing_price: between 0 and 1, and n shares cost what the escrow must
\* have more for them.
LEMMA PriceOK ==
  ASSUME NEW q \in Int, NEW n \in Int
  PROVE  LET P == ClearingPrice(q, n)
         IN  /\ IsPrice(P) /\ P.den = IF n = 0 THEN 1 ELSE Abs(n)
             /\ n * P.num = P.den * (Cost(q + n) - Cost(q))
<1>. DEFINE P == ClearingPrice(q, n)
            x == Cost(q)
            y == Cost(q + n)
<1>1. Unit \in Int /\ Spread \in Int /\ Spread > 0 /\ Unit = 4 * Spread
  BY ConstantsOK
<1>2. x \in Int /\ y \in Int
  BY CostIsInt
<1>3. CASE n = 0
  <2>1. Min({Unit, 2 * (q + Spread)}) = IF Unit =< 2 * (q + Spread) THEN Unit ELSE 2 * (q + Spread)
    BY <1>1, MinOfTwo
  <2>. DEFINE w == Min({Unit, 2 * (q + Spread)})
  <2>2. w \in Int /\ w <= Unit
    BY <1>1, <2>1
  <2>. HIDE DEF w
  <2>3. Max({0, w}) = IF 0 >= w THEN 0 ELSE w
    BY <2>2, MaxOfTwo
  <2>4. P = [num |-> Max({0, w}), den |-> 1]
    BY <1>3 DEF ClearingPrice, w
  <2>5. IsPrice(P) /\ P.den = 1 /\ P.num \in Int
    BY <1>1, <2>2, <2>3, <2>4 DEF IsPrice
  <2>6. y = x
    BY <1>3
  <2>. HIDE DEF P, x, y
  <2>7. n * P.num = 0 /\ P.den * (y - x) = 0
    BY <1>2, <1>3, <2>5, <2>6
  <2>. QED BY <1>3, <2>5, <2>7 DEF P, x, y
<1>4. CASE n > 0
  <2>1. 0 <= y - x /\ y - x <= Unit * n
    BY <1>4, CostGrows
  <2>2. P = [num |-> Abs(y - x), den |-> Abs(n)] /\ Abs(y - x) = y - x /\ Abs(n) = n
    BY <1>2, <1>4, <2>1 DEF ClearingPrice, Abs
  <2>. HIDE DEF P, x, y
  <2>3. P.num = y - x /\ P.den = n
    BY <2>2
  <2>4. IsPrice(P)
    BY <1>2, <1>4, <2>1, <2>2, <2>3 DEF IsPrice
  <2>. QED BY <1>4, <2>2, <2>3, <2>4 DEF P, x, y
<1>5. CASE n < 0
  <2>1. 0 <= x - y /\ x - y <= Unit * (0 - n)
    <3>1. (q + n) + (0 - n) = q /\ 0 - n \in Nat /\ q + n \in Int
      BY <1>5
    <3>. DEFINE z == q + n
    <3>. HIDE DEF z
    <3>2. 0 <= Cost(z + (0 - n)) - Cost(z) /\ Cost(z + (0 - n)) - Cost(z) <= Unit * (0 - n)
      BY <3>1, CostGrows DEF z
    <3>. QED BY <3>1, <3>2 DEF z
  <2>2. P = [num |-> Abs(y - x), den |-> Abs(n)] /\ Abs(y - x) = x - y /\ Abs(n) = 0 - n
    BY <1>2, <1>5, <2>1 DEF ClearingPrice, Abs
  <2>. HIDE DEF P, x, y
  <2>3. P.num = x - y /\ P.den = 0 - n
    BY <2>2
  <2>4. IsPrice(P)
    BY <1>2, <1>5, <2>1, <2>2, <2>3 DEF IsPrice
  <2>5. n * (x - y) = (0 - n) * (y - x)
    BY <1>2
  <2>. QED BY <1>5, <2>2, <2>3, <2>4, <2>5 DEF P, x, y
<1>. QED BY <1>3, <1>4, <1>5

\* The price of a side is a price.
LEMMA UnitPriceOK ==
  ASSUME NEW P, IsPrice(P), NEW size \in Int
  PROVE  LET U == UnitPrice(P, size)
         IN  /\ IsPrice(U) /\ U.den = P.den
             /\ U.num = IF size >= 0 THEN P.num ELSE Unit * P.den - P.num
             /\ Abs(size) \in Nat /\ Abs(size) * U.num \in Nat
<1>. DEFINE U == UnitPrice(P, size)
            x == Unit * P.den
<1>1. /\ x \in Int /\ P.den \in Nat /\ P.den > 0 /\ P.num \in Nat /\ P.num <= x
      /\ P = [num |-> P.num, den |-> P.den]
  BY ConstantsOK DEF IsPrice
<1>2. U = [num |-> IF size >= 0 THEN P.num ELSE x - P.num, den |-> P.den]
  BY <1>1 DEF UnitPrice
<1>3. IsPrice(U) /\ U.den = P.den /\ U.num = IF size >= 0 THEN P.num ELSE x - P.num
  <2>. HIDE DEF U
  <2>1. U.den = P.den /\ U.num = IF size >= 0 THEN P.num ELSE x - P.num
    BY <1>2
  <2>2. U = [num |-> U.num, den |-> U.den]
    BY <1>2
  <2>3. Unit * U.den = x
    BY <2>1
  <2>. HIDE DEF x
  <2>. QED BY <1>1, <2>1, <2>2, <2>3 DEF IsPrice
<1>4. Abs(size) \in Nat
  BY DEF Abs
<1>5. U.num \in Nat
  BY <1>3 DEF IsPrice
<1>. HIDE DEF U, x
<1>6. Abs(size) * U.num \in Nat
  BY <1>4, <1>5
<1>. QED BY <1>3, <1>4, <1>6 DEF U, x

-----------------------------------------------------------------------------
(* What an order gets: budgets                                             *)

LEMMA Floor ==
  ASSUME NEW x \in Int, NEW g \in Nat \ {0}
  PROVE  x \div g \in Int /\ g * (x \div g) <= x /\ x < g * (x \div g) + g
OBVIOUS

\* Products of naturals, and cancelling a factor.
LEMMA Products ==
  /\ \A x, y \in Nat : x * y \in Nat
  /\ \A x \in Int, y \in Int, g \in Nat : g > 0 /\ g * x <= g * y => x <= y
  /\ \A x \in Int, y \in Int, g \in Nat : x <= y => g * x <= g * y
OBVIOUS

\* One entry of Repriced.
Cut(P, size, budget) ==
  IF OverBudget(P, size, budget)
  THEN Signed(size, (budget * P.den) \div UnitPrice(P, size).num) ELSE size

\* What an order is cut to, it can pay for, and it is on the same side.
LEMMA CutOK ==
  ASSUME NEW P, IsPrice(P), NEW size \in Int, NEW budget \in Nat
  PROVE  LET c == Cut(P, size, budget)
         IN  /\ c \in Int /\ Abs(c) <= Abs(size)
             /\ size >= 0 => c >= 0
             /\ size <= 0 => c <= 0
             /\ Abs(c) * UnitPrice(P, size).num <= budget * P.den
<1>. DEFINE u == UnitPrice(P, size).num
            c == Cut(P, size, budget)
            x == budget * P.den
            s == Abs(size)
            a == x \div u
<1>1. u \in Nat /\ s \in Nat /\ s * u \in Nat /\ x \in Nat
  <2>1. P.den \in Nat
    BY DEF IsPrice
  <2>2. x \in Nat
    BY <2>1, Products
  <2>3. IsPrice(UnitPrice(P, size)) /\ s \in Nat /\ s * u \in Nat
    BY UnitPriceOK
  <2>. QED BY <2>2, <2>3 DEF IsPrice
<1>2. OverBudget(P, size, budget) <=> s * u > x
  BY DEF OverBudget
<1>3. c = IF s * u > x THEN Signed(size, a) ELSE size
  BY <1>2 DEF Cut
<1>4. s = (IF size < 0 THEN -size ELSE size)
  BY DEF Abs
<1>. HIDE DEF u, c, x, s
<1>5. CASE ~ (s * u > x)
  <2>1. Abs(c) = s
    BY <1>3, <1>5 DEF s
  <2>. QED BY <1>1, <1>3, <1>5, <2>1 DEF u, c, x, s
<1>6. CASE s * u > x
  <2>1. u # 0
    BY <1>1, <1>6
  <2>2. a \in Int /\ u * a <= x /\ x < u * a + u
    BY <1>1, <2>1, Floor
  <2>. HIDE DEF a
  <2>3. a \in Nat
    <3>1. u * (a + 1) > 0
      BY <1>1, <2>2
    <3>2. a + 1 > 0
      <4>1. ASSUME a + 1 <= 0 PROVE FALSE
        <5>1. u * (a + 1) <= u * 0
          BY <1>1, <2>2, <4>1, Products
        <5>. QED BY <1>1, <2>2, <3>1, <5>1
      <4>. QED BY <2>2, <4>1
    <3>. QED BY <2>2, <3>2
  <2>4. a < s
    <3>1. ASSUME s <= a PROVE FALSE
      <4>1. u * s <= u * a
        BY <1>1, <2>3, <3>1, Products
      <4>2. u * s = s * u /\ u * a \in Int
        BY <1>1, <2>2
      <4>. QED BY <1>1, <1>6, <2>2, <4>1, <4>2
    <3>. QED BY <1>1, <2>3, <3>1
  <2>5. c = IF size >= 0 THEN a ELSE -a
    BY <1>3, <1>6 DEF Signed
  <2>6. c \in Int /\ Abs(c) = a
    BY <2>3, <2>5 DEF Abs
  <2>7. a * u <= x
    BY <1>1, <2>2
  <2>8. size # 0
    BY <1>1, <1>4, <1>6
  <2>. QED BY <1>1, <2>3, <2>4, <2>5, <2>6, <2>7, <2>8 DEF u, c, x, s
<1>. QED BY <1>5, <1>6

\* The orders of a round.
Queues == {orders \in Seq(Order) : \A i \in DOMAIN orders : orders[i].target # Unquotable}
Sizes(n) == [1..n -> Int]

LEMMA QueueFacts ==
  ASSUME NEW orders \in Queues
  PROVE  /\ Len(orders) \in Nat /\ DOMAIN orders = 1..Len(orders)
         /\ \A i \in 1..Len(orders) :
              /\ orders[i].target \in Int /\ orders[i].budget \in Nat
              /\ orders[i].trader \in Traders
         /\ \A sizes \in Sizes(Len(orders)) : sizes \in Seq(Int) /\ DOMAIN sizes = 1..Len(orders)
<1>1. Len(orders) \in Nat /\ DOMAIN orders = 1..Len(orders) /\ orders \in [1..Len(orders) -> Order]
  BY DEF Queues
<1>2. ASSUME NEW i \in 1..Len(orders)
      PROVE  /\ orders[i].target \in Int /\ orders[i].budget \in Nat
             /\ orders[i].trader \in Traders
  BY <1>1 DEF Queues, Order
<1>3. ASSUME NEW sizes \in Sizes(Len(orders))
      PROVE  sizes \in Seq(Int) /\ DOMAIN sizes = 1..Len(orders)
  BY <1>1 DEF Sizes
<1>. QED BY <1>1, <1>2, <1>3

LEMMA TotalInt ==
  ASSUME NEW n \in Nat, NEW sizes \in Sizes(n)
  PROVE  Total(sizes) \in Int
<1>1. IsFiniteSet(1..n) /\ sizes \in [1..n -> Int] /\ \A i \in 1..n : sizes[i] <= sizes[i]
  BY FS_Interval DEF Sizes
<1>2. SumFunction(sizes) \in Int
  BY ONLY <1>1, SumMonotone
<1>. QED BY <1>2 DEF Total

\* A repricing, entry by entry.
LEMMA RepricedOK ==
  ASSUME NEW orders \in Queues, NEW q \in Int, NEW sizes \in Sizes(Len(orders))
  PROVE  /\ IsPrice(ClearingPrice(q, Total(sizes)))
         /\ Repriced(q, orders, sizes) \in Sizes(Len(orders))
         /\ \A i \in 1..Len(orders) :
              Repriced(q, orders, sizes)[i] = Cut(ClearingPrice(q, Total(sizes)), sizes[i], orders[i].budget)
<1>. DEFINE P == ClearingPrice(q, Total(sizes))
            n == Len(orders)
            r == Repriced(q, orders, sizes)
<1>1. n \in Nat /\ DOMAIN orders = 1..n /\ \A i \in 1..n : orders[i].budget \in Nat
  BY QueueFacts
<1>2. IsPrice(P)
  BY <1>1, TotalInt, PriceOK
<1>3. r = [i \in 1..n |-> Cut(P, sizes[i], orders[i].budget)]
  BY <1>1 DEF Repriced, Cut
<1>. HIDE DEF P, n, r
<1>4. ASSUME NEW i \in 1..n PROVE Cut(P, sizes[i], orders[i].budget) \in Int
  <2>1. sizes[i] \in Int /\ orders[i].budget \in Nat
    BY <1>1 DEF Sizes, n
  <2>. QED BY <1>2, <2>1, CutOK
<1>5. r \in Sizes(n) /\ \A i \in 1..n : r[i] = Cut(P, sizes[i], orders[i].budget)
  BY <1>3, <1>4 DEF Sizes
<1>. QED BY <1>2, <1>5 DEF P, n, r

\* Nobody has to pay more than its maximum.
NobodyOver(q, orders, sizes) ==
  \A i \in 1..Len(orders) : ~ OverBudget(ClearingPrice(q, Total(sizes)), sizes[i], orders[i].budget)

\* Then neither a repricing nor the tick changes anything.
LEMMA NothingToChange ==
  ASSUME NEW orders \in Queues, NEW q \in Int, NEW sizes \in Sizes(Len(orders)),
         NobodyOver(q, orders, sizes)
  PROVE  Repriced(q, orders, sizes) = sizes /\ Clipped(q, orders, sizes) = sizes
<1>1. DOMAIN orders = 1..Len(orders) /\ sizes = [i \in 1..Len(orders) |-> sizes[i]]
  BY QueueFacts DEF Sizes
<1>. QED BY <1>1 DEF Repriced, Clipped, NobodyOver

LEMMA ClippedOK ==
  ASSUME NEW orders \in Queues, NEW q \in Int, NEW sizes \in Sizes(Len(orders))
  PROVE  Clipped(q, orders, sizes) \in Sizes(Len(orders))
<1>1. DOMAIN orders = 1..Len(orders)
  BY QueueFacts
<1>2. ASSUME NEW i \in 1..Len(orders)
      PROVE  sizes[i] \in Int /\ sizes[i] - Signed(sizes[i], 1) \in Int
  <2>1. sizes[i] \in Int
    BY DEF Sizes
  <2>. QED BY <2>1 DEF Signed
<1>. QED BY <1>1, <1>2 DEF Clipped, Sizes

-----------------------------------------------------------------------------
(* Orders of one side: one repricing is enough                             *)

\* SumTimes and SumAdd, with their hypotheses under names.
Scales(h, c, f, S) == f \in [S -> Int] /\ h \in [S -> Int] /\ c \in Int /\ \A x \in S : h[x] = c * f[x]
Adds(h, f, g, S) ==
  f \in [S -> Int] /\ g \in [S -> Int] /\ h \in [S -> Int] /\ \A x \in S : h[x] = f[x] + g[x]

LEMMA SumScales ==
  ASSUME NEW S, IsFiniteSet(S), NEW h, NEW c, NEW f, Scales(h, c, f, S)
  PROVE  SumFunction(f) \in Int /\ SumFunction(h) = c * SumFunction(f)
<1>1. f \in [S -> Int] /\ h \in [S -> Int] /\ c \in Int /\ \A x \in S : h[x] = c * f[x]
  BY DEF Scales
<1>2. IsFiniteSet(S)
  OBVIOUS
<1>. QED BY ONLY <1>1, <1>2, SumTimes

LEMMA SumAdds ==
  ASSUME NEW S, IsFiniteSet(S), NEW h, NEW f, NEW g, Adds(h, f, g, S)
  PROVE  /\ SumFunction(f) \in Int /\ SumFunction(g) \in Int
         /\ SumFunction(h) = SumFunction(f) + SumFunction(g)
<1>1. /\ f \in [S -> Int] /\ g \in [S -> Int] /\ h \in [S -> Int]
      /\ \A x \in S : h[x] = f[x] + g[x]
  BY DEF Adds
<1>2. IsFiniteSet(S)
  OBVIOUS
<1>. QED BY ONLY <1>1, <1>2, SumAdd, SMTT(30)

\* All buy yes (rising), or all buy no.
OneSide(sizes, n, rising) ==
  \A i \in 1..n : IF rising THEN sizes[i] >= 0 ELSE sizes[i] <= 0

\* Nobody's size is more than the total.
LEMMA OneSideTotal ==
  ASSUME NEW n \in Nat, NEW sizes \in Sizes(n), NEW rising \in BOOLEAN, OneSide(sizes, n, rising)
  PROVE  /\ Total(sizes) \in Int
         /\ IF rising THEN Total(sizes) >= 0 ELSE Total(sizes) <= 0
         /\ \A i \in 1..n : Abs(sizes[i]) <= Abs(Total(sizes))
<1>1. IsFiniteSet(1..n) /\ sizes \in [1..n -> Int] /\ Total(sizes) \in Int
  BY FS_Interval, TotalInt DEF Sizes
<1>2. CASE rising
  <2>1. sizes \in [1..n -> Nat]
    <3>1. \A i \in 1..n : sizes[i] \in Nat
      BY <1>1, <1>2 DEF OneSide
    <3>. QED BY <1>1, <3>1
  <2>2. SumFunction(sizes) \in Nat /\ \A i \in 1..n : sizes[i] <= SumFunction(sizes)
    BY ONLY <1>1, <2>1, SumBounds
  <2>. QED BY <1>1, <1>2, <2>1, <2>2 DEF Total, Abs
<1>3. CASE ~ rising
  <2>. DEFINE g == [i \in 1..n |-> -sizes[i]]
  <2>1. g \in [1..n -> Int] /\ g \in [1..n -> Nat] /\ \A i \in 1..n : g[i] = (-1) * sizes[i]
    <3>1. \A i \in 1..n : sizes[i] \in Int /\ -sizes[i] \in Nat /\ -sizes[i] = (-1) * sizes[i]
      BY <1>1, <1>3 DEF OneSide
    <3>. QED BY <3>1
  <2>. HIDE DEF g
  <2>2. SumFunction(g) \in Nat /\ \A i \in 1..n : g[i] <= SumFunction(g)
    BY ONLY <1>1, <2>1, SumBounds
  <2>3. SumFunction(g) = (-1) * SumFunction(sizes)
    <3>1. -1 \in Int
      OBVIOUS
    <3>2. Scales(g, -1, sizes, 1..n)
      BY ONLY <1>1, <2>1, <3>1 DEF Scales
    <3>. QED BY ONLY <1>1, <3>2, SumScales
  <2>4. SumFunction(sizes) \in Int /\ SumFunction(sizes) <= 0
    BY <1>1, <2>2, <2>3 DEF Total
  <2>5. ASSUME NEW i \in 1..n PROVE Abs(sizes[i]) <= Abs(SumFunction(sizes))
    <3>1. sizes[i] \in Int /\ sizes[i] <= 0 /\ -sizes[i] <= -SumFunction(sizes)
      BY <1>1, <1>3, <2>1, <2>2, <2>3, <2>4 DEF OneSide
    <3>. QED BY <2>4, <3>1 DEF Abs
  <2>. QED BY <1>3, <2>4, <2>5 DEF Total
<1>. QED BY <1>2, <1>3

\* What a share of the side costs, when n shares of that side are bought; the
\* sides are mirror images.
LEMMA SidePrice ==
  ASSUME NEW q \in Int, NEW n \in Int, NEW size \in Int, n # 0, size # 0, (size > 0) <=> (n > 0)
  PROVE  LET base == IF n > 0 THEN q ELSE -q
             U    == UnitPrice(ClearingPrice(q, n), size)
         IN  /\ base \in Int /\ Abs(n) \in Nat /\ Abs(n) > 0
             /\ ClearingPrice(q, n).den = Abs(n) /\ U.num \in Nat
             /\ U.num = Cost(base + Abs(n)) - Cost(base)
<1>. DEFINE base == IF n > 0 THEN q ELSE -q
            P == ClearingPrice(q, n)
            U == UnitPrice(P, size)
<1>1. base \in Int /\ Abs(n) \in Nat /\ Abs(n) > 0
  BY DEF Abs
<1>2. IsPrice(P) /\ P.den = Abs(n) /\ n * P.num = P.den * (Cost(q + n) - Cost(q))
  BY PriceOK
<1>3. IsPrice(U) /\ U.num = IF size >= 0 THEN P.num ELSE Unit * P.den - P.num
  BY <1>2, UnitPriceOK
<1>4. P.num \in Nat /\ U.num \in Nat
  BY <1>2, <1>3 DEF IsPrice
<1>5. Cost(q + n) \in Int /\ Cost(q) \in Int /\ Cost(-q) \in Int /\ Cost(-(q + n)) \in Int
  BY CostBounds
<1>6. Unit \in Int
  BY ConstantsOK
<1>. HIDE DEF P, U
<1>7. CASE n > 0
  <2>1. Abs(n) = n /\ base = q
    BY <1>7 DEF Abs
  <2>2. n * P.num = n * (Cost(q + n) - Cost(q))
    BY <1>2, <2>1
  <2>3. P.num = Cost(q + n) - Cost(q)
    <3>1. \A x, y \in Int : n * x = n * y => x = y
      BY <1>7
    <3>2. Cost(q + n) - Cost(q) \in Int
      BY <1>5
    <3>. QED BY <1>4, <2>2, <3>1, <3>2
  <2>. QED BY <1>1, <1>2, <1>3, <1>4, <1>7, <2>1, <2>3 DEF P, U
<1>8. CASE n < 0
  <2>1. Abs(n) = -n /\ base = -q /\ base + Abs(n) = -(q + n)
    BY <1>8 DEF Abs
  <2>2. n * P.num = n * (Cost(q) - Cost(q + n))
    <3>1. (-n) * (Cost(q + n) - Cost(q)) = n * (Cost(q) - Cost(q + n))
      BY <1>5
    <3>. QED BY <1>2, <2>1, <3>1
  <2>3. P.num = Cost(q) - Cost(q + n)
    <3>1. \A x, y \in Int : n * x = n * y => x = y
      BY <1>8
    <3>2. Cost(q) - Cost(q + n) \in Int
      BY <1>5
    <3>. QED BY <1>4, <2>2, <3>1, <3>2
  <2>4. U.num = Unit * (-n) - P.num
    BY <1>2, <1>3, <1>8, <2>1
  <2>5. Cost(q) = Cost(-q) + Unit * q
    BY CostBounds
  <2>6. Cost(q + n) = Cost(-(q + n)) + Unit * (q + n)
    BY CostBounds
  <2>7. Unit * (q + n) = Unit * q + Unit * n /\ Unit * (-n) = -(Unit * n)
        /\ Unit * q \in Int /\ Unit * n \in Int
    BY <1>6
  <2>8. U.num = Cost(-(q + n)) - Cost(-q)
    BY <1>5, <2>3, <2>4, <2>5, <2>6, <2>7
  <2>. QED BY <1>1, <1>2, <1>4, <2>1, <2>8 DEF P, U
<1>. QED BY <1>7, <1>8

\* Who can pay for its size in a round of n shares of its side can pay for it in
\* a round of fewer.
LEMMA CheaperWithFewer ==
  ASSUME NEW q \in Int, NEW n \in Int, NEW m \in Int, NEW size \in Int, NEW budget \in Nat,
         m # 0, (n > 0) <=> (m > 0), n # 0, size # 0, (size > 0) <=> (n > 0), Abs(m) <= Abs(n),
         Abs(size) * UnitPrice(ClearingPrice(q, n), size).num <= budget * ClearingPrice(q, n).den
  PROVE  ~ OverBudget(ClearingPrice(q, m), size, budget)
<1>. DEFINE base == IF n > 0 THEN q ELSE -q
            a == Abs(m)
            b == Abs(n)
            c == Abs(size)
            u == UnitPrice(ClearingPrice(q, m), size).num
            w == UnitPrice(ClearingPrice(q, n), size).num
<1>1. /\ base \in Int /\ b \in Nat /\ b > 0 /\ ClearingPrice(q, n).den = b
      /\ w \in Nat /\ w = Cost(base + b) - Cost(base)
  BY SidePrice
<1>2. /\ a \in Nat /\ a > 0 /\ ClearingPrice(q, m).den = a
      /\ u \in Nat /\ u = Cost(base + a) - Cost(base)
  BY SidePrice
<1>3. b * (Cost(base + a) - Cost(base)) <= a * (Cost(base + b) - Cost(base))
  <2>1. a <= b
    OBVIOUS
  <2>. HIDE DEF a, b, base
  <2>. QED BY <1>1, <1>2, <2>1, CostConvex
<1>4. c \in Nat
  BY DEF Abs
<1>5. c * w <= budget * b
  BY <1>1
<1>6. OverBudget(ClearingPrice(q, m), size, budget) <=> c * u > budget * a
  BY <1>2 DEF OverBudget
<1>. HIDE DEF a, b, c, u, w, base
<1>7. b * u <= a * w
  BY <1>1, <1>2, <1>3
<1>8. b * (c * u) <= b * (budget * a)
  <2>1. c * (b * u) <= c * (a * w)
    <3>1. b * u \in Int /\ a * w \in Int
      BY <1>1, <1>2
    <3>. QED BY <1>4, <1>7, <3>1, Products
  <2>2. a * (c * w) <= a * (budget * b)
    <3>1. c * w \in Int /\ budget * b \in Int
      BY <1>1, <1>4
    <3>. QED BY <1>2, <1>5, <3>1, Products
  <2>3. b * (c * u) = c * (b * u) /\ c * (a * w) = a * (c * w)
        /\ a * (budget * b) = b * (budget * a)
    BY <1>1, <1>2, <1>4
  <2>4. c * (b * u) \in Int /\ c * (a * w) \in Int /\ a * (budget * b) \in Int
    BY <1>1, <1>2, <1>4
  <2>. QED BY <2>1, <2>2, <2>3, <2>4
<1>9. c * u <= budget * a
  <2>1. c * u \in Int /\ budget * a \in Int
    BY <1>2, <1>4
  <2>. QED BY <1>1, <1>8, <2>1, Products
<1>10. c * u \in Int /\ budget * a \in Int
  BY <1>2, <1>4
<1>. QED BY <1>6, <1>9, <1>10

\* After one repricing everybody can pay for what it gets: the total has shrunk,
\* and with it the price.
LEMMA OneSideSettles ==
  ASSUME NEW orders \in Queues, NEW q \in Int, NEW sizes \in Sizes(Len(orders)),
         NEW rising \in BOOLEAN, OneSide(sizes, Len(orders), rising)
  PROVE  NobodyOver(q, orders, Repriced(q, orders, sizes))
<1>. DEFINE n == Len(orders)
            r == Repriced(q, orders, sizes)
            P == ClearingPrice(q, Total(sizes))
<1>1. /\ n \in Nat /\ IsPrice(P) /\ r \in Sizes(n)
      /\ \A i \in 1..n : r[i] = Cut(P, sizes[i], orders[i].budget)
  BY RepricedOK, QueueFacts
<1>. HIDE DEF r, P
<1>2. ASSUME NEW i \in 1..n
      PROVE  /\ sizes[i] \in Int /\ orders[i].budget \in Nat /\ r[i] \in Int
             /\ Abs(r[i]) <= Abs(sizes[i])
             /\ sizes[i] >= 0 => r[i] >= 0
             /\ sizes[i] <= 0 => r[i] <= 0
             /\ Abs(r[i]) * UnitPrice(P, sizes[i]).num <= orders[i].budget * P.den
  <2>1. sizes[i] \in Int /\ orders[i].budget \in Nat
    BY QueueFacts DEF Sizes
  <2>. QED BY <1>1, <2>1, CutOK
<1>3. OneSide(r, n, rising)
  BY <1>2 DEF OneSide
<1>. DEFINE N == Total(sizes)
            M == Total(r)
<1>4. /\ N \in Int /\ IF rising THEN N >= 0 ELSE N <= 0
      /\ \A i \in 1..n : Abs(sizes[i]) <= Abs(N)
  BY <1>1, OneSideTotal
<1>5. /\ M \in Int /\ IF rising THEN M >= 0 ELSE M <= 0
      /\ \A i \in 1..n : Abs(r[i]) <= Abs(M)
  BY <1>1, <1>3, OneSideTotal
<1>6. Abs(M) <= Abs(N)
  <2>1. IsFiniteSet(1..n) /\ sizes \in [1..n -> Int] /\ r \in [1..n -> Int]
    BY <1>1, FS_Interval DEF Sizes
  <2>2. CASE rising
    <3>1. \A i \in 1..n : r[i] <= sizes[i]
      BY <1>2, <2>2 DEF OneSide, Abs
    <3>2. SumFunction(r) <= SumFunction(sizes)
      BY ONLY <2>1, <3>1, SumMonotone
    <3>. QED BY <1>4, <1>5, <2>2, <3>2 DEF Total, Abs
  <2>3. CASE ~ rising
    <3>1. \A i \in 1..n : sizes[i] <= r[i]
      BY <1>2, <2>3 DEF OneSide, Abs
    <3>2. SumFunction(sizes) <= SumFunction(r)
      BY ONLY <2>1, <3>1, SumMonotone
    <3>. QED BY <1>4, <1>5, <2>3, <3>2 DEF Total, Abs
  <2>. QED BY <2>2, <2>3
<1>7. ASSUME NEW i \in 1..n
      PROVE  ~ OverBudget(ClearingPrice(q, M), r[i], orders[i].budget)
  <2>. DEFINE b == orders[i].budget
  <2>0. b \in Nat /\ r[i] \in Int /\ sizes[i] \in Int
    BY <1>2
  <2>1. CASE r[i] = 0
    <3>1. IsPrice(ClearingPrice(q, M))
      BY <1>5, PriceOK
    <3>2. UnitPrice(ClearingPrice(q, M), r[i]).num \in Nat
      BY <2>0, <3>1, UnitPriceOK DEF IsPrice
    <3>3. b * ClearingPrice(q, M).den \in Nat
      BY <2>0, <3>1, Products DEF IsPrice
    <3>4. Abs(r[i]) * UnitPrice(ClearingPrice(q, M), r[i]).num = 0
      BY <2>1, <3>2 DEF Abs
    <3>. HIDE DEF b, M
    <3>. QED BY <3>3, <3>4 DEF OverBudget, b
  <2>2. CASE r[i] # 0
    <3>1. Abs(r[i]) > 0 /\ Abs(M) > 0 /\ M # 0 /\ N # 0
      <4>1. Abs(r[i]) > 0 /\ Abs(r[i]) <= Abs(M)
        BY <1>5, <2>0, <2>2 DEF Abs
      <4>. HIDE DEF M, N
      <4>. QED BY <1>4, <1>5, <1>6, <2>0, <4>1 DEF Abs
    <3>2. /\ (r[i] > 0) <=> rising
          /\ (N > 0) <=> rising
          /\ (M > 0) <=> rising
      BY <1>3, <1>4, <1>5, <2>0, <2>2, <3>1 DEF OneSide
    <3>3. (sizes[i] >= 0) <=> (r[i] >= 0)
      BY <1>2, <2>2
    <3>4. UnitPrice(P, sizes[i]) = UnitPrice(P, r[i])
      BY <3>3 DEF UnitPrice
    <3>5. Abs(r[i]) * UnitPrice(P, r[i]).num <= b * P.den
      BY <1>2, <3>4
    <3>. HIDE DEF M, N, b
    <3>6. Abs(r[i]) * UnitPrice(ClearingPrice(q, N), r[i]).num <= b * ClearingPrice(q, N).den
      BY <3>5 DEF P, N
    <3>. QED BY <1>4, <1>5, <1>6, <2>0, <2>2, <3>1, <3>2, <3>6, CheaperWithFewer DEF b
  <2>. QED BY <2>1, <2>2
<1>. QED BY <1>7 DEF NobodyOver, r

-----------------------------------------------------------------------------
(* The deal of a round                                                     *)

Wished(q, orders) == [i \in DOMAIN orders |-> Desired(q, orders[i], Len(orders))]
Thrice(q, orders) ==
  Repriced(q, orders, Repriced(q, orders, Repriced(q, orders, Wished(q, orders))))
DealtSizes(q, orders) == Clipped(q, orders, Thrice(q, orders))
DealtPrice(q, orders) == ClearingPrice(q, Total(DealtSizes(q, orders)))

\* What an order wishes is on its side.
LEMMA DesiredOK ==
  ASSUME NEW q \in Int, NEW order \in Order, order.target \in Int, NEW n \in Nat, n > 0
  PROVE  /\ Desired(q, order, n) \in Int
         /\ order.target > q => Desired(q, order, n) >= 0
         /\ order.target <= q => Desired(q, order, n) <= 0
<1>. DEFINE way   == order.target - q
            limit == Min({NetCap, Abs(way)})
            part  == Abs(way) \div n
            size  == Min({limit, part})
<1>1. way \in Int /\ Abs(way) \in Nat /\ (way = 0 => Abs(way) = 0)
  BY DEF Abs
<1>2. NetCap \in Nat
  BY ConstantsOK
<1>3. part \in Int /\ n * part <= Abs(way) /\ Abs(way) < n * part + n
  <2>1. n \in Nat \ {0} /\ Abs(way) \in Int
    BY <1>1
  <2>. HIDE DEF way
  <2>. QED BY <2>1, Floor
<1>4. part >= 0
  <2>1. ASSUME part + 1 <= 0 PROVE FALSE
    <3>1. n * (part + 1) <= n * 0
      BY <1>3, <2>1, Products
    <3>2. n * (part + 1) = n * part + n /\ n * 0 = 0
      BY <1>3
    <3>. QED BY <1>1, <1>3, <3>1, <3>2
  <2>. QED BY <1>3, <2>1
<1>. HIDE DEF part
<1>5. limit = IF NetCap =< Abs(way) THEN NetCap ELSE Abs(way)
  BY <1>1, <1>2, MinOfTwo
<1>6. limit \in Nat /\ (way = 0 => limit = 0)
  BY <1>1, <1>2, <1>5
<1>. HIDE DEF limit
<1>7. size = IF limit =< part THEN limit ELSE part
  BY <1>3, <1>6, MinOfTwo
<1>8. size \in Nat /\ (way = 0 => size = 0)
  BY <1>3, <1>4, <1>6, <1>7
<1>9. Desired(q, order, n) = Signed(way, size)
  BY DEF Desired, limit, part
<1>. HIDE DEF size
<1>10. (order.target > q => way >= 0) /\ (order.target <= q => way <= 0)
  OBVIOUS
<1>. HIDE DEF way
<1>. QED BY <1>1, <1>8, <1>9, <1>10 DEF Signed

LEMMA WishedOK ==
  ASSUME NEW orders \in Queues, NEW q \in Int, Len(orders) > 0
  PROVE  /\ Wished(q, orders) \in Sizes(Len(orders))
         /\ \A i \in 1..Len(orders) :
              /\ orders[i].target > q => Wished(q, orders)[i] >= 0
              /\ orders[i].target <= q => Wished(q, orders)[i] <= 0
<1>1. Len(orders) \in Nat /\ DOMAIN orders = 1..Len(orders)
  BY QueueFacts
<1>2. ASSUME NEW i \in 1..Len(orders)
      PROVE  /\ Desired(q, orders[i], Len(orders)) \in Int
             /\ orders[i].target > q => Desired(q, orders[i], Len(orders)) >= 0
             /\ orders[i].target <= q => Desired(q, orders[i], Len(orders)) <= 0
  <2>1. orders[i] \in Order /\ orders[i].target \in Int
    BY QueueFacts DEF Queues
  <2>. QED BY <1>1, <2>1, DesiredOK
<1>. QED BY <1>1, <1>2 DEF Wished, Sizes

LEMMA ThriceOK ==
  ASSUME NEW orders \in Queues, NEW q \in Int, Len(orders) > 0
  PROVE  /\ Repriced(q, orders, Wished(q, orders)) \in Sizes(Len(orders))
         /\ Repriced(q, orders, Repriced(q, orders, Wished(q, orders))) \in Sizes(Len(orders))
         /\ Thrice(q, orders) \in Sizes(Len(orders))
         /\ DealtSizes(q, orders) \in Sizes(Len(orders))
         /\ IsPrice(DealtPrice(q, orders))
<1>. DEFINE w == Wished(q, orders)
            r == Repriced(q, orders, w)
            s == Repriced(q, orders, r)
            t == Repriced(q, orders, s)
            d == Clipped(q, orders, t)
<1>1. w \in Sizes(Len(orders))
  BY WishedOK
<1>2. r \in Sizes(Len(orders))
  <2>. HIDE DEF w
  <2>. QED BY <1>1, RepricedOK
<1>3. s \in Sizes(Len(orders))
  <2>. HIDE DEF r
  <2>. QED BY <1>2, RepricedOK
<1>4. t \in Sizes(Len(orders))
  <2>. HIDE DEF s
  <2>. QED BY <1>3, RepricedOK
<1>5. d \in Sizes(Len(orders))
  <2>. HIDE DEF t
  <2>. QED BY <1>4, ClippedOK
<1>6. IsPrice(ClearingPrice(q, Total(d)))
  <2>. HIDE DEF d
  <2>. QED BY <1>5, QueueFacts, TotalInt, PriceOK
<1>7. t = Thrice(q, orders)
  BY DEF Thrice
<1>8. d = DealtSizes(q, orders)
  BY DEF DealtSizes, Thrice
<1>. HIDE DEF d, t
<1>. QED BY <1>2, <1>3, <1>4, <1>5, <1>6, <1>7, <1>8 DEF DealtPrice

LEMMA DealIs ==
  ASSUME NEW orders \in Queues, NEW q \in Int, Len(orders) > 0
  PROVE  Deal(q, orders) =
           [sizes  |-> DealtSizes(q, orders),
            spends |-> [k \in DOMAIN DealtSizes(q, orders) |->
                          Spend(DealtPrice(q, orders), DealtSizes(q, orders)[k])]]
<1>. DEFINE w == Wished(q, orders)
            r == Repriced(q, orders, w)
            s == Repriced(q, orders, r)
            t == Repriced(q, orders, s)
            d == Clipped(q, orders, t)
            reprice == [z \in Seq(Int) |-> Repriced(q, orders, z)]
            clip == [z \in Seq(Int) |-> Clipped(q, orders, z)]
            deal == [z \in Seq(Int) |->
                       [sizes |-> z,
                        spends |-> [k \in DOMAIN z |-> Spend(ClearingPrice(q, Total(z)), z[k])]]]
<1>1. w \in Seq(Int) /\ r \in Seq(Int) /\ s \in Seq(Int) /\ t \in Seq(Int) /\ d \in Seq(Int)
  <2>1. /\ w \in Sizes(Len(orders)) /\ r \in Sizes(Len(orders)) /\ s \in Sizes(Len(orders))
        /\ t \in Sizes(Len(orders)) /\ d \in Sizes(Len(orders))
    BY WishedOK, ThriceOK DEF Thrice, DealtSizes
  <2>. HIDE DEF w, r, s, t, d
  <2>. QED BY <2>1, QueueFacts
<1>2. Deal(q, orders) = deal[clip[reprice[reprice[reprice[w]]]]]
  BY DEF Deal, Wished
<1>3. reprice[w] = r
  <2>. HIDE DEF w
  <2>. QED BY <1>1
<1>4. reprice[r] = s
  <2>. HIDE DEF r
  <2>. QED BY <1>1
<1>5. reprice[s] = t
  <2>. HIDE DEF s
  <2>. QED BY <1>1
<1>6. clip[t] = d
  <2>. HIDE DEF t
  <2>. QED BY <1>1
<1>7. deal[d] = [sizes |-> d,
                 spends |-> [k \in DOMAIN d |-> Spend(ClearingPrice(q, Total(d)), d[k])]]
  <2>. HIDE DEF d
  <2>. QED BY <1>1
<1>8. d = DealtSizes(q, orders)
  BY DEF DealtSizes, Thrice
<1>9. Deal(q, orders) = deal[d]
  <2>. HIDE DEF w, r, s, t, d, reprice, clip, deal
  <2>. QED BY <1>2, <1>3, <1>4, <1>5, <1>6
<1>. HIDE DEF w, r, s, t, d, reprice, clip, deal
<1>. QED BY <1>7, <1>8, <1>9 DEF DealtPrice

\* What is spent on one order.
LEMMA SpendOK ==
  ASSUME NEW P, IsPrice(P), NEW size \in Int
  PROVE  LET x == Abs(size) * UnitPrice(P, size).num
         IN  /\ Spend(P, size) \in Nat
             /\ P.den * Spend(P, size) <= x /\ x <= P.den * (Spend(P, size) + 1)
             /\ x = size * P.num + (Unit * P.den) * Max({-size, 0})
             /\ Max({-size, 0}) \in Nat /\ Max({size, 0}) \in Nat
             /\ Max({size, 0}) - Max({-size, 0}) = size
             /\ \A b \in Nat : ~ OverBudget(P, size, b) => Spend(P, size) <= b
<1>. DEFINE u == UnitPrice(P, size).num
            x == Abs(size) * u
            y == x \div P.den
<1>1. /\ P.den \in Nat /\ P.den > 0 /\ P.num \in Nat
      /\ u = (IF size >= 0 THEN P.num ELSE Unit * P.den - P.num) /\ x \in Nat
  BY UnitPriceOK DEF IsPrice
<1>2. Unit * P.den \in Int
  BY <1>1, ConstantsOK
<1>3. /\ -size \in Int
      /\ Max({-size, 0}) = (IF -size >= 0 THEN -size ELSE 0)
      /\ Max({size, 0}) = (IF size >= 0 THEN size ELSE 0)
  BY MaxOfTwo
<1>4. y \in Int /\ P.den * y <= x /\ x < P.den * y + P.den
  <2>1. P.den \in Nat \ {0} /\ x \in Int
    BY <1>1
  <2>. HIDE DEF x
  <2>. QED BY <2>1, Floor
<1>5. Spend(P, size) = y
  BY DEF Spend
<1>6. x = size * P.num + (Unit * P.den) * Max({-size, 0})
  <2>1. CASE size >= 0
    BY <1>1, <1>2, <1>3, <2>1 DEF Abs
  <2>2. CASE size < 0
    <3>. DEFINE z == Unit * P.den
    <3>1. u = z - P.num /\ Abs(size) = -size /\ Max({-size, 0}) = -size /\ z \in Int
      BY <1>1, <1>2, <1>3, <2>2 DEF Abs
    <3>. HIDE DEF z, u
    <3>2. (-size) * (z - P.num) = size * P.num + z * (-size)
      BY <1>1, <3>1
    <3>. QED BY <3>1, <3>2 DEF z
  <2>. QED BY <2>1, <2>2
<1>7. OverBudget(P, size, 0) \in BOOLEAN /\ \A b \in Nat : ~ OverBudget(P, size, b) <=> ~ (x > b * P.den)
  BY DEF OverBudget
<1>. HIDE DEF u, x, y
<1>8. y >= 0
  <2>1. ASSUME y + 1 <= 0 PROVE FALSE
    <3>1. P.den * (y + 1) <= P.den * 0
      BY <1>1, <1>4, <2>1, Products
    <3>2. P.den * (y + 1) = P.den * y + P.den /\ P.den * 0 = 0 /\ P.den * y \in Int
      BY <1>1, <1>4
    <3>. QED BY <1>1, <1>4, <3>1, <3>2
  <2>. QED BY <1>4, <2>1
<1>9. P.den * (y + 1) = P.den * y + P.den /\ P.den * y \in Int
  BY <1>1, <1>4
<1>10. ASSUME NEW b \in Nat, ~ OverBudget(P, size, b) PROVE y <= b
  <2>1. x <= b * P.den
    <3>1. b * P.den \in Int
      BY <1>1
    <3>. QED BY <1>1, <1>7, <1>10, <3>1
  <2>2. P.den * y <= P.den * b
    <3>1. b * P.den = P.den * b /\ P.den * b \in Int
      BY <1>1
    <3>. QED BY <1>1, <1>4, <1>9, <2>1, <3>1
  <2>. QED BY <1>1, <1>4, <2>2, Products
<1>11. x <= P.den * (y + 1)
  BY <1>1, <1>4, <1>9
<1>12. Max({-size, 0}) \in Nat /\ Max({size, 0}) \in Nat /\ Max({size, 0}) - Max({-size, 0}) = size
  BY <1>3
<1>. QED BY <1>4, <1>5, <1>6, <1>8, <1>10, <1>11, <1>12 DEF u, x

\* One for each of n.
LEMMA SumOnes ==
  ASSUME NEW n \in Nat
  PROVE  SumFunction([i \in 1..n |-> 1]) = n
<1>. DEFINE S == {k \in 0..n : SumFunction([i \in 1..k |-> 1]) = k}
<1>1. 0 \in S
  <2>1. [i \in 1..0 |-> 1] = [i \in 1..0 |-> 0]
    OBVIOUS
  <2>2. SumFunction([i \in 1..0 |-> 1]) = 0
    BY <2>1, SumOfNone
  <2>. QED BY <2>2
<1>2. ASSUME NEW k \in 0..(n - 1), k \in S PROVE k + 1 \in S
  <2>. DEFINE f == [i \in 1..k |-> 1]
              g == [i \in 1..(k + 1) |-> 1]
  <2>1. k \in Nat /\ g \in [1..(k + 1) -> Int] /\ f \in [1..k -> Int] /\ g[k + 1] = 1
        /\ \A i \in 1..k : f[i] = g[i]
    OBVIOUS
  <2>2. SumFunction(f) = k
    BY <1>2
  <2>. HIDE DEF f, g
  <2>3. SumFunction(g) = SumFunction(f) + g[k + 1]
    BY ONLY <2>1, SumLonger
  <2>4. SumFunction(g) = k + 1
    BY <2>1, <2>2, <2>3
  <2>. QED BY <2>4 DEF g
<1>. HIDE DEF S
<1>3. n \in S
  <2>1. \A k \in 0..n : k \in S
    BY <1>1, <1>2, UpTo
  <2>. QED BY <2>1
<1>. QED BY <1>3 DEF S

\* The shares of each side.
Bought(sizes) == [i \in DOMAIN sizes |-> Max({sizes[i], 0})]
Sold(sizes) == [i \in DOMAIN sizes |-> Max({-sizes[i], 0})]

\* What the escrow must have more after a round in which sizes are filled.
Due(q, sizes) == Cost(q + Total(sizes)) - Cost(q) + Unit * SumFunction(Sold(sizes))

\* A deal: how many shares of each side, and what is spent on them is what the
\* escrow must have more, up to less than a quantum for each order.
Fair(q, n, deal) ==
  /\ deal \in Deals
  /\ DOMAIN deal.sizes = 1..n /\ DOMAIN deal.spends = 1..n
  /\ deal.sizes \in [1..n -> Int] /\ deal.spends \in [1..n -> Nat]
  /\ Bought(deal.sizes) \in [1..n -> Nat] /\ Sold(deal.sizes) \in [1..n -> Nat]
  /\ Total(deal.sizes) \in Int /\ Due(q, deal.sizes) \in Int
  /\ SumFunction(Bought(deal.sizes)) - SumFunction(Sold(deal.sizes)) = Total(deal.sizes)
  /\ SumFunction(deal.spends) <= Due(q, deal.sizes)
  /\ Due(q, deal.sizes) <= SumFunction(deal.spends) + n

\* One entry of a deal.
LEMMA DealtEntry ==
  ASSUME NEW orders \in Queues, NEW q \in Int, Len(orders) > 0
  PROVE  /\ Deal(q, orders) \in Deals
         /\ Deal(q, orders).sizes = DealtSizes(q, orders)
         /\ Deal(q, orders).sizes \in [1..Len(orders) -> Int]
         /\ Deal(q, orders).spends \in [1..Len(orders) -> Nat]
         /\ \A i \in 1..Len(orders) :
              Deal(q, orders).spends[i] = Spend(DealtPrice(q, orders), DealtSizes(q, orders)[i])
<1>. DEFINE n == Len(orders)
            d == DealtSizes(q, orders)
            P == DealtPrice(q, orders)
            s == [k \in DOMAIN d |-> Spend(P, d[k])]
<1>1. Deal(q, orders) = [sizes |-> d, spends |-> s]
  BY DealIs
<1>2. d \in Sizes(n) /\ IsPrice(P) /\ n \in Nat
  BY ThriceOK, QueueFacts
<1>3. DOMAIN d = 1..n /\ d \in Seq(Int)
  BY <1>2, QueueFacts
<1>. HIDE DEF d, P
<1>4. \A i \in 1..n : Spend(P, d[i]) \in Nat
  BY <1>2, SpendOK DEF Sizes
<1>5. s \in [1..n -> Nat] /\ s \in Seq(Nat) /\ \A i \in 1..n : s[i] = Spend(P, d[i])
  BY <1>2, <1>3, <1>4
<1>. HIDE DEF s
<1>6. Deal(q, orders) \in Deals
  BY <1>1, <1>3, <1>5 DEF Deals
<1>. QED BY <1>1, <1>2, <1>5, <1>6 DEF d, P, Sizes

LEMMA DealIsFair ==
  ASSUME NEW orders \in Queues, NEW q \in Int, Len(orders) > 0
  PROVE  Fair(q, Len(orders), Deal(q, orders))
<1>. DEFINE n == Len(orders)
            deal == Deal(q, orders)
            d == deal.sizes
            P == DealtPrice(q, orders)
            I == 1..n
            N == Total(d)
            D == P.den
            spent == deal.spends
            sold == Sold(d)
            bought == Bought(d)
            x == [i \in I |-> Abs(d[i]) * UnitPrice(P, d[i]).num]
<1>1. /\ deal \in Deals /\ d = DealtSizes(q, orders) /\ d \in [I -> Int] /\ spent \in [I -> Nat]
      /\ \A i \in I : spent[i] = Spend(P, d[i])
  BY DealtEntry
<1>2. n \in Nat /\ IsFiniteSet(I) /\ IsPrice(P) /\ N \in Int /\ P = ClearingPrice(q, N)
  <2>1. n \in Nat /\ d \in Sizes(n)
    BY <1>1, QueueFacts DEF Sizes
  <2>2. N \in Int
    <3>. HIDE DEF d
    <3>. QED BY <2>1, TotalInt
  <2>3. IsFiniteSet(I)
    BY <2>1, FS_Interval
  <2>. QED BY <1>1, <2>1, <2>2, <2>3, ThriceOK DEF DealtPrice
<1>3. /\ D \in Nat /\ D > 0 /\ P.num \in Nat
      /\ N * P.num = D * (Cost(q + N) - Cost(q))
      /\ Cost(q + N) \in Int /\ Cost(q) \in Int /\ Unit \in Nat
  <2>1. N * P.num = D * (Cost(q + N) - Cost(q))
    BY <1>2, PriceOK
  <2>2. Cost(q + N) \in Int /\ Cost(q) \in Int
    BY <1>2, CostIsInt
  <2>3. D \in Nat /\ D > 0 /\ P.num \in Nat
    BY <1>2 DEF IsPrice
  <2>4. Unit \in Nat
    BY ConstantsOK
  <2>. QED BY <2>1, <2>2, <2>3, <2>4
<1>4. sold = [i \in I |-> Max({-d[i], 0})] /\ bought = [i \in I |-> Max({d[i], 0})]
  BY <1>1 DEF Sold, Bought
<1>. HIDE DEF deal, d, P, N, D, spent, sold, bought, I, n
<1>5. ASSUME NEW i \in I
      PROVE  /\ spent[i] \in Nat /\ x[i] \in Int
             /\ D * spent[i] <= x[i] /\ x[i] <= D * (spent[i] + 1)
             /\ x[i] = P.num * d[i] + (Unit * D) * sold[i]
             /\ sold[i] \in Nat /\ bought[i] \in Nat /\ bought[i] = d[i] + sold[i] /\ d[i] \in Int
  <2>1. d[i] \in Int
    BY <1>1
  <2>2. /\ Spend(P, d[i]) \in Nat
        /\ D * Spend(P, d[i]) <= x[i] /\ x[i] <= D * (Spend(P, d[i]) + 1)
        /\ x[i] = d[i] * P.num + (Unit * D) * sold[i]
        /\ sold[i] \in Nat /\ bought[i] \in Nat
        /\ bought[i] - sold[i] = d[i]
    <3>. DEFINE y == Abs(d[i]) * UnitPrice(P, d[i]).num
    <3>1. /\ Spend(P, d[i]) \in Nat
          /\ P.den * Spend(P, d[i]) <= y /\ y <= P.den * (Spend(P, d[i]) + 1)
          /\ y = d[i] * P.num + (Unit * P.den) * Max({-d[i], 0})
          /\ Max({-d[i], 0}) \in Nat /\ Max({d[i], 0}) \in Nat
          /\ Max({d[i], 0}) - Max({-d[i], 0}) = d[i]
      BY <1>2, <2>1, SpendOK
    <3>2. sold[i] = Max({-d[i], 0}) /\ bought[i] = Max({d[i], 0}) /\ x[i] = y
      BY <1>4
    <3>3. D = P.den
      BY DEF D
    <3>. QED BY ONLY <3>1, <3>2, <3>3
  <2>3. Abs(d[i]) * UnitPrice(P, d[i]).num \in Nat
    BY <1>2, <2>1, UnitPriceOK
  <2>4. x[i] \in Int
    BY <2>3
  <2>5. d[i] * P.num = P.num * d[i]
    BY <1>3, <2>1
  <2>6. bought[i] = d[i] + sold[i]
    BY <2>1, <2>2
  <2>. HIDE DEF x
  <2>. QED BY <1>1, <2>1, <2>2, <2>4, <2>5, <2>6
<1>6. x = [i \in I |-> x[i]]
  OBVIOUS
<1>. HIDE DEF x
<1>7. /\ x \in [I -> Int] /\ sold \in [I -> Nat] /\ bought \in [I -> Nat]
      /\ spent \in [I -> Int] /\ sold \in [I -> Int] /\ bought \in [I -> Int]
  <2>1. x \in [I -> Int]
    BY <1>5, <1>6
  <2>2. sold \in [I -> Nat] /\ bought \in [I -> Nat]
    BY <1>4, <1>5
  <2>. QED BY <1>1, <2>1, <2>2
<1>. DEFINE sn == SumFunction(sold)
            sp == SumFunction(spent)
            sx == SumFunction(x)
<1>8. SumFunction(bought) = N + sn /\ sn \in Int
  <2>1. SumFunction(bought) = SumFunction(d) + SumFunction(sold) /\ SumFunction(sold) \in Int
    <3>1. Adds(bought, d, sold, I)
      BY <1>1, <1>5, <1>7 DEF Adds
    <3>. QED BY ONLY <1>2, <3>1, SumAdds
  <2>. QED BY <2>1 DEF N, Total
<1>9. sx = D * (Cost(q + N) - Cost(q) + Unit * sn) /\ sx \in Int
  <2>. DEFINE f == [i \in I |-> P.num * d[i]]
              g == [i \in I |-> (Unit * D) * sold[i]]
              c == Unit * D
  <2>1. c \in Int /\ P.num \in Int
    BY <1>3
  <2>2. ASSUME NEW i \in I PROVE P.num * d[i] \in Int /\ c * sold[i] \in Int
    BY <1>5, <2>1
  <2>3. f \in [I -> Int] /\ g \in [I -> Int]
    BY <2>2
  <2>4. (\A i \in I : f[i] = P.num * d[i]) /\ (\A i \in I : g[i] = c * sold[i])
    OBVIOUS
  <2>. HIDE DEF f, g, c
  <2>5. SumFunction(f) = P.num * SumFunction(d) /\ SumFunction(d) \in Int
    <3>1. Scales(f, P.num, d, I)
      BY <1>1, <2>1, <2>3, <2>4 DEF Scales
    <3>. QED BY ONLY <1>2, <3>1, SumScales
  <2>6. SumFunction(g) = c * SumFunction(sold)
    <3>1. Scales(g, c, sold, I)
      BY <1>7, <2>1, <2>3, <2>4 DEF Scales
    <3>. QED BY ONLY <1>2, <3>1, SumScales
  <2>7. \A i \in I : x[i] = f[i] + g[i]
    BY <1>5, <2>4 DEF c
  <2>8. SumFunction(x) = SumFunction(f) + SumFunction(g) /\ SumFunction(f) \in Int /\ SumFunction(g) \in Int
    <3>1. Adds(x, f, g, I)
      BY <1>7, <2>3, <2>7 DEF Adds
    <3>. QED BY ONLY <1>2, <3>1, SumAdds
  <2>9. SumFunction(d) = N
    BY DEF N, Total
  <2>10. P.num * N = D * (Cost(q + N) - Cost(q))
    <3>1. P.num * N = N * P.num
      BY <1>2, <1>3
    <3>. QED BY <1>3, <3>1
  <2>11. c * sn = D * (Unit * sn)
    BY <1>3, <1>8 DEF c
  <2>12. D * (Cost(q + N) - Cost(q)) + D * (Unit * sn) = D * (Cost(q + N) - Cost(q) + Unit * sn)
    BY <1>3, <1>8
  <2>. QED BY <2>5, <2>6, <2>8, <2>9, <2>10, <2>11, <2>12
<1>10. D * sp <= sx /\ sp \in Int
  <2>. DEFINE f == [i \in I |-> D * spent[i]]
  <2>1. f \in [I -> Int] /\ \A i \in I : f[i] = D * spent[i]
    BY <1>3, <1>5
  <2>. HIDE DEF f
  <2>2. \A i \in I : f[i] <= x[i]
    BY <1>5, <2>1
  <2>3. SumFunction(f) <= SumFunction(x)
    BY ONLY <1>2, <1>7, <2>1, <2>2, SumMonotone
  <2>4. D \in Int
    BY <1>3
  <2>5. SumFunction(f) = D * SumFunction(spent) /\ SumFunction(spent) \in Int
    <3>1. Scales(f, D, spent, I)
      BY <1>7, <2>1, <2>4 DEF Scales
    <3>. QED BY ONLY <1>2, <3>1, SumScales
  <2>. QED BY <2>3, <2>5
<1>11. sx <= D * (sp + n)
  <2>. DEFINE ones == [i \in I |-> 1]
              more == [i \in I |-> spent[i] + 1]
              f == [i \in I |-> D * more[i]]
  <2>1. ones \in [I -> Int] /\ more \in [I -> Int] /\ \A i \in I : more[i] = spent[i] + ones[i]
    BY <1>5
  <2>2. f \in [I -> Int] /\ \A i \in I : f[i] = D * more[i]
    BY <1>3, <1>5
  <2>3. SumFunction(ones) = n
    BY <1>2, SumOnes DEF I
  <2>4. \A i \in I : x[i] <= f[i]
    BY <1>5
  <2>. HIDE DEF ones, more, f
  <2>5. SumFunction(more) = SumFunction(spent) + SumFunction(ones)
    <3>1. Adds(more, spent, ones, I)
      BY <1>7, <2>1 DEF Adds
    <3>. QED BY ONLY <1>2, <3>1, SumAdds
  <2>6. SumFunction(x) <= SumFunction(f)
    BY ONLY <1>2, <1>7, <2>2, <2>4, SumMonotone
  <2>7. D \in Int
    BY <1>3
  <2>8. SumFunction(f) = D * SumFunction(more)
    <3>1. Scales(f, D, more, I)
      BY <2>1, <2>2, <2>7 DEF Scales
    <3>. QED BY ONLY <1>2, <3>1, SumScales
  <2>. QED BY <2>3, <2>5, <2>6, <2>8
<1>. DEFINE due == Cost(q + N) - Cost(q) + Unit * sn
<1>12. due \in Int
  BY <1>3, <1>8
<1>13. sp <= due /\ due <= sp + n
  <2>. HIDE DEF due, sp, sx, sn
  <2>1. sx = D * due
    BY <1>9 DEF due
  <2>. QED BY <1>2, <1>3, <1>10, <1>11, <1>12, <2>1, Products
<1>14. Due(q, d) = due
  BY DEF Due, sold, N
<1>. HIDE DEF due, sp, sx, sn
<1>15. SumFunction(bought) - sn = N
  BY <1>2, <1>8
<1>16. DOMAIN d = I /\ DOMAIN spent = I
  BY <1>1
<1>. QED BY <1>1, <1>2, <1>7, <1>12, <1>13, <1>14, <1>15, <1>16
         DEF Fair, deal, d, sold, bought, spent, I, n, N, sp, sn

\* A round whose orders all buy one side gives nobody more than it can pay for.
LEMMA OneSidedDealFits ==
  ASSUME NEW orders \in Queues, NEW q \in Int, Len(orders) > 0, NEW rising \in BOOLEAN,
         \A i \in 1..Len(orders) : (orders[i].target > q) <=> rising
  PROVE  \A i \in 1..Len(orders) : Deal(q, orders).spends[i] <= orders[i].budget
<1>. DEFINE n == Len(orders)
            w == Wished(q, orders)
            r == Repriced(q, orders, w)
<1>1. n \in Nat /\ w \in Sizes(n) /\ r \in Sizes(n)
  BY WishedOK, ThriceOK, QueueFacts
<1>2. OneSide(w, n, rising)
  <2>1. ASSUME NEW i \in 1..n
        PROVE  IF rising THEN w[i] >= 0 ELSE w[i] <= 0
    <3>1. /\ orders[i].target > q => w[i] >= 0
          /\ orders[i].target <= q => w[i] <= 0
          /\ orders[i].target \in Int
      BY WishedOK, QueueFacts
    <3>. QED BY <3>1
  <2>. QED BY <2>1 DEF OneSide
<1>. HIDE DEF w
<1>3. NobodyOver(q, orders, r)
  BY <1>1, <1>2, OneSideSettles
<1>. HIDE DEF r
<1>4. Repriced(q, orders, r) = r /\ Clipped(q, orders, r) = r
  BY <1>1, <1>3, NothingToChange
<1>5. DealtSizes(q, orders) = r
  BY <1>4 DEF DealtSizes, Thrice, r, w
<1>6. ASSUME NEW i \in 1..n
      PROVE  Deal(q, orders).spends[i] <= orders[i].budget
  <2>1. Deal(q, orders).spends[i] = Spend(ClearingPrice(q, Total(r)), r[i])
    BY <1>5, DealtEntry DEF DealtPrice
  <2>2. ~ OverBudget(ClearingPrice(q, Total(r)), r[i], orders[i].budget)
    BY <1>3 DEF NobodyOver
  <2>3. r[i] \in Int /\ orders[i].budget \in Nat /\ Total(r) \in Int
    BY <1>1, TotalInt, QueueFacts DEF Sizes
  <2>4. IsPrice(ClearingPrice(q, Total(r)))
    BY <2>3, PriceOK
  <2>. DEFINE P == ClearingPrice(q, Total(r))
              b == orders[i].budget
  <2>5. IsPrice(P) /\ b \in Nat /\ ~ OverBudget(P, r[i], b)
    BY <2>2, <2>3, <2>4
  <2>. HIDE DEF P, b
  <2>6. Spend(P, r[i]) <= b
    BY ONLY <2>3, <2>5, SpendOK
  <2>. QED BY <2>1, <2>6 DEF P, b
<1>. QED BY <1>6

-----------------------------------------------------------------------------
(* The books of a market                                                   *)

LEMMA BookFields ==
  ASSUME NEW s \in Books
  PROVE  /\ s.ledger \in Ledgers(Parties, Markets) /\ s.seq \in Nat /\ s.orders \in Nat
         /\ s.status \in [Markets -> {"none", "open", "resolved", "void"}]
         /\ s.sponsor \in [Markets -> Traders \cup {Nobody}]
         /\ s.q \in [Markets -> Int] /\ s.round \in [Markets -> Nat]
         /\ s.due \in [Markets -> BOOLEAN] /\ s.pending \in [Markets -> Seq(Order)]
         /\ s.fills \in [Markets -> Nat]
         /\ s.yes \in Holdings /\ s.no \in Holdings /\ s.basis \in Holdings
         /\ s.half \in [Markets -> SUBSET {"round", "payout"}]
         /\ s = [ledger |-> s.ledger, seq |-> s.seq, orders |-> s.orders,
                 status |-> s.status, sponsor |-> s.sponsor, q |-> s.q, round |-> s.round,
                 due |-> s.due, pending |-> s.pending, fills |-> s.fills,
                 yes |-> s.yes, no |-> s.no, basis |-> s.basis, half |-> s.half]
BY DEF Books

\* A market nobody has opened.
Untouched(s, m) ==
  /\ s.ledger.available[m] = 0 /\ s.q[m] = 0 /\ s.fills[m] = 0
  /\ s.pending[m] = <<>> /\ s.half[m] = {}
  /\ \A t \in Traders : s.yes[m][t] = 0 /\ s.no[m][t] = 0 /\ s.basis[m][t] = 0

\* What LocksMatchPending says of one market.
Pledged(s, m) ==
  /\ \A i \in DOMAIN s.pending[m] :
       s.ledger.locks[s.pending[m][i].trader][m] = s.pending[m][i].budget
  /\ \A i, j \in DOMAIN s.pending[m] :
       i # j => s.pending[m][i].trader # s.pending[m][j].trader
  /\ \A a \in Parties : s.ledger.locks[a][m] > 0 =>
       \E i \in DOMAIN s.pending[m] : s.pending[m][i].trader = a

\* What BasisCoversVoid and EscrowWithinRounding say of one market, and that the
\* net of the shares is how far the price has moved.
Backed(s, m) == s.ledger.available[m] = Subsidy + SumFunction(s.basis[m])
Rounded(s, m) ==
  /\ ExpectedEscrow(s, m) - s.ledger.available[m] \in 0..s.fills[m]
  /\ SumFunction(s.yes[m]) - SumFunction(s.no[m]) = s.q[m]

MarketOK(s, m) ==
  /\ m > s.seq => s.status[m] = "none"
  /\ s.status[m] = "none" => Untouched(s, m)
  /\ Pledged(s, m)
  /\ Open(s, m) /\ "payout" \notin s.half[m] => Backed(s, m)
  /\ Open(s, m) /\ s.half[m] = {} => Rounded(s, m)

\* The invariant of the books, in memory and on disk.
Sound(s) ==
  /\ s \in Books /\ s.seq <= Cardinality(Markets)
  /\ SoundLedger(s.ledger, Parties, Markets)
  /\ \A a \in Parties : s.ledger.available[a] >= 0
  /\ \A m \in Markets : MarketOK(s, m)

\* t is s with nothing changed that concerns another market than m.
SameAt(s, t, j) ==
  /\ t.status[j] = s.status[j] /\ t.sponsor[j] = s.sponsor[j]
  /\ t.q[j] = s.q[j] /\ t.round[j] = s.round[j] /\ t.due[j] = s.due[j]
  /\ t.pending[j] = s.pending[j]
  /\ t.fills[j] = s.fills[j] /\ t.yes[j] = s.yes[j] /\ t.no[j] = s.no[j]
  /\ t.basis[j] = s.basis[j] /\ t.half[j] = s.half[j]
  /\ t.ledger.available[j] = s.ledger.available[j]
  /\ \A a \in Parties : t.ledger.locks[a][j] = s.ledger.locks[a][j]
Apart(s, t, m) == s.seq <= t.seq /\ \A j \in Markets \ {m} : SameAt(s, t, j)

\* What is true of a market stays true when nothing of it changes.
LEMMA SameIsOK ==
  ASSUME NEW s \in Books, NEW t \in Books, NEW j \in Markets,
         SameAt(s, t, j), s.seq <= t.seq, MarketOK(s, j)
  PROVE  MarketOK(t, j)
<1>1. j > t.seq => j > s.seq
  <2>1. j \in Int /\ s.seq \in Int /\ t.seq \in Int
    BY ConstantsOK, BookFields
  <2>. QED BY <2>1
<1>2. ExpectedEscrow(t, j) = ExpectedEscrow(s, j)
  BY DEF ExpectedEscrow, SameAt
<1>3. /\ Untouched(s, j) => Untouched(t, j)
      /\ Backed(s, j) => Backed(t, j)
      /\ Rounded(s, j) => Rounded(t, j)
      /\ Open(t, j) <=> Open(s, j)
  BY <1>2 DEF SameAt, Untouched, Backed, Rounded, Open
<1>4. Pledged(s, j) => Pledged(t, j)
  <2>1. SUFFICES ASSUME Pledged(s, j) PROVE Pledged(t, j)
    OBVIOUS
  <2>2. t.pending[j] = s.pending[j] /\ \A a \in Parties : t.ledger.locks[a][j] = s.ledger.locks[a][j]
    BY DEF SameAt
  <2>3. \A i \in DOMAIN s.pending[j] : s.pending[j][i].trader \in Parties
    <3>1. s.pending[j] \in Seq(Order)
      BY BookFields
    <3>2. \A i \in DOMAIN s.pending[j] : s.pending[j][i] \in Order
      BY <3>1
    <3>3. Traders \subseteq Parties
      BY ConstantsOK
    <3>. QED BY <3>2, <3>3 DEF Order
  <2>. QED BY <2>1, <2>2, <2>3 DEF Pledged
<1>. QED BY <1>1, <1>3, <1>4 DEF MarketOK, SameAt

LEMMA ApartIsSound ==
  ASSUME NEW s, Sound(s), NEW t \in Books, NEW m \in Markets, Apart(s, t, m),
         t.seq <= Cardinality(Markets), SoundLedger(t.ledger, Parties, Markets),
         \A a \in Traders \cup {m} : t.ledger.available[a] >= 0, MarketOK(t, m)
  PROVE  Sound(t)
<1>1. ASSUME NEW j \in Markets PROVE MarketOK(t, j)
  <2>1. CASE j = m
    BY <2>1
  <2>2. CASE j # m
    <3>1. SameAt(s, t, j) /\ s.seq <= t.seq /\ s \in Books /\ MarketOK(s, j)
      BY <2>2 DEF Apart, Sound
    <3>. QED BY <3>1, SameIsOK
  <2>. QED BY <2>1, <2>2
<1>2. ASSUME NEW a \in Parties PROVE t.ledger.available[a] >= 0
  <2>1. CASE a \in Traders \cup {m}
    BY <2>1
  <2>2. CASE a \notin Traders \cup {m}
    <3>1. a \in Markets \ {m}
      BY <2>2 DEF Parties
    <3>. QED BY <3>1 DEF Apart, SameAt, Sound
  <2>. QED BY <2>1, <2>2
<1>. QED BY <1>1, <1>2 DEF Sound

-----------------------------------------------------------------------------
(* The fills of a round                                                    *)

\* All but the first order.
LEMMA RestOfQueue ==
  ASSUME NEW p \in Seq(Order)
  PROVE  SubSeq(p, 2, Len(p)) \in Seq(Order)
OBVIOUS

LEMMA RestOfRest ==
  ASSUME NEW p \in Seq(Order), NEW k \in 0..(Len(p) - 1)
  PROVE  LET r == SubSeq(p, k + 1, Len(p))
         IN  SubSeq(r, 2, Len(r)) = SubSeq(p, (k + 1) + 1, Len(p))
<1>. DEFINE r == SubSeq(p, k + 1, Len(p))
<1>1. Len(p) \in Nat /\ k \in Nat
  OBVIOUS
<1>2. Len(r) = Len(p) - k /\ \A i \in 1..(Len(p) - k) : r[i] = p[k + i]
  BY <1>1
<1>3. SubSeq(r, 2, Len(r)) = [i \in 1..(Len(p) - k - 1) |-> r[i + 1]]
  <2>. HIDE DEF r
  <2>. QED BY <1>1, <1>2
<1>4. SubSeq(p, (k + 1) + 1, Len(p)) = [i \in 1..(Len(p) - k - 1) |-> p[k + i + 1]]
  BY <1>1
<1>. HIDE DEF r
<1>5. \A i \in 1..(Len(p) - k - 1) : r[i + 1] = p[k + i + 1]
  BY <1>1, <1>2
<1>. QED BY <1>3, <1>4, <1>5 DEF r

\* What the fill of one order leaves.
FilledBy(e, t, m, a, size, spend) ==
  /\ e \in Books
  /\ e.seq = t.seq /\ e.status = t.status /\ e.sponsor = t.sponsor
  /\ e.q = t.q /\ e.round = t.round /\ e.due = t.due /\ e.half = t.half
  /\ SoundLedger(e.ledger, Parties, Markets)
  /\ \A b \in Parties : e.ledger.available[b] =
       t.ledger.available[b] + (IF b = a THEN t.ledger.locks[a][m] - spend ELSE 0)
         + (IF b = m THEN spend ELSE 0)
  /\ \A b \in Parties, j \in Markets : e.ledger.locks[b][j] =
       IF b = a /\ j = m THEN 0 ELSE t.ledger.locks[b][j]
  /\ e.pending = [t.pending EXCEPT ![m] = SubSeq(@, 2, Len(@))]
  /\ e.fills = [t.fills EXCEPT ![m] = @ + 1]
  /\ e.basis = [t.basis EXCEPT ![m][a] = @ + spend]
  /\ e.yes = [t.yes EXCEPT ![m][a] = @ + Max({size, 0})]
  /\ e.no = [t.no EXCEPT ![m][a] = @ + Max({-size, 0})]

LEMMA FilledFields ==
  ASSUME NEW t \in Books, SoundLedger(t.ledger, Parties, Markets), NEW m \in Markets,
         NEW order \in Order, NEW size \in Int, NEW spend \in Nat
  PROVE  FilledBy(Filled(t, m, order, size, spend), t, m, order.trader, size, spend)
<1>. DEFINE e == Filled(t, m, order, size, spend)
            a == order.trader
            L == t.ledger
            M == ReleaseLock(L, a, m)
            N == TransferAvailable(M, a, m, spend)
            more == Max({size, 0})
            down == Max({-size, 0})
<1>1. a \in Traders /\ a \in Parties /\ m \in Parties /\ a # m
      /\ IsFiniteSet(Parties) /\ IsFiniteSet(Markets)
  BY ConstantsOK DEF Order
<1>2. L.locks[a][m] \in Nat /\ L \in Ledgers(Parties, Markets)
      /\ L.available \in [Parties -> Int] /\ L.locks \in [Parties -> [Markets -> Nat]]
  BY <1>1, SoundFields DEF Ledgers
<1>3. Lowers(M, L, Parties, Markets, a, m, L.locks[a][m])
  <2>. HIDE DEF L
  <2>. QED BY <1>1, ReleaseLowers DEF L
<1>4. HandsOver(N, M, Parties, Markets, a, m, spend)
  <2>1. SoundLedger(M, Parties, Markets) /\ spend \in Int
    BY <1>3 DEF Lowers
  <2>. HIDE DEF M
  <2>. QED BY <1>1, <2>1, TransferHandsOver
<1>. HIDE DEF M, N
<1>5. SoundLedger(N, Parties, Markets) /\ N \in Ledgers(Parties, Markets)
  BY <1>4 DEF HandsOver, SoundLedger
<1>6. ASSUME NEW b \in Parties
      PROVE  N.available[b] = L.available[b] + (IF b = a THEN L.locks[a][m] - spend ELSE 0)
                                + (IF b = m THEN spend ELSE 0)
  <2>1. M.available[b] = L.available[b] + IF b = a THEN L.locks[a][m] ELSE 0
    BY <1>3 DEF Lowers
  <2>2. N.available[b] = M.available[b] - (IF b = a THEN spend ELSE 0) + IF b = m THEN spend ELSE 0
    BY <1>4 DEF HandsOver
  <2>3. L.available[b] \in Int
    BY <1>2
  <2>. HIDE DEF L, a
  <2>. QED BY <1>2, <2>1, <2>2, <2>3
<1>7. ASSUME NEW b \in Parties, NEW j \in Markets
      PROVE  N.locks[b][j] = IF b = a /\ j = m THEN 0 ELSE L.locks[b][j]
  <2>1. M.locks[b][j] = L.locks[b][j] - IF b = a /\ j = m THEN L.locks[a][m] ELSE 0
    BY <1>3 DEF Lowers
  <2>2. N.locks[b][j] = M.locks[b][j]
    BY <1>4 DEF HandsOver
  <2>3. L.locks[b][j] \in Int
    BY <1>2
  <2>. HIDE DEF L, a
  <2>. QED BY <1>2, <2>1, <2>2, <2>3
<1>8. more \in Nat /\ down \in Nat
  <2>1. -size \in Int
    OBVIOUS
  <2>. QED BY <2>1, MaxOfTwo
<1>. HIDE DEF more, down
<1>9. e = [t EXCEPT !.ledger = N, !.pending[m] = SubSeq(@, 2, Len(@)), !.fills[m] = @ + 1,
                    !.basis[m][a] = @ + spend, !.yes[m][a] = @ + more, !.no[m][a] = @ + down]
  BY DEF Filled, M, N, more, down
<1>10. /\ e.ledger = N /\ e.seq = t.seq /\ e.orders = t.orders /\ e.status = t.status
       /\ e.sponsor = t.sponsor
       /\ e.q = t.q /\ e.round = t.round /\ e.due = t.due /\ e.half = t.half
       /\ e.pending = [t.pending EXCEPT ![m] = SubSeq(@, 2, Len(@))]
       /\ e.fills = [t.fills EXCEPT ![m] = @ + 1]
       /\ e.basis = [t.basis EXCEPT ![m][a] = @ + spend]
       /\ e.yes = [t.yes EXCEPT ![m][a] = @ + more]
       /\ e.no = [t.no EXCEPT ![m][a] = @ + down]
       /\ e = [ledger |-> e.ledger, seq |-> e.seq, orders |-> e.orders,
               status |-> e.status, sponsor |-> e.sponsor, q |-> e.q, round |-> e.round,
               due |-> e.due, pending |-> e.pending, fills |-> e.fills,
               yes |-> e.yes, no |-> e.no, basis |-> e.basis, half |-> e.half]
  <2>1. t = [ledger |-> t.ledger, seq |-> t.seq, orders |-> t.orders,
             status |-> t.status, sponsor |-> t.sponsor, q |-> t.q, round |-> t.round,
             due |-> t.due, pending |-> t.pending, fills |-> t.fills,
             yes |-> t.yes, no |-> t.no, basis |-> t.basis, half |-> t.half]
    BY BookFields
  <2>. HIDE DEF e, L, a
  <2>2. /\ e.ledger = N /\ e.seq = t.seq /\ e.orders = t.orders /\ e.status = t.status
        /\ e.sponsor = t.sponsor
        /\ e.q = t.q /\ e.round = t.round /\ e.due = t.due /\ e.half = t.half
    BY ONLY <1>9, <2>1
  <2>3. /\ e.pending = [t.pending EXCEPT ![m] = SubSeq(@, 2, Len(@))]
        /\ e.fills = [t.fills EXCEPT ![m] = @ + 1]
    BY ONLY <1>9, <2>1
  <2>4. e.basis = [t.basis EXCEPT ![m][a] = @ + spend]
    BY ONLY <1>9, <2>1
  <2>5. e.yes = [t.yes EXCEPT ![m][a] = @ + more]
    BY ONLY <1>9, <2>1
  <2>6. e.no = [t.no EXCEPT ![m][a] = @ + down]
    BY ONLY <1>9, <2>1
  <2>7. e = [ledger |-> e.ledger, seq |-> e.seq, orders |-> e.orders,
             status |-> e.status, sponsor |-> e.sponsor, q |-> e.q, round |-> e.round,
             due |-> e.due, pending |-> e.pending, fills |-> e.fills,
             yes |-> e.yes, no |-> e.no, basis |-> e.basis, half |-> e.half]
    BY ONLY <1>9, <2>1
  <2>. QED BY <2>2, <2>3, <2>4, <2>5, <2>6, <2>7
<1>11. e \in Books
  <2>1. e.pending \in [Markets -> Seq(Order)]
    <3>1. t.pending \in [Markets -> Seq(Order)] /\ SubSeq(t.pending[m], 2, Len(t.pending[m])) \in Seq(Order)
      BY BookFields, RestOfQueue
    <3>. HIDE DEF e
    <3>. QED BY <1>10, <3>1
  <2>2. e.fills \in [Markets -> Nat]
    <3>. HIDE DEF e
    <3>. QED BY <1>10, BookFields
  <2>3. ASSUME NEW f \in Holdings, NEW x \in Nat PROVE [f EXCEPT ![m][a] = @ + x] \in Holdings
    <3>. HIDE DEF a
    <3>. QED BY <1>1 DEF Holdings
  <2>4. e.basis \in Holdings /\ e.yes \in Holdings /\ e.no \in Holdings
    <3>. HIDE DEF e, a
    <3>. QED BY <1>8, <1>10, <2>3, BookFields
  <2>. HIDE DEF e, a, L
  <2>. QED BY <1>5, <1>10, <2>1, <2>2, <2>4, BookFields DEF Books
<1>. HIDE DEF e
<1>12. FilledBy(e, t, m, a, size, spend)
  <2>. HIDE DEF a, L
  <2>. QED BY <1>5, <1>6, <1>7, <1>10, <1>11 DEF FilledBy, more, down, L
<1>. QED BY <1>12 DEF e

\* How many of the orders are filled, and the recursion by which they are.
LastOf(orders, deal) ==
  Min({i \in DOMAIN orders : deal.spends[i] > orders[i].budget} \cup {Len(orders) + 1}) - 1
FilledNext(t, m, orders, deal, i) == Filled(t, m, orders[i], deal.sizes[i], deal.spends[i])
IsFilling(g, s, m, orders, deal, n) ==
  g = [S \in SUBSET Turns(n) |->
         IF S = {} THEN s ELSE FilledNext(g[S \ {Max(S)}], m, orders, deal, Turn(n, S))]

LEMMA FillingIsFold ==
  ASSUME NEW s, NEW m, NEW orders, NEW deal
  PROVE  LET n == LastOf(orders, deal)
         IN  FillUntilOver(s, m, orders, deal) = (CHOOSE g : IsFilling(g, s, m, orders, deal, n))[Turns(n)]
BY DEF FillUntilOver, FoldLeft, MapThenFoldSet, IsFilling, FilledNext, LastOf, Turns, Turn

\* Nobody up to the last spends more than its maximum; all are filled or the one
\* after it would.
LEMMA LastOfOK ==
  ASSUME NEW orders \in Queues, NEW deal, deal.spends \in [1..Len(orders) -> Nat]
  PROVE  LET n == LastOf(orders, deal)
         IN  /\ n \in 0..Len(orders)
             /\ \A i \in 1..n : deal.spends[i] <= orders[i].budget
             /\ n < Len(orders) => deal.spends[n + 1] > orders[n + 1].budget
<1>. DEFINE len == Len(orders)
            over == {i \in DOMAIN orders : deal.spends[i] > orders[i].budget}
            S == over \cup {len + 1}
            n == LastOf(orders, deal)
<1>1. len \in Nat /\ DOMAIN orders = 1..len
      /\ \A i \in 1..len : orders[i].budget \in Int /\ deal.spends[i] \in Int
  BY QueueFacts
<1>2. S \subseteq 1..(len + 1) /\ len + 1 \in S
  BY <1>1
<1>3. \E x \in S : \A y \in S : x =< y
  <2>. DEFINE T == {0 - i : i \in S}
  <2>1. T \subseteq (0 - (len + 1))..0 /\ T \subseteq Int /\ T # {}
    BY <1>1, <1>2
  <2>2. IsFiniteSet(T)
    <3>1. IsFiniteSet((0 - (len + 1))..0)
      BY <1>1, FS_Interval
    <3>. HIDE DEF T
    <3>. QED BY <2>1, <3>1, FS_Subset
  <2>3. \E x \in T : \A y \in T : x >= y
    <3>. HIDE DEF T
    <3>. QED BY <2>1, <2>2, LargestMember
  <2>4. PICK x \in T : \A y \in T : x >= y
    BY <2>3
  <2>5. PICK i \in S : x = 0 - i
    BY <2>4
  <2>6. ASSUME NEW j \in S PROVE i =< j
    <3>1. 0 - j \in T /\ i \in Int /\ j \in Int
      BY <1>1, <1>2, <2>5
    <3>. HIDE DEF T, S
    <3>2. x >= 0 - j
      BY <2>4, <3>1
    <3>. QED BY <2>5, <3>1, <3>2
  <2>. QED BY <2>6
<1>4. Min(S) \in S /\ \A y \in S : Min(S) =< y
  <2>. HIDE DEF S
  <2>. QED BY <1>3 DEF Min
<1>5. n = Min(S) - 1
  BY DEF LastOf
<1>. HIDE DEF n
<1>6. n + 1 \in S /\ n + 1 \in 1..(len + 1) /\ n \in 0..len
  <2>1. Min(S) \in 1..(len + 1)
    <3>. HIDE DEF S
    <3>. QED BY <1>2, <1>4
  <2>. HIDE DEF S, len
  <2>2. n + 1 = Min(S)
    BY <1>1, <1>5, <2>1
  <2>3. n + 1 \in S /\ n + 1 \in 1..(len + 1)
    BY <1>4, <2>1, <2>2
  <2>4. n = Min(S) - 1 /\ Min(S) \in 1..(len + 1)
    BY <1>5, <2>1
  <2>5. n \in 0..len
    BY <1>1, <2>4
  <2>. QED BY <2>3, <2>5
<1>7. ASSUME NEW i \in 1..n PROVE deal.spends[i] <= orders[i].budget
  <2>1. i \in 1..len /\ i < n + 1 /\ Min(S) = n + 1
    <3>1. i \in 1..len /\ i < n + 1
      <4>. HIDE DEF S, len
      <4>. QED BY <1>1, <1>6
    <3>2. Min(S) = n + 1
      <4>. HIDE DEF S
      <4>1. Min(S) \in Int
        <5>1. Min(S) \in 1..(len + 1)
          BY <1>2, <1>4
        <5>. HIDE DEF S
        <5>. QED BY <5>1
      <4>. QED BY <1>5, <4>1
    <3>. HIDE DEF S, len
    <3>. QED BY <3>1, <3>2
  <2>2. i \notin S
    <3>. HIDE DEF S
    <3>. QED BY <1>4, <1>6, <2>1
  <2>3. ~ (deal.spends[i] > orders[i].budget)
    BY <1>1, <2>1, <2>2
  <2>. QED BY <1>1, <2>1, <2>3
<1>8. n < len => deal.spends[n + 1] > orders[n + 1].budget
  <2>1. n < len => n + 1 \in over
    BY <1>1, <1>6
  <2>. QED BY <2>1
<1>. QED BY <1>6, <1>7, <1>8 DEF n

\* Books whose ledger is sound.
Ready == {t \in Books : SoundLedger(t.ledger, Parties, Markets)}

LEMMA FilledStays ==
  ASSUME NEW t \in Ready, NEW m \in Markets, NEW orders \in Queues, NEW q, NEW deal,
         Fair(q, Len(orders), deal), NEW i \in 1..Len(orders)
  PROVE  FilledNext(t, m, orders, deal, i) \in Ready
<1>1. orders[i] \in Order /\ deal.sizes[i] \in Int /\ deal.spends[i] \in Nat
  <2>1. orders[i] \in Order
    BY QueueFacts DEF Queues
  <2>. QED BY <2>1 DEF Fair
<1>2. t \in Books /\ SoundLedger(t.ledger, Parties, Markets)
  BY DEF Ready
<1>. QED BY <1>1, <1>2, FilledFields DEF FilledNext, Ready, FilledBy

\* The states the fills go through, one order at a time.
LEMMA FillingSteps ==
  ASSUME NEW s \in Ready, NEW m \in Markets, NEW orders \in Queues, NEW q, NEW deal,
         Fair(q, Len(orders), deal)
  PROVE  LET n == LastOf(orders, deal)
         IN  \E w : /\ w[0] = s /\ FillUntilOver(s, m, orders, deal) = w[n]
                    /\ \A k \in 0..(n - 1) :
                         w[k + 1] = FilledNext(w[k], m, orders, deal, k + 1)
<1>. DEFINE n == LastOf(orders, deal)
            h == [p \in Ready \X (1..n) |-> FilledNext(p[1], m, orders, deal, p[2])]
            g == CHOOSE f : IsFilling(f, s, m, orders, deal, n)
            w == [k \in 0..n |-> g[1..k]]
<1>1. n \in Nat /\ n \in 0..Len(orders) /\ Len(orders) \in Nat
  BY LastOfOK, QueueFacts DEF Fair
<1>. HIDE DEF n
<1>2. h \in Steps(Ready, 1..n)
  <2>1. ASSUME NEW p \in Ready \X (1..n)
        PROVE  FilledNext(p[1], m, orders, deal, p[2]) \in Ready
    <3>1. p[1] \in Ready /\ p[2] \in 1..Len(orders)
      BY <1>1
    <3>. QED BY <3>1, FilledStays
  <2>. QED BY <2>1 DEF Steps
<1>3. \E f : IsFilling(f, s, m, orders, deal, n)
  <2>0. PICK f : IsWalk(f, n, Ready, h, s)
    <3>. HIDE DEF h
    <3>. QED BY <1>1, <1>2, WalkExists
  <2>1. /\ f \in [SUBSET Turns(n) -> Ready]
        /\ \A S \in SUBSET Turns(n) :
             f[S] = IF S = {} THEN s ELSE h[<<f[S \ {Max(S)}], Turn(n, S)>>]
    BY <2>0 DEF IsWalk
  <2>2. ASSUME NEW S \in SUBSET Turns(n), S # {}
        PROVE  f[S] = FilledNext(f[S \ {Max(S)}], m, orders, deal, Turn(n, S))
    <3>1. f[S \ {Max(S)}] \in Ready /\ Turn(n, S) \in 1..n
      <4>1. S \ {Max(S)} \in SUBSET Turns(n)
        OBVIOUS
      <4>2. Turn(n, S) \in 1..n
        BY <1>1, <2>2, TurnOK
      <4>. QED BY <2>1, <4>1, <4>2
    <3>2. f[S] = h[<<f[S \ {Max(S)}], Turn(n, S)>>]
      BY <2>1, <2>2
    <3>. QED BY <3>1, <3>2
  <2>3. f = [S \in SUBSET Turns(n) |->
               IF S = {} THEN s ELSE FilledNext(f[S \ {Max(S)}], m, orders, deal, Turn(n, S))]
    <3>. HIDE DEF h
    <3>. QED BY <2>1, <2>2
  <2>. QED BY <2>3 DEF IsFilling
<1>4. IsFilling(g, s, m, orders, deal, n)
  BY <1>3
<1>5. FillUntilOver(s, m, orders, deal) = g[Turns(n)]
  BY FillingIsFold DEF n
<1>. HIDE DEF g, h
<1>6. Turns(n) = 1..n
  BY <1>1, TurnOK
<1>7. ASSUME NEW S \in SUBSET (1..n)
      PROVE  g[S] = IF S = {} THEN s ELSE FilledNext(g[S \ {Max(S)}], m, orders, deal, Turn(n, S))
  BY <1>4, <1>6, <1>7 DEF IsFilling
<1>8. w[0] = s
  <2>1. 1..0 = {} /\ 0 \in 0..n /\ {} \in SUBSET (1..n)
    BY <1>1
  <2>2. g[{}] = s
    BY <1>7, <2>1
  <2>. QED BY <2>1, <2>2
<1>9. FillUntilOver(s, m, orders, deal) = w[n]
  BY <1>1, <1>5, <1>6
<1>10. ASSUME NEW k \in 0..(n - 1)
       PROVE  w[k + 1] = FilledNext(w[k], m, orders, deal, k + 1)
  <2>. DEFINE S == 1..(k + 1)
  <2>0. k + 1 \in Nat /\ k + 1 > 0 /\ (k + 1) - 1 = k /\ k \in 0..n /\ k + 1 \in 0..n
        /\ k + 1 \in S
    BY <1>1
  <2>1. S \in SUBSET (1..n) /\ S # {} /\ k + 1 \in Nat /\ k + 1 > 0 /\ (k + 1) - 1 = k
        /\ k \in 0..n /\ k + 1 \in 0..n
    BY <1>1, <2>0
  <2>2. Max(S) = k + 1 /\ S \ {k + 1} = 1..k
    BY <2>1, MaxUpTo
  <2>. HIDE DEF S
  <2>3. Turn(n, S) = k + 1
    BY <1>1, <2>1, <2>2, TurnOK
  <2>4. g[S] = FilledNext(g[S \ {Max(S)}], m, orders, deal, Turn(n, S))
    BY <1>7, <2>1
  <2>5. w[k + 1] = g[S] /\ w[k] = g[1..k]
    BY <2>1 DEF S
  <2>. QED BY <2>2, <2>3, <2>4, <2>5
<1>. HIDE DEF w
<1>. QED BY <1>8, <1>9, <1>10 DEF n

\* What the first k fills of a round have changed: in the books, at the other
\* markets, and in the locks of this one.
SameBook(s, t) ==
  /\ t.seq = s.seq /\ t.status = s.status /\ t.sponsor = s.sponsor /\ t.q = s.q
  /\ t.round = s.round /\ t.due = s.due /\ t.half = s.half
SameElsewhere(s, t, m) ==
  \A j \in Markets \ {m} :
    /\ t.pending[j] = s.pending[j] /\ t.fills[j] = s.fills[j]
    /\ t.yes[j] = s.yes[j] /\ t.no[j] = s.no[j] /\ t.basis[j] = s.basis[j]
    /\ t.ledger.available[j] = s.ledger.available[j]
    /\ \A a \in Parties : t.ledger.locks[a][j] = s.ledger.locks[a][j]
ServedOne(s, a, m, k) == \E i \in 1..k : s.pending[m][i].trader = a
Served(s, t, m, k) ==
  /\ t.pending[m] = SubSeq(s.pending[m], k + 1, Len(s.pending[m]))
  /\ t.fills[m] = s.fills[m] + k
  /\ \A a \in Parties :
       t.ledger.locks[a][m] = IF ServedOne(s, a, m, k) THEN 0 ELSE s.ledger.locks[a][m]
  /\ \A a \in Traders : t.ledger.available[a] >= 0
Collected(s, t, m, deal, k) ==
  LET spent == SumFunction(Part(deal.spends, k))
  IN  /\ t.ledger.available[m] = s.ledger.available[m] + spent
      /\ SumFunction(t.basis[m]) = SumFunction(s.basis[m]) + spent
      /\ SumFunction(t.yes[m]) = SumFunction(s.yes[m]) + SumFunction(Part(Bought(deal.sizes), k))
      /\ SumFunction(t.no[m]) = SumFunction(s.no[m]) + SumFunction(Part(Sold(deal.sizes), k))
FilledTo(s, t, m, deal, k) ==
  t \in Ready /\ SameBook(s, t) /\ SameElsewhere(s, t, m)
    /\ Served(s, t, m, k) /\ Collected(s, t, m, deal, k)

LEMMA SumsAreInt ==
  ASSUME NEW s \in Books, NEW m \in Markets
  PROVE  /\ SumFunction(s.basis[m]) \in Nat /\ SumFunction(s.yes[m]) \in Nat
         /\ SumFunction(s.no[m]) \in Nat
         /\ s.basis[m] \in [Traders -> Nat] /\ s.yes[m] \in [Traders -> Nat]
         /\ s.no[m] \in [Traders -> Nat]
<1>1. s.basis[m] \in [Traders -> Nat] /\ s.yes[m] \in [Traders -> Nat] /\ s.no[m] \in [Traders -> Nat]
  BY BookFields DEF Holdings
<1>. QED BY <1>1, ConstantsOK, SumBounds

\* One entry of one market goes up.
Grown(f, m, a, x) == [f EXCEPT ![m][a] = @ + x]

LEMMA HoldingUp ==
  ASSUME NEW f \in Holdings, NEW m \in Markets, NEW a \in Traders, NEW x \in Nat
  PROVE  LET g == Grown(f, m, a, x)
         IN  /\ SumFunction(f[m]) \in Nat
             /\ SumFunction(g[m]) = SumFunction(f[m]) + x
             /\ \A j \in Markets \ {m} : g[j] = f[j]
<1>. DEFINE g == Grown(f, m, a, x)
<1>1. f[m] \in [Traders -> Nat] /\ f[m] \in [Traders -> Int] /\ IsFiniteSet(Traders)
  BY ConstantsOK DEF Holdings
<1>2. g[m] = [f[m] EXCEPT ![a] = f[m][a] + x]
  BY DEF Holdings, Grown
<1>3. \A j \in Markets \ {m} : g[j] = f[j]
  BY DEF Holdings, Grown
<1>4. SumFunction([f[m] EXCEPT ![a] = f[m][a] + x]) = SumFunction(f[m]) + x
  BY <1>1, SumUp
<1>5. SumFunction(f[m]) \in Nat
  BY <1>1, SumBounds
<1>. HIDE DEF g
<1>. QED BY <1>2, <1>3, <1>4, <1>5 DEF g

LEMMA FilledFrame ==
  ASSUME NEW s, NEW t \in Books, NEW m \in Markets, NEW order \in Order,
         SoundLedger(t.ledger, Parties, Markets), NEW size \in Int, NEW spend \in Nat,
         SameBook(s, t), SameElsewhere(s, t, m)
  PROVE  LET e == Filled(t, m, order, size, spend)
         IN  SameBook(s, e) /\ SameElsewhere(s, e, m)
<1>. DEFINE e == Filled(t, m, order, size, spend)
            a == order.trader
<1>1. a \in Traders /\ m \notin Traders /\ a \in Parties
  BY ConstantsOK DEF Order
<1>2. FilledBy(e, t, m, a, size, spend)
  BY FilledFields
<1>3. SameBook(s, e)
  <2>. HIDE DEF e
  <2>. QED BY <1>2 DEF SameBook, FilledBy
<1>4. ASSUME NEW j \in Markets, j # m
      PROVE  /\ e.pending[j] = s.pending[j] /\ e.fills[j] = s.fills[j]
             /\ e.yes[j] = s.yes[j] /\ e.no[j] = s.no[j] /\ e.basis[j] = s.basis[j]
             /\ e.ledger.available[j] = s.ledger.available[j]
             /\ \A b \in Parties : e.ledger.locks[b][j] = s.ledger.locks[b][j]
  <2>1. /\ t.pending[j] = s.pending[j] /\ t.fills[j] = s.fills[j]
        /\ t.yes[j] = s.yes[j] /\ t.no[j] = s.no[j] /\ t.basis[j] = s.basis[j]
        /\ t.ledger.available[j] = s.ledger.available[j]
        /\ \A b \in Parties : t.ledger.locks[b][j] = s.ledger.locks[b][j]
    BY <1>4 DEF SameElsewhere
  <2>2. t.pending \in [Markets -> Seq(Order)] /\ t.fills \in [Markets -> Nat]
        /\ t.yes \in Holdings /\ t.no \in Holdings /\ t.basis \in Holdings
    BY BookFields
  <2>3. j \in Parties /\ j # a /\ t.ledger.available[j] \in Int
    <3>1. j \in Parties /\ j # a
      BY <1>1, ConstantsOK
    <3>. QED BY <3>1, SoundFields
  <2>. HIDE DEF e, a
  <2>4. e.pending[j] = t.pending[j] /\ e.fills[j] = t.fills[j]
    BY <1>2, <1>4, <2>2 DEF FilledBy
  <2>5. e.yes[j] = t.yes[j] /\ e.no[j] = t.no[j] /\ e.basis[j] = t.basis[j]
    BY <1>2, <1>4, <2>2 DEF Holdings, FilledBy
  <2>6. e.ledger.available[j] = t.ledger.available[j]
    BY <1>2, <1>4, <2>3 DEF FilledBy
  <2>7. \A b \in Parties : e.ledger.locks[b][j] = t.ledger.locks[b][j]
    BY <1>2, <1>4 DEF FilledBy
  <2>. QED BY <2>1, <2>4, <2>5, <2>6, <2>7
<1>5. SameElsewhere(s, e, m)
  <2>. HIDE DEF e
  <2>. QED BY <1>4 DEF SameElsewhere
<1>. QED BY <1>3, <1>5

LEMMA FilledSums ==
  ASSUME NEW s \in Books, NEW t \in Ready, NEW m \in Markets, NEW n \in Nat, NEW q, NEW deal,
         SoundLedger(s.ledger, Parties, Markets),
         Fair(q, n, deal), NEW k \in 0..(n - 1), Collected(s, t, m, deal, k), NEW order \in Order
  PROVE  Collected(s, Filled(t, m, order, deal.sizes[k + 1], deal.spends[k + 1]), m, deal, k + 1)
<1>. DEFINE size == deal.sizes[k + 1]
            spend == deal.spends[k + 1]
            e == Filled(t, m, order, size, spend)
            a == order.trader
            spent(i) == SumFunction(Part(deal.spends, i))
            bought(i) == SumFunction(Part(Bought(deal.sizes), i))
            sold(i) == SumFunction(Part(Sold(deal.sizes), i))
<1>1. k + 1 \in 1..n /\ size \in Int /\ spend \in Nat
  <2>1. k + 1 \in 1..n
    OBVIOUS
  <2>. QED BY <2>1 DEF Fair
<1>2. a \in Traders /\ m \in Parties /\ a # m
  BY ConstantsOK DEF Order
<1>3. t \in Books /\ SoundLedger(t.ledger, Parties, Markets)
  BY DEF Ready
<1>4. FilledBy(e, t, m, a, size, spend)
  BY <1>1, <1>3, FilledFields
<1>5. spent(k) \in Int /\ spent(k + 1) = spent(k) + spend
  <2>1. deal.spends \in [1..n -> Int]
    BY DEF Fair
  <2>. QED BY <2>1, PartSums
<1>6. bought(k) \in Int /\ bought(k + 1) = bought(k) + Max({size, 0}) /\ Max({size, 0}) \in Nat
  <2>1. Bought(deal.sizes) \in [1..n -> Int] /\ Bought(deal.sizes) \in [1..n -> Nat]
        /\ DOMAIN deal.sizes = 1..n
    BY DEF Fair
  <2>2. Bought(deal.sizes)[k + 1] = Max({size, 0}) /\ Bought(deal.sizes)[k + 1] \in Nat
    BY <1>1, <2>1 DEF Bought
  <2>. QED BY <2>1, <2>2, PartSums
<1>7. sold(k) \in Int /\ sold(k + 1) = sold(k) + Max({-size, 0}) /\ Max({-size, 0}) \in Nat
  <2>1. Sold(deal.sizes) \in [1..n -> Int] /\ Sold(deal.sizes) \in [1..n -> Nat]
        /\ DOMAIN deal.sizes = 1..n
    BY DEF Fair
  <2>2. Sold(deal.sizes)[k + 1] = Max({-size, 0}) /\ Sold(deal.sizes)[k + 1] \in Nat
    BY <1>1, <2>1 DEF Sold
  <2>. QED BY <2>1, <2>2, PartSums
<1>8. /\ t.ledger.available[m] = s.ledger.available[m] + spent(k)
      /\ SumFunction(t.basis[m]) = SumFunction(s.basis[m]) + spent(k)
      /\ SumFunction(t.yes[m]) = SumFunction(s.yes[m]) + bought(k)
      /\ SumFunction(t.no[m]) = SumFunction(s.no[m]) + sold(k)
  BY DEF Collected
<1>9. t.yes \in Holdings /\ t.no \in Holdings /\ t.basis \in Holdings
  BY <1>3, BookFields
<1>10. /\ SumFunction(s.basis[m]) \in Int /\ SumFunction(s.yes[m]) \in Int
       /\ SumFunction(s.no[m]) \in Int /\ s.ledger.available[m] \in Int
  <2>1. s.ledger.available[m] \in Int
    BY <1>2, SoundFields
  <2>. QED BY <2>1, SumsAreInt
<1>. HIDE DEF e, a, spent, bought, sold, size, spend
<1>11. e.ledger.available[m] = s.ledger.available[m] + spent(k + 1)
  <2>1. e.ledger.available[m] = t.ledger.available[m] + 0 + spend
    BY <1>2, <1>4 DEF FilledBy
  <2>. QED BY <1>1, <1>5, <1>8, <1>10, <2>1
<1>12. SumFunction(e.basis[m]) = SumFunction(s.basis[m]) + spent(k + 1)
  <2>1. e.basis = Grown(t.basis, m, a, spend)
    BY <1>4 DEF FilledBy, Grown
  <2>2. SumFunction(e.basis[m]) = SumFunction(t.basis[m]) + spend
    BY <1>1, <1>2, <1>9, <2>1, HoldingUp
  <2>. QED BY <1>1, <1>5, <1>8, <1>10, <2>2
<1>13. SumFunction(e.yes[m]) = SumFunction(s.yes[m]) + bought(k + 1)
  <2>1. e.yes = Grown(t.yes, m, a, Max({size, 0}))
    BY <1>4 DEF FilledBy, Grown
  <2>2. SumFunction(e.yes[m]) = SumFunction(t.yes[m]) + Max({size, 0})
    BY <1>6, <1>2, <1>9, <2>1, HoldingUp
  <2>. QED BY <1>6, <1>8, <1>10, <2>2
<1>14. SumFunction(e.no[m]) = SumFunction(s.no[m]) + sold(k + 1)
  <2>1. e.no = Grown(t.no, m, a, Max({-size, 0}))
    BY <1>4 DEF FilledBy, Grown
  <2>2. SumFunction(e.no[m]) = SumFunction(t.no[m]) + Max({-size, 0})
    BY <1>7, <1>2, <1>9, <2>1, HoldingUp
  <2>. QED BY <1>7, <1>8, <1>10, <2>2
<1>. QED BY <1>11, <1>12, <1>13, <1>14 DEF Collected, e, spent, bought, sold, size, spend

LEMMA FilledServed ==
  ASSUME NEW s, Sound(s), NEW t \in Ready, NEW m \in Markets,
         NEW k \in 0..(Len(s.pending[m]) - 1), Served(s, t, m, k),
         NEW size \in Int, NEW spend \in Nat, spend <= s.pending[m][k + 1].budget
  PROVE  Served(s, Filled(t, m, s.pending[m][k + 1], size, spend), m, k + 1)
<1>. DEFINE order == s.pending[m][k + 1]
            e == Filled(t, m, order, size, spend)
            a == order.trader
            p == s.pending[m]
<1>0. s \in Books /\ MarketOK(s, m) /\ p \in Seq(Order) /\ SoundLedger(s.ledger, Parties, Markets)
  BY BookFields DEF Sound
<1>1. k + 1 \in 1..Len(p) /\ Len(p) \in Nat /\ DOMAIN p = 1..Len(p) /\ order \in Order
  BY <1>0
<1>2. a \in Traders /\ m \in Parties /\ a # m /\ Traders \subseteq Parties /\ m \notin Traders
      /\ order.budget \in Nat
  BY <1>1, ConstantsOK DEF Order
<1>3. t \in Books /\ SoundLedger(t.ledger, Parties, Markets)
  BY DEF Ready
<1>4. FilledBy(e, t, m, a, size, spend)
  BY <1>1, <1>3, FilledFields
<1>5. t.pending \in [Markets -> Seq(Order)] /\ t.fills \in [Markets -> Nat]
      /\ s.fills \in [Markets -> Nat]
  BY <1>0, <1>3, BookFields
<1>6. s.ledger.locks[a][m] = order.budget /\ ~ ServedOne(s, a, m, k)
  <2>1. Pledged(s, m)
    BY <1>0 DEF MarketOK
  <2>2. s.ledger.locks[a][m] = order.budget
    BY <1>1, <2>1 DEF Pledged
  <2>3. ASSUME NEW i \in 1..k PROVE p[i].trader # a
    <3>1. i \in DOMAIN p /\ k + 1 \in DOMAIN p /\ i # k + 1
      BY <1>1
    <3>. QED BY <2>1, <3>1 DEF Pledged
  <2>. QED BY <2>2, <2>3 DEF ServedOne
<1>7. t.ledger.locks[a][m] = order.budget
  BY <1>2, <1>6 DEF Served
<1>. HIDE DEF e
<1>8. e.pending[m] = SubSeq(p, (k + 1) + 1, Len(p))
  <2>1. e.pending[m] = SubSeq(t.pending[m], 2, Len(t.pending[m]))
    BY <1>4, <1>5 DEF FilledBy
  <2>2. t.pending[m] = SubSeq(p, k + 1, Len(p))
    BY DEF Served
  <2>3. SubSeq(t.pending[m], 2, Len(t.pending[m])) = SubSeq(p, (k + 1) + 1, Len(p))
    <3>. HIDE DEF p
    <3>. QED BY <1>0, <2>2, RestOfRest DEF p
  <2>. QED BY <2>1, <2>3
<1>9. e.fills[m] = s.fills[m] + (k + 1)
  <2>1. e.fills[m] = t.fills[m] + 1 /\ t.fills[m] = s.fills[m] + k
    BY <1>4, <1>5 DEF FilledBy, Served
  <2>. QED BY <1>5, <2>1
<1>10. ASSUME NEW b \in Parties
       PROVE  e.ledger.locks[b][m] = IF ServedOne(s, b, m, k + 1) THEN 0 ELSE s.ledger.locks[b][m]
  <2>1. e.ledger.locks[b][m] = IF b = a THEN 0 ELSE t.ledger.locks[b][m]
    BY <1>4 DEF FilledBy
  <2>2. t.ledger.locks[b][m] = IF ServedOne(s, b, m, k) THEN 0 ELSE s.ledger.locks[b][m]
    BY DEF Served
  <2>3. ServedOne(s, b, m, k + 1) <=> ServedOne(s, b, m, k) \/ b = a
    <3>1. \A i : i \in 1..(k + 1) <=> i \in 1..k \/ i = k + 1
      OBVIOUS
    <3>. HIDE DEF p
    <3>. QED BY <3>1 DEF ServedOne, p
  <2>. HIDE DEF a
  <2>. QED BY <2>1, <2>2, <2>3
<1>11. ASSUME NEW b \in Traders PROVE e.ledger.available[b] >= 0
  <2>1. b \in Parties /\ b # m
    BY <1>2
  <2>2. e.ledger.available[b] = t.ledger.available[b] + (IF b = a THEN order.budget - spend ELSE 0) + 0
    <3>. HIDE DEF a, order
    <3>. QED BY <1>4, <1>7, <2>1 DEF FilledBy
  <2>3. t.ledger.available[b] >= 0 /\ t.ledger.available[b] \in Int
    <3>1. t.ledger.available[b] \in Int
      BY <1>3, <2>1, SoundFields
    <3>. QED BY <3>1 DEF Served
  <2>4. order.budget \in Nat /\ spend <= order.budget
    BY <1>2
  <2>. HIDE DEF a, order
  <2>. QED BY <2>2, <2>3, <2>4
<1>. QED BY <1>8, <1>9, <1>10, <1>11 DEF Served, e

LEMMA FillOne ==
  ASSUME NEW s, Sound(s), NEW m \in Markets, s.pending[m] \in Queues,
         NEW q, NEW deal, Fair(q, Len(s.pending[m]), deal),
         NEW k \in 0..(LastOf(s.pending[m], deal) - 1), NEW t, FilledTo(s, t, m, deal, k)
  PROVE  FilledTo(s, FilledNext(t, m, s.pending[m], deal, k + 1), m, deal, k + 1)
<1>. DEFINE p == s.pending[m]
            n == Len(p)
            order == p[k + 1]
            size == deal.sizes[k + 1]
            spend == deal.spends[k + 1]
            e == FilledNext(t, m, p, deal, k + 1)
<1>0. s \in Books /\ SoundLedger(s.ledger, Parties, Markets)
  BY DEF Sound
<1>1. /\ n \in Nat /\ LastOf(p, deal) \in 0..n
      /\ \A i \in 1..LastOf(p, deal) : deal.spends[i] <= p[i].budget
  <2>1. p \in Queues /\ deal.spends \in [1..Len(p) -> Nat]
    BY DEF Fair
  <2>. HIDE DEF p
  <2>. QED BY <2>1, LastOfOK, QueueFacts DEF n
<1>2. k + 1 \in 1..LastOf(p, deal) /\ k + 1 \in 1..n /\ k \in 0..(n - 1)
  BY <1>1
<1>3. order \in Order /\ size \in Int /\ spend \in Nat /\ spend <= order.budget
  <2>1. order \in Order
    <3>1. p \in Seq(Order)
      BY DEF Queues
    <3>. HIDE DEF p
    <3>. QED BY <1>2, <3>1 DEF n
  <2>2. size \in Int /\ spend \in Nat
    BY <1>2 DEF Fair
  <2>. QED BY <1>1, <1>2, <2>1, <2>2
<1>4. /\ t \in Ready /\ t \in Books /\ SoundLedger(t.ledger, Parties, Markets)
      /\ SameBook(s, t) /\ SameElsewhere(s, t, m)
      /\ Served(s, t, m, k) /\ Collected(s, t, m, deal, k)
  BY DEF FilledTo, Ready
<1>5. e = Filled(t, m, order, size, spend)
  BY DEF FilledNext
<1>. HIDE DEF e, order, size, spend
<1>6. e \in Ready
  BY <1>3, <1>4, <1>5, FilledFields DEF Ready, FilledBy
<1>7. SameBook(s, e) /\ SameElsewhere(s, e, m)
  BY <1>3, <1>4, <1>5, FilledFrame
<1>8. Served(s, e, m, k + 1)
  BY <1>2, <1>3, <1>4, <1>5, FilledServed DEF order
<1>9. Collected(s, e, m, deal, k + 1)
  BY <1>0, <1>1, <1>2, <1>3, <1>4, <1>5, FilledSums DEF size, spend
<1>. QED BY <1>6, <1>7, <1>8, <1>9 DEF FilledTo, e

LEMMA FilledNone ==
  ASSUME NEW s, Sound(s), NEW m \in Markets, NEW n \in Nat, NEW q, NEW deal, Fair(q, n, deal)
  PROVE  FilledTo(s, s, m, deal, 0)
<1>1. s \in Ready /\ s \in Books
  BY DEF Sound, Ready
<1>2. s.ledger.available \in [Parties -> Int] /\ m \in Parties
  <2>1. SoundLedger(s.ledger, Parties, Markets)
    BY DEF Sound
  <2>. QED BY <2>1, SoundFields, ConstantsOK
<1>3. Served(s, s, m, 0)
  <2>1. s.pending[m] \in Seq(Order) /\ s.fills[m] \in Nat
    BY <1>1, BookFields
  <2>2. SubSeq(s.pending[m], 0 + 1, Len(s.pending[m])) = s.pending[m]
    BY <2>1
  <2>3. \A a : ~ ServedOne(s, a, m, 0)
    BY DEF ServedOne
  <2>4. \A a \in Traders : s.ledger.available[a] >= 0
    BY ConstantsOK DEF Sound
  <2>. QED BY <2>1, <2>2, <2>3, <2>4 DEF Served
<1>4. Collected(s, s, m, deal, 0)
  <2>1. deal.spends \in [1..n -> Int] /\ Bought(deal.sizes) \in [1..n -> Int]
        /\ Sold(deal.sizes) \in [1..n -> Int]
    BY DEF Fair
  <2>2. /\ SumFunction(Part(deal.spends, 0)) = 0
        /\ SumFunction(Part(Bought(deal.sizes), 0)) = 0
        /\ SumFunction(Part(Sold(deal.sizes), 0)) = 0
    BY <2>1, PartSums
  <2>3. /\ SumFunction(s.basis[m]) \in Int /\ SumFunction(s.yes[m]) \in Int
        /\ SumFunction(s.no[m]) \in Int
    BY <1>1, SumsAreInt
  <2>. QED BY <1>2, <2>2, <2>3 DEF Collected
<1>. QED BY <1>1, <1>3, <1>4 DEF FilledTo, SameBook, SameElsewhere

LEMMA FilledToTheLast ==
  ASSUME NEW s, Sound(s), NEW m \in Markets, s.pending[m] \in Queues,
         NEW q, NEW deal, Fair(q, Len(s.pending[m]), deal)
  PROVE  FilledTo(s, FillUntilOver(s, m, s.pending[m], deal), m, deal, LastOf(s.pending[m], deal))
<1>. DEFINE p == s.pending[m]
            n == LastOf(p, deal)
<1>1. n \in Nat /\ Len(p) \in Nat
  <2>1. p \in Queues /\ deal.spends \in [1..Len(p) -> Nat]
    BY DEF Fair
  <2>. HIDE DEF p
  <2>. QED BY <2>1, LastOfOK, QueueFacts DEF n
<1>2. PICK w : /\ w[0] = s /\ FillUntilOver(s, m, p, deal) = w[n]
               /\ \A k \in 0..(n - 1) : w[k + 1] = FilledNext(w[k], m, p, deal, k + 1)
  <2>1. s \in Ready /\ p \in Queues /\ Fair(q, Len(p), deal)
    BY DEF Ready, Sound
  <2>. HIDE DEF p
  <2>. QED BY <2>1, FillingSteps DEF n
<1>. DEFINE S == {k \in 0..n : FilledTo(s, w[k], m, deal, k)}
<1>3. 0 \in S
  <2>1. FilledTo(s, s, m, deal, 0)
    BY <1>1, FilledNone
  <2>. QED BY <1>1, <1>2, <2>1
<1>4. \A k \in 0..(n - 1) : k \in S => k + 1 \in S
  <2>1. ASSUME NEW k \in 0..(n - 1), k \in S PROVE FilledTo(s, w[k + 1], m, deal, k + 1)
    <3>1. FilledTo(s, w[k], m, deal, k)
      BY <2>1
    <3>2. FilledTo(s, FilledNext(w[k], m, p, deal, k + 1), m, deal, k + 1)
      BY <3>1, FillOne
    <3>. QED BY <1>2, <3>2
  <2>. QED BY <1>1, <2>1
<1>5. n \in S
  <2>1. n \in 0..n
    BY <1>1
  <2>. HIDE DEF S, n
  <2>. QED BY <1>1, <1>3, <1>4, <2>1, UpTo
<1>. QED BY <1>2, <1>5

-----------------------------------------------------------------------------
(* How a round ends                                                        *)

\* A market of s whose orders were filled in part, and what is then written.
Nearly(s, t, m) ==
  /\ t \in Ready /\ SameBook(s, t) /\ SameElsewhere(s, t, m) /\ Pledged(t, m)
  /\ "payout" \notin s.half[m] => Backed(t, m)
  /\ \A a \in Traders \cup {m} : t.ledger.available[a] >= 0
After(u, t, m) ==
  /\ u \in Books /\ u.ledger = t.ledger /\ u.seq = t.seq /\ u.status = t.status
  /\ u.sponsor = t.sponsor /\ u.pending = t.pending /\ u.fills = t.fills
  /\ u.yes = t.yes /\ u.no = t.no /\ u.basis = t.basis
  /\ \A j \in Markets \ {m} :
       u.q[j] = t.q[j] /\ u.round[j] = t.round[j] /\ u.half[j] = t.half[j] /\ u.due[j] = t.due[j]
SameOthers(s, u, m) ==
  /\ u.seq = s.seq /\ u.status = s.status /\ u.sponsor = s.sponsor
  /\ \A j \in Markets \ {m} : SameAt(s, u, j)

LEMMA SoundIsNearly ==
  ASSUME NEW s, Sound(s), NEW m \in Markets, Open(s, m)
  PROVE  Nearly(s, s, m)
<1>1. s \in Ready /\ MarketOK(s, m) /\ \A a \in Traders \cup {m} : s.ledger.available[a] >= 0
  BY ConstantsOK DEF Sound, Ready
<1>. QED BY <1>1 DEF Nearly, SameBook, SameElsewhere, MarketOK

LEMMA FilledIsPledged ==
  ASSUME NEW s, Sound(s), NEW m \in Markets, NEW k \in 0..Len(s.pending[m]), NEW t,
         Served(s, t, m, k)
  PROVE  Pledged(t, m)
<1>. DEFINE p == s.pending[m]
            r == t.pending[m]
<1>0. s \in Books /\ Pledged(s, m) /\ p \in Seq(Order)
  BY BookFields DEF Sound, MarketOK
<1>1. Len(p) \in Nat /\ DOMAIN p = 1..Len(p) /\ k \in Nat /\ k <= Len(p)
  BY <1>0
<1>2. r = SubSeq(p, k + 1, Len(p))
  BY DEF Served
<1>3. DOMAIN r = 1..(Len(p) - k) /\ \A i \in 1..(Len(p) - k) : r[i] = p[k + i]
  <2>. HIDE DEF r, p
  <2>. QED BY <1>0, <1>1, <1>2
<1>4. \A i \in DOMAIN r : k + i \in DOMAIN p /\ k + i > k /\ r[i] = p[k + i]
  <2>. HIDE DEF r, p
  <2>. QED BY <1>1, <1>3
<1>5. \A i, j \in DOMAIN p : i # j => p[i].trader # p[j].trader
  BY <1>0 DEF Pledged
<1>6. \A a \in Parties :
        t.ledger.locks[a][m] = IF ServedOne(s, a, m, k) THEN 0 ELSE s.ledger.locks[a][m]
  BY DEF Served
<1>7. ASSUME NEW i \in DOMAIN r PROVE t.ledger.locks[r[i].trader][m] = r[i].budget
  <2>1. k + i \in DOMAIN p /\ k + i > k /\ r[i] = p[k + i] /\ i \in Int /\ k + i \in Int
    BY <1>1, <1>3, <1>4
  <2>2. ~ ServedOne(s, r[i].trader, m, k)
    <3>1. ASSUME NEW j \in 1..k PROVE p[j].trader # r[i].trader
      <4>1. j \in DOMAIN p /\ j # k + i
        <5>. HIDE DEF p, r
        <5>. QED BY <1>1, <2>1
      <4>. QED BY <1>5, <2>1, <4>1
    <3>. QED BY <3>1 DEF ServedOne
  <2>3. p[k + i] \in Order /\ r[i].trader \in Parties
    <3>1. p[k + i] \in Order
      <4>. HIDE DEF p, r
      <4>. QED BY <1>0, <1>1, <2>1
    <3>. HIDE DEF p, r
    <3>. QED BY <2>1, <3>1, ConstantsOK DEF Order
  <2>4. s.ledger.locks[p[k + i].trader][m] = p[k + i].budget
    BY <1>0, <2>1 DEF Pledged
  <2>. HIDE DEF p, r
  <2>. QED BY <1>6, <2>1, <2>2, <2>3, <2>4
<1>8. ASSUME NEW i \in DOMAIN r, NEW j \in DOMAIN r, i # j PROVE r[i].trader # r[j].trader
  <2>1. k + i \in DOMAIN p /\ k + j \in DOMAIN p /\ k + i # k + j
    <3>. HIDE DEF p, r
    <3>. QED BY <1>1, <1>3, <1>4, <1>8
  <2>. HIDE DEF p, r
  <2>. QED BY <1>4, <1>5, <2>1
<1>9. ASSUME NEW a \in Parties, t.ledger.locks[a][m] > 0 PROVE \E i \in DOMAIN r : r[i].trader = a
  <2>1. ~ ServedOne(s, a, m, k) /\ s.ledger.locks[a][m] > 0
    BY <1>6, <1>9
  <2>2. PICK i \in DOMAIN p : p[i].trader = a
    BY <1>0, <2>1 DEF Pledged
  <2>3. i \notin 1..k
    BY <2>1, <2>2 DEF ServedOne
  <2>4. i - k \in DOMAIN r /\ k + (i - k) = i
    <3>. HIDE DEF p, r
    <3>. QED BY <1>1, <1>3, <2>3
  <2>5. r[i - k] = p[i]
    <3>. HIDE DEF p, r
    <3>. QED BY <1>4, <2>4
  <2>. HIDE DEF p, r
  <2>. QED BY <2>2, <2>4, <2>5
<1>. QED BY <1>7, <1>8, <1>9 DEF Pledged

LEMMA FilledIsNearly ==
  ASSUME NEW s, Sound(s), NEW m \in Markets, Open(s, m), NEW q, NEW deal,
         Fair(q, Len(s.pending[m]), deal), NEW k \in 0..Len(s.pending[m]), NEW t,
         FilledTo(s, t, m, deal, k)
  PROVE  Nearly(s, t, m)
<1>. DEFINE spent == SumFunction(Part(deal.spends, k))
            n == Len(s.pending[m])
<1>0. s \in Books /\ SoundLedger(s.ledger, Parties, Markets) /\ MarketOK(s, m) /\ m \in Parties
  BY ConstantsOK DEF Sound
<1>1. /\ t \in Ready /\ SameBook(s, t) /\ SameElsewhere(s, t, m)
      /\ Served(s, t, m, k) /\ Collected(s, t, m, deal, k)
  BY DEF FilledTo
<1>2. Pledged(t, m)
  BY <1>1, FilledIsPledged
<1>3. spent \in Nat
  <2>1. Part(deal.spends, k) \in [1..k -> Nat]
    <3>1. n \in Nat
      BY <1>0, BookFields
    <3>2. \A i \in 1..k : i \in 1..n
      BY <3>1
    <3>. HIDE DEF n
    <3>. QED BY <3>2 DEF Part, Fair, n
  <2>2. IsFiniteSet(1..k)
    <3>1. k \in Int
      BY <1>0, BookFields
    <3>. QED BY <3>1, FS_Interval
  <2>. QED BY <2>1, <2>2, SumBounds
<1>4. t.ledger.available[m] = s.ledger.available[m] + spent
      /\ SumFunction(t.basis[m]) = SumFunction(s.basis[m]) + spent
  BY <1>1 DEF Collected
<1>5. s.ledger.available[m] \in Int /\ s.ledger.available[m] >= 0 /\ SumFunction(s.basis[m]) \in Int
      /\ Subsidy \in Int
  <2>1. s.ledger.available[m] \in Int
    BY <1>0, SoundFields
  <2>2. SumFunction(s.basis[m]) \in Int
    BY <1>0, SumsAreInt
  <2>3. Subsidy \in Int
    BY CostBounds DEF Subsidy
  <2>. QED BY <1>0, <2>1, <2>2, <2>3 DEF Sound
<1>. HIDE DEF spent
<1>6. ASSUME "payout" \notin s.half[m] PROVE Backed(t, m)
  <2>1. s.ledger.available[m] = Subsidy + SumFunction(s.basis[m])
    BY <1>0, <1>6 DEF MarketOK, Backed
  <2>2. t.ledger.available[m] = Subsidy + SumFunction(t.basis[m])
    BY <1>3, <1>4, <1>5, <2>1
  <2>. QED BY <2>2 DEF Backed
<1>7. t.ledger.available[m] >= 0
  BY <1>3, <1>4, <1>5
<1>8. \A a \in Traders : t.ledger.available[a] >= 0
  BY <1>1 DEF Served
<1>. QED BY <1>1, <1>2, <1>6, <1>7, <1>8 DEF Nearly

LEMMA AfterIsSound ==
  ASSUME NEW s, Sound(s), NEW m \in Markets, Open(s, m), NEW t, Nearly(s, t, m),
         NEW u, After(u, t, m), s.half[m] \subseteq u.half[m],
         u.half[m] = {} => Rounded(u, m)
  PROVE  Sound(u) /\ SameOthers(s, u, m)
<1>1. /\ t \in Ready /\ SameBook(s, t) /\ SameElsewhere(s, t, m) /\ Pledged(t, m)
      /\ "payout" \notin s.half[m] => Backed(t, m)
      /\ \A a \in Traders \cup {m} : t.ledger.available[a] >= 0
  BY DEF Nearly
<1>2. /\ u \in Books /\ u.ledger = t.ledger /\ u.seq = t.seq /\ u.status = t.status
      /\ u.sponsor = t.sponsor /\ u.pending = t.pending /\ u.fills = t.fills
      /\ u.yes = t.yes /\ u.no = t.no /\ u.basis = t.basis
      /\ \A j \in Markets \ {m} :
           u.q[j] = t.q[j] /\ u.round[j] = t.round[j] /\ u.half[j] = t.half[j] /\ u.due[j] = t.due[j]
  BY DEF After
<1>3. SameOthers(s, u, m)
  <2>1. ASSUME NEW j \in Markets \ {m} PROVE SameAt(s, u, j)
    <3>1. /\ t.pending[j] = s.pending[j] /\ t.fills[j] = s.fills[j]
          /\ t.yes[j] = s.yes[j] /\ t.no[j] = s.no[j] /\ t.basis[j] = s.basis[j]
          /\ t.ledger.available[j] = s.ledger.available[j]
          /\ \A a \in Parties : t.ledger.locks[a][j] = s.ledger.locks[a][j]
      BY <1>1 DEF SameElsewhere
    <3>. QED BY <1>1, <1>2, <3>1 DEF SameAt, SameBook
  <2>. QED BY <1>1, <1>2, <2>1 DEF SameOthers, SameBook
<1>4. s.seq \in Nat /\ s.seq <= Cardinality(Markets) /\ MarketOK(s, m) /\ u.seq = s.seq
      /\ u.status = s.status
  BY <1>3, BookFields DEF Sound, SameOthers
<1>5. SoundLedger(u.ledger, Parties, Markets)
  BY <1>1, <1>2 DEF Ready
<1>6. MarketOK(u, m)
  <2>1. Pledged(u, m)
    BY <1>1, <1>2 DEF Pledged
  <2>2. "payout" \notin u.half[m] => Backed(u, m)
    BY <1>1, <1>2 DEF Backed
  <2>3. ~ (m > u.seq) /\ u.status[m] # "none"
    BY <1>4 DEF MarketOK, Open
  <2>. QED BY <2>1, <2>2, <2>3 DEF MarketOK
<1>7. Apart(s, u, m)
  BY <1>3, <1>4 DEF Apart, SameOthers
<1>8. Sound(u)
  BY <1>1, <1>2, <1>4, <1>5, <1>6, <1>7, ApartIsSound
<1>. QED BY <1>3, <1>8

\* When all orders of a round are filled the escrow is short of what it owes by
\* what it was short before and what rounding the spends cost.
LEMMA AllFilledRounds ==
  ASSUME NEW s, Sound(s), NEW m \in Markets, Rounded(s, m), NEW n \in Nat, NEW deal,
         Fair(s.q[m], n, deal), NEW t, SameBook(s, t), Collected(s, t, m, deal, n),
         t.fills[m] = s.fills[m] + n,
         NEW u, After(u, t, m), u.q[m] = t.q[m] + Total(deal.sizes)
  PROVE  Rounded(u, m)
<1>. DEFINE q == s.q[m]
            move == Total(deal.sizes)
            spent == SumFunction(deal.spends)
            bought == SumFunction(Bought(deal.sizes))
            sold == SumFunction(Sold(deal.sizes))
            due == Due(q, deal.sizes)
            A == s.ledger.available[m]
            Y == SumFunction(s.yes[m])
            N == SumFunction(s.no[m])
<1>0. s \in Books /\ SoundLedger(s.ledger, Parties, Markets) /\ m \in Parties
  BY ConstantsOK DEF Sound
<1>1. /\ deal.spends \in [1..n -> Nat] /\ Bought(deal.sizes) \in [1..n -> Nat]
      /\ Sold(deal.sizes) \in [1..n -> Nat]
      /\ move \in Int /\ due \in Int /\ bought - sold = move /\ spent <= due /\ due <= spent + n
  BY DEF Fair
<1>2. spent \in Nat /\ bought \in Nat /\ sold \in Nat
  <2>1. IsFiniteSet(1..n)
    BY FS_Interval
  <2>. QED BY <1>1, <2>1, SumBounds
<1>3. /\ Part(deal.spends, n) = deal.spends /\ Part(Bought(deal.sizes), n) = Bought(deal.sizes)
      /\ Part(Sold(deal.sizes), n) = Sold(deal.sizes)
  BY <1>1 DEF Part
<1>4. /\ t.ledger.available[m] = A + spent
      /\ SumFunction(t.yes[m]) = Y + bought /\ SumFunction(t.no[m]) = N + sold
  BY <1>3 DEF Collected
<1>5. /\ u.ledger.available[m] = A + spent
      /\ SumFunction(u.yes[m]) = Y + bought /\ SumFunction(u.no[m]) = N + sold
      /\ u.fills[m] = s.fills[m] + n /\ u.q[m] = q + move
  BY <1>4 DEF After, SameBook
<1>6. A \in Int /\ Y \in Nat /\ N \in Nat /\ s.fills[m] \in Nat /\ q \in Int
  <2>1. A \in Int
    BY <1>0, SoundFields
  <2>. QED BY <1>0, <2>1, SumsAreInt, BookFields
<1>7. /\ ExpectedEscrow(s, m) - A \in 0..s.fills[m] /\ Y - N = q
  BY DEF Rounded
<1>8. ExpectedEscrow(s, m) = Unit * N + Cost(q) /\ ExpectedEscrow(u, m) = Unit * (N + sold) + Cost(q + move)
  BY <1>5 DEF ExpectedEscrow
<1>9. due = Cost(q + move) - Cost(q) + Unit * sold
  BY DEF Due
<1>10. Cost(q) \in Int /\ Cost(q + move) \in Int /\ Unit \in Nat
  <2>1. q + move \in Int
    BY <1>1, <1>6
  <2>. QED BY <1>6, <2>1, CostBounds, ConstantsOK
<1>. HIDE DEF q, move, spent, bought, sold, due, A, Y, N
<1>11. Unit * N \in Nat /\ Unit * sold \in Nat /\ Unit * (N + sold) = Unit * N + Unit * sold
  BY <1>2, <1>6, <1>10
<1>12. ExpectedEscrow(u, m) - u.ledger.available[m] = (ExpectedEscrow(s, m) - A) + (due - spent)
  <2>. DEFINE x == Unit * N
              y == Unit * sold
              c == Cost(q)
              d == Cost(q + move)
  <2>1. x \in Nat /\ y \in Nat /\ c \in Int /\ d \in Int
    BY <1>10, <1>11
  <2>2. ExpectedEscrow(u, m) = x + y + d /\ ExpectedEscrow(s, m) = x + c /\ due = d - c + y
        /\ u.ledger.available[m] = A + spent
    BY <1>5, <1>8, <1>9, <1>11
  <2>. HIDE DEF x, y, c, d
  <2>. QED BY <1>2, <1>6, <2>1, <2>2
<1>13. ExpectedEscrow(u, m) - u.ledger.available[m] \in 0..u.fills[m]
  <2>. DEFINE a == ExpectedEscrow(s, m) - A
              f == s.fills[m]
  <2>1. ExpectedEscrow(u, m) - u.ledger.available[m] = a + (due - spent) /\ u.fills[m] = f + n
        /\ a \in 0..f /\ f \in Nat
    BY <1>5, <1>6, <1>7, <1>12
  <2>2. due \in Int /\ spent \in Nat /\ spent <= due /\ due <= spent + n /\ n \in Nat
    BY <1>1, <1>2
  <2>. HIDE DEF a, f
  <2>3. a + (due - spent) \in 0..(f + n)
    BY ONLY <2>1, <2>2
  <2>. QED BY ONLY <2>1, <2>3
<1>14. SumFunction(u.yes[m]) - SumFunction(u.no[m]) = u.q[m]
  BY <1>1, <1>2, <1>5, <1>6, <1>7
<1>. QED BY <1>13, <1>14 DEF Rounded

\* What a round writes of its market.
Posted(t, m, moved) == [t EXCEPT !.q[m] = @ + moved]
Halved(t, m) == [t EXCEPT !.half[m] = @ \cup {"round"}]
Restarted(t, m) == [t EXCEPT !.due[m] = FALSE]

LEMMA PostedFields ==
  ASSUME NEW t \in Books, NEW m \in Markets, NEW moved \in Int
  PROVE  /\ Posted(t, m, moved) \in Books /\ After(Posted(t, m, moved), t, m)
         /\ Posted(t, m, moved).q[m] = t.q[m] + moved /\ Posted(t, m, moved).half = t.half
         /\ Posted(t, m, moved).ledger = t.ledger /\ Posted(t, m, moved).fills = t.fills
<1>. DEFINE u == Posted(t, m, moved)
<1>1. t.q \in [Markets -> Int] /\ [t.q EXCEPT ![m] = @ + moved] \in [Markets -> Int]
  BY BookFields
<1>2. u \in Books
  BY <1>1 DEF Posted, Books
<1>3. /\ u.ledger = t.ledger /\ u.seq = t.seq /\ u.status = t.status
      /\ u.sponsor = t.sponsor /\ u.pending = t.pending /\ u.fills = t.fills
      /\ u.yes = t.yes /\ u.no = t.no /\ u.basis = t.basis
      /\ u.round = t.round /\ u.half = t.half /\ u.due = t.due
      /\ u.q = [t.q EXCEPT ![m] = @ + moved]
  BY DEF Posted, Books
<1>. HIDE DEF u
<1>. QED BY <1>1, <1>2, <1>3 DEF After, u

LEMMA AdvancedFields ==
  ASSUME NEW t \in Books, NEW m \in Markets
  PROVE  /\ Advanced(t, m) \in Books /\ After(Advanced(t, m), t, m)
         /\ Advanced(t, m).q = t.q /\ Advanced(t, m).half = t.half
         /\ Advanced(t, m).ledger = t.ledger /\ Advanced(t, m).fills = t.fills
<1>. DEFINE u == Advanced(t, m)
<1>1. t.round \in [Markets -> Nat] /\ [t.round EXCEPT ![m] = @ + 1] \in [Markets -> Nat]
  BY BookFields
<1>2. u \in Books
  BY <1>1 DEF Advanced, Books
<1>3. /\ u.ledger = t.ledger /\ u.seq = t.seq /\ u.status = t.status
      /\ u.sponsor = t.sponsor /\ u.pending = t.pending /\ u.fills = t.fills
      /\ u.yes = t.yes /\ u.no = t.no /\ u.basis = t.basis
      /\ u.q = t.q /\ u.half = t.half /\ u.due = t.due
      /\ u.round = [t.round EXCEPT ![m] = @ + 1]
  BY DEF Advanced, Books
<1>. HIDE DEF u
<1>. QED BY <1>1, <1>2, <1>3 DEF After, u

LEMMA HalvedFields ==
  ASSUME NEW t \in Books, NEW m \in Markets
  PROVE  /\ Halved(t, m) \in Books /\ After(Halved(t, m), t, m)
         /\ Halved(t, m).half[m] = t.half[m] \cup {"round"}
<1>. DEFINE u == Halved(t, m)
<1>1. t.half \in [Markets -> SUBSET {"round", "payout"}]
      /\ [t.half EXCEPT ![m] = @ \cup {"round"}] \in [Markets -> SUBSET {"round", "payout"}]
  BY BookFields
<1>2. u \in Books
  BY <1>1 DEF Halved, Books
<1>3. /\ u.ledger = t.ledger /\ u.seq = t.seq /\ u.status = t.status
      /\ u.sponsor = t.sponsor /\ u.pending = t.pending /\ u.fills = t.fills
      /\ u.yes = t.yes /\ u.no = t.no /\ u.basis = t.basis
      /\ u.q = t.q /\ u.round = t.round /\ u.due = t.due
      /\ u.half = [t.half EXCEPT ![m] = @ \cup {"round"}]
  BY DEF Halved, Books
<1>. HIDE DEF u
<1>. QED BY <1>1, <1>2, <1>3 DEF After, u

LEMMA RestartedFields ==
  ASSUME NEW t \in Books, NEW m \in Markets
  PROVE  /\ Restarted(t, m) \in Books /\ After(Restarted(t, m), t, m)
         /\ Restarted(t, m).half = t.half /\ Restarted(t, m).q = t.q
<1>. DEFINE u == Restarted(t, m)
<1>1. t.due \in [Markets -> BOOLEAN] /\ [t.due EXCEPT ![m] = FALSE] \in [Markets -> BOOLEAN]
  BY BookFields
<1>2. u \in Books
  BY <1>1 DEF Restarted, Books
<1>3. /\ u.ledger = t.ledger /\ u.seq = t.seq /\ u.status = t.status
      /\ u.sponsor = t.sponsor /\ u.pending = t.pending /\ u.fills = t.fills
      /\ u.yes = t.yes /\ u.no = t.no /\ u.basis = t.basis
      /\ u.q = t.q /\ u.round = t.round /\ u.half = t.half
      /\ u.due = [t.due EXCEPT ![m] = FALSE]
  BY DEF Restarted, Books
<1>. HIDE DEF u
<1>. QED BY <1>1, <1>2, <1>3 DEF After, u

LEMMA AfterAfter ==
  ASSUME NEW u, NEW v, NEW t, NEW m, After(u, t, m), After(v, u, m)
  PROVE  After(v, t, m)
BY DEF After

LEMMA AfterKeepsRounded ==
  ASSUME NEW u, NEW v, NEW m \in Markets, After(v, u, m), v.q[m] = u.q[m], Rounded(u, m)
  PROVE  Rounded(v, m)
<1>1. ExpectedEscrow(v, m) = ExpectedEscrow(u, m)
  BY DEF After, ExpectedEscrow
<1>. QED BY <1>1 DEF After, Rounded

\* The escrow of such a round passes the check.
LEMMA RoundedIsRight ==
  ASSUME NEW s \in Books, NEW m \in Markets, SoundLedger(s.ledger, Parties, Markets), Rounded(s, m)
  PROVE  EscrowIsRight(s, m)
<1>. DEFINE x == ExpectedEscrow(s, m)
            y == s.ledger.available[m]
            f == s.fills[m]
<1>1. x \in Int /\ y \in Int /\ f \in Nat
  <2>1. y \in Int
    BY ConstantsOK, SoundFields
  <2>2. f \in Nat
    BY BookFields
  <2>3. x \in Int
    <3>1. s.q[m] \in Int /\ SumFunction(s.no[m]) \in Int /\ Unit \in Int
      BY SumsAreInt, BookFields, ConstantsOK
    <3>2. Cost(s.q[m]) \in Int
      BY <3>1, CostBounds
    <3>. QED BY <3>1, <3>2 DEF ExpectedEscrow
  <2>. QED BY <2>1, <2>2, <2>3
<1>2. x - y \in 0..f
  BY DEF Rounded
<1>. HIDE DEF x, y, f
<1>3. Abs(y - x) <= f + 1
  BY <1>1, <1>2 DEF Abs
<1>. QED BY <1>3 DEF EscrowIsRight, x, y, f

\* Orders on both sides of the posted price, and one that cannot be quoted.
TwoSided(s, m) ==
  \E i, j \in DOMAIN s.pending[m] :
    s.pending[m][i].target > s.q[m] /\ ~ (s.pending[m][j].target > s.q[m])
PoisonedAt(s, m) == \E i \in DOMAIN s.pending[m] : s.pending[m][i].target = Unquotable

\* What a round may do, however it ends.
RoundOK(s, m, r) ==
  /\ r \in Rounds /\ r = [end |-> r.end, state |-> r.state]
  /\ Sound(r.state) /\ SameOthers(s, r.state, m)
  /\ s.half[m] \subseteq r.state.half[m]
  /\ r.state.half[m] \subseteq s.half[m] \cup {"round"}
  /\ "round" \in r.state.half[m] \ s.half[m] => TwoSided(s, m)
  /\ r.end = "broken" => r.state = s /\ PoisonedAt(s, m)
  /\ r.end = "refused" => r.state.half[m] # {} /\ ~ PoisonedAt(s, m)

LEMMA ClosedIs ==
  ASSUME NEW s, NEW m, NEW deal \in Deals, deal = Deal(s.q[m], s.pending[m]),
         FillUntilOver(s, m, s.pending[m], deal) \in Books,
         s.pending[m] # <<>>, ~ PoisonedAt(s, m)
  PROVE  Closed(s, m) = Ended(m, FillUntilOver(s, m, s.pending[m], deal), Total(deal.sizes))
<1>. DEFINE orders == s.pending[m]
            end == [filled \in Books |-> Ended(m, filled, Total(deal.sizes))]
            clear == [d \in Deals |->
                        [filled \in Books |-> Ended(m, filled, Total(d.sizes))]
                          [FillUntilOver(s, m, orders, d)]]
<1>1. Closed(s, m) = clear[deal]
  BY DEF Closed, PoisonedAt
<1>2. clear[deal] = end[FillUntilOver(s, m, orders, deal)]
  OBVIOUS
<1>3. end[FillUntilOver(s, m, orders, deal)] = Ended(m, FillUntilOver(s, m, orders, deal), Total(deal.sizes))
  OBVIOUS
<1>. QED BY <1>1, <1>2, <1>3

LEMMA EmptyRound ==
  ASSUME NEW s, Sound(s), NEW m \in Markets, Open(s, m)
  PROVE  RoundOK(s, m, [end |-> "closed", state |-> Advanced(s, m)])
<1>. DEFINE u == Advanced(s, m)
<1>1. s \in Books /\ MarketOK(s, m)
  BY DEF Sound
<1>2. u \in Books /\ After(u, s, m) /\ u.q = s.q /\ u.half = s.half
  BY <1>1, AdvancedFields
<1>3. Nearly(s, s, m)
  BY SoundIsNearly
<1>. HIDE DEF u
<1>4. u.half[m] = {} => Rounded(u, m)
  <2>1. u.half[m] = {} => Rounded(s, m)
    BY <1>1, <1>2 DEF MarketOK
  <2>. QED BY <1>2, <2>1, AfterKeepsRounded
<1>5. Sound(u) /\ SameOthers(s, u, m)
  BY <1>2, <1>3, <1>4, AfterIsSound
<1>. QED BY <1>2, <1>5 DEF RoundOK, Rounds, u

LEMMA BrokenRound ==
  ASSUME NEW s, Sound(s), NEW m \in Markets, PoisonedAt(s, m)
  PROVE  RoundOK(s, m, [end |-> "broken", state |-> s])
<1>1. SameOthers(s, s, m)
  BY DEF SameOthers, SameAt
<1>. QED BY <1>1 DEF RoundOK, Rounds, Sound

\* The orders of a round that is not filled to the end are on both sides.
LEMMA StoppedIsTwoSided ==
  ASSUME NEW s \in Books, NEW m \in Markets, s.pending[m] \in Queues, s.pending[m] # <<>>,
         LastOf(s.pending[m], Deal(s.q[m], s.pending[m])) < Len(s.pending[m])
  PROVE  TwoSided(s, m)
<1>. DEFINE p == s.pending[m]
            q == s.q[m]
            deal == Deal(q, p)
            n == LastOf(p, deal)
<1>1. p \in Queues /\ Len(p) \in Nat /\ Len(p) > 0 /\ DOMAIN p = 1..Len(p) /\ q \in Int
  <2>1. p \in Queues /\ p \in Seq(Order) /\ p # <<>>
    BY DEF Queues
  <2>2. Len(p) > 0
    <3>. HIDE DEF p
    <3>. QED BY <2>1
  <2>3. q \in Int
    BY BookFields
  <2>. HIDE DEF p
  <2>. QED BY <2>1, <2>2, <2>3, QueueFacts
<1>2. deal.spends \in [1..Len(p) -> Nat]
  <2>. HIDE DEF p, q
  <2>. QED BY <1>1, DealtEntry DEF deal
<1>. HIDE DEF p, q, deal
<1>3. n \in 0..Len(p) /\ (n < Len(p) => deal.spends[n + 1] > p[n + 1].budget)
  BY <1>1, <1>2, LastOfOK
<1>4. n + 1 \in 1..Len(p) /\ deal.spends[n + 1] > p[n + 1].budget
  <2>1. n < Len(p)
    BY DEF n, p, q, deal
  <2>. HIDE DEF n
  <2>. QED BY <1>1, <1>3, <2>1
<1>. HIDE DEF n
<1>5. deal.spends[n + 1] \in Int /\ p[n + 1].budget \in Int
  BY <1>1, <1>2, <1>4, QueueFacts
<1>6. ASSUME NEW rising \in BOOLEAN
      PROVE  \E i \in 1..Len(p) : ~ ((p[i].target > q) <=> rising)
  <2>1. SUFFICES ASSUME \A i \in 1..Len(p) : (p[i].target > q) <=> rising PROVE FALSE
    OBVIOUS
  <2>2. \A i \in 1..Len(p) : deal.spends[i] <= p[i].budget
    BY <1>1, <2>1, OneSidedDealFits DEF deal
  <2>. QED BY <1>4, <1>5, <2>2
<1>7. PICK i \in 1..Len(p) : p[i].target > q
  BY <1>6
<1>8. PICK j \in 1..Len(p) : ~ (p[j].target > q)
  BY <1>6
<1>. QED BY <1>1, <1>7, <1>8 DEF TwoSided, p, q

LEMMA ClearedRound ==
  ASSUME NEW s, Sound(s), NEW m \in Markets, Open(s, m), s.pending[m] # <<>>, ~ PoisonedAt(s, m)
  PROVE  RoundOK(s, m, Closed(s, m))
<1>. DEFINE p == s.pending[m]
            deal == Deal(s.q[m], p)
            n == LastOf(p, deal)
            moved == Total(deal.sizes)
            t == FillUntilOver(s, m, p, deal)
            posted == Posted(t, m, moved)
            u == Advanced(posted, m)
            v == Halved(t, m)
<1>1. s \in Books /\ MarketOK(s, m) /\ s.q[m] \in Int /\ SoundLedger(s.ledger, Parties, Markets)
  BY BookFields DEF Sound
<1>2. p \in Queues /\ Len(p) \in Nat /\ Len(p) > 0
  <2>1. p \in Seq(Order) /\ p # <<>>
    BY <1>1, BookFields
  <2>2. p \in Queues
    BY <2>1 DEF Queues, PoisonedAt
  <2>. HIDE DEF p
  <2>. QED BY <2>1, <2>2
<1>3. Fair(s.q[m], Len(p), deal)
  <2>. HIDE DEF p
  <2>. QED BY <1>1, <1>2, DealIsFair DEF deal
<1>4. n \in 0..Len(p)
  <2>1. deal.spends \in [1..Len(p) -> Nat]
    BY <1>3 DEF Fair
  <2>. HIDE DEF p, deal
  <2>. QED BY <1>2, <2>1, LastOfOK
<1>5. FilledTo(s, t, m, deal, n)
  BY <1>2, <1>3, FilledToTheLast
<1>6. Nearly(s, t, m)
  BY <1>3, <1>4, <1>5, FilledIsNearly
<1>7. t \in Books /\ SameBook(s, t) /\ Served(s, t, m, n) /\ Collected(s, t, m, deal, n)
      /\ SoundLedger(t.ledger, Parties, Markets)
  BY <1>5 DEF FilledTo, Ready
<1>8. moved \in Int /\ deal \in Deals
  BY <1>3 DEF Fair
<1>9. Closed(s, m) = Ended(m, t, moved)
  BY <1>7, <1>8, ClosedIs
<1>10. t.half = s.half /\ t.q = s.q
  BY <1>7 DEF SameBook
<1>11. t.pending[m] = SubSeq(p, n + 1, Len(p)) /\ t.fills[m] = s.fills[m] + n
  BY <1>7 DEF Served
<1>. HIDE DEF n, t, moved, posted, u, v
<1>12. t.pending[m] = <<>> <=> n = Len(p)
  <2>1. p \in Seq(Order)
    BY <1>2 DEF Queues
  <2>. HIDE DEF p
  <2>2. Len(t.pending[m]) = Len(p) - n
    BY <1>2, <1>4, <1>11, <2>1
  <2>3. t.pending[m] \in Seq(Order)
    BY <1>7, BookFields
  <2>. QED BY <1>2, <1>4, <2>2, <2>3
<1>13. posted \in Books /\ After(posted, t, m) /\ posted.q[m] = t.q[m] + moved
       /\ posted.half = t.half /\ posted.ledger = t.ledger
  BY <1>7, <1>8, PostedFields DEF posted
<1>14. ASSUME n = Len(p), s.half[m] = {} PROVE Rounded(posted, m)
  <2>1. Rounded(s, m)
    BY <1>1, <1>14 DEF MarketOK
  <2>. QED BY <1>2, <1>3, <1>7, <1>10, <1>11, <1>13, <1>14, <2>1, AllFilledRounds DEF moved
<1>15. ASSUME t.pending[m] # <<>>
       PROVE  RoundOK(s, m, [end |-> "refused", state |-> v])
  <2>1. v \in Books /\ After(v, t, m) /\ v.half[m] = s.half[m] \cup {"round"}
    BY <1>7, <1>10, HalvedFields DEF v
  <2>2. Sound(v) /\ SameOthers(s, v, m)
    BY <1>6, <2>1, AfterIsSound
  <2>3. TwoSided(s, m)
    <3>1. n < Len(p)
      BY <1>2, <1>4, <1>12, <1>15
    <3>. QED BY <1>1, <1>2, <3>1, StoppedIsTwoSided DEF n
  <2>. QED BY <2>1, <2>2, <2>3 DEF RoundOK, Rounds
<1>16. ASSUME t.pending[m] = <<>>, EscrowIsRight(posted, m)
       PROVE  RoundOK(s, m, [end |-> "closed", state |-> u])
  <2>1. u \in Books /\ After(u, posted, m) /\ u.q = posted.q /\ u.half = s.half
    BY <1>10, <1>13, AdvancedFields DEF u
  <2>2. After(u, t, m)
    BY <1>13, <2>1, AfterAfter
  <2>3. u.half[m] = {} => Rounded(u, m)
    BY <1>12, <1>14, <1>16, <2>1, AfterKeepsRounded
  <2>4. Sound(u) /\ SameOthers(s, u, m)
    BY <1>6, <2>1, <2>2, <2>3, AfterIsSound
  <2>. QED BY <2>1, <2>4 DEF RoundOK, Rounds
<1>17. ASSUME t.pending[m] = <<>>, ~ EscrowIsRight(posted, m)
       PROVE  RoundOK(s, m, [end |-> "refused", state |-> posted])
  <2>1. posted.half = s.half
    BY <1>10, <1>13
  <2>2. s.half[m] # {}
    <3>1. SUFFICES ASSUME s.half[m] = {} PROVE FALSE
      OBVIOUS
    <3>2. Rounded(posted, m)
      BY <1>12, <1>14, <1>17, <3>1
    <3>3. SoundLedger(posted.ledger, Parties, Markets)
      BY <1>7, <1>13
    <3>. QED BY <1>13, <1>17, <3>2, <3>3, RoundedIsRight
  <2>3. Sound(posted) /\ SameOthers(s, posted, m)
    BY <1>6, <1>13, <2>1, <2>2, AfterIsSound
  <2>. QED BY <1>13, <2>1, <2>2, <2>3 DEF RoundOK, Rounds
<1>18. Ended(m, t, moved) =
         IF t.pending[m] # <<>> THEN [end |-> "refused", state |-> v]
         ELSE IF EscrowIsRight(posted, m) THEN [end |-> "closed", state |-> u]
         ELSE [end |-> "refused", state |-> posted]
  BY DEF Ended, posted, u, v, Posted, Halved
<1>. QED BY <1>9, <1>15, <1>16, <1>17, <1>18

LEMMA CloseRoundOK ==
  ASSUME NEW s, Sound(s), NEW m \in Markets, Open(s, m)
  PROVE  RoundOK(s, m, CloseRound(s, m))
<1>. DEFINE r == Closed(s, m)
            restart == [round \in Rounds |->
                          IF round.end = "closed" THEN [round EXCEPT !.state.due[m] = FALSE] ELSE round]
<1>1. s \in Books /\ s.pending[m] \in Seq(Order)
  BY BookFields DEF Sound
<1>2. RoundOK(s, m, r)
  <2>1. CASE s.pending[m] = <<>>
    <3>1. r = [end |-> "closed", state |-> Advanced(s, m)]
      BY <2>1 DEF Closed
    <3>. QED BY <3>1, EmptyRound
  <2>2. CASE s.pending[m] # <<>> /\ PoisonedAt(s, m)
    <3>1. r = [end |-> "broken", state |-> s]
      BY <2>2 DEF Closed, PoisonedAt
    <3>. QED BY <2>2, <3>1, BrokenRound
  <2>3. CASE s.pending[m] # <<>> /\ ~ PoisonedAt(s, m)
    BY <2>3, ClearedRound
  <2>. QED BY <2>1, <2>2, <2>3
<1>3. CloseRound(s, m) = restart[r]
  BY DEF CloseRound
<1>. HIDE DEF r
<1>4. r \in Rounds
  BY <1>2 DEF RoundOK
<1>5. CASE r.end # "closed"
  BY <1>2, <1>3, <1>4, <1>5
<1>6. CASE r.end = "closed"
  <2>. DEFINE v == Restarted(r.state, m)
              t == r.state
  <2>1. CloseRound(s, m) = [end |-> "closed", state |-> v]
    <3>1. CloseRound(s, m) = [r EXCEPT !.state.due[m] = FALSE]
      BY <1>3, <1>4, <1>6
    <3>2. r = [end |-> "closed", state |-> r.state]
      BY <1>2, <1>6 DEF RoundOK
    <3>3. [r EXCEPT !.state.due[m] = FALSE] = [r EXCEPT !.state = v]
      BY ONLY DEF v, t, Restarted
    <3>. HIDE DEF restart, v
    <3>4. [r EXCEPT !.state = v] = [end |-> "closed", state |-> v]
      BY ONLY <3>2
    <3>. QED BY <3>1, <3>3, <3>4
  <2>2. Sound(t) /\ t \in Books /\ Open(t, m) /\ SameOthers(s, t, m)
    BY <1>2 DEF RoundOK, Sound, SameOthers, Open
  <2>3. v \in Books /\ After(v, t, m) /\ v.half = t.half /\ v.q = t.q
    BY <2>2, RestartedFields
  <2>. HIDE DEF v, t
  <2>4. Sound(v) /\ SameOthers(t, v, m)
    <3>1. Nearly(t, t, m)
      BY <2>2, SoundIsNearly
    <3>2. v.half[m] = {} => Rounded(v, m)
      <4>1. v.half[m] = {} => Rounded(t, m)
        BY <2>2, <2>3 DEF Sound, MarketOK
      <4>. QED BY <2>3, <4>1, AfterKeepsRounded
    <3>. QED BY <2>2, <2>3, <3>1, <3>2, AfterIsSound
  <2>5. SameOthers(s, v, m)
    <3>1. \A j \in Markets \ {m} : SameAt(s, t, j) /\ SameAt(t, v, j)
      BY <2>2, <2>4 DEF SameOthers
    <3>2. \A j \in Markets \ {m} : SameAt(s, v, j)
      BY <3>1 DEF SameAt
    <3>. QED BY <2>2, <2>4, <3>2 DEF SameOthers
  <2>6. /\ s.half[m] \subseteq v.half[m] /\ v.half[m] \subseteq s.half[m] \cup {"round"}
        /\ "round" \in v.half[m] \ s.half[m] => TwoSided(s, m)
    BY <1>2, <2>3 DEF RoundOK, t
  <2>. QED BY <2>1, <2>3, <2>4, <2>5, <2>6 DEF RoundOK, Rounds
<1>. QED BY <1>5, <1>6

-----------------------------------------------------------------------------
(* A pass of the reconcile loop                                            *)

\* What a pass that closed no round and was not broken keeps of a market.
Kept(s, t, j) ==
  /\ t.half[j] = {} => t.round[j] = s.round[j] /\ t.q[j] = s.q[j]
  /\ PoisonedAt(s, j) => PoisonedAt(t, j)

\* A pass that began with s and has been to the markets 1..k.
PassOK(s, pass, k) ==
  /\ pass \in Passes /\ pass = [state |-> pass.state, closed |-> pass.closed, broken |-> pass.broken]
  /\ Sound(pass.state)
  /\ pass.state.seq = s.seq /\ pass.state.status = s.status /\ pass.state.sponsor = s.sponsor
  /\ \A j \in Markets :
       /\ s.half[j] \subseteq pass.state.half[j]
       /\ pass.state.half[j] \subseteq s.half[j] \cup {"round"}
       /\ "round" \in pass.state.half[j] \ s.half[j] => TwoSided(s, j)
       /\ j > k => SameAt(s, pass.state, j)
       /\ ~ pass.closed /\ ~ pass.broken => Kept(s, pass.state, j)
  /\ pass.broken => Poisoned(pass.state)

LEMMA SameKeeps ==
  ASSUME NEW s, NEW t, NEW j, SameAt(s, t, j)
  PROVE  /\ t.half[j] = s.half[j] /\ t.round[j] = s.round[j] /\ t.q[j] = s.q[j]
         /\ PoisonedAt(t, j) <=> PoisonedAt(s, j)
         /\ TwoSided(t, j) <=> TwoSided(s, j)
         /\ Open(t, j) <=> Open(s, j)
BY DEF SameAt, PoisonedAt, TwoSided, Open

LEMMA PoisonedIs ==
  ASSUME NEW s
  PROVE  Poisoned(s) <=> \E m \in Markets : PoisonedAt(s, m)
BY DEF Poisoned, PoisonedAt

LEMMA PassBegins ==
  ASSUME NEW s, Sound(s)
  PROVE  PassOK(s, [state |-> s, closed |-> FALSE, broken |-> FALSE], 0)
<1>1. s \in Books
  BY DEF Sound
<1>. QED BY <1>1 DEF PassOK, Passes, Kept, SameAt

\* Whatever is not the pass of a market that is due, or comes after a break,
\* leaves things as they are.
LEMMA PassIdles ==
  ASSUME NEW s, NEW pass, NEW k \in Nat, PassOK(s, pass, k)
  PROVE  PassOK(s, pass, k + 1)
<1>1. \A j \in Markets : j > k + 1 => j > k
  BY ConstantsOK
<1>. QED BY <1>1 DEF PassOK

LEMMA PassTakes ==
  ASSUME NEW s, NEW pass, NEW k \in Nat, k + 1 \in Markets, PassOK(s, pass, k), ~ pass.broken,
         NEW r, RoundOK(pass.state, k + 1, r), NEW taken,
         taken = [state |-> r.state, closed |-> pass.closed \/ r.end = "closed",
                  broken |-> r.end = "broken"]
  PROVE  PassOK(s, taken, k + 1)
<1>. DEFINE m == k + 1
            t == pass.state
            u == r.state
<1>1. /\ r \in Rounds /\ Sound(u) /\ SameOthers(t, u, m)
      /\ t.half[m] \subseteq u.half[m] /\ u.half[m] \subseteq t.half[m] \cup {"round"}
      /\ "round" \in u.half[m] \ t.half[m] => TwoSided(t, m)
      /\ r.end = "broken" => u = t /\ PoisonedAt(t, m)
      /\ r.end = "refused" => u.half[m] # {} /\ ~ PoisonedAt(t, m)
      /\ r.end \in {"closed", "refused", "broken"}
  BY DEF RoundOK, Rounds
<1>2. /\ pass \in Passes /\ t.seq = s.seq /\ t.status = s.status /\ t.sponsor = s.sponsor
      /\ pass.closed \in BOOLEAN
  BY DEF PassOK, Passes
<1>3. taken \in Passes /\ taken.state = u /\ taken.closed = (pass.closed \/ r.end = "closed")
      /\ taken.broken = (r.end = "broken")
  BY <1>1, <1>2 DEF Passes, Sound
<1>4. u.seq = s.seq /\ u.status = s.status /\ u.sponsor = s.sponsor
  BY <1>1, <1>2 DEF SameOthers
<1>5. m \in Int /\ \A j \in Markets : j \in Int /\ (j > m => j > k) /\ m > k
  BY ConstantsOK
<1>6. SameAt(s, t, m)
  BY <1>5 DEF PassOK
<1>. HIDE DEF m, t, u
<1>7. ASSUME NEW j \in Markets
      PROVE  /\ s.half[j] \subseteq u.half[j] /\ u.half[j] \subseteq s.half[j] \cup {"round"}
             /\ "round" \in u.half[j] \ s.half[j] => TwoSided(s, j)
             /\ j > m => SameAt(s, u, j)
             /\ ~ taken.closed /\ ~ taken.broken => Kept(s, u, j)
  <2>0. /\ s.half[j] \subseteq t.half[j] /\ t.half[j] \subseteq s.half[j] \cup {"round"}
        /\ "round" \in t.half[j] \ s.half[j] => TwoSided(s, j)
        /\ j > k => SameAt(s, t, j)
        /\ ~ pass.closed => Kept(s, t, j)
    BY DEF PassOK, t
  <2>1. CASE j # m
    <3>1. SameAt(t, u, j)
      BY <1>1, <2>1 DEF SameOthers
    <3>2. u.half[j] = t.half[j] /\ u.round[j] = t.round[j] /\ u.q[j] = t.q[j]
          /\ (PoisonedAt(u, j) <=> PoisonedAt(t, j))
      BY <3>1, SameKeeps
    <3>3. SameAt(s, t, j) => SameAt(s, u, j)
      BY <3>1 DEF SameAt
    <3>. QED BY <1>3, <1>5, <2>0, <3>2, <3>3 DEF Kept
  <2>2. CASE j = m
    <3>1. t.half[m] = s.half[m] /\ (PoisonedAt(t, m) <=> PoisonedAt(s, m))
          /\ (TwoSided(t, m) <=> TwoSided(s, m))
      BY <1>6, SameKeeps
    <3>2. ~ taken.closed /\ ~ taken.broken => Kept(s, u, m)
      <4>1. ~ taken.closed /\ ~ taken.broken => r.end = "refused"
        BY <1>1, <1>3
      <4>. QED BY <1>1, <3>1, <4>1 DEF Kept
    <3>3. ~ (m > m)
      BY <1>5
    <3>. QED BY <1>1, <2>2, <3>1, <3>2, <3>3
  <2>. QED BY <2>1, <2>2
<1>8. taken.broken => Poisoned(u)
  <2>1. m \in Markets
    BY DEF m
  <2>. QED BY <1>1, <1>3, <2>1, PoisonedIs
<1>9. Sound(u)
  BY <1>1
<1>10. taken = [state |-> taken.state, closed |-> taken.closed, broken |-> taken.broken]
  BY <1>3 DEF u
<1>. QED BY <1>3, <1>4, <1>7, <1>8, <1>9, <1>10 DEF PassOK, m

Going(pass, m) == IF pass.broken THEN pass ELSE Step(pass, m)

LEMMA StepIs ==
  ASSUME NEW pass \in Passes, Sound(pass.state), NEW m \in Markets
  PROVE  Step(pass, m) =
           IF ~ (Open(pass.state, m) /\ pass.state.due[m]) THEN pass
           ELSE [state |-> CloseRound(pass.state, m).state,
                 closed |-> pass.closed \/ CloseRound(pass.state, m).end = "closed",
                 broken |-> CloseRound(pass.state, m).end = "broken"]
<1>. DEFINE r == CloseRound(pass.state, m)
<1>1. ASSUME Open(pass.state, m) PROVE r \in Rounds
  BY <1>1, CloseRoundOK DEF RoundOK
<1>2. ASSUME NEW round \in Rounds
      PROVE  Taken(pass, round) = [state |-> round.state, closed |-> pass.closed \/ round.end = "closed",
                                   broken |-> round.end = "broken"]
  BY DEF Taken
<1>. HIDE DEF r
<1>3. Open(pass.state, m) =>
        Taken(pass, r) = [state |-> r.state, closed |-> pass.closed \/ r.end = "closed",
                          broken |-> r.end = "broken"]
  BY <1>1, <1>2
<1>. QED BY <1>3 DEF Step, r

LEMMA GoingOK ==
  ASSUME NEW s, NEW pass, NEW k \in Nat, k + 1 \in Markets, PassOK(s, pass, k)
  PROVE  PassOK(s, Going(pass, k + 1), k + 1)
<1>. DEFINE m == k + 1
            r == CloseRound(pass.state, m)
<1>1. pass \in Passes /\ Sound(pass.state) /\ m \in Markets
  BY DEF PassOK
<1>2. PassOK(s, pass, m)
  BY PassIdles
<1>3. CASE pass.broken
  BY <1>2, <1>3 DEF Going
<1>4. CASE ~ pass.broken /\ ~ (Open(pass.state, m) /\ pass.state.due[m])
  BY <1>1, <1>2, <1>4, StepIs DEF Going
<1>5. CASE ~ pass.broken /\ Open(pass.state, m) /\ pass.state.due[m]
  <2>1. RoundOK(pass.state, m, r)
    BY <1>1, <1>5, CloseRoundOK
  <2>2. Going(pass, m) = [state |-> r.state, closed |-> pass.closed \/ r.end = "closed",
                          broken |-> r.end = "broken"]
    BY <1>1, <1>5, StepIs DEF Going
  <2>. HIDE DEF r
  <2>. QED BY <1>5, <2>1, <2>2, PassTakes
<1>. QED BY <1>3, <1>4, <1>5

\* The recursion by which a pass goes from market to market.
Beginning(s) == [state |-> s, closed |-> FALSE, broken |-> FALSE]
IsPassage(f, s) ==
  f = [m \in 0..s.seq |->
         IF m = 0 THEN Beginning(s)
         ELSE [pass \in Passes |-> IF pass.broken THEN pass ELSE Step(pass, m)][f[m - 1]]]
Ongoing == {pass \in Passes : Sound(pass.state)}

LEMMA PassIs ==
  ASSUME NEW s
  PROVE  Pass(s) = (CHOOSE f : IsPassage(f, s))[s.seq]
BY DEF Pass, IsPassage, Beginning

LEMMA GoingStays ==
  ASSUME NEW pass \in Ongoing, NEW m \in Markets
  PROVE  Going(pass, m) \in Ongoing
<1>. DEFINE k == m - 1
<1>0. pass \in Passes /\ Sound(pass.state)
  BY DEF Ongoing
<1>1. CASE pass.broken \/ ~ (Open(pass.state, m) /\ pass.state.due[m])
  BY <1>0, <1>1, StepIs DEF Going
<1>2. CASE ~ pass.broken /\ Open(pass.state, m) /\ pass.state.due[m]
  <2>. DEFINE r == CloseRound(pass.state, m)
  <2>1. RoundOK(pass.state, m, r)
    BY <1>0, <1>2, CloseRoundOK
  <2>2. Going(pass, m) = [state |-> r.state, closed |-> pass.closed \/ r.end = "closed",
                          broken |-> r.end = "broken"]
    BY <1>0, <1>2, StepIs DEF Going
  <2>. HIDE DEF r
  <2>3. r.state \in Books /\ Sound(r.state) /\ pass.closed \in BOOLEAN
    BY <1>0, <2>1 DEF RoundOK, Sound, Passes
  <2>. QED BY <2>2, <2>3 DEF Ongoing, Passes
<1>. QED BY <1>1, <1>2

LEMMA PassageExists ==
  ASSUME NEW s, Sound(s)
  PROVE  \E f : IsPassage(f, s)
<1>. DEFINE n == s.seq
            h == [p \in Ongoing \X (1..n) |-> Going(p[1], p[2])]
            base == Beginning(s)
<1>1. n \in Nat /\ n <= Cardinality(Markets) /\ s \in Books
  BY BookFields DEF Sound
<1>2. 1..n \subseteq Markets
  BY <1>1, ConstantsOK
<1>3. h \in Steps(Ongoing, 1..n)
  <2>1. ASSUME NEW p \in Ongoing \X (1..n) PROVE Going(p[1], p[2]) \in Ongoing
    <3>1. p[1] \in Ongoing /\ p[2] \in Markets
      BY <1>2
    <3>. QED BY <3>1, GoingStays
  <2>. QED BY <2>1 DEF Steps
<1>4. base \in Ongoing
  BY <1>1 DEF Ongoing, Passes, Beginning
<1>5. PICK g : IsWalk(g, n, Ongoing, h, base)
  <2>. HIDE DEF h, base, n
  <2>. QED BY <1>1, <1>3, <1>4, WalkExists
<1>. DEFINE f == [m \in 0..n |-> g[1..m]]
<1>6. /\ Turns(n) = 1..n /\ g \in [SUBSET (1..n) -> Ongoing]
      /\ \A S \in SUBSET (1..n) :
           g[S] = IF S = {} THEN base ELSE h[<<g[S \ {Max(S)}], Turn(n, S)>>]
  <2>1. Turns(n) = 1..n
    BY <1>1, TurnOK
  <2>. HIDE DEF h, base, n
  <2>. QED BY <1>5, <2>1 DEF IsWalk
<1>. HIDE DEF base
<1>7. f[0] = base
  <2>1. {} \in SUBSET (1..n) /\ 1..0 = {} /\ 0 \in 0..n
    BY <1>1
  <2>2. g[{}] = base
    BY <1>6, <2>1
  <2>. QED BY <2>1, <2>2
<1>8. ASSUME NEW m \in 1..n
      PROVE  f[m] = Going(f[m - 1], m) /\ f[m - 1] \in Ongoing
  <2>. DEFINE S == 1..m
  <2>1. m \in Nat /\ m > 0 /\ m \in 0..n /\ m - 1 \in 0..n /\ S \in SUBSET (1..n) /\ m \in S
        /\ 1..(m - 1) \in SUBSET (1..n)
    BY <1>1
  <2>2. Max(S) = m /\ S \ {m} = 1..(m - 1)
    BY <2>1, MaxUpTo
  <2>3. Turn(n, S) = m
    <3>. HIDE DEF S, n
    <3>. QED BY <1>1, <2>1, <2>2, TurnOK
  <2>4. f[m] = g[S] /\ f[m - 1] = g[1..(m - 1)]
    BY <2>1
  <2>5. g[S] = h[<<g[1..(m - 1)], m>>] /\ g[1..(m - 1)] \in Ongoing
    <3>1. S # {}
      BY <2>1
    <3>. HIDE DEF S, h, n
    <3>. QED BY <1>6, <2>1, <2>2, <2>3, <3>1
  <2>6. h[<<g[1..(m - 1)], m>>] = Going(g[1..(m - 1)], m)
    <3>. HIDE DEF S
    <3>. QED BY <2>5
  <2>. HIDE DEF S, f, h
  <2>. QED BY <2>4, <2>5, <2>6
<1>9. ASSUME NEW m \in 0..n
      PROVE  f[m] = IF m = 0 THEN Beginning(s)
                    ELSE [pass \in Passes |-> IF pass.broken THEN pass ELSE Step(pass, m)][f[m - 1]]
  <2>1. CASE m = 0
    BY <1>7, <2>1 DEF base
  <2>2. CASE m # 0
    <3>1. m \in 1..n
      BY <1>1, <2>2
    <3>2. f[m] = Going(f[m - 1], m) /\ f[m - 1] \in Passes
      <4>. HIDE DEF f
      <4>. QED BY <1>8, <3>1 DEF Ongoing
    <3>. HIDE DEF f
    <3>. QED BY <2>2, <3>2 DEF Going
  <2>. HIDE DEF f
  <2>. QED BY <2>1, <2>2
<1>10. f = [m \in 0..n |-> f[m]]
  OBVIOUS
<1>. HIDE DEF f
<1>11. f = [m \in 0..n |->
             IF m = 0 THEN Beginning(s)
             ELSE [pass \in Passes |-> IF pass.broken THEN pass ELSE Step(pass, m)][f[m - 1]]]
  BY <1>9, <1>10
<1>. QED BY <1>11 DEF IsPassage

\* A pass leaves sound books, whatever it met.
LEMMA PassIsOK ==
  ASSUME NEW s, Sound(s)
  PROVE  PassOK(s, Pass(s), s.seq)
<1>. DEFINE f == CHOOSE g : IsPassage(g, s)
            n == s.seq
            S == {k \in 0..n : PassOK(s, f[k], k)}
<1>1. n \in Nat /\ n <= Cardinality(Markets) /\ \A k \in 0..(n - 1) : k \in Nat /\ k + 1 \in Markets
  <2>1. n \in Nat /\ n <= Cardinality(Markets)
    BY BookFields DEF Sound
  <2>. QED BY <2>1, ConstantsOK
<1>2. IsPassage(f, s)
  BY PassageExists
<1>. HIDE DEF f
<1>3. \A m \in 0..n :
        f[m] = IF m = 0 THEN Beginning(s)
               ELSE [pass \in Passes |-> IF pass.broken THEN pass ELSE Step(pass, m)][f[m - 1]]
  BY <1>2 DEF IsPassage
<1>4. 0 \in S
  <2>1. 0 \in 0..n
    BY <1>1
  <2>. QED BY <1>3, <2>1, PassBegins DEF Beginning
<1>5. \A k \in 0..(n - 1) : k \in S => k + 1 \in S
  <2>1. ASSUME NEW k \in 0..(n - 1), PassOK(s, f[k], k) PROVE PassOK(s, f[k + 1], k + 1)
    <3>1. k \in Nat /\ k + 1 \in Markets /\ k + 1 \in 0..n /\ k + 1 # 0 /\ (k + 1) - 1 = k
      BY <1>1
    <3>2. f[k] \in Passes
      BY <2>1 DEF PassOK
    <3>3. f[k + 1] = Going(f[k], k + 1)
      <4>1. f[k + 1] = [pass \in Passes |-> IF pass.broken THEN pass ELSE Step(pass, k + 1)][f[(k + 1) - 1]]
        BY <1>3, <3>1
      <4>. QED BY <3>1, <3>2, <4>1 DEF Going
    <3>. QED BY <2>1, <3>1, <3>3, GoingOK
  <2>2. \A k \in 0..(n - 1) : k \in 0..n /\ k + 1 \in 0..n
    BY <1>1
  <2>. QED BY <2>1, <2>2
<1>6. n \in S
  <2>1. n \in 0..n
    BY <1>1
  <2>. HIDE DEF S, n
  <2>. QED BY <1>1, <1>4, <1>5, <2>1, UpTo
<1>7. Pass(s) = f[n]
  BY PassIs DEF f
<1>. QED BY <1>6, <1>7

-----------------------------------------------------------------------------
(* What a settlement releases and pays                                     *)

Balanced == {L \in Ledgers(Parties, Markets) : SoundLedger(L, Parties, Markets)}

\* The locks of the orders of a market are released one after the other.
Indices(p) == DOMAIN [i \in DOMAIN p |-> i]
IndexOf(p, S) == [i \in DOMAIN p |-> i][Max(S)]
ReleaseNext(L, p, m, i) == ReleaseLock(L, p[i].trader, m)
IsReleasing(g, L, p, m) ==
  g = [S \in SUBSET Indices(p) |->
         IF S = {} THEN L ELSE ReleaseNext(g[S \ {Max(S)}], p, m, IndexOf(p, S))]

LEMMA ReleasingIsFold ==
  ASSUME NEW s, NEW m
  PROVE  ReleasePending(s, m) =
           [s EXCEPT !.ledger = (CHOOSE g : IsReleasing(g, @, s.pending[m], m))[Indices(s.pending[m])],
                     !.pending[m] = <<>>]
BY DEF ReleasePending, FoldLeft, MapThenFoldSet, IsReleasing, ReleaseNext, Indices, IndexOf

LEMMA ReleasingSteps ==
  ASSUME NEW L \in Balanced, NEW m \in Markets, NEW p \in Seq(Order)
  PROVE  \E w : /\ w[0] = L
                /\ (CHOOSE g : IsReleasing(g, L, p, m))[Indices(p)] = w[Len(p)]
                /\ \A k \in 0..(Len(p) - 1) : w[k + 1] = ReleaseNext(w[k], p, m, k + 1)
<1>. DEFINE n == Len(p)
            h == [x \in Balanced \X (1..n) |-> ReleaseNext(x[1], p, m, x[2])]
            g == CHOOSE f : IsReleasing(f, L, p, m)
            w == [k \in 0..n |-> g[1..k]]
<1>1. n \in Nat /\ DOMAIN p = 1..n
  OBVIOUS
<1>2. ASSUME NEW K \in Balanced, NEW i \in 1..n PROVE ReleaseNext(K, p, m, i) \in Balanced
  <2>1. p[i] \in Order
    BY <1>1
  <2>2. p[i].trader \in Parties /\ IsFiniteSet(Parties) /\ IsFiniteSet(Markets)
    BY <2>1, ConstantsOK DEF Order
  <2>3. SoundLedger(ReleaseNext(K, p, m, i), Parties, Markets)
    BY <2>2, ReleaseLowers DEF Lowers, ReleaseNext, Balanced
  <2>. QED BY <2>3 DEF Balanced, SoundLedger
<1>. HIDE DEF n
<1>3. h \in Steps(Balanced, 1..n)
  BY <1>2 DEF Steps
<1>4. Indices(p) = 1..n /\ \A S : IndexOf(p, S) = Turn(n, S)
  BY <1>1 DEF Indices, IndexOf, Turn
<1>5. \E f : IsReleasing(f, L, p, m)
  <2>0. PICK f : IsWalk(f, n, Balanced, h, L)
    <3>. HIDE DEF h
    <3>. QED BY <1>1, <1>3, WalkExists
  <2>1. /\ Turns(n) = 1..n /\ f \in [SUBSET (1..n) -> Balanced]
        /\ \A S \in SUBSET (1..n) :
             f[S] = IF S = {} THEN L ELSE h[<<f[S \ {Max(S)}], Turn(n, S)>>]
    <3>1. Turns(n) = 1..n
      BY <1>1, TurnOK
    <3>. HIDE DEF h
    <3>. QED BY <2>0, <3>1 DEF IsWalk
  <2>2. ASSUME NEW S \in SUBSET (1..n), S # {}
        PROVE  f[S] = ReleaseNext(f[S \ {Max(S)}], p, m, Turn(n, S))
    <3>1. f[S \ {Max(S)}] \in Balanced /\ Turn(n, S) \in 1..n
      <4>1. S \ {Max(S)} \in SUBSET (1..n)
        OBVIOUS
      <4>2. Turn(n, S) \in 1..n
        BY <1>1, <2>2, TurnOK
      <4>. QED BY <2>1, <4>1, <4>2
    <3>2. f[S] = h[<<f[S \ {Max(S)}], Turn(n, S)>>]
      BY <2>1, <2>2
    <3>. QED BY <3>1, <3>2
  <2>3. f = [S \in SUBSET (1..n) |->
               IF S = {} THEN L ELSE ReleaseNext(f[S \ {Max(S)}], p, m, Turn(n, S))]
    <3>. HIDE DEF h
    <3>. QED BY <2>1, <2>2
  <2>4. f = [S \in SUBSET Indices(p) |->
               IF S = {} THEN L ELSE ReleaseNext(f[S \ {Max(S)}], p, m, IndexOf(p, S))]
    <3>. HIDE DEF h
    <3>. QED BY ONLY <1>4, <2>3
  <2>. QED BY <2>4 DEF IsReleasing
<1>6. IsReleasing(g, L, p, m)
  BY <1>5
<1>. HIDE DEF g, h
<1>7. ASSUME NEW S \in SUBSET (1..n)
      PROVE  g[S] = IF S = {} THEN L ELSE ReleaseNext(g[S \ {Max(S)}], p, m, Turn(n, S))
  BY <1>4, <1>6, <1>7 DEF IsReleasing
<1>8. w[0] = L
  <2>1. 1..0 = {} /\ 0 \in 0..n /\ {} \in SUBSET (1..n)
    BY <1>1
  <2>2. g[{}] = L
    BY <1>7, <2>1
  <2>. QED BY <2>1, <2>2
<1>9. g[Indices(p)] = w[n]
  BY <1>1, <1>4
<1>10. ASSUME NEW k \in 0..(n - 1)
       PROVE  w[k + 1] = ReleaseNext(w[k], p, m, k + 1)
  <2>. DEFINE S == 1..(k + 1)
  <2>0. k + 1 \in Nat /\ k + 1 > 0 /\ (k + 1) - 1 = k /\ k \in 0..n /\ k + 1 \in 0..n
        /\ k + 1 \in S
    BY <1>1
  <2>1. S \in SUBSET (1..n) /\ S # {}
    <3>1. \A x \in S : x \in 1..n
      BY <1>1, <2>0
    <3>. HIDE DEF S
    <3>. QED BY <2>0, <3>1
  <2>2. Max(S) = k + 1 /\ S \ {k + 1} = 1..k
    BY <2>0, MaxUpTo
  <2>. HIDE DEF S
  <2>3. Turn(n, S) = k + 1
    BY <1>1, <2>1, <2>2, TurnOK
  <2>4. g[S] = ReleaseNext(g[S \ {Max(S)}], p, m, Turn(n, S))
    BY <1>7, <2>1
  <2>5. w[k + 1] = g[S] /\ w[k] = g[1..k]
    BY <2>0 DEF S
  <2>. QED BY <2>2, <2>3, <2>4, <2>5
<1>. HIDE DEF w
<1>. QED BY <1>8, <1>9, <1>10 DEF n, g

\* What is left after the first k releases.
ReleasedTo(L, N, p, m, k) ==
  /\ N \in Balanced
  /\ \A a \in Parties : N.available[a] >= L.available[a]
  /\ \A j \in Markets : N.available[j] = L.available[j]
  /\ \A a \in Parties, j \in Markets \ {m} : N.locks[a][j] = L.locks[a][j]
  /\ \A a \in Parties :
       N.locks[a][m] = IF \E i \in 1..k : p[i].trader = a THEN 0 ELSE L.locks[a][m]

LEMMA ReleaseOne ==
  ASSUME NEW L \in Balanced, NEW m \in Markets, NEW p \in Seq(Order), NEW k \in 0..(Len(p) - 1),
         NEW N, ReleasedTo(L, N, p, m, k)
  PROVE  ReleasedTo(L, ReleaseNext(N, p, m, k + 1), p, m, k + 1)
<1>. DEFINE a == p[k + 1].trader
            M == ReleaseNext(N, p, m, k + 1)
<1>1. k + 1 \in 1..Len(p) /\ p[k + 1] \in Order
  OBVIOUS
<1>2. a \in Traders /\ a \in Parties /\ a \notin Markets /\ Markets \subseteq Parties
      /\ IsFiniteSet(Parties) /\ IsFiniteSet(Markets)
  BY <1>1, ConstantsOK DEF Order
<1>3. SoundLedger(N, Parties, Markets) /\ SoundLedger(L, Parties, Markets)
  BY DEF ReleasedTo, Balanced
<1>4. Lowers(M, N, Parties, Markets, a, m, N.locks[a][m])
  <2>. HIDE DEF a
  <2>. QED BY <1>2, <1>3, ReleaseLowers DEF ReleaseNext, a
<1>5. /\ N.locks[a][m] \in Nat
      /\ \A b \in Parties : N.available[b] \in Int /\ L.available[b] \in Int
      /\ \A b \in Parties, j \in Markets : N.locks[b][j] \in Nat /\ L.locks[b][j] \in Nat
  <2>1. /\ N.available \in [Parties -> Int] /\ L.available \in [Parties -> Int]
        /\ N.locks \in [Parties -> [Markets -> Nat]] /\ L.locks \in [Parties -> [Markets -> Nat]]
    BY <1>3, SoundFields
  <2>2. a \in Parties /\ m \in Markets
    BY <1>2
  <2>. HIDE DEF a, M
  <2>3. \A b \in Parties : N.available[b] \in Int /\ L.available[b] \in Int
    BY ONLY <2>1
  <2>4. \A b \in Parties, j \in Markets : N.locks[b][j] \in Nat /\ L.locks[b][j] \in Nat
    BY ONLY <2>1
  <2>. QED BY ONLY <2>2, <2>3, <2>4
<1>. HIDE DEF M, a
<1>6. M \in Balanced
  BY <1>4 DEF Lowers, Balanced, SoundLedger
<1>7. ASSUME NEW b \in Parties
      PROVE  M.available[b] >= L.available[b] /\ (b \in Markets => M.available[b] = L.available[b])
  <2>1. M.available[b] = N.available[b] + IF b = a THEN N.locks[a][m] ELSE 0
    BY <1>4 DEF Lowers
  <2>2. N.available[b] >= L.available[b] /\ (b \in Markets => N.available[b] = L.available[b])
    BY DEF ReleasedTo
  <2>. QED BY <1>2, <1>5, <2>1, <2>2
<1>8. ASSUME NEW b \in Parties, NEW j \in Markets
      PROVE  M.locks[b][j] = IF b = a /\ j = m THEN 0 ELSE N.locks[b][j]
  <2>1. M.locks[b][j] = N.locks[b][j] - IF b = a /\ j = m THEN N.locks[a][m] ELSE 0
    BY <1>4 DEF Lowers
  <2>. QED BY <1>5, <2>1
<1>9. \A b \in Parties, j \in Markets \ {m} : M.locks[b][j] = L.locks[b][j]
  BY <1>8 DEF ReleasedTo
<1>10. ASSUME NEW b \in Parties
       PROVE  M.locks[b][m] = IF \E i \in 1..(k + 1) : p[i].trader = b THEN 0 ELSE L.locks[b][m]
  <2>1. N.locks[b][m] = IF \E i \in 1..k : p[i].trader = b THEN 0 ELSE L.locks[b][m]
    BY DEF ReleasedTo
  <2>2. (\E i \in 1..(k + 1) : p[i].trader = b) <=> (\E i \in 1..k : p[i].trader = b) \/ b = a
    <3>1. \A i : i \in 1..(k + 1) <=> i \in 1..k \/ i = k + 1
      OBVIOUS
    <3>. QED BY <3>1 DEF a
  <2>. QED BY <1>8, <2>1, <2>2
<1>. QED BY <1>2, <1>6, <1>7, <1>9, <1>10 DEF ReleasedTo, M

\* A market whose pending orders are dropped, with their locks.
Dropped(s, t, m) ==
  /\ t.pending = [s.pending EXCEPT ![m] = <<>>]
  /\ t.seq = s.seq /\ t.orders = s.orders /\ t.status = s.status /\ t.sponsor = s.sponsor
  /\ t.q = s.q /\ t.round = s.round /\ t.due = s.due /\ t.fills = s.fills
  /\ t.yes = s.yes /\ t.no = s.no /\ t.basis = s.basis /\ t.half = s.half
  /\ t = [ledger |-> t.ledger, seq |-> t.seq, orders |-> t.orders,
          status |-> t.status, sponsor |-> t.sponsor, q |-> t.q, round |-> t.round,
          due |-> t.due, pending |-> t.pending, fills |-> t.fills,
          yes |-> t.yes, no |-> t.no, basis |-> t.basis, half |-> t.half]
Unlocked(L, N, m) ==
  /\ N \in Balanced
  /\ \A a \in Parties : N.available[a] >= L.available[a]
  /\ \A j \in Markets : N.available[j] = L.available[j]
  /\ \A a \in Parties, j \in Markets : N.locks[a][j] = IF j = m THEN 0 ELSE L.locks[a][j]

LEMMA ReleasePendingOK ==
  ASSUME NEW s, Sound(s), NEW m \in Markets
  PROVE  LET t == ReleasePending(s, m)
         IN  Dropped(s, t, m) /\ Unlocked(s.ledger, t.ledger, m)
<1>. DEFINE t == ReleasePending(s, m)
            p == s.pending[m]
            L == s.ledger
            N == (CHOOSE g : IsReleasing(g, L, p, m))[Indices(p)]
<1>1. s \in Books /\ p \in Seq(Order) /\ L \in Balanced /\ MarketOK(s, m)
  BY BookFields DEF Sound, Balanced
<1>2. t = [s EXCEPT !.ledger = N, !.pending[m] = <<>>]
  BY ReleasingIsFold
<1>3. t.ledger = N /\ Dropped(s, t, m)
  <2>1. s = [ledger |-> s.ledger, seq |-> s.seq, orders |-> s.orders,
             status |-> s.status, sponsor |-> s.sponsor, q |-> s.q, round |-> s.round,
             due |-> s.due, pending |-> s.pending, fills |-> s.fills,
             yes |-> s.yes, no |-> s.no, basis |-> s.basis, half |-> s.half]
    BY <1>1, BookFields
  <2>. HIDE DEF t, N
  <2>. QED BY ONLY <1>2, <2>1 DEF Dropped
<1>4. PICK w : w[0] = L /\ N = w[Len(p)]
               /\ \A k \in 0..(Len(p) - 1) : w[k + 1] = ReleaseNext(w[k], p, m, k + 1)
  <2>. HIDE DEF L, p
  <2>. QED BY <1>1, ReleasingSteps DEF N
<1>. HIDE DEF N
<1>. DEFINE n == Len(p)
            S == {k \in 0..n : ReleasedTo(L, w[k], p, m, k)}
<1>5. n \in Nat /\ DOMAIN p = 1..n
  <2>. HIDE DEF p
  <2>. QED BY <1>1
<1>. HIDE DEF p, L
<1>6. 0 \in S
  <2>1. 0 \in 0..n
    BY <1>5
  <2>2. \A a \in Parties : L.available[a] \in Int
    BY <1>1, SoundFields DEF Balanced
  <2>3. ReleasedTo(L, L, p, m, 0)
    <3>1. \A a \in Parties : L.available[a] >= L.available[a]
      BY <2>2
    <3>. QED BY <1>1, <3>1 DEF ReleasedTo
  <2>. QED BY <1>4, <2>1, <2>3
<1>7. \A k \in 0..(n - 1) : k \in S => k + 1 \in S
  <2>1. ASSUME NEW k \in 0..(n - 1), k \in S PROVE ReleasedTo(L, w[k + 1], p, m, k + 1)
    BY <1>1, <1>4, <2>1, ReleaseOne
  <2>2. \A k \in 0..(n - 1) : k + 1 \in 0..n
    BY <1>5
  <2>. QED BY <2>1, <2>2
<1>8. ReleasedTo(L, N, p, m, n)
  <2>1. n \in 0..n
    BY <1>5
  <2>2. n \in S
    <3>. HIDE DEF S, n
    <3>. QED BY <1>5, <1>6, <1>7, <2>1, UpTo
  <2>. QED BY <1>4, <2>2
<1>9. ASSUME NEW a \in Parties PROVE N.locks[a][m] = 0
  <2>1. N.locks[a][m] = IF \E i \in 1..n : p[i].trader = a THEN 0 ELSE L.locks[a][m]
    <3>. HIDE DEF n
    <3>. QED BY <1>8 DEF ReleasedTo
  <2>2. L.locks[a][m] \in Nat
    BY <1>1, SoundFields DEF Balanced
  <2>3. L.locks[a][m] > 0 => \E i \in 1..n : p[i].trader = a
    <3>. HIDE DEF n
    <3>. QED BY <1>1, <1>5 DEF MarketOK, Pledged, p, L
  <2>. QED BY <2>1, <2>2, <2>3
<1>10. Unlocked(L, N, m)
  <2>. HIDE DEF n
  <2>. QED BY <1>8, <1>9 DEF Unlocked, ReleasedTo
<1>. QED BY <1>3, <1>10 DEF L

\* The holders are paid out of the escrow one after the other.
PayNext(L, m, owed, order, i) == TransferAvailable(L, m, order[i], owed[order[i]])
IsPaying(g, L, m, owed, order) ==
  g = [S \in SUBSET (DOMAIN order) |->
         IF S = {} THEN L ELSE PayNext(g[S \ {Max(S)}], m, owed, order, Max(S))]

LEMMA PayingIsFold ==
  ASSUME NEW s, NEW m, NEW owed, NEW order
  PROVE  Paid(s, m, owed, order) =
           [s EXCEPT !.ledger = (CHOOSE g : IsPaying(g, @, m, owed, order))[DOMAIN order]]
BY DEF Paid, FoldLeft, MapThenFoldSet, IsPaying, PayNext

LEMMA PayingSteps ==
  ASSUME NEW L \in Balanced, NEW m \in Markets, NEW owed \in [Traders -> Nat],
         NEW order \in Seq(Traders)
  PROVE  \E w : /\ w[0] = L
                /\ (CHOOSE g : IsPaying(g, L, m, owed, order))[DOMAIN order] = w[Len(order)]
                /\ \A k \in 0..(Len(order) - 1) : w[k + 1] = PayNext(w[k], m, owed, order, k + 1)
<1>. DEFINE n == Len(order)
            h == [x \in Balanced \X (1..n) |-> PayNext(x[1], m, owed, order, x[2])]
            g == CHOOSE f : IsPaying(f, L, m, owed, order)
            w == [k \in 0..n |-> g[1..k]]
<1>1. n \in Nat /\ DOMAIN order = 1..n
  OBVIOUS
<1>2. ASSUME NEW K \in Balanced, NEW i \in 1..n PROVE PayNext(K, m, owed, order, i) \in Balanced
  <2>1. order[i] \in Traders
    BY <1>1
  <2>2. order[i] \in Parties /\ m \in Parties /\ IsFiniteSet(Parties) /\ IsFiniteSet(Markets)
        /\ owed[order[i]] \in Int
    BY <2>1, ConstantsOK
  <2>3. SoundLedger(PayNext(K, m, owed, order, i), Parties, Markets)
    BY <2>2, TransferHandsOver DEF HandsOver, PayNext, Balanced
  <2>. QED BY <2>3 DEF Balanced, SoundLedger
<1>. HIDE DEF n
<1>3. h \in Steps(Balanced, 1..n)
  BY <1>2 DEF Steps
<1>4. \E f : IsPaying(f, L, m, owed, order)
  <2>0. PICK f : IsWalk(f, n, Balanced, h, L)
    <3>. HIDE DEF h
    <3>. QED BY <1>1, <1>3, WalkExists
  <2>1. /\ f \in [SUBSET (1..n) -> Balanced]
        /\ \A S \in SUBSET (1..n) :
             f[S] = IF S = {} THEN L ELSE h[<<f[S \ {Max(S)}], Turn(n, S)>>]
    <3>1. Turns(n) = 1..n
      BY <1>1, TurnOK
    <3>. HIDE DEF h
    <3>. QED BY <2>0, <3>1 DEF IsWalk
  <2>2. ASSUME NEW S \in SUBSET (1..n), S # {}
        PROVE  f[S] = PayNext(f[S \ {Max(S)}], m, owed, order, Max(S))
    <3>1. f[S \ {Max(S)}] \in Balanced /\ Turn(n, S) = Max(S) /\ Max(S) \in 1..n
      <4>1. S \ {Max(S)} \in SUBSET (1..n)
        OBVIOUS
      <4>2. Turn(n, S) = Max(S) /\ Max(S) \in 1..n
        BY <1>1, <2>2, TurnOK
      <4>. QED BY <2>1, <4>1, <4>2
    <3>2. f[S] = h[<<f[S \ {Max(S)}], Turn(n, S)>>]
      BY <2>1, <2>2
    <3>. QED BY <3>1, <3>2
  <2>3. f = [S \in SUBSET (1..n) |->
               IF S = {} THEN L ELSE PayNext(f[S \ {Max(S)}], m, owed, order, Max(S))]
    <3>. HIDE DEF h
    <3>. QED BY <2>1, <2>2
  <2>. QED BY <1>1, <2>3 DEF IsPaying, n
<1>5. IsPaying(g, L, m, owed, order)
  BY <1>4
<1>. HIDE DEF g, h
<1>6. ASSUME NEW S \in SUBSET (1..n)
      PROVE  g[S] = IF S = {} THEN L ELSE PayNext(g[S \ {Max(S)}], m, owed, order, Max(S))
  BY <1>1, <1>5, <1>6 DEF IsPaying
<1>7. w[0] = L
  <2>1. 1..0 = {} /\ 0 \in 0..n /\ {} \in SUBSET (1..n)
    BY <1>1
  <2>2. g[{}] = L
    BY <1>6, <2>1
  <2>. QED BY <2>1, <2>2
<1>8. g[DOMAIN order] = w[n]
  BY <1>1
<1>9. ASSUME NEW k \in 0..(n - 1)
      PROVE  w[k + 1] = PayNext(w[k], m, owed, order, k + 1)
  <2>. DEFINE S == 1..(k + 1)
  <2>0. k + 1 \in Nat /\ k + 1 > 0 /\ (k + 1) - 1 = k /\ k \in 0..n /\ k + 1 \in 0..n
        /\ k + 1 \in S
    BY <1>1
  <2>1. S \in SUBSET (1..n) /\ S # {}
    <3>1. \A x \in S : x \in 1..n
      BY <1>1, <2>0
    <3>. HIDE DEF S
    <3>. QED BY <2>0, <3>1
  <2>2. Max(S) = k + 1 /\ S \ {k + 1} = 1..k
    BY <2>0, MaxUpTo
  <2>. HIDE DEF S
  <2>3. g[S] = PayNext(g[S \ {Max(S)}], m, owed, order, Max(S))
    BY <1>6, <2>1
  <2>4. w[k + 1] = g[S] /\ w[k] = g[1..k]
    BY <2>0 DEF S
  <2>. QED BY <2>2, <2>3, <2>4
<1>. HIDE DEF w
<1>. QED BY <1>7, <1>8, <1>9 DEF n, g

\* What the first k holders of an order are owed.
Queued(owed, order) == [i \in 1..Len(order) |-> owed[order[i]]]
OwedTo(owed, order, k) == SumFunction(Part(Queued(owed, order), k))

LEMMA OwedToIs ==
  ASSUME NEW owed \in [Traders -> Nat], NEW order \in Seq(Traders)
  PROVE  /\ Queued(owed, order) \in [1..Len(order) -> Nat]
         /\ OwedTo(owed, order, 0) = 0
         /\ \A k \in 0..(Len(order) - 1) :
              /\ OwedTo(owed, order, k) \in Int
              /\ OwedTo(owed, order, k + 1) = OwedTo(owed, order, k) + owed[order[k + 1]]
         /\ \A k \in 0..Len(order) : OwedTo(owed, order, k) \in Nat
<1>. DEFINE n == Len(order)
            f == Queued(owed, order)
<1>1. n \in Nat /\ \A i \in 1..n : order[i] \in Traders
  OBVIOUS
<1>. HIDE DEF n
<1>2. f \in [1..n -> Nat] /\ f \in [1..n -> Int] /\ \A i \in 1..n : f[i] = owed[order[i]]
  BY <1>1 DEF Queued, n
<1>. HIDE DEF f
<1>3. /\ SumFunction(Part(f, 0)) = 0
      /\ \A k \in 0..(n - 1) :
           /\ SumFunction(Part(f, k)) \in Int
           /\ SumFunction(Part(f, k + 1)) = SumFunction(Part(f, k)) + f[k + 1]
  BY <1>1, <1>2, PartSums
<1>4. \A k \in 0..(n - 1) : f[k + 1] = owed[order[k + 1]]
  <2>1. \A k \in 0..(n - 1) : k + 1 \in 1..n
    BY <1>1
  <2>. QED BY <1>2, <2>1
<1>5. ASSUME NEW k \in 0..n PROVE SumFunction(Part(f, k)) \in Nat
  <2>1. Part(f, k) \in [1..k -> Nat]
    <3>1. \A i \in 1..k : i \in 1..n
      BY <1>1
    <3>. QED BY <1>2, <3>1 DEF Part
  <2>2. IsFiniteSet(1..k)
    BY <1>1, FS_Interval
  <2>. QED BY <2>1, <2>2, SumBounds
<1>. QED BY <1>2, <1>3, <1>4, <1>5 DEF OwedTo, f, n

PaidTo(L, N, m, owed, order, k) ==
  /\ N \in Balanced /\ N.locks = L.locks
  /\ N.available[m] = L.available[m] - OwedTo(owed, order, k)
  /\ \A j \in Markets \ {m} : N.available[j] = L.available[j]
  /\ \A t \in Traders : N.available[t] >= L.available[t]

LEMMA PayOne ==
  ASSUME NEW L \in Balanced, NEW m \in Markets, NEW owed \in [Traders -> Nat],
         NEW order \in Seq(Traders), NEW k \in 0..(Len(order) - 1), NEW N,
         PaidTo(L, N, m, owed, order, k)
  PROVE  PaidTo(L, PayNext(N, m, owed, order, k + 1), m, owed, order, k + 1)
<1>. DEFINE t == order[k + 1]
            x == owed[t]
            M == PayNext(N, m, owed, order, k + 1)
<1>1. k + 1 \in 1..Len(order) /\ t \in Traders /\ x \in Nat
  OBVIOUS
<1>2. t \in Parties /\ m \in Parties /\ t # m /\ Markets \subseteq Parties /\ Traders \subseteq Parties
      /\ t \notin Markets /\ m \notin Traders /\ IsFiniteSet(Parties) /\ IsFiniteSet(Markets)
  BY <1>1, ConstantsOK
<1>3. SoundLedger(N, Parties, Markets) /\ SoundLedger(L, Parties, Markets)
  BY DEF PaidTo, Balanced
<1>. HIDE DEF t, x
<1>4. HandsOver(M, N, Parties, Markets, m, t, x)
  BY <1>1, <1>2, <1>3, TransferHandsOver DEF PayNext, t, x
<1>. HIDE DEF M
<1>5. \A b \in Parties : N.available[b] \in Int /\ L.available[b] \in Int
  <2>1. N.available \in [Parties -> Int] /\ L.available \in [Parties -> Int]
    BY <1>3, SoundFields
  <2>. QED BY <2>1
<1>6. M \in Balanced /\ M.locks = N.locks
  <2>1. SoundLedger(M, Parties, Markets) /\ M \in Ledgers(Parties, Markets)
    BY <1>4 DEF HandsOver, SoundLedger
  <2>2. \A b \in Parties, j \in Markets : M.locks[b][j] = N.locks[b][j]
    BY <1>4 DEF HandsOver
  <2>3. M.locks \in [Parties -> [Markets -> Nat]] /\ N.locks \in [Parties -> [Markets -> Nat]]
    BY <1>3, <2>1, SoundFields
  <2>4. \A b \in Parties : M.locks[b] = N.locks[b]
    BY <2>2, <2>3
  <2>5. M.locks = N.locks
    BY <2>3, <2>4
  <2>. QED BY <2>1, <2>5 DEF Balanced
<1>7. \A b \in Parties :
        M.available[b] = N.available[b] - (IF b = m THEN x ELSE 0) + (IF b = t THEN x ELSE 0)
  BY <1>4 DEF HandsOver
<1>8. /\ OwedTo(owed, order, k) \in Int
      /\ OwedTo(owed, order, k + 1) = OwedTo(owed, order, k) + x
  BY OwedToIs DEF t, x
<1>9. M.available[m] = L.available[m] - OwedTo(owed, order, k + 1)
  <2>1. N.available[m] = L.available[m] - OwedTo(owed, order, k)
    BY DEF PaidTo
  <2>2. M.available[m] = N.available[m] - x + 0
    BY <1>2, <1>7
  <2>. QED BY <1>1, <1>2, <1>5, <1>8, <2>1, <2>2
<1>10. \A j \in Markets \ {m} : M.available[j] = L.available[j]
  <2>1. ASSUME NEW j \in Markets \ {m} PROVE M.available[j] = N.available[j] - 0 + 0
    BY <1>2, <1>7
  <2>. QED BY <1>2, <1>5, <2>1 DEF PaidTo
<1>11. ASSUME NEW b \in Traders PROVE M.available[b] >= L.available[b]
  <2>1. M.available[b] = N.available[b] - 0 + (IF b = t THEN x ELSE 0)
    BY <1>2, <1>7
  <2>2. N.available[b] >= L.available[b] /\ N.available[b] \in Int /\ L.available[b] \in Int
    BY <1>2, <1>5 DEF PaidTo
  <2>. QED BY <1>1, <2>1, <2>2
<1>. QED BY <1>6, <1>9, <1>10, <1>11 DEF PaidTo, M

LEMMA PaidOK ==
  ASSUME NEW s, s.ledger \in Balanced, NEW m \in Markets, NEW owed \in [Traders -> Nat],
         NEW order \in Seq(Traders)
  PROVE  \E N : /\ Paid(s, m, owed, order) = [s EXCEPT !.ledger = N]
                /\ PaidTo(s.ledger, N, m, owed, order, Len(order))
<1>. DEFINE L == s.ledger
            n == Len(order)
            N == (CHOOSE g : IsPaying(g, L, m, owed, order))[DOMAIN order]
<1>1. Paid(s, m, owed, order) = [s EXCEPT !.ledger = N]
  BY PayingIsFold
<1>. HIDE DEF L
<1>2. PICK w : w[0] = L /\ N = w[n]
               /\ \A k \in 0..(n - 1) : w[k + 1] = PayNext(w[k], m, owed, order, k + 1)
  <2>1. L \in Balanced
    BY DEF L
  <2>2. m \in Markets /\ owed \in [Traders -> Nat] /\ order \in Seq(Traders)
    OBVIOUS
  <2>. QED BY ONLY <2>1, <2>2, PayingSteps DEF N
<1>. HIDE DEF N
<1>. DEFINE S == {k \in 0..n : PaidTo(L, w[k], m, owed, order, k)}
<1>3. n \in Nat
  OBVIOUS
<1>4. 0 \in S
  <2>1. 0 \in 0..n
    BY <1>3
  <2>2. L \in Balanced /\ \A b \in Parties : L.available[b] \in Int
    <3>1. SoundLedger(L, Parties, Markets) /\ L \in Balanced
      BY DEF Balanced, L
    <3>2. L.available \in [Parties -> Int]
      BY <3>1, SoundFields
    <3>. QED BY <3>1, <3>2
  <2>3. OwedTo(owed, order, 0) = 0
    BY OwedToIs
  <2>4. /\ L.available[m] = L.available[m] - 0
        /\ \A t \in Traders : L.available[t] >= L.available[t]
    BY <2>2, ConstantsOK
  <2>5. PaidTo(L, L, m, owed, order, 0)
    BY <2>2, <2>3, <2>4 DEF PaidTo
  <2>. QED BY <1>2, <2>1, <2>5
<1>5. \A k \in 0..(n - 1) : k \in S => k + 1 \in S
  <2>1. ASSUME NEW k \in 0..(n - 1), k \in S PROVE PaidTo(L, w[k + 1], m, owed, order, k + 1)
    BY <1>2, <2>1, PayOne DEF L
  <2>2. \A k \in 0..(n - 1) : k + 1 \in 0..n
    BY <1>3
  <2>. QED BY <2>1, <2>2
<1>6. PaidTo(L, N, m, owed, order, n)
  <2>1. n \in 0..n
    BY <1>3
  <2>2. n \in S
    <3>. HIDE DEF S, n
    <3>. QED BY <1>3, <1>4, <1>5, <2>1, UpTo
  <2>. QED BY <1>2, <2>2
<1>. QED BY <1>1, <1>6 DEF L

LEMMA PayoutOrderIs ==
  ASSUME NEW order \in PayoutOrders
  PROVE  /\ order \in Seq(Traders) /\ Len(order) \in Nat /\ DOMAIN order = 1..Len(order)
         /\ \A i, j \in 1..Len(order) : i # j => order[i] # order[j]
<1>. DEFINE c == Cardinality(Traders)
<1>1. c \in Nat
  BY ConstantsOK, FS_CardinalityType
<1>2. order \in [1..c -> Traders] /\ \A i, j \in 1..c : i # j => order[i] # order[j]
  BY DEF PayoutOrders, SetToSeqs
<1>. HIDE DEF c
<1>3. order \in Seq(Traders) /\ Len(order) = c
  BY <1>1, <1>2
<1>. QED BY <1>1, <1>2, <1>3

\* Nobody is owed twice: what the first are owed is part of what all are.
PaidPart(owed, order, k) ==
  [t \in Traders |-> IF \E i \in 1..k : order[i] = t THEN owed[t] ELSE 0]

LEMMA OwedToIsPart ==
  ASSUME NEW owed \in [Traders -> Nat], NEW order \in PayoutOrders
  PROVE  \A k \in 0..Len(order) : OwedTo(owed, order, k) <= SumFunction(owed)
<1>. DEFINE n == Len(order)
            f(k) == PaidPart(owed, order, k)
            S == {k \in 0..n : OwedTo(owed, order, k) = SumFunction(f(k))}
<1>1. order \in Seq(Traders) /\ n \in Nat /\ DOMAIN order = 1..n
      /\ \A i, j \in 1..n : i # j => order[i] # order[j]
  BY PayoutOrderIs
<1>. HIDE DEF n
<1>2. IsFiniteSet(Traders)
  BY ConstantsOK
<1>3. ASSUME NEW k \in Nat
      PROVE  f(k) \in [Traders -> Int] /\ \A t \in Traders : f(k)[t] <= owed[t] /\ f(k)[t] \in Nat
  BY DEF PaidPart
<1>4. 0 \in S
  <2>1. \A t \in Traders : f(0)[t] = 0
    BY DEF PaidPart
  <2>2. SumFunction(f(0)) = 0
    <3>1. f(0) \in [Traders -> Int]
      BY <1>3
    <3>. HIDE DEF f
    <3>. QED BY <1>2, <2>1, <3>1, SumZero
  <2>3. OwedTo(owed, order, 0) = 0 /\ 0 \in 0..n
    BY <1>1, OwedToIs
  <2>. QED BY <2>2, <2>3
<1>5. ASSUME NEW k \in 0..(n - 1), k \in S PROVE k + 1 \in S
  <2>. DEFINE t == order[k + 1]
              x == owed[t]
  <2>1. k \in Nat /\ k + 1 \in 1..n /\ k + 1 \in 0..n /\ t \in Traders /\ x \in Nat
    BY <1>1
  <2>2. \A i \in 1..k : order[i] # t
    <3>1. \A i \in 1..k : i \in 1..n /\ i # k + 1
      BY <1>1
    <3>. QED BY <1>1, <2>1, <3>1
  <2>3. f(k)[t] = 0
    BY <2>1, <2>2 DEF PaidPart
  <2>4. f(k + 1) = [f(k) EXCEPT ![t] = x]
    <3>1. \A b \in Traders : (\E i \in 1..(k + 1) : order[i] = b) <=> (\E i \in 1..k : order[i] = b) \/ b = t
      <4>1. \A i : i \in 1..(k + 1) <=> i \in 1..k \/ i = k + 1
        BY <2>1
      <4>. QED BY <4>1
    <3>. HIDE DEF t
    <3>. QED BY <2>1, <3>1 DEF PaidPart
  <2>5. SumFunction(f(k)) \in Int /\ SumFunction(f(k + 1)) = SumFunction(f(k)) + x - 0
    <3>1. f(k) \in [Traders -> Int] /\ x \in Int
      BY <1>3, <2>1
    <3>. DEFINE e == f(k)
    <3>2. e \in [Traders -> Int] /\ x \in Int /\ t \in Traders
      BY <2>1, <3>1
    <3>. HIDE DEF e, f, t, x
    <3>3. /\ SumFunction(e) \in Int
          /\ SumFunction([e EXCEPT ![t] = x]) = SumFunction(e) + x - e[t]
      BY ONLY <1>2, <3>2, SumExcept
    <3>. QED BY <2>3, <2>4, <3>3 DEF e
  <2>6. OwedTo(owed, order, k) \in Int /\ OwedTo(owed, order, k + 1) = OwedTo(owed, order, k) + x
    BY <1>1, OwedToIs DEF n
  <2>7. OwedTo(owed, order, k) = SumFunction(f(k))
    BY <1>5
  <2>. HIDE DEF f, x, t
  <2>. QED BY <2>1, <2>5, <2>6, <2>7
<1>6. \A k \in 0..n : k \in S
  <2>1. \A k \in 0..(n - 1) : k \in S => k + 1 \in S
    BY <1>5
  <2>. HIDE DEF S
  <2>. QED BY <1>1, <1>4, <2>1, UpTo
<1>7. ASSUME NEW k \in 0..n PROVE OwedTo(owed, order, k) <= SumFunction(owed)
  <2>1. k \in Nat /\ owed \in [Traders -> Int]
    BY <1>1
  <2>2. SumFunction(f(k)) <= SumFunction(owed)
    <3>1. f(k) \in [Traders -> Int] /\ \A t \in Traders : f(k)[t] <= owed[t]
      BY <1>3, <2>1
    <3>. HIDE DEF f
    <3>. QED BY <1>2, <2>1, <3>1, SumMonotone
  <2>3. OwedTo(owed, order, k) = SumFunction(f(k))
    BY <1>6
  <2>. QED BY <2>2, <2>3
<1>. QED BY <1>7 DEF n

\* The escrow covers what is paid; who is not paid would have been too much.
LEMMA CoveredOK ==
  ASSUME NEW s, NEW m, s.ledger.available[m] \in Nat, NEW owed \in [Traders -> Nat],
         NEW order \in PayoutOrders
  PROVE  LET k == Covered(s, m, owed, order)
         IN  /\ k \in 0..Len(order)
             /\ OwedTo(owed, order, k) <= s.ledger.available[m]
             /\ k # Len(order) => SumFunction(owed) > s.ledger.available[m]
<1>. DEFINE A == s.ledger.available[m]
            n == Len(order)
            S == {k \in 0..n : SumFunction([i \in 1..k |-> owed[order[i]]]) <= A}
            T == {k \in 0..n : OwedTo(owed, order, k) <= A}
            c == Covered(s, m, owed, order)
<1>1. n \in Nat /\ order \in Seq(Traders)
  BY PayoutOrderIs
<1>2. S = T
  <2>1. ASSUME NEW k \in 0..n
        PROVE  SumFunction([i \in 1..k |-> owed[order[i]]]) = OwedTo(owed, order, k)
    <3>1. \A i \in 1..k : i \in 1..Len(order)
      BY <1>1
    <3>2. Part(Queued(owed, order), k) = [i \in 1..k |-> owed[order[i]]]
      BY <3>1 DEF Part, Queued
    <3>. QED BY <3>2 DEF OwedTo
  <2>. HIDE DEF n
  <2>. QED BY <2>1
<1>3. c = Max(T)
  BY <1>2 DEF Covered
<1>. HIDE DEF c, S
<1>4. A \in Nat
  OBVIOUS
<1>. HIDE DEF A, n
<1>5. 0 \in T
  <2>1. OwedTo(owed, order, 0) = 0 /\ 0 \in 0..n
    BY <1>1, OwedToIs
  <2>. QED BY <1>4, <2>1
<1>6. Max(T) \in T /\ \A k \in T : Max(T) >= k
  <2>1. IsFiniteSet(T)
    <3>1. IsFiniteSet(0..n)
      BY <1>1, FS_Interval
    <3>. QED BY <3>1, FS_Subset
  <2>2. T \subseteq Int
    BY <1>1
  <2>. HIDE DEF T
  <2>3. \E x \in T : \A y \in T : x >= y
    BY <1>5, <2>1, <2>2, LargestMember
  <2>. QED BY <2>3 DEF Max
<1>7. c \in 0..n /\ OwedTo(owed, order, c) <= A
  BY <1>3, <1>6
<1>8. ASSUME c # n PROVE SumFunction(owed) > A
  <2>1. c + 1 \in 0..n /\ c \in Int /\ ~ (c >= c + 1)
    BY <1>1, <1>7, <1>8
  <2>2. c + 1 \notin T
    <3>. HIDE DEF T
    <3>. QED BY <1>3, <1>6, <2>1
  <2>3. ~ (OwedTo(owed, order, c + 1) <= A)
    BY <2>1, <2>2
  <2>4. OwedTo(owed, order, c + 1) <= SumFunction(owed)
    BY <2>1, OwedToIsPart DEF n
  <2>5. OwedTo(owed, order, c + 1) \in Int
    BY <1>1, <2>1, OwedToIs DEF n
  <2>6. SumFunction(owed) \in Int
    BY ConstantsOK, SumBounds
  <2>. QED BY <1>4, <2>3, <2>4, <2>5, <2>6
<1>. QED BY <1>7, <1>8 DEF c, A, n

\* w is s with so much of the escrow of m paid out to traders.
PaidBy(s, w, m, out) ==
  \E N : /\ w = [s EXCEPT !.ledger = N]
         /\ N \in Balanced /\ N.locks = s.ledger.locks
         /\ N.available[m] = s.ledger.available[m] - out
         /\ N.available[m] >= 0
         /\ \A j \in Markets \ {m} : N.available[j] = s.ledger.available[j]
         /\ \A t \in Traders : N.available[t] >= s.ledger.available[t]

\* What the holders get that the escrow covers.
LEMMA CoveredIsPaid ==
  ASSUME NEW s, s.ledger \in Balanced, NEW m \in Markets, s.ledger.available[m] \in Nat,
         NEW owed \in [Traders -> Nat], NEW order \in PayoutOrders,
         NEW k \in 0..Len(order), OwedTo(owed, order, k) <= s.ledger.available[m]
  PROVE  LET paid == SubSeq(order, 1, k)
         IN  paid \in Seq(Traders) /\ PaidBy(s, Paid(s, m, owed, paid), m, OwedTo(owed, order, k))
<1>. DEFINE paid == SubSeq(order, 1, k)
<1>1. order \in Seq(Traders) /\ Len(order) \in Nat
  BY PayoutOrderIs
<1>2. paid \in Seq(Traders) /\ Len(paid) = k /\ \A i \in 1..k : paid[i] = order[i]
  BY <1>1
<1>. HIDE DEF paid
<1>3. OwedTo(owed, paid, Len(paid)) = OwedTo(owed, order, k)
  <2>1. \A i \in 1..k : i \in 1..Len(order) /\ i \in 1..Len(paid)
    BY <1>1, <1>2
  <2>2. Part(Queued(owed, paid), k) = Part(Queued(owed, order), k)
    BY <1>2, <2>1 DEF Part, Queued
  <2>. QED BY <1>2, <2>2 DEF OwedTo
<1>4. PICK N : /\ Paid(s, m, owed, paid) = [s EXCEPT !.ledger = N]
               /\ PaidTo(s.ledger, N, m, owed, paid, Len(paid))
  BY <1>2, PaidOK
<1>5. /\ N \in Balanced /\ N.locks = s.ledger.locks
      /\ N.available[m] = s.ledger.available[m] - OwedTo(owed, order, k)
      /\ \A j \in Markets \ {m} : N.available[j] = s.ledger.available[j]
      /\ \A t \in Traders : N.available[t] >= s.ledger.available[t]
  BY <1>3, <1>4 DEF PaidTo
<1>6. N.available[m] >= 0
  <2>1. OwedTo(owed, order, k) \in Nat
    BY <1>1, OwedToIs
  <2>. QED BY <1>5, <2>1
<1>7. PaidBy(s, Paid(s, m, owed, paid), m, OwedTo(owed, order, k))
  BY <1>4, <1>5, <1>6 DEF PaidBy
<1>. QED BY <1>2, <1>7 DEF paid

-----------------------------------------------------------------------------
(* What the handlers write                                                 *)

LEMMA SameSeqIsSound ==
  ASSUME NEW s, Sound(s), NEW t \in Books, t.seq = s.seq, t.ledger = s.ledger,
         \A j \in Markets : MarketOK(t, j)
  PROVE  Sound(t)
BY DEF Sound

\* A market that is open, with the subsidy in its escrow.
Funded(K, L, m) ==
  /\ L \in Balanced /\ L.locks = K.locks
  /\ L.available[m] = K.available[m] + Subsidy
  /\ \A j \in Markets \ {m} : L.available[j] = K.available[j]
  /\ \A a \in Traders : L.available[a] >= 0

Opens(s, t, m, f, L) ==
  t = [s EXCEPT !.seq = m, !.status[m] = "open", !.sponsor[m] = f, !.ledger = L]

LEMMA OpenedIsSound ==
  ASSUME NEW s, Sound(s), NEW m \in Markets, m = s.seq + 1, NEW f \in Traders \cup {Nobody},
         NEW L, Funded(s.ledger, L, m), NEW t, Opens(s, t, m, f, L)
  PROVE  Sound(t) /\ t.half = s.half
<1>0. /\ L \in Balanced /\ L.locks = s.ledger.locks
      /\ L.available[m] = s.ledger.available[m] + Subsidy
      /\ \A j \in Markets \ {m} : L.available[j] = s.ledger.available[j]
      /\ \A a \in Traders : L.available[a] >= 0
      /\ t = [s EXCEPT !.seq = m, !.status[m] = "open", !.sponsor[m] = f, !.ledger = L]
  BY DEF Funded, Opens
<1>. USE <1>0
<1>1. s \in Books /\ s.seq \in Nat /\ MarketOK(s, m) /\ m <= Cardinality(Markets) /\ m > s.seq
      /\ m \in Nat
  BY BookFields, ConstantsOK DEF Sound
<1>2. s.status[m] = "none" /\ Untouched(s, m) /\ Pledged(s, m)
  BY <1>1 DEF MarketOK
<1>3. /\ t \in Books /\ t.seq = m /\ t.ledger = L
      /\ t.status = [s.status EXCEPT ![m] = "open"] /\ t.sponsor = [s.sponsor EXCEPT ![m] = f]
      /\ t.q = s.q /\ t.round = s.round /\ t.due = s.due /\ t.pending = s.pending
      /\ t.fills = s.fills /\ t.yes = s.yes /\ t.no = s.no /\ t.basis = s.basis /\ t.half = s.half
  BY <1>1 DEF Books, Balanced
<1>4. s.status \in [Markets -> {"none", "open", "resolved", "void"}]
      /\ s.sponsor \in [Markets -> Traders \cup {Nobody}]
  BY <1>1, BookFields
<1>5. \A j \in Markets \ {m} : SameAt(s, t, j)
  BY <1>3, <1>4 DEF SameAt
<1>6. Apart(s, t, m)
  BY <1>1, <1>3, <1>5 DEF Apart
<1>7. Subsidy \in Nat
  BY CostBounds DEF Subsidy
<1>8. \A x \in {"yes", "no", "basis"} :
        SumFunction(IF x = "yes" THEN s.yes[m] ELSE IF x = "no" THEN s.no[m] ELSE s.basis[m]) = 0
  <2>1. /\ s.basis[m] \in [Traders -> Int] /\ s.yes[m] \in [Traders -> Int]
        /\ s.no[m] \in [Traders -> Int] /\ IsFiniteSet(Traders)
    BY <1>1, SumsAreInt, ConstantsOK
  <2>2. \A a \in Traders : s.yes[m][a] = 0 /\ s.no[m][a] = 0 /\ s.basis[m][a] = 0
    BY <1>2 DEF Untouched
  <2>. QED BY <2>1, <2>2, SumZero
<1>9. SumFunction(t.yes[m]) = 0 /\ SumFunction(t.no[m]) = 0 /\ SumFunction(t.basis[m]) = 0
  BY <1>3, <1>8
<1>10. L.available[m] = Subsidy
  BY <1>2, <1>7 DEF Untouched
<1>11. MarketOK(t, m)
  <2>1. Pledged(t, m)
    <3>1. t.pending = s.pending /\ t.ledger.locks = s.ledger.locks
      BY <1>3
    <3>. QED BY ONLY <1>2, <3>1 DEF Pledged
  <2>2. Backed(t, m)
    BY <1>3, <1>7, <1>9, <1>10 DEF Backed
  <2>3. Rounded(t, m)
    <3>1. t.q[m] = 0 /\ t.fills[m] = 0
      BY <1>2, <1>3 DEF Untouched
    <3>2. ExpectedEscrow(t, m) = Unit * 0 + Subsidy
      BY <1>9, <3>1 DEF ExpectedEscrow, Subsidy
    <3>3. Unit * 0 = 0
      BY ConstantsOK
    <3>. QED BY <1>3, <1>7, <1>9, <1>10, <3>1, <3>2, <3>3 DEF Rounded
  <2>4. t.status[m] = "open" /\ ~ (m > t.seq)
    BY <1>1, <1>3, <1>4
  <2>. QED BY <2>1, <2>2, <2>3, <2>4 DEF MarketOK
<1>12. SoundLedger(t.ledger, Parties, Markets) /\ \A a \in Traders \cup {m} : t.ledger.available[a] >= 0
  BY <1>3, <1>7, <1>10 DEF Balanced
<1>13. Sound(t)
  <2>1. Sound(s) /\ t \in Books /\ m \in Markets /\ t.seq <= Cardinality(Markets)
    BY <1>1, <1>3
  <2>. QED BY ONLY <1>6, <1>11, <1>12, <2>1, ApartIsSound
<1>. QED BY <1>3, <1>13

\* A number that was taken and no market made.
LEMMA SkippedIsSound ==
  ASSUME NEW s, Sound(s), NEW m \in Markets, m = s.seq + 1, NEW t, t = [s EXCEPT !.seq = m]
  PROVE  /\ Sound(t) /\ t.half = s.half /\ t.round = s.round /\ t.q = s.q /\ t.pending = s.pending
<1>1. s \in Books /\ s.seq \in Nat /\ m <= Cardinality(Markets) /\ m \in Nat
  BY BookFields, ConstantsOK DEF Sound
<1>2. /\ t \in Books /\ t.seq = m /\ t.ledger = s.ledger /\ t.status = s.status
      /\ t.sponsor = s.sponsor
      /\ t.q = s.q /\ t.round = s.round /\ t.due = s.due /\ t.pending = s.pending
      /\ t.fills = s.fills /\ t.yes = s.yes /\ t.no = s.no /\ t.basis = s.basis /\ t.half = s.half
  BY <1>1 DEF Books
<1>3. s.seq <= t.seq
  BY <1>1, <1>2
<1>4. ASSUME NEW j \in Markets PROVE MarketOK(t, j)
  <2>1. SameAt(s, t, j) /\ MarketOK(s, j)
    BY <1>2 DEF SameAt, Sound
  <2>. QED BY <1>1, <1>2, <1>3, <2>1, SameIsOK
<1>5. Sound(t)
  BY <1>1, <1>2, <1>4 DEF Sound
<1>. QED BY <1>2, <1>5

\* The time of a round has nothing to do with the rest.
Dues(s, t, m, d) == t = [s EXCEPT !.due[m] = d]

LEMMA DueIsSound ==
  ASSUME NEW s, Sound(s), NEW m \in Markets, NEW d \in BOOLEAN, NEW t, Dues(s, t, m, d)
  PROVE  /\ Sound(t) /\ t.half = s.half /\ t.round = s.round /\ t.q = s.q /\ t.pending = s.pending
<1>1. s \in Books /\ s.due \in [Markets -> BOOLEAN]
  BY BookFields DEF Sound
<1>2. /\ t \in Books /\ t.seq = s.seq /\ t.ledger = s.ledger /\ t.status = s.status
      /\ t.sponsor = s.sponsor
      /\ t.q = s.q /\ t.round = s.round /\ t.pending = s.pending
      /\ t.fills = s.fills /\ t.yes = s.yes /\ t.no = s.no /\ t.basis = s.basis /\ t.half = s.half
  BY <1>1 DEF Books, Dues
<1>3. ASSUME NEW j \in Markets PROVE MarketOK(t, j)
  <2>1. MarketOK(s, j)
    BY DEF Sound
  <2>2. Untouched(t, j) <=> Untouched(s, j)
    BY ONLY <1>2 DEF Untouched
  <2>3. Pledged(t, j) <=> Pledged(s, j)
    BY ONLY <1>2 DEF Pledged
  <2>4. Backed(t, j) <=> Backed(s, j)
    BY ONLY <1>2 DEF Backed
  <2>5. Rounded(t, j) <=> Rounded(s, j)
    BY ONLY <1>2 DEF Rounded, ExpectedEscrow
  <2>. QED BY ONLY <1>2, <2>1, <2>2, <2>3, <2>4, <2>5 DEF MarketOK, Open
<1>4. Sound(t)
  BY <1>2, <1>3, SameSeqIsSound
<1>. QED BY <1>2, <1>4

\* A queue without the order at a place, or the queue itself: where its orders
\* come from.
Moved(i, place) == IF place = 0 \/ i < place THEN i ELSE i + 1
TakenOut(r, p, place) ==
  /\ r \in Seq(Order)
  /\ Len(r) = IF place = 0 THEN Len(p) ELSE Len(p) - 1
  /\ \A i \in 1..Len(r) :
       Moved(i, place) \in 1..Len(p) /\ Moved(i, place) # place /\ r[i] = p[Moved(i, place)]
  /\ \A j \in 1..Len(p) : j # place => \E i \in 1..Len(r) : r[i] = p[j]

LEMMA Suffix ==
  ASSUME NEW p \in Seq(Order), NEW k \in 0..Len(p)
  PROVE  LET r == SubSeq(p, k + 1, Len(p))
         IN  /\ r \in Seq(Order) /\ Len(r) = Len(p) - k
             /\ \A i \in 1..(Len(p) - k) : r[i] = p[k + i]
<1>. DEFINE r == SubSeq(p, k + 1, Len(p))
<1>1. Len(p) \in Nat /\ k \in Nat /\ k <= Len(p)
  OBVIOUS
<1>2. r \in Seq(Order)
  OBVIOUS
<1>3. Len(r) = Len(p) - k
  BY <1>1
<1>4. ASSUME NEW i \in 1..(Len(p) - k) PROVE r[i] = p[k + i]
  <2>1. i \in Int /\ i + (k + 1) - 1 = k + i /\ i \in 1..(Len(p) - (k + 1) + 1)
    BY <1>1
  <2>2. r[i] = p[i + (k + 1) - 1]
    BY <1>1, <2>1
  <2>. HIDE DEF r
  <2>. QED BY <2>1, <2>2
<1>. HIDE DEF r
<1>. QED BY <1>2, <1>3, <1>4 DEF r

LEMMA RemoveAtIs ==
  ASSUME NEW p \in Seq(Order), NEW place \in 0..Len(p)
  PROVE  TakenOut(RemoveAt(p, place), p, place)
<1>. DEFINE n == Len(p)
            x == SubSeq(p, 1, place - 1)
            y == SubSeq(p, place + 1, n)
            r == RemoveAt(p, place)
<1>1. n \in Nat /\ DOMAIN p = 1..n /\ place \in Nat /\ place <= n
  OBVIOUS
<1>2. r = x \o y
  BY DEF RemoveAt
<1>3. /\ y \in Seq(Order) /\ Len(y) = n - place
      /\ \A i \in 1..(n - place) : y[i] = p[place + i]
  BY Suffix
<1>4. CASE place = 0
  <2>1. x = <<>>
    BY <1>4
  <2>2. y = p
    BY <1>4
  <2>3. r = p
    <3>. HIDE DEF x, y
    <3>. QED BY <1>2, <2>1, <2>2
  <2>4. \A i \in 1..n : Moved(i, 0) = i /\ i # 0
    BY <1>1 DEF Moved
  <2>. HIDE DEF r
  <2>5. r \in Seq(Order) /\ Len(r) = n
    BY <2>3
  <2>6. \A i \in 1..Len(r) : Moved(i, place) \in 1..n /\ Moved(i, place) # place
                              /\ r[i] = p[Moved(i, place)]
    <3>. HIDE DEF n
    <3>. QED BY <1>4, <2>3, <2>4, <2>5
  <2>7. \A j \in 1..n : j # place => \E i \in 1..Len(r) : r[i] = p[j]
    <3>. HIDE DEF n
    <3>. QED BY <2>3, <2>5
  <2>8. Len(r) = IF place = 0 THEN n ELSE n - 1
    BY <1>4, <2>5
  <2>. QED BY ONLY <2>5, <2>6, <2>7, <2>8 DEF TakenOut, n, r
<1>5. CASE place # 0
  <2>1. x \in Seq(Order) /\ Len(x) = place - 1 /\ \A i \in 1..(place - 1) : x[i] = p[i]
    BY <1>1, <1>5
  <2>. HIDE DEF x, y
  <2>2. r \in Seq(Order) /\ Len(r) = n - 1
    <3>. HIDE DEF r, n
    <3>1. r \in Seq(Order)
      BY <1>2, <1>3, <2>1
    <3>2. Len(r) = Len(x) + Len(y)
      <4>1. x \in Seq(Order) /\ y \in Seq(Order)
        BY <1>3, <2>1
      <4>. QED BY ONLY <1>2, <4>1
    <3>3. Len(r) = (place - 1) + (n - place)
      BY <1>3, <2>1, <3>2
    <3>. QED BY <1>1, <3>1, <3>3
  <2>3. \A i \in 1..(n - 1) : r[i] = IF i < place THEN x[i] ELSE y[i - (place - 1)]
    BY <1>1, <1>2, <1>3, <1>5, <2>1
  <2>. HIDE DEF r, n
  <2>4. ASSUME NEW i \in 1..(n - 1)
        PROVE  Moved(i, place) \in 1..n /\ Moved(i, place) # place /\ r[i] = p[Moved(i, place)]
    <3>1. CASE i < place
      <4>1. i \in 1..(place - 1) /\ i \in 1..n /\ i # place
        BY <1>1, <1>5, <3>1
      <4>. QED BY <2>1, <2>3, <3>1, <4>1 DEF Moved
    <3>2. CASE ~ (i < place)
      <4>1. i - (place - 1) \in 1..(n - place) /\ place + (i - (place - 1)) = i + 1
            /\ i + 1 \in 1..n /\ i + 1 # place
        BY <1>1, <1>5, <3>2
      <4>2. y[i - (place - 1)] = p[i + 1]
        BY <1>3, <4>1
      <4>. QED BY <1>5, <2>3, <3>2, <4>1, <4>2 DEF Moved
    <3>. QED BY <3>1, <3>2
  <2>5. ASSUME NEW j \in 1..n, j # place PROVE \E i \in 1..(n - 1) : r[i] = p[j]
    <3>1. CASE j < place
      <4>1. j \in 1..(n - 1) /\ Moved(j, place) = j
        BY <1>1, <1>5, <3>1 DEF Moved
      <4>. QED BY <2>4, <4>1
    <3>2. CASE j > place
      <4>1. j - 1 \in 1..(n - 1) /\ Moved(j - 1, place) = j
        BY <1>1, <1>5, <3>2 DEF Moved
      <4>. QED BY <2>4, <4>1
    <3>. QED BY <1>1, <2>5, <3>1, <3>2
  <2>6. \A j \in 1..n : j # place => \E i \in 1..Len(r) : r[i] = p[j]
    BY <2>2, <2>5
  <2>7. \A i \in 1..Len(r) :
          Moved(i, place) \in 1..n /\ Moved(i, place) # place /\ r[i] = p[Moved(i, place)]
    BY <2>2, <2>4
  <2>8. Len(r) = IF place = 0 THEN n ELSE n - 1
    BY <1>5, <2>2
  <2>. QED BY ONLY <2>2, <2>6, <2>7, <2>8 DEF TakenOut, n, r
<1>. QED BY <1>4, <1>5

LEMMA MovedOnce ==
  ASSUME NEW place \in Nat, NEW i \in Nat, NEW j \in Nat, i # j
  PROVE  Moved(i, place) # Moved(j, place)
BY DEF Moved

\* The place of a trader's order, and what is locked for it.
LEMMA PlaceOfOK ==
  ASSUME NEW s, Sound(s), NEW m \in Markets, NEW t \in Traders
  PROVE  LET place == PlaceOf(s, m, t)
             p     == s.pending[m]
         IN  /\ p \in Seq(Order) /\ place \in 0..Len(p)
             /\ place # 0 => p[place].trader = t
             /\ \A j \in 1..Len(p) : j # place => p[j].trader # t
             /\ s.ledger.locks[t][m] = IF place = 0 THEN 0 ELSE p[place].budget
<1>. DEFINE p == s.pending[m]
            n == Len(p)
            I == {i \in 1..n : p[i].trader = t}
            place == PlaceOf(s, m, t)
<1>1. s \in Books /\ Pledged(s, m) /\ p \in Seq(Order) /\ SoundLedger(s.ledger, Parties, Markets)
  BY BookFields DEF Sound, MarketOK
<1>2. n \in Nat /\ DOMAIN p = 1..n
  <2>. HIDE DEF p
  <2>. QED BY <1>1
<1>3. place = IF I # {} THEN Min(I) ELSE 0
  BY DEF PlaceOf, SelectInSeq
<1>4. \A i, j \in 1..n : i # j => p[i].trader # p[j].trader
  BY <1>1, <1>2 DEF Pledged
<1>5. t \in Parties /\ s.ledger.locks[t][m] \in Nat
  <2>1. t \in Parties /\ s.ledger.locks \in [Parties -> [Markets -> Nat]]
    BY <1>1, ConstantsOK, SoundFields
  <2>. QED BY <2>1
<1>. HIDE DEF p, n, place
<1>6. CASE I = {}
  <2>1. place = 0 /\ \A j \in 1..n : p[j].trader # t
    <3>. HIDE DEF I
    <3>1. place = 0
      BY <1>3, <1>6
    <3>. QED BY <1>6, <3>1 DEF I
  <2>2. ~ (s.ledger.locks[t][m] > 0)
    BY <1>1, <1>2, <1>5, <2>1 DEF Pledged, p
  <2>3. s.ledger.locks[t][m] = 0
    BY <1>5, <2>2
  <2>. QED BY <1>1, <1>2, <2>1, <2>3 DEF p, n, place
<1>7. CASE I # {}
  <2>1. PICK i \in 1..n : p[i].trader = t
    BY <1>7
  <2>2. I = {i}
    BY <1>4, <2>1
  <2>3. place = i
    <3>1. Min({i}) = i
      BY <1>2 DEF Min
    <3>. HIDE DEF I
    <3>. QED BY <1>3, <1>7, <2>2, <3>1
  <2>4. s.ledger.locks[t][m] = p[i].budget
    BY <1>1, <1>2, <2>1 DEF Pledged, p
  <2>5. i # 0 /\ i \in 0..n
    BY <1>2, <2>1
  <2>6. \A j \in 1..n : j # i => p[j].trader # t
    BY <1>4, <2>1
  <2>. QED BY <1>1, <2>1, <2>3, <2>4, <2>5, <2>6 DEF p, n, place
<1>. QED BY <1>6, <1>7

\* The lock of an order follows its maximum.
LEMMA RelockedOK ==
  ASSUME NEW L \in Balanced, NEW t \in Traders, NEW m \in Markets, NEW old \in Nat, NEW budget \in Nat,
         L.locks[t][m] = old
  PROVE  Lowers(Relocked(L, t, m, old, budget), L, Parties, Markets, t, m, old - budget)
<1>. DEFINE more == budget - old
<1>1. t \in Parties /\ IsFiniteSet(Parties) /\ IsFiniteSet(Markets) /\ more \in Int
      /\ SoundLedger(L, Parties, Markets)
  BY ConstantsOK DEF Balanced
<1>2. CASE more >= 0
  <2>1. Relocked(L, t, m, old, budget) = Freeze(L, t, m, more) /\ more \in Nat /\ old - budget = -more
    BY <1>1, <1>2 DEF Relocked
  <2>. HIDE DEF more
  <2>. QED BY <1>1, <2>1, FreezeLowers
<1>3. CASE ~ (more >= 0)
  <2>1. Relocked(L, t, m, old, budget) = DecreaseLock(L, t, m, -more) /\ -more \in Int
        /\ old - budget = -more /\ -more <= L.locks[t][m]
    BY <1>1, <1>3 DEF Relocked
  <2>. HIDE DEF more
  <2>. QED BY <1>1, <2>1, DecreaseLowers
<1>. QED BY <1>2, <1>3

LEMMA AppendIs ==
  ASSUME NEW r \in Seq(Order), NEW order \in Order
  PROVE  LET e == Append(r, order)
         IN  /\ e \in Seq(Order) /\ DOMAIN e = 1..(Len(r) + 1) /\ Len(r) \in Nat
             /\ \A i \in 1..Len(r) : e[i] = r[i]
             /\ e[Len(r) + 1] = order
OBVIOUS

\* An order that takes the place of the trader's old one.
LEMMA SubmittedIsPledged ==
  ASSUME NEW s, Sound(s), NEW m \in Markets, NEW t \in Traders, NEW order \in Order,
         order.trader = t, NEW L, NEW u, u.ledger = L,
         u.pending[m] = Append(RemoveAt(s.pending[m], PlaceOf(s, m, t)), order),
         \A b \in Parties : L.locks[b][m] = IF b = t THEN order.budget ELSE s.ledger.locks[b][m]
  PROVE  Pledged(u, m)
<1>. DEFINE p == s.pending[m]
            place == PlaceOf(s, m, t)
            r == RemoveAt(p, place)
            e == Append(r, order)
            last == Len(r) + 1
<1>1. /\ p \in Seq(Order) /\ place \in 0..Len(p)
      /\ place # 0 => p[place].trader = t
      /\ \A j \in 1..Len(p) : j # place => p[j].trader # t
  BY PlaceOfOK
<1>2. Pledged(s, m)
  BY DEF Sound, MarketOK
<1>. HIDE DEF p, place
<1>3. TakenOut(r, p, place)
  BY <1>1, RemoveAtIs
<1>. HIDE DEF r
<1>4. /\ r \in Seq(Order)
      /\ \A i \in 1..Len(r) :
           Moved(i, place) \in 1..Len(p) /\ Moved(i, place) # place /\ r[i] = p[Moved(i, place)]
      /\ \A j \in 1..Len(p) : j # place => \E i \in 1..Len(r) : r[i] = p[j]
  BY <1>3 DEF TakenOut
<1>5. /\ e \in Seq(Order) /\ DOMAIN e = 1..last /\ Len(r) \in Nat
      /\ \A i \in 1..Len(r) : e[i] = r[i]
      /\ e[last] = order
  BY <1>4, AppendIs
<1>6. DOMAIN p = 1..Len(p) /\ Len(p) \in Nat /\ \A i \in 1..Len(p) : p[i].trader \in Parties
  <2>1. \A i \in 1..Len(p) : p[i] \in Order
    BY <1>1
  <2>2. \A i \in 1..Len(p) : p[i].trader \in Parties
    BY <2>1, ConstantsOK DEF Order
  <2>. QED BY <1>1, <2>2
<1>7. u.pending[m] = e /\ u.ledger = L
  BY DEF e, r, p, place
<1>. HIDE DEF e
<1>8. \A i \in 1..last : i \in 1..Len(r) \/ i = last
  BY <1>5
<1>9. /\ \A i \in 1..Len(p) : s.ledger.locks[p[i].trader][m] = p[i].budget
      /\ \A i, j \in 1..Len(p) : i # j => p[i].trader # p[j].trader
      /\ \A a \in Parties : s.ledger.locks[a][m] > 0 => \E i \in 1..Len(p) : p[i].trader = a
  BY <1>2, <1>6 DEF Pledged, p
<1>10. \A i \in 1..Len(r) : e[i].trader # t /\ e[i] = p[Moved(i, place)] /\ i \in Nat
  BY <1>1, <1>4, <1>5
<1>11. t \in Parties /\ place \in Nat
  BY <1>1, <1>6, ConstantsOK
<1>12. ASSUME NEW i \in 1..last PROVE L.locks[e[i].trader][m] = e[i].budget
  <2>1. CASE i = last
    BY <1>5, <1>11, <2>1
  <2>2. CASE i \in 1..Len(r)
    <3>1. e[i].trader # t /\ e[i] = p[Moved(i, place)] /\ Moved(i, place) \in 1..Len(p)
      BY <1>4, <1>10, <2>2
    <3>. QED BY <1>6, <1>9, <3>1
  <2>. QED BY <1>8, <2>1, <2>2
<1>13. ASSUME NEW i \in 1..last, NEW j \in 1..last, i # j PROVE e[i].trader # e[j].trader
  <2>1. CASE i \in 1..Len(r) /\ j \in 1..Len(r)
    <3>1. Moved(i, place) # Moved(j, place)
      BY <1>10, <1>11, <1>13, <2>1, MovedOnce
    <3>2. e[i] = p[Moved(i, place)] /\ e[j] = p[Moved(j, place)]
          /\ Moved(i, place) \in 1..Len(p) /\ Moved(j, place) \in 1..Len(p)
      BY <1>4, <1>10, <2>1
    <3>. QED BY <1>9, <3>1, <3>2
  <2>2. CASE i = last /\ j \in 1..Len(r)
    BY <1>5, <1>10, <2>2
  <2>3. CASE i \in 1..Len(r) /\ j = last
    BY <1>5, <1>10, <2>3
  <2>. QED BY <1>8, <1>13, <2>1, <2>2, <2>3
<1>14. ASSUME NEW a \in Parties, L.locks[a][m] > 0 PROVE \E i \in 1..last : e[i].trader = a
  <2>1. last \in 1..last /\ \A i \in 1..Len(r) : i \in 1..last
    BY <1>5
  <2>2. CASE a = t
    BY <1>5, <2>1, <2>2
  <2>3. CASE a # t
    <3>1. s.ledger.locks[a][m] > 0
      BY <1>14, <2>3
    <3>2. PICK j \in 1..Len(p) : p[j].trader = a
      BY <1>9, <3>1
    <3>3. j # place
      BY <1>1, <1>6, <2>3, <3>2
    <3>4. PICK i \in 1..Len(r) : r[i] = p[j]
      BY <1>4, <3>3
    <3>. QED BY <1>5, <2>1, <3>2, <3>4
  <2>. QED BY <2>2, <2>3
<1>. QED BY <1>5, <1>7, <1>12, <1>13, <1>14 DEF Pledged

OldMaximum(s, m, t) ==
  IF PlaceOf(s, m, t) = 0 THEN 0 ELSE s.pending[m][PlaceOf(s, m, t)].budget

Submits(s, u, m, t, order, e, L) ==
  /\ L = Relocked(s.ledger, t, m, OldMaximum(s, m, t), order.budget) /\ L.available[t] >= 0
  /\ e = Append(RemoveAt(s.pending[m], PlaceOf(s, m, t)), order)
  /\ u = [s EXCEPT !.ledger = L, !.orders = @ + 1, !.pending[m] = e]

LEMMA SubmittedIsSound ==
  ASSUME NEW s, Sound(s), NEW m \in Markets, Open(s, m), NEW t \in Traders, NEW order \in Order,
         order.trader = t, OldMaximum(s, m, t) \in Int, NEW L, NEW e, NEW u,
         Submits(s, u, m, t, order, e, L)
  PROVE  Sound(u) /\ u.half = s.half
<1>. DEFINE place == PlaceOf(s, m, t)
            p == s.pending[m]
            old == OldMaximum(s, m, t)
<1>0. /\ L = Relocked(s.ledger, t, m, old, order.budget) /\ L.available[t] >= 0
      /\ e = Append(RemoveAt(s.pending[m], PlaceOf(s, m, t)), order)
      /\ u = [s EXCEPT !.ledger = L, !.orders = @ + 1, !.pending[m] = e]
  BY DEF Submits
<1>. USE <1>0
<1>1. s \in Books /\ SoundLedger(s.ledger, Parties, Markets) /\ MarketOK(s, m)
      /\ s.ledger \in Balanced
  BY BookFields DEF Sound, Balanced
<1>2. p \in Seq(Order) /\ place \in 0..Len(p) /\ s.ledger.locks[t][m] = old /\ old \in Int
  <2>1. old \in Int
    OBVIOUS
  <2>2. Sound(s) /\ m \in Markets /\ t \in Traders
    OBVIOUS
  <2>. QED BY ONLY <2>1, <2>2, PlaceOfOK DEF OldMaximum
<1>. HIDE DEF old
<1>3. order.budget \in Nat /\ t \in Parties /\ m \in Parties /\ t # m /\ t \notin Markets
  BY ConstantsOK DEF Order
<1>4. old \in Nat
  <2>1. s.ledger.locks \in [Parties -> [Markets -> Nat]]
    BY <1>1, SoundFields
  <2>. QED BY <1>2, <1>3, <2>1
<1>5. Lowers(L, s.ledger, Parties, Markets, t, m, old - order.budget)
  BY <1>1, <1>2, <1>3, <1>4, RelockedOK
<1>6. SoundLedger(L, Parties, Markets) /\ L \in Ledgers(Parties, Markets)
  BY <1>5 DEF Lowers, SoundLedger
<1>7. ASSUME NEW b \in Parties, NEW j \in Markets
      PROVE  L.locks[b][j] = IF b = t /\ j = m THEN order.budget ELSE s.ledger.locks[b][j]
  <2>1. L.locks[b][j] = s.ledger.locks[b][j] - IF b = t /\ j = m THEN old - order.budget ELSE 0
    BY <1>5 DEF Lowers
  <2>2. s.ledger.locks[b][j] \in Int
    <3>1. s.ledger.locks \in [Parties -> [Markets -> Nat]]
      BY <1>1, SoundFields
    <3>. QED BY <3>1
  <2>. QED BY <1>2, <1>3, <1>4, <2>1, <2>2
<1>8. ASSUME NEW b \in Parties, b # t PROVE L.available[b] = s.ledger.available[b]
  <2>1. L.available[b] = s.ledger.available[b] + 0
    BY <1>5, <1>8 DEF Lowers
  <2>2. s.ledger.available[b] \in Int
    BY <1>1, SoundFields
  <2>. QED BY <2>1, <2>2
<1>9. e \in Seq(Order)
  <2>1. RemoveAt(p, place) \in Seq(Order)
    BY <1>2, RemoveAtIs DEF TakenOut
  <2>2. e = Append(RemoveAt(p, place), order)
    OBVIOUS
  <2>. HIDE DEF p, place
  <2>. QED BY <2>1, <2>2, AppendIs
<1>10. u = [s EXCEPT !.ledger = L, !.orders = @ + 1, !.pending[m] = e]
  BY DEF Submits
<1>11. /\ u.seq = s.seq /\ u.ledger = L /\ u.orders = s.orders + 1 /\ u.status = s.status
       /\ u.sponsor = s.sponsor
       /\ u.q = s.q /\ u.round = s.round /\ u.due = s.due
       /\ u.pending = [s.pending EXCEPT ![m] = e]
       /\ u.fills = s.fills /\ u.yes = s.yes /\ u.no = s.no /\ u.basis = s.basis /\ u.half = s.half
       /\ u = [ledger |-> u.ledger, seq |-> u.seq, orders |-> u.orders,
               status |-> u.status, sponsor |-> u.sponsor, q |-> u.q, round |-> u.round,
               due |-> u.due, pending |-> u.pending, fills |-> u.fills,
               yes |-> u.yes, no |-> u.no, basis |-> u.basis, half |-> u.half]
  <2>1. s = [ledger |-> s.ledger, seq |-> s.seq, orders |-> s.orders,
             status |-> s.status, sponsor |-> s.sponsor, q |-> s.q, round |-> s.round,
             due |-> s.due, pending |-> s.pending, fills |-> s.fills,
             yes |-> s.yes, no |-> s.no, basis |-> s.basis, half |-> s.half]
    BY <1>1, BookFields
  <2>. QED BY ONLY <1>10, <2>1
<1>12. s.pending \in [Markets -> Seq(Order)] /\ s.orders \in Nat /\ s.seq \in Nat
  BY <1>1, BookFields
<1>13. u \in Books
  <2>1. u.pending \in [Markets -> Seq(Order)] /\ u.orders \in Nat
    BY ONLY <1>9, <1>11, <1>12
  <2>2. u.ledger \in Ledgers(Parties, Markets)
    BY ONLY <1>6, <1>11
  <2>. QED BY ONLY <1>1, <1>11, <2>1, <2>2, BookFields DEF Books
<1>14. u.pending[m] = e /\ \A j \in Markets \ {m} : u.pending[j] = s.pending[j]
  BY ONLY <1>11, <1>12, m \in Markets
<1>15. Pledged(u, m)
  <2>1. \A b \in Parties : L.locks[b][m] = IF b = t THEN order.budget ELSE s.ledger.locks[b][m]
    BY <1>7
  <2>2. u.pending[m] = Append(RemoveAt(s.pending[m], PlaceOf(s, m, t)), order) /\ u.ledger = L
    BY <1>11, <1>14
  <2>3. Sound(s) /\ m \in Markets /\ t \in Traders /\ order \in Order /\ order.trader = t
    OBVIOUS
  <2>. QED BY ONLY <2>1, <2>2, <2>3, SubmittedIsPledged
<1>16. ASSUME NEW j \in Markets, j # m PROVE SameAt(s, u, j)
  <2>1. L.available[j] = s.ledger.available[j] /\ \A a \in Parties : L.locks[a][j] = s.ledger.locks[a][j]
    BY <1>3, <1>7, <1>8, <1>16, ConstantsOK
  <2>. QED BY ONLY <1>11, <1>14, <1>16, <2>1 DEF SameAt
<1>17. Apart(s, u, m)
  <2>1. s.seq <= u.seq
    BY ONLY <1>11, <1>12
  <2>. QED BY <1>16, <2>1 DEF Apart
<1>18. MarketOK(u, m)
  <2>1. L.available[m] = s.ledger.available[m]
    BY <1>3, <1>8
  <2>2. ExpectedEscrow(u, m) = ExpectedEscrow(s, m)
    BY ONLY <1>11 DEF ExpectedEscrow
  <2>3. Open(s, m)
    OBVIOUS
  <2>. QED BY ONLY <1>1, <1>11, <1>15, <2>1, <2>2, <2>3 DEF MarketOK, Open, Backed, Rounded
<1>19. /\ SoundLedger(u.ledger, Parties, Markets) /\ u.seq <= Cardinality(Markets)
       /\ \A a \in Traders \cup {m} : u.ledger.available[a] >= 0
  <2>1. \A b \in Parties : s.ledger.available[b] >= 0
    BY DEF Sound
  <2>2. \A a \in Traders \cup {m} : L.available[a] >= 0
    BY <1>3, <1>8, <2>1, ConstantsOK
  <2>3. s.seq <= Cardinality(Markets)
    BY DEF Sound
  <2>. QED BY ONLY <1>6, <1>11, <2>2, <2>3
<1>20. Sound(u)
  <2>1. Sound(s) /\ m \in Markets
    OBVIOUS
  <2>. QED BY ONLY <1>13, <1>17, <1>18, <1>19, <2>1, ApartIsSound
<1>. QED BY <1>11, <1>20

\* A market whose orders are dropped and whose holders are paid, or some of them.
IsBook(t) ==
  t = [ledger |-> t.ledger, seq |-> t.seq, orders |-> t.orders,
       status |-> t.status, sponsor |-> t.sponsor, q |-> t.q, round |-> t.round,
       due |-> t.due, pending |-> t.pending, fills |-> t.fills,
       yes |-> t.yes, no |-> t.no, basis |-> t.basis, half |-> t.half]
Cash(s, N, m) ==
  /\ N \in Balanced
  /\ \A a \in Traders \cup {m} : N.available[a] >= 0
  /\ \A j \in Markets \ {m} : N.available[j] = s.ledger.available[j]
  /\ \A a \in Parties, j \in Markets : N.locks[a][j] = IF j = m THEN 0 ELSE s.ledger.locks[a][j]
Walked(s, w, m) ==
  /\ w \in Books /\ IsBook(w) /\ Cash(s, w.ledger, m)
  /\ w.pending = [s.pending EXCEPT ![m] = <<>>]
  /\ w.seq = s.seq /\ w.status = s.status /\ w.sponsor = s.sponsor
  /\ w.q = s.q /\ w.round = s.round /\ w.due = s.due /\ w.fills = s.fills /\ w.half = s.half
  /\ \A j \in Markets \ {m} : w.yes[j] = s.yes[j] /\ w.no[j] = s.no[j] /\ w.basis[j] = s.basis[j]

LEMMA PaidOut ==
  ASSUME NEW s, Sound(s), NEW m \in Markets, NEW owed \in [Traders -> Nat], NEW order \in PayoutOrders
  PROVE  LET k == Covered(s, m, owed, order)
             w == Paid(ReleasePending(s, m), m, owed, SubSeq(order, 1, k))
         IN  /\ Walked(s, w, m) /\ w.yes = s.yes /\ w.no = s.no /\ w.basis = s.basis
             /\ SubSeq(order, 1, k) \in Seq(Traders)
             /\ k # Len(order) => SumFunction(owed) > s.ledger.available[m]
<1>. DEFINE k == Covered(s, m, owed, order)
            paid == SubSeq(order, 1, k)
            t == ReleasePending(s, m)
            w == Paid(t, m, owed, paid)
            L == s.ledger
<1>1. s \in Books /\ SoundLedger(L, Parties, Markets) /\ m \in Parties /\ Markets \subseteq Parties
      /\ Traders \subseteq Parties /\ s.pending \in [Markets -> Seq(Order)]
  BY ConstantsOK, BookFields DEF Sound
<1>2. \A a \in Parties : L.available[a] \in Nat
  <2>1. L.available \in [Parties -> Int] /\ \A a \in Parties : L.available[a] >= 0
    BY <1>1, SoundFields DEF Sound
  <2>. HIDE DEF L
  <2>. QED BY <2>1
<1>3. Dropped(s, t, m) /\ Unlocked(L, t.ledger, m)
  BY ReleasePendingOK
<1>. HIDE DEF t
<1>4. t.ledger \in Balanced /\ t.ledger.available[m] = L.available[m] /\ t.ledger.available[m] \in Nat
  BY <1>1, <1>2, <1>3 DEF Unlocked
<1>5. /\ k \in 0..Len(order) /\ OwedTo(owed, order, k) <= L.available[m]
      /\ k # Len(order) => SumFunction(owed) > L.available[m]
  <2>1. L.available[m] \in Nat
    BY <1>1, <1>2
  <2>. QED BY <2>1, CoveredOK
<1>. HIDE DEF k
<1>6. paid \in Seq(Traders) /\ PaidBy(t, w, m, OwedTo(owed, order, k))
  <2>1. OwedTo(owed, order, k) <= t.ledger.available[m]
    BY <1>4, <1>5
  <2>. QED BY <1>4, <1>5, <2>1, CoveredIsPaid
<1>. HIDE DEF paid, w
<1>7. PICK N : /\ w = [t EXCEPT !.ledger = N]
               /\ N \in Balanced /\ N.locks = t.ledger.locks
               /\ N.available[m] >= 0
               /\ \A j \in Markets \ {m} : N.available[j] = t.ledger.available[j]
               /\ \A a \in Traders : N.available[a] >= t.ledger.available[a]
  BY <1>6 DEF PaidBy
<1>8. /\ w.ledger = N /\ IsBook(w)
      /\ w.seq = s.seq /\ w.orders = s.orders /\ w.status = s.status /\ w.sponsor = s.sponsor
      /\ w.q = s.q /\ w.round = s.round /\ w.due = s.due
      /\ w.pending = [s.pending EXCEPT ![m] = <<>>]
      /\ w.fills = s.fills /\ w.yes = s.yes /\ w.no = s.no /\ w.basis = s.basis /\ w.half = s.half
  BY ONLY <1>3, <1>7 DEF Dropped, IsBook
<1>9. w \in Books
  <2>1. w.pending \in [Markets -> Seq(Order)]
    BY <1>1, <1>8
  <2>2. w.ledger \in Ledgers(Parties, Markets)
    BY <1>7, <1>8 DEF Balanced
  <2>. QED BY ONLY <1>1, <1>8, <2>1, <2>2, BookFields DEF Books, IsBook
<1>10. Cash(s, N, m)
  <2>1. \A j \in Markets \ {m} : N.available[j] = L.available[j]
    BY <1>3, <1>7 DEF Unlocked
  <2>2. \A a \in Parties, j \in Markets : N.locks[a][j] = IF j = m THEN 0 ELSE L.locks[a][j]
    BY <1>3, <1>7 DEF Unlocked
  <2>3. \A a \in Traders : N.available[a] >= 0
    <3>1. ASSUME NEW a \in Traders PROVE N.available[a] >= 0
      <4>1. a \in Parties /\ t.ledger.available[a] >= L.available[a] /\ N.available[a] >= t.ledger.available[a]
        BY <1>1, <1>3, <1>7 DEF Unlocked
      <4>2. N.available[a] \in Int /\ t.ledger.available[a] \in Int /\ L.available[a] \in Nat
        <5>1. SoundLedger(N, Parties, Markets) /\ SoundLedger(t.ledger, Parties, Markets)
          BY <1>4, <1>7 DEF Balanced
        <5>2. N.available \in [Parties -> Int] /\ t.ledger.available \in [Parties -> Int]
          BY <5>1, SoundFields
        <5>. QED BY <1>2, <4>1, <5>2
      <4>. HIDE DEF L
      <4>. QED BY <4>1, <4>2
    <3>. QED BY <3>1
  <2>. QED BY <1>7, <2>1, <2>2, <2>3 DEF Cash
<1>11. Walked(s, w, m)
  BY <1>8, <1>9, <1>10 DEF Walked
<1>. QED BY <1>5, <1>6, <1>8, <1>11 DEF k, w, t, paid

\* What the holders have of the market is written after that.
LEMMA SharesAreWalked ==
  ASSUME NEW s, NEW w, NEW m \in Markets, Walked(s, w, m),
         NEW y \in [Traders -> Nat], NEW n \in [Traders -> Nat],
         NEW v, v = [w EXCEPT !.yes[m] = y, !.no[m] = n]
  PROVE  Walked(s, v, m)
<1>1. IsBook(w) /\ w \in Books
  BY DEF Walked
<1>2. /\ v.ledger = w.ledger
      /\ v.seq = w.seq /\ v.orders = w.orders /\ v.status = w.status /\ v.sponsor = w.sponsor
  BY ONLY <1>1, v = [w EXCEPT !.yes[m] = y, !.no[m] = n] DEF IsBook
<1>3. /\ v.q = w.q /\ v.round = w.round /\ v.due = w.due /\ v.pending = w.pending
      /\ v.fills = w.fills /\ v.half = w.half /\ v.basis = w.basis
  BY ONLY <1>1, v = [w EXCEPT !.yes[m] = y, !.no[m] = n] DEF IsBook
<1>4. v.yes = [w.yes EXCEPT ![m] = y] /\ v.no = [w.no EXCEPT ![m] = n]
  BY ONLY <1>1, v = [w EXCEPT !.yes[m] = y, !.no[m] = n] DEF IsBook
<1>5. IsBook(v)
  BY ONLY <1>1, v = [w EXCEPT !.yes[m] = y, !.no[m] = n] DEF IsBook
<1>6. w.yes \in Holdings /\ w.no \in Holdings
  BY <1>1, BookFields
<1>7. v.yes \in Holdings /\ v.no \in Holdings
  BY <1>4, <1>6 DEF Holdings
<1>8. v \in Books
  BY ONLY <1>1, <1>2, <1>3, <1>5, <1>7, BookFields DEF Books, IsBook
<1>9. \A j \in Markets \ {m} : v.yes[j] = w.yes[j] /\ v.no[j] = w.no[j] /\ v.basis[j] = w.basis[j]
  BY <1>3, <1>4, <1>6 DEF Holdings
<1>. QED BY <1>2, <1>3, <1>5, <1>8, <1>9 DEF Walked

LEMMA BasisIsWalked ==
  ASSUME NEW s, NEW w, NEW m \in Markets, Walked(s, w, m), NEW b \in [Traders -> Nat],
         NEW v, v = [w EXCEPT !.basis[m] = b]
  PROVE  Walked(s, v, m)
<1>1. IsBook(w) /\ w \in Books
  BY DEF Walked
<1>2. /\ v.ledger = w.ledger
      /\ v.seq = w.seq /\ v.orders = w.orders /\ v.status = w.status /\ v.sponsor = w.sponsor
  BY ONLY <1>1, v = [w EXCEPT !.basis[m] = b] DEF IsBook
<1>3. /\ v.q = w.q /\ v.round = w.round /\ v.due = w.due /\ v.pending = w.pending
      /\ v.fills = w.fills /\ v.half = w.half /\ v.yes = w.yes /\ v.no = w.no
  BY ONLY <1>1, v = [w EXCEPT !.basis[m] = b] DEF IsBook
<1>4. v.basis = [w.basis EXCEPT ![m] = b]
  BY ONLY <1>1, v = [w EXCEPT !.basis[m] = b] DEF IsBook
<1>5. IsBook(v)
  BY ONLY <1>1, v = [w EXCEPT !.basis[m] = b] DEF IsBook
<1>6. w.basis \in Holdings
  BY <1>1, BookFields
<1>7. v.basis \in Holdings
  BY <1>4, <1>6 DEF Holdings
<1>8. v \in Books
  BY ONLY <1>1, <1>2, <1>3, <1>5, <1>7, BookFields DEF Books, IsBook
<1>9. \A j \in Markets \ {m} : v.yes[j] = w.yes[j] /\ v.no[j] = w.no[j] /\ v.basis[j] = w.basis[j]
  BY <1>3, <1>4, <1>6 DEF Holdings
<1>. QED BY <1>2, <1>3, <1>5, <1>8, <1>9 DEF Walked

\* t is what a walk left, but for the ledger and what concerns the end of m: it
\* has ended, or its payout has stopped half way.
Leaves(w, t, m) ==
  /\ t.seq = w.seq /\ t.q = w.q /\ t.round = w.round /\ t.due = w.due /\ t.pending = w.pending
  /\ t.fills = w.fills /\ t.yes = w.yes /\ t.no = w.no /\ t.basis = w.basis /\ t.sponsor = w.sponsor
  /\ t.status[m] # "none"
  /\ Open(t, m) => "payout" \in t.half[m]
  /\ \A j \in Markets \ {m} : t.status[j] = w.status[j] /\ t.half[j] = w.half[j]

\* Such a market is sound: nothing is pending and nothing is locked for it.
LEMMA SettledIsSound ==
  ASSUME NEW s, Sound(s), NEW m \in Markets, Open(s, m), NEW w, Walked(s, w, m), NEW t \in Books,
         Leaves(w, t, m), Cash(s, t.ledger, m)
  PROVE  Sound(t)
<1>1. s \in Books /\ s.pending \in [Markets -> Seq(Order)] /\ s.seq \in Nat
      /\ s.seq <= Cardinality(Markets) /\ MarketOK(s, m)
  BY BookFields DEF Sound
<1>2. t.pending[m] = <<>> /\ \A j \in Markets \ {m} : t.pending[j] = s.pending[j]
  BY <1>1 DEF Walked, Leaves
<1>3. ASSUME NEW j \in Markets \ {m} PROVE SameAt(s, t, j)
  <2>1. t.ledger.available[j] = s.ledger.available[j]
        /\ \A a \in Parties : t.ledger.locks[a][j] = s.ledger.locks[a][j]
    BY DEF Cash
  <2>. QED BY <1>2, <2>1 DEF SameAt, Walked, Leaves
<1>4. Apart(s, t, m)
  BY <1>1, <1>3 DEF Apart, Walked, Leaves
<1>5. MarketOK(t, m)
  <2>1. Pledged(t, m)
    <3>1. \A a \in Parties : t.ledger.locks[a][m] = 0
      BY DEF Cash
    <3>. QED BY <1>2, <3>1 DEF Pledged
  <2>2. ~ (m > t.seq)
    <3>1. t.seq = s.seq /\ s.status[m] # "none"
      BY DEF Walked, Open, Leaves
    <3>. QED BY <1>1, <3>1 DEF MarketOK
  <2>. QED BY <2>1, <2>2 DEF MarketOK, Leaves
<1>6. /\ SoundLedger(t.ledger, Parties, Markets) /\ t.seq <= Cardinality(Markets)
      /\ \A a \in Traders \cup {m} : t.ledger.available[a] >= 0
  BY <1>1 DEF Cash, Balanced, Walked, Leaves
<1>. QED BY <1>4, <1>5, <1>6, ApartIsSound

LEMMA SweptIsCash ==
  ASSUME NEW s, NEW L, NEW m \in Markets, Cash(s, L, m), NEW f \in Traders \cup {Nobody}
  PROVE  Cash(s, Swept(L, m, f), m)
<1>. DEFINE A == L.available[m]
            N == Swept(L, m, f)
<1>1. SoundLedger(L, Parties, Markets) /\ L \in Balanced /\ m \in Parties
      /\ IsFiniteSet(Parties) /\ IsFiniteSet(Markets) /\ Traders \subseteq Parties
      /\ Markets \subseteq Parties /\ Traders \cap Markets = {}
  BY ConstantsOK DEF Cash, Balanced
<1>2. CASE f = Nobody
  BY <1>2 DEF Swept
<1>3. CASE f # Nobody
  <2>1. f \in Traders /\ f \in Parties /\ f # m /\ N = TransferAvailable(L, m, f, A)
    BY <1>1, <1>3 DEF Swept
  <2>2. \A a \in Parties : L.available[a] \in Int
    <3>1. L.available \in [Parties -> Int]
      BY <1>1, SoundFields
    <3>. QED BY <3>1
  <2>3. A \in Int /\ A >= 0
    BY <1>1, <2>2 DEF Cash
  <2>4. HandsOver(N, L, Parties, Markets, m, f, A)
    <3>. HIDE DEF A
    <3>. QED BY <1>1, <2>1, <2>3, TransferHandsOver
  <2>. HIDE DEF N
  <2>5. N \in Balanced /\ \A a \in Parties, j \in Markets : N.locks[a][j] = L.locks[a][j]
    BY <2>4 DEF HandsOver, Balanced, SoundLedger
  <2>6. \A a \in Parties :
          N.available[a] = L.available[a] - (IF a = m THEN A ELSE 0) + (IF a = f THEN A ELSE 0)
    BY <2>4 DEF HandsOver
  <2>7. ASSUME NEW a \in Traders \cup {m} PROVE N.available[a] >= 0
    <3>1. a \in Parties /\ L.available[a] >= 0 /\ L.available[a] \in Int
          /\ (a = m => L.available[a] = A)
      BY <1>1, <2>2 DEF Cash
    <3>. HIDE DEF A
    <3>. QED BY <2>1, <2>3, <2>6, <3>1
  <2>8. ASSUME NEW j \in Markets \ {m} PROVE N.available[j] = s.ledger.available[j]
    <3>1. j \in Parties /\ j # f /\ L.available[j] = s.ledger.available[j] /\ L.available[j] \in Int
      BY <1>1, <2>1, <2>2 DEF Cash
    <3>. HIDE DEF A
    <3>. QED BY <2>6, <3>1
  <2>9. \A a \in Parties, j \in Markets : N.locks[a][j] = IF j = m THEN 0 ELSE s.ledger.locks[a][j]
    BY <2>5 DEF Cash
  <2>. QED BY <2>5, <2>7, <2>8, <2>9 DEF Cash, N
<1>. QED BY <1>2, <1>3

LEMMA FinishedIsSound ==
  ASSUME NEW s, Sound(s), NEW m \in Markets, Open(s, m), NEW w, Walked(s, w, m),
         NEW status \in {"resolved", "void"}
  PROVE  Sound(Finished(w, m, status)) /\ Finished(w, m, status).half = s.half
<1>. DEFINE t == Finished(w, m, status)
            N == Swept(w.ledger, m, w.sponsor[m])
<1>1. w \in Books /\ IsBook(w) /\ Cash(s, w.ledger, m) /\ w.half = s.half
      /\ w.status \in [Markets -> {"none", "open", "resolved", "void"}]
      /\ w.sponsor[m] \in Traders \cup {Nobody}
  BY BookFields DEF Walked
<1>2. Cash(s, N, m)
  BY <1>1, SweptIsCash
<1>3. t = [w EXCEPT !.status[m] = status, !.ledger = N]
  BY DEF Finished
<1>. HIDE DEF t, N
<1>4. /\ t.ledger = N /\ IsBook(t)
      /\ t.seq = w.seq /\ t.orders = w.orders /\ t.status = [w.status EXCEPT ![m] = status]
      /\ t.sponsor = w.sponsor
      /\ t.q = w.q /\ t.round = w.round /\ t.due = w.due /\ t.pending = w.pending
      /\ t.fills = w.fills /\ t.half = w.half
      /\ t.yes = w.yes /\ t.no = w.no /\ t.basis = w.basis
  BY ONLY <1>1, <1>3 DEF IsBook
<1>5. t \in Books
  <2>1. t.status \in [Markets -> {"none", "open", "resolved", "void"}]
        /\ t.ledger \in Ledgers(Parties, Markets)
    BY <1>1, <1>2, <1>4 DEF Cash, Balanced
  <2>. QED BY ONLY <1>1, <1>4, <2>1, BookFields DEF Books, IsBook
<1>6. t.status[m] = status /\ \A j \in Markets \ {m} : t.status[j] = w.status[j]
  BY <1>1, <1>4
<1>7. Sound(t)
  <2>1. Leaves(w, t, m)
    BY <1>4, <1>6 DEF Leaves, Open
  <2>2. Cash(s, t.ledger, m)
    BY <1>2, <1>4
  <2>. QED BY <1>5, <2>1, <2>2, SettledIsSound
<1>. QED BY <1>1, <1>4, <1>7 DEF t

Stops(w, t, m) == t = [w EXCEPT !.half[m] = @ \cup {"payout"}]

LEMMA StoppedIsSound ==
  ASSUME NEW s, Sound(s), NEW m \in Markets, Open(s, m), NEW w, Walked(s, w, m),
         NEW t, Stops(w, t, m)
  PROVE  Sound(t) /\ t.half = [s.half EXCEPT ![m] = @ \cup {"payout"}]
<1>1. w \in Books /\ IsBook(w) /\ Cash(s, w.ledger, m) /\ w.half = s.half
      /\ w.half \in [Markets -> SUBSET {"round", "payout"}] /\ w.status = s.status
  BY BookFields DEF Walked
<1>2. /\ t.ledger = w.ledger /\ IsBook(t)
      /\ t.seq = w.seq /\ t.orders = w.orders /\ t.status = w.status
      /\ t.sponsor = w.sponsor
      /\ t.q = w.q /\ t.round = w.round /\ t.due = w.due /\ t.pending = w.pending
      /\ t.fills = w.fills /\ t.half = [w.half EXCEPT ![m] = @ \cup {"payout"}]
      /\ t.yes = w.yes /\ t.no = w.no /\ t.basis = w.basis
  BY ONLY <1>1, Stops(w, t, m) DEF IsBook, Stops
<1>3. t \in Books
  <2>1. t.half \in [Markets -> SUBSET {"round", "payout"}]
    BY <1>1, <1>2
  <2>. QED BY ONLY <1>1, <1>2, <2>1, BookFields DEF Books, IsBook
<1>4. "payout" \in t.half[m] /\ \A j \in Markets \ {m} : t.half[j] = w.half[j]
  BY <1>1, <1>2
<1>5. t.status[m] # "none"
  BY <1>1, <1>2 DEF Open
<1>6. Sound(t)
  <2>1. Cash(s, t.ledger, m)
    BY <1>1, <1>2
  <2>2. Leaves(w, t, m)
    BY <1>2, <1>4, <1>5 DEF Leaves
  <2>. QED BY <1>3, <2>1, <2>2, SettledIsSound
<1>. QED BY <1>1, <1>2, <1>6

-----------------------------------------------------------------------------
(* The payouts: they stop half way only by the rounding of the fills       *)

\* What ShortByRounding says of one market.
Short(s, m) ==
  \E outcome \in {"yes", "no"} :
    SumFunction([t \in Traders |-> Owed(s, m, t, outcome)]) - s.ledger.available[m] \in 1..s.fills[m]

LEMMA OwedIs ==
  ASSUME NEW s \in Books, NEW m \in Markets, NEW outcome \in {"yes", "no"}
  PROVE  LET owed == [t \in Traders |-> Owed(s, m, t, outcome)]
         IN  /\ owed \in [Traders -> Nat]
             /\ SumFunction(s.yes[m]) \in Int /\ SumFunction(s.no[m]) \in Int
             /\ SumFunction(owed) =
                  Unit * (IF outcome = "yes" THEN SumFunction(s.yes[m]) ELSE SumFunction(s.no[m]))
<1>. DEFINE owed == [t \in Traders |-> Owed(s, m, t, outcome)]
            Y == s.yes[m]
            N == s.no[m]
            H == IF outcome = "yes" THEN Y ELSE N
<1>1. Y \in [Traders -> Nat] /\ N \in [Traders -> Nat]
  BY BookFields DEF Holdings
<1>2. IsFiniteSet(Traders) /\ Unit \in Nat
  BY ConstantsOK
<1>3. \A t \in Traders : owed[t] = Unit * H[t]
  BY DEF Owed
<1>. HIDE DEF Y, N
<1>4. H \in [Traders -> Nat] /\ H \in [Traders -> Int]
  BY <1>1
<1>. HIDE DEF H
<1>5. \A t \in Traders : Unit * H[t] \in Nat
  <2>1. ASSUME NEW t \in Traders PROVE Unit * H[t] \in Nat
    <3>1. H[t] \in Nat
      BY <1>4
    <3>. QED BY <1>2, <3>1, Products
  <2>. QED BY <2>1
<1>6. owed = [t \in Traders |-> Owed(s, m, t, outcome)]
  OBVIOUS
<1>. HIDE DEF owed
<1>7. DOMAIN owed = Traders /\ owed = [t \in Traders |-> owed[t]]
  BY <1>6
<1>8. owed \in [Traders -> Nat] /\ owed \in [Traders -> Int]
  <2>1. \A t \in Traders : owed[t] \in Nat /\ owed[t] \in Int
    BY <1>3, <1>5
  <2>. QED BY <1>7, <2>1
<1>9. Scales(owed, Unit, H, Traders)
  <2>1. Unit \in Int
    BY <1>2
  <2>. QED BY <1>3, <1>4, <1>8, <2>1 DEF Scales
<1>10. SumFunction(owed) = Unit * SumFunction(H)
  BY <1>2, <1>9, SumScales
<1>11. SumFunction(Y) \in Int /\ SumFunction(N) \in Int
  <2>1. SumFunction(Y) \in Nat /\ SumFunction(N) \in Nat
    BY <1>1, <1>2, SumBounds
  <2>. QED BY <2>1
<1>12. SumFunction(H) = IF outcome = "yes" THEN SumFunction(Y) ELSE SumFunction(N)
  BY DEF H
<1>. QED BY <1>8, <1>10, <1>11, <1>12 DEF owed, Y, N

\* The winners are owed at most what the escrow should have.
LEMMA ShortIsRounding ==
  ASSUME NEW s, Sound(s), NEW m \in Markets, Open(s, m), s.half[m] = {},
         NEW outcome \in {"yes", "no"},
         SumFunction([t \in Traders |-> Owed(s, m, t, outcome)]) > s.ledger.available[m]
  PROVE  Short(s, m)
<1>. DEFINE owed == SumFunction([t \in Traders |-> Owed(s, m, t, outcome)])
            Y == SumFunction(s.yes[m])
            N == SumFunction(s.no[m])
            A == s.ledger.available[m]
            F == s.fills[m]
            q == s.q[m]
            E == ExpectedEscrow(s, m)
<1>1. s \in Books /\ MarketOK(s, m) /\ q \in Int /\ F \in Nat
  BY BookFields DEF Sound
<1>2. E - A \in 0..F /\ Y - N = q
  BY <1>1 DEF MarketOK, Rounded
<1>3. Y \in Int /\ N \in Int /\ owed = Unit * (IF outcome = "yes" THEN Y ELSE N)
  BY <1>1, OwedIs
<1>4. E = Unit * N + Cost(q) /\ Unit \in Int /\ owed > A
  BY ConstantsOK DEF ExpectedEscrow
<1>5. Cost(q) \in Int /\ Cost(q) >= 0 /\ Cost(q) >= Unit * q
  BY <1>1, CostBounds
<1>6. A \in Int
  <2>1. m \in Parties /\ s.ledger.available \in [Parties -> Int]
    BY ConstantsOK, SoundFields DEF Sound
  <2>. QED BY <2>1
<1>. HIDE DEF owed, Y, N, A, F, q, E
<1>7. Unit * N \in Int /\ Unit * q \in Int /\ Unit * (N + q) = Unit * N + Unit * q /\ Y = N + q
  BY <1>1, <1>2, <1>3, <1>4
<1>8. owed \in Int /\ owed <= E
  <2>1. CASE outcome = "yes"
    <3>1. owed = Unit * N + Unit * q
      BY <1>3, <1>7, <2>1
    <3>. QED BY <1>4, <1>5, <1>7, <3>1
  <2>2. CASE outcome = "no"
    <3>1. owed = Unit * N
      BY <1>3, <2>2
    <3>. QED BY <1>4, <1>5, <1>7, <3>1
  <2>. QED BY <2>1, <2>2
<1>9. E \in Int
  BY <1>4, <1>5, <1>7
<1>10. owed - A \in 1..F
  BY <1>1, <1>2, <1>4, <1>6, <1>8, <1>9
<1>. QED BY <1>10 DEF Short, owed, A, F

\* A refund is covered, before any payout has stopped half way.
LEMMA VoidIsCovered ==
  ASSUME NEW s, Sound(s), NEW m \in Markets, Open(s, m), "payout" \notin s.half[m]
  PROVE  ~ (SumFunction(s.basis[m]) > s.ledger.available[m])
<1>1. s.ledger.available[m] = Subsidy + SumFunction(s.basis[m])
  BY DEF Sound, MarketOK, Backed
<1>2. Subsidy \in Int /\ Subsidy >= 0
  BY CostBounds DEF Subsidy
<1>3. SumFunction(s.basis[m]) \in Int
  <2>1. s.basis[m] \in [Traders -> Nat] /\ IsFiniteSet(Traders)
    BY BookFields, ConstantsOK DEF Sound, Holdings
  <2>2. SumFunction(s.basis[m]) \in Nat
    BY <2>1, SumBounds
  <2>. QED BY <2>2
<1>. QED BY <1>1, <1>2, <1>3

\* What is cleared of a holding.
LEMMA ClearedIs ==
  ASSUME NEW h \in [Traders -> Nat], NEW paid
  PROVE  Cleared(h, paid) \in [Traders -> Nat]
BY DEF Cleared

\* resolve, up to where it ends: what it leaves is sound, and if it stops half
\* way it was short by rounding.
Resolved(s, m, owed, paid) ==
  [Paid(ReleasePending(s, m), m, owed, paid) EXCEPT
     !.yes[m] = Cleared(@, paid), !.no[m] = Cleared(@, paid)]

LEMMA ResolvedOK ==
  ASSUME NEW s, Sound(s), NEW m \in Markets, Open(s, m), NEW outcome \in {"yes", "no"},
         NEW order \in PayoutOrders, NEW owed, owed = [t \in Traders |-> Owed(s, m, t, outcome)],
         NEW k, k = Covered(s, m, owed, order)
  PROVE  /\ Walked(s, Resolved(s, m, owed, SubSeq(order, 1, k)), m)
         /\ k # Len(order) /\ s.half[m] = {} => Short(s, m)
<1>. DEFINE paid == SubSeq(order, 1, k)
            w == Paid(ReleasePending(s, m), m, owed, paid)
            y == Cleared(w.yes[m], paid)
            n == Cleared(w.no[m], paid)
            v == [w EXCEPT !.yes[m] = y, !.no[m] = n]
<1>1. s \in Books /\ owed \in [Traders -> Nat]
  BY OwedIs DEF Sound
<1>2. /\ Walked(s, w, m) /\ w.yes = s.yes /\ w.no = s.no
      /\ k # Len(order) => SumFunction(owed) > s.ledger.available[m]
  BY <1>1, PaidOut
<1>3. Resolved(s, m, owed, paid) = v
  BY DEF Resolved
<1>. HIDE DEF w, paid
<1>4. y \in [Traders -> Nat] /\ n \in [Traders -> Nat]
  <2>1. w.yes[m] \in [Traders -> Nat] /\ w.no[m] \in [Traders -> Nat]
    BY <1>1, <1>2, BookFields DEF Holdings
  <2>. QED BY <2>1, ClearedIs
<1>. HIDE DEF y, n
<1>5. Walked(s, v, m)
  BY <1>2, <1>4, SharesAreWalked
<1>6. k # Len(order) /\ s.half[m] = {} => Short(s, m)
  BY <1>2, ShortIsRounding
<1>. QED BY <1>3, <1>5, <1>6 DEF paid

\* void, up to where it ends.
Refunded(s, m, paid) ==
  [Paid(ReleasePending(s, m), m, s.basis[m], paid) EXCEPT !.basis[m] = Cleared(@, paid)]

LEMMA RefundedOK ==
  ASSUME NEW s, Sound(s), NEW m \in Markets, Open(s, m), NEW order \in PayoutOrders,
         NEW k, k = Covered(s, m, s.basis[m], order), NEW nothing \in [Traders -> Nat]
  PROVE  LET v == Refunded(s, m, SubSeq(order, 1, k))
         IN  /\ Walked(s, v, m)
             /\ Walked(s, [v EXCEPT !.yes[m] = nothing, !.no[m] = nothing], m)
             /\ k # Len(order) => "payout" \in s.half[m]
<1>. DEFINE paid == SubSeq(order, 1, k)
            owed == s.basis[m]
            w == Paid(ReleasePending(s, m), m, owed, paid)
            b == Cleared(w.basis[m], paid)
            v == Refunded(s, m, paid)
<1>1. s \in Books /\ owed \in [Traders -> Nat]
  BY BookFields DEF Sound, Holdings
<1>2. /\ Walked(s, w, m) /\ w.basis = s.basis
      /\ k # Len(order) => SumFunction(owed) > s.ledger.available[m]
  <2>. HIDE DEF owed
  <2>1. k = Covered(s, m, owed, order)
    BY DEF owed
  <2>. QED BY <1>1, <2>1, PaidOut
<1>3. v = [w EXCEPT !.basis[m] = b]
  BY DEF Refunded
<1>. HIDE DEF w, paid, v
<1>4. b \in [Traders -> Nat]
  BY <1>1, <1>2, ClearedIs
<1>. HIDE DEF b, owed
<1>5. Walked(s, v, m)
  BY <1>2, <1>3, <1>4, BasisIsWalked
<1>6. Walked(s, [v EXCEPT !.yes[m] = nothing, !.no[m] = nothing], m)
  BY <1>5, SharesAreWalked
<1>7. k # Len(order) => "payout" \in s.half[m]
  BY <1>2, VoidIsCovered DEF owed
<1>. QED BY <1>5, <1>6, <1>7 DEF v, paid

-----------------------------------------------------------------------------
(* The invariant, in memory and on disk                                    *)

\* The rounds of t, as far as they are not left half filled, are those of d.
Published(t, d) ==
  ~ Obstructed(t) =>
    \A m \in Markets : t.half[m] = {} => t.round[m] = d.round[m] /\ t.q[m] = d.q[m]

\* What went on half way is still there in memory: nothing takes it back but a
\* crash.
HalvesStay == \A m \in Markets : disk.half[m] \subseteq live.half[m]

Safe ==
  /\ Sound(live) /\ Sound(disk)
  /\ up \in BOOLEAN /\ crashes \in 0..MaxCrashes
  /\ up \/ live = disk
  /\ HalvesStay
  /\ up => Published(live, disk)

\* What a handler stops half way, it stops for a reason.
Explained(s, t) ==
  \A m \in Markets :
    /\ s.half[m] \subseteq t.half[m]
    /\ "round" \in t.half[m] \ s.half[m] => TwoSided(s, m)
    /\ s.half[m] = {} /\ "payout" \in t.half[m] => Short(s, m)

Reasons == OneSidedRoundsClear /\ ShortByRounding

LEMMA ReasonsAre ==
  ASSUME Explained(live, live')
  PROVE  Reasons
<1>1. OneSidedRoundsClear
  BY DEF Explained, OneSidedRoundsClear, TwoSided
<1>2. ShortByRounding
  BY DEF Explained, ShortByRounding, Short
<1>. QED BY <1>1, <1>2 DEF Reasons

LEMMA SameIsExplained ==
  ASSUME NEW s, NEW t, t.half = s.half
  PROVE  Explained(s, t)
BY DEF Explained

LEMMA HalvesFollow ==
  ASSUME NEW s, NEW t, NEW d, Explained(s, t), \A m \in Markets : d.half[m] \subseteq s.half[m]
  PROVE  \A m \in Markets : d.half[m] \subseteq t.half[m]
BY DEF Explained

\* A step that saves, and one that does not.
LEMMA SavedStep ==
  ASSUME Sound(live'), Explained(live, live'), Saved, up' = TRUE, crashes' \in 0..MaxCrashes
  PROVE  Safe' /\ Reasons
<1>1. disk' = live'
  BY DEF Saved
<1>2. HalvesStay'
  BY <1>1 DEF HalvesStay
<1>3. Published(live', disk')
  BY <1>1 DEF Published
<1>4. Sound(disk')
  BY <1>1
<1>. QED BY <1>2, <1>3, <1>4, ReasonsAre DEF Safe

LEMMA UnsavedStep ==
  ASSUME Safe, Sound(live'), Explained(live, live'), disk' = disk, up' = TRUE,
         crashes' \in 0..MaxCrashes, Published(live', disk)
  PROVE  Safe' /\ Reasons
<1>1. HalvesStay'
  <2>1. \A m \in Markets : disk.half[m] \subseteq live.half[m]
    BY DEF Safe, HalvesStay
  <2>2. \A m \in Markets : disk.half[m] \subseteq (live').half[m]
    BY <2>1, HalvesFollow
  <2>. QED BY <2>2 DEF HalvesStay
<1>2. Sound(disk') /\ Published(live', disk')
  BY DEF Safe
<1>. QED BY <1>1, <1>2, ReasonsAre DEF Safe

\* Where nothing of the rounds changes, what is published stays so.
LEMMA SameIsPublished ==
  ASSUME NEW s, NEW t, NEW d, Published(s, d), t.half = s.half, t.round = s.round, t.q = s.q,
         t.pending = s.pending
  PROVE  Published(t, d)
<1>1. Obstructed(t) <=> Obstructed(s)
  BY DEF Obstructed, Poisoned
<1>. QED BY <1>1 DEF Published

LEMMA BlankIsSound == Sound(Blank)
<1>. DEFINE L == Blank.ledger
            e == EmptyLedger(Parties, Markets)
            f == [a \in Parties |-> IF a \in Traders THEN Funds ELSE 0]
            none == [m \in Markets |-> [t \in Traders |-> 0]]
<1>1. /\ IsFiniteSet(Parties) /\ IsFiniteSet(Markets) /\ IsFiniteSet(Traders) /\ Funds \in Nat
      /\ Markets \subseteq Parties /\ Traders \cap Markets = {} /\ Cardinality(Markets) \in Nat
  BY ConstantsOK
<1>2. e \in Ledgers(Parties, Markets) /\ FrozenMatchesLocks(e)
  BY <1>1, EmptyLedgerIsSound
<1>3. L = [e EXCEPT !.available = f]
  BY DEF Blank
<1>4. L.available = f /\ L.locks = e.locks /\ L.frozen = e.frozen /\ L \in Ledgers(Parties, Markets)
  <2>1. f \in [Parties -> Int]
    BY <1>1
  <2>. HIDE DEF e, f
  <2>. QED BY <1>2, <1>3, <2>1 DEF Ledgers
<1>5. SoundLedger(L, Parties, Markets)
  <2>1. FrozenMatchesLocks(L)
    <3>1. Matches(e.frozen, e.locks)
      BY <1>2, MatchesFields
    <3>. HIDE DEF e, L
    <3>. QED BY <1>4, <3>1, MatchesFields
  <2>. QED BY <1>4, <2>1 DEF SoundLedger
<1>6. \A a \in Parties, m \in Markets : L.locks[a][m] = 0
  BY <1>4 DEF EmptyLedger
<1>7. /\ Blank.seq = 0 /\ Blank.status = [m \in Markets |-> "none"]
      /\ Blank.q = [m \in Markets |-> 0] /\ Blank.pending = [m \in Markets |-> <<>>]
      /\ Blank.fills = [m \in Markets |-> 0]
      /\ Blank.yes = none /\ Blank.no = none /\ Blank.basis = none
      /\ Blank.half = [m \in Markets |-> {}]
  BY DEF Blank
<1>8. Blank \in Books
  <2>1. /\ none \in Holdings /\ Blank.sponsor \in [Markets -> Traders \cup {Nobody}]
        /\ Blank.round \in [Markets -> Nat] /\ Blank.due \in [Markets -> BOOLEAN]
        /\ Blank.orders \in Nat
    BY DEF Holdings, Blank
  <2>2. /\ Blank.status \in [Markets -> {"none", "open", "resolved", "void"}]
        /\ Blank.q \in [Markets -> Int] /\ Blank.fills \in [Markets -> Nat]
        /\ Blank.half \in [Markets -> SUBSET {"round", "payout"}]
    BY <1>7
  <2>3. Blank.pending \in [Markets -> Seq(Order)]
    BY <1>7
  <2>4. IsBook(Blank)
    BY DEF Blank, IsBook
  <2>5. Blank.seq \in Nat /\ Blank.ledger \in Ledgers(Parties, Markets)
    BY <1>4, <1>7
  <2>6. Blank.yes \in Holdings /\ Blank.no \in Holdings /\ Blank.basis \in Holdings
    BY <1>7, <2>1
  <2>. HIDE DEF none, L
  <2>. QED BY ONLY <2>1, <2>2, <2>3, <2>4, <2>5, <2>6 DEF Books, IsBook
<1>9. ASSUME NEW m \in Markets PROVE MarketOK(Blank, m)
  <2>1. Untouched(Blank, m)
    <3>1. L.available[m] = 0
      BY <1>1, <1>4
    <3>. QED BY <1>7, <3>1 DEF Untouched
  <2>2. Pledged(Blank, m)
    <3>1. Blank.pending[m] = <<>> /\ \A a \in Parties : Blank.ledger.locks[a][m] = 0
      BY <1>6, <1>7
    <3>. QED BY <3>1 DEF Pledged
  <2>3. Blank.status[m] = "none"
    BY <1>7
  <2>. QED BY <2>1, <2>2, <2>3 DEF MarketOK, Open
<1>10. \A a \in Parties : L.available[a] >= 0
  BY <1>1, <1>4
<1>. QED BY <1>1, <1>5, <1>7, <1>8, <1>9, <1>10 DEF Sound

LEMMA InitSafe == Init => Safe
<1>. SUFFICES ASSUME Init PROVE Safe
  OBVIOUS
<1>1. live = disk /\ Sound(live) /\ up = TRUE /\ crashes = 0
  BY BlankIsSound DEF Init
<1>2. MaxCrashes \in Nat
  BY BatchRoundAssumption
<1>. QED BY <1>1, <1>2 DEF Safe, HalvesStay, Published

-----------------------------------------------------------------------------
(* The handlers                                                            *)

LEMMA SafeIs ==
  ASSUME Safe
  PROVE  /\ Sound(live) /\ Sound(disk) /\ live \in Books /\ disk \in Books
         /\ live.ledger \in Balanced /\ live.seq \in Nat
BY BookFields DEF Safe, Sound, Balanced

LEMMA CreateMarketSafe ==
  ASSUME Safe, NEW m \in Markets, NEW f \in Traders \cup {Nobody}, CreateMarket(m, f)
  PROVE  Safe' /\ Reasons
<1>. DEFINE L == live.ledger
<1>1. Sound(live) /\ live \in Books /\ L \in Balanced /\ m = live.seq + 1
      /\ up = TRUE /\ up' = TRUE /\ crashes' \in 0..MaxCrashes
  BY SafeIs DEF Safe, CreateMarket
<1>2. /\ IsFiniteSet(Parties) /\ IsFiniteSet(Markets) /\ m \in Parties
      /\ Traders \subseteq Parties /\ Markets \subseteq Parties /\ Traders \cap Markets = {}
      /\ Nobody \notin Traders
  BY ConstantsOK
<1>3. SoundLedger(L, Parties, Markets) /\ L.available \in [Parties -> Int]
      /\ \A a \in Parties : L.available[a] >= 0
  BY <1>1, SoundFields DEF Sound
<1>4. Subsidy \in Int /\ Subsidy >= 0
  BY CostBounds DEF Subsidy
<1>5. CASE f = Nobody
  <2>. DEFINE N == Mint(L, m, Subsidy)
  <2>1. live' = [live EXCEPT !.seq = m, !.status[m] = "open", !.sponsor[m] = f, !.ledger = N] /\ Saved
    BY <1>5 DEF CreateMarket
  <2>2. SoundLedger(N, Parties, Markets)
    <3>. HIDE DEF L
    <3>. QED BY <1>2, <1>3, <1>4, MintIsSound
  <2>3. N.locks = L.locks /\ N.available = [L.available EXCEPT ![m] = @ + Subsidy]
    <3>1. L \in Ledgers(Parties, Markets)
      BY <1>3, SoundFields
    <3>. HIDE DEF L
    <3>. QED BY <3>1 DEF Mint, Ledgers
  <2>. HIDE DEF N
  <2>4. N \in Balanced
    BY <2>2 DEF Balanced, SoundLedger
  <2>5. /\ N.available[m] = L.available[m] + Subsidy
        /\ \A j \in Markets \ {m} : N.available[j] = L.available[j]
        /\ \A a \in Traders : N.available[a] >= 0
    <3>. HIDE DEF L
    <3>. QED BY <1>2, <1>3, <2>3
  <2>6. Sound(live') /\ (live').half = live.half
    <3>1. Funded(L, N, m)
      BY <2>3, <2>4, <2>5 DEF Funded
    <3>2. Opens(live, live', m, f, N)
      BY <2>1 DEF Opens
    <3>3. Sound(live) /\ m \in Markets /\ m = live.seq + 1 /\ f \in Traders \cup {Nobody}
          /\ Funded(live.ledger, N, m)
      BY <1>1, <3>1
    <3>. HIDE DEF L
    <3>. QED BY ONLY <3>2, <3>3, OpenedIsSound
  <2>7. Explained(live, live')
    BY <2>6, SameIsExplained
  <2>. QED BY <1>1, <2>1, <2>6, <2>7, SavedStep
<1>6. CASE f # Nobody /\ CanPay(L, f, Subsidy)
  <2>. DEFINE N == TransferAvailable(L, f, m, Subsidy)
  <2>1. live' = [live EXCEPT !.seq = m, !.status[m] = "open", !.sponsor[m] = f, !.ledger = N] /\ Saved
    BY <1>6 DEF CreateMarket
  <2>2. f \in Traders /\ f \in Parties /\ f # m /\ L.available[f] >= Subsidy
    BY <1>2, <1>6 DEF CanPay
  <2>3. HandsOver(N, L, Parties, Markets, f, m, Subsidy)
    <3>. HIDE DEF L
    <3>. QED BY <1>2, <1>3, <1>4, <2>2, TransferHandsOver
  <2>. HIDE DEF N
  <2>4. N \in Balanced /\ N.locks = L.locks
    BY <2>3 DEF HandsOver, Balanced, SoundLedger
  <2>5. \A a \in Parties : N.available[a] =
          L.available[a] - (IF a = f THEN Subsidy ELSE 0) + (IF a = m THEN Subsidy ELSE 0)
    BY <2>3 DEF HandsOver
  <2>6. \A a \in Parties : L.available[a] \in Int
    BY <1>3
  <2>7. N.available[m] = L.available[m] + Subsidy
    <3>. HIDE DEF L
    <3>. QED BY <1>2, <1>4, <2>2, <2>5, <2>6
  <2>8. \A j \in Markets \ {m} : N.available[j] = L.available[j]
    <3>1. ASSUME NEW j \in Markets \ {m} PROVE N.available[j] = L.available[j]
      <4>1. j \in Parties /\ j # f /\ j # m
        BY <1>2, <2>2
      <4>. HIDE DEF L
      <4>. QED BY <2>5, <2>6, <4>1
    <3>. QED BY <3>1
  <2>9. \A a \in Traders : N.available[a] >= 0
    <3>1. ASSUME NEW a \in Traders PROVE N.available[a] >= 0
      <4>1. a \in Parties /\ a # m
        BY <1>2
      <4>. HIDE DEF L
      <4>. QED BY <1>3, <1>4, <2>2, <2>5, <2>6, <4>1
    <3>. QED BY <3>1
  <2>10. Sound(live') /\ (live').half = live.half
    <3>1. Funded(L, N, m)
      BY <2>4, <2>7, <2>8, <2>9 DEF Funded
    <3>2. Opens(live, live', m, f, N)
      BY <2>1 DEF Opens
    <3>3. Sound(live) /\ m \in Markets /\ m = live.seq + 1 /\ f \in Traders \cup {Nobody}
          /\ Funded(live.ledger, N, m)
      BY <1>1, <3>1
    <3>. HIDE DEF L
    <3>. QED BY ONLY <3>2, <3>3, OpenedIsSound
  <2>11. Explained(live, live')
    BY <2>10, SameIsExplained
  <2>. QED BY <1>1, <2>1, <2>10, <2>11, SavedStep
<1>7. CASE f # Nobody /\ ~ CanPay(L, f, Subsidy)
  <2>1. live' = [live EXCEPT !.seq = m] /\ disk' = disk
    BY <1>7 DEF CreateMarket
  <2>2. /\ Sound(live') /\ (live').half = live.half /\ (live').round = live.round
        /\ (live').q = live.q /\ (live').pending = live.pending
    BY <1>1, <2>1, SkippedIsSound
  <2>3. Explained(live, live')
    BY <2>2, SameIsExplained
  <2>4. Published(live', disk)
    <3>1. Published(live, disk)
      BY <1>1 DEF Safe
    <3>. QED BY <2>2, <3>1, SameIsPublished
  <2>. QED BY <1>1, <2>1, <2>2, <2>3, <2>4, UnsavedStep
<1>. QED BY <1>5, <1>6, <1>7

LEMMA SubmitOrderSafe ==
  ASSUME Safe, NEW m \in Markets, NEW t \in Traders, NEW r \in Requests[t][m], SubmitOrder(t, m, r)
  PROVE  Safe' /\ Reasons
<1>. DEFINE place == PlaceOf(live, m, t)
            old == OldMaximum(live, m, t)
            N == Relocked(live.ledger, t, m, old, r.budget)
            order == [trader |-> t, target |-> r.target, budget |-> r.budget]
            e == Append(RemoveAt(live.pending[m], place), order)
<1>1. /\ up' = TRUE /\ crashes' \in 0..MaxCrashes /\ Open(live, m) /\ Saved
      /\ N.available[t] >= 0
      /\ live' = [live EXCEPT !.ledger = N, !.orders = @ + 1, !.pending[m] = e]
  BY DEF Safe, SubmitOrder, OldMaximum
<1>2. order \in Order /\ order.trader = t /\ order.budget = r.budget
  <2>1. r \in [target : Int \cup {Unquotable}, budget : Nat \ {0}]
    BY BatchRoundAssumption
  <2>. QED BY <2>1 DEF Order
<1>3. old \in Int
  <2>1. live.pending[m] \in Seq(Order) /\ place \in 0..Len(live.pending[m])
    BY SafeIs, PlaceOfOK
  <2>2. place # 0 => live.pending[m][place] \in Order
    <3>. DEFINE p == live.pending[m]
    <3>1. DOMAIN p = 1..Len(p) /\ Len(p) \in Nat /\ \A i \in 1..Len(p) : p[i] \in Order
      <4>1. p \in Seq(Order)
        BY <2>1
      <4>. HIDE DEF p
      <4>. QED BY <4>1
    <3>. HIDE DEF place
    <3>. QED BY <2>1, <3>1
  <2>. QED BY <2>2 DEF OldMaximum, Order
<1>4. Sound(live') /\ (live').half = live.half
  <2>1. Submits(live, live', m, t, order, e, N)
    BY <1>1, <1>2 DEF Submits
  <2>2. /\ Sound(live) /\ m \in Markets /\ t \in Traders /\ Open(live, m)
        /\ order \in Order /\ order.trader = t /\ OldMaximum(live, m, t) \in Int
    BY <1>1, <1>2, <1>3, SafeIs
  <2>. HIDE DEF order, N, e
  <2>. QED BY ONLY <2>1, <2>2, SubmittedIsSound
<1>5. Explained(live, live')
  BY <1>4, SameIsExplained
<1>. QED BY <1>1, <1>4, <1>5, SavedStep

LEMMA RoundIsExplained ==
  ASSUME NEW s, NEW m \in Markets, NEW r, RoundOK(s, m, r)
  PROVE  Explained(s, r.state)
<1>1. ASSUME NEW j \in Markets
      PROVE  /\ s.half[j] \subseteq r.state.half[j]
             /\ "round" \in r.state.half[j] \ s.half[j] => TwoSided(s, j)
             /\ s.half[j] = {} /\ "payout" \in r.state.half[j] => Short(s, j)
  <2>1. CASE j = m
    <3>1. /\ s.half[m] \subseteq r.state.half[m]
          /\ r.state.half[m] \subseteq s.half[m] \cup {"round"}
          /\ "round" \in r.state.half[m] \ s.half[m] => TwoSided(s, m)
      BY DEF RoundOK
    <3>2. "payout" # "round"
      OBVIOUS
    <3>. QED BY <2>1, <3>1, <3>2
  <2>2. CASE j # m
    <3>1. r.state.half[j] = s.half[j]
      BY <2>2 DEF RoundOK, SameOthers, SameAt
    <3>. QED BY <3>1
  <2>. QED BY <2>1, <2>2
<1>. QED BY <1>1 DEF Explained

\* A round that is refused leaves something half done, and the others as they were.
LEMMA RefusedIsPublished ==
  ASSUME NEW s, NEW m \in Markets, NEW r, RoundOK(s, m, r), r.end = "refused",
         NEW d, Published(s, d)
  PROVE  Published(r.state, d)
<1>. DEFINE t == r.state
<1>1. /\ t.half[m] # {} /\ ~ PoisonedAt(s, m) /\ s.half[m] \subseteq t.half[m]
      /\ \A j \in Markets \ {m} : SameAt(s, t, j)
  BY DEF RoundOK, SameOthers
<1>. HIDE DEF t
<1>2. ASSUME ~ Obstructed(t) PROVE ~ Obstructed(s)
  <2>1. ASSUME NEW j \in Markets PROVE ~ PoisonedAt(s, j) /\ "payout" \notin s.half[j]
    <3>1. ~ PoisonedAt(t, j) /\ "payout" \notin t.half[j]
      BY <1>2, PoisonedIs DEF Obstructed
    <3>2. CASE j = m
      BY <1>1, <3>1, <3>2
    <3>3. CASE j # m
      <4>1. SameAt(s, t, j)
        BY <1>1, <3>3
      <4>. QED BY <3>1, <4>1, SameKeeps
    <3>. QED BY <3>2, <3>3
  <2>. QED BY <2>1, PoisonedIs DEF Obstructed
<1>3. ASSUME ~ Obstructed(t), NEW j \in Markets, t.half[j] = {}
      PROVE  t.round[j] = d.round[j] /\ t.q[j] = d.q[j]
  <2>1. j # m
    BY <1>1, <1>3
  <2>2. SameAt(s, t, j)
    BY <1>1, <2>1
  <2>3. s.half[j] = {} /\ t.round[j] = s.round[j] /\ t.q[j] = s.q[j]
    BY <1>3, <2>2 DEF SameAt
  <2>4. ~ Obstructed(s)
    BY <1>2, <1>3
  <2>. QED BY <2>3, <2>4 DEF Published
<1>. QED BY <1>3 DEF Published, t

LEMMA CloseByHandSafe ==
  ASSUME Safe, NEW m \in Markets, CloseByHand(m)
  PROVE  Safe' /\ Reasons
<1>. DEFINE r == CloseRound(live, m)
<1>1. /\ up = TRUE /\ up' = TRUE /\ crashes' \in 0..MaxCrashes /\ Open(live, m)
      /\ live' = r.state /\ IF r.end = "closed" THEN Saved ELSE disk' = disk
  BY DEF Safe, CloseByHand
<1>2. RoundOK(live, m, r)
  BY <1>1, SafeIs, CloseRoundOK
<1>. HIDE DEF r
<1>3. Sound(live') /\ Explained(live, live')
  BY <1>1, <1>2, RoundIsExplained DEF RoundOK
<1>4. r.end \in {"closed", "refused", "broken"}
  BY <1>2 DEF RoundOK, Rounds
<1>5. CASE r.end = "closed"
  BY <1>1, <1>3, <1>5, SavedStep
<1>6. CASE r.end # "closed"
  <2>1. disk' = disk /\ Published(live, disk)
    BY <1>1, <1>6 DEF Safe
  <2>2. Published(live', disk)
    <3>1. CASE r.end = "refused"
      <4>1. Published(r.state, disk)
        BY <1>2, <2>1, <3>1, RefusedIsPublished
      <4>. QED BY <1>1, <4>1
    <3>2. CASE r.end = "broken"
      <4>1. live' = live
        BY <1>1, <1>2, <3>2 DEF RoundOK
      <4>. QED BY <2>1, <4>1
    <3>. QED BY <1>4, <1>6, <3>1, <3>2
  <2>. QED BY <1>1, <1>3, <2>1, <2>2, UnsavedStep
<1>. QED BY <1>5, <1>6

\* The end of a walk, complete or not.
LEMMA SettleSafe ==
  ASSUME Safe, NEW m \in Markets, NEW walked, NEW complete, NEW status \in {"resolved", "void"},
         Walked(live, walked, m), complete \/ live.half[m] # {} \/ Short(live, m),
         Settle(m, walked, complete, status)
  PROVE  Safe' /\ Reasons
<1>1. up' = TRUE /\ crashes' \in 0..MaxCrashes /\ Open(live, m) /\ Sound(live) /\ live \in Books
  BY SafeIs DEF Safe, Settle
<1>2. CASE complete
  <2>1. live' = Finished(walked, m, status) /\ Saved
    BY <1>2 DEF Settle
  <2>2. Sound(live') /\ (live').half = live.half
    BY <1>1, <2>1, FinishedIsSound
  <2>3. Explained(live, live')
    BY <2>2, SameIsExplained
  <2>. QED BY <1>1, <2>1, <2>2, <2>3, SavedStep
<1>3. CASE ~ complete
  <2>1. live' = [walked EXCEPT !.half[m] = @ \cup {"payout"}] /\ disk' = disk
    BY <1>3 DEF Settle
  <2>2. Sound(live') /\ (live').half = [live.half EXCEPT ![m] = @ \cup {"payout"}]
    <3>1. Open(live, m) /\ Sound(live) /\ m \in Markets /\ Walked(live, walked, m)
      BY <1>1
    <3>2. Stops(walked, live', m)
      BY <2>1 DEF Stops
    <3>. QED BY ONLY <3>1, <3>2, StoppedIsSound
  <2>3. live.half \in [Markets -> SUBSET {"round", "payout"}]
    BY <1>1, BookFields
  <2>4. Explained(live, live')
    <3>1. ASSUME NEW j \in Markets
          PROVE  /\ live.half[j] \subseteq (live').half[j]
                 /\ "round" \in (live').half[j] \ live.half[j] => TwoSided(live, j)
                 /\ live.half[j] = {} /\ "payout" \in (live').half[j] => Short(live, j)
      <4>1. CASE j = m
        <5>1. (live').half[m] = live.half[m] \cup {"payout"} /\ "round" # "payout"
          BY <2>2, <2>3
        <5>. QED BY <1>3, <4>1, <5>1
      <4>2. CASE j # m
        <5>1. (live').half[j] = live.half[j]
          BY <2>2, <2>3, <4>2
        <5>. QED BY <5>1
      <4>. QED BY <4>1, <4>2
    <3>. QED BY <3>1 DEF Explained
  <2>5. Published(live', disk)
    <3>1. "payout" \in (live').half[m]
      BY <2>2, <2>3
    <3>. QED BY <3>1 DEF Published, Obstructed
  <2>. QED BY <1>1, <2>1, <2>2, <2>4, <2>5, UnsavedStep
<1>. QED BY <1>2, <1>3

LEMMA ResolveSafe ==
  ASSUME Safe, NEW m \in Markets, NEW outcome \in {"yes", "no"}, NEW order \in PayoutOrders,
         Resolve(m, outcome, order)
  PROVE  Safe' /\ Reasons
<1>. DEFINE owed == [t \in Traders |-> Owed(live, m, t, outcome)]
            k == Covered(live, m, owed, order)
            walked == Resolved(live, m, owed, SubSeq(order, 1, k))
<1>1. Settle(m, walked, k = Len(order), "resolved")
  BY DEF Resolve, Resolved
<1>2. Open(live, m) /\ Sound(live)
  BY <1>1, SafeIs DEF Settle
<1>3. Walked(live, walked, m) /\ (k # Len(order) /\ live.half[m] = {} => Short(live, m))
  <2>1. owed = [t \in Traders |-> Owed(live, m, t, outcome)]
    OBVIOUS
  <2>. HIDE DEF owed
  <2>2. k = Covered(live, m, owed, order)
    OBVIOUS
  <2>. HIDE DEF k
  <2>. QED BY <1>2, <2>1, <2>2, ResolvedOK
<1>. HIDE DEF walked, k
<1>4. (k = Len(order)) \/ live.half[m] # {} \/ Short(live, m)
  BY <1>3
<1>. DEFINE complete == k = Len(order)
<1>5. Settle(m, walked, complete, "resolved") /\ (complete \/ live.half[m] # {} \/ Short(live, m))
  BY <1>1, <1>4
<1>. HIDE DEF complete
<1>. QED BY <1>3, <1>5, SettleSafe

LEMMA VoidSafe ==
  ASSUME Safe, NEW m \in Markets, NEW order \in PayoutOrders, Void(m, order)
  PROVE  Safe' /\ Reasons
<1>. DEFINE k == Covered(live, m, live.basis[m], order)
            nothing == [t \in Traders |-> 0]
            refunded == Refunded(live, m, SubSeq(order, 1, k))
            emptied == [refunded EXCEPT !.yes[m] = nothing, !.no[m] = nothing]
<1>1. IF k = Len(order) THEN Settle(m, emptied, TRUE, "void") ELSE Settle(m, refunded, FALSE, "void")
  BY DEF Void, Refunded
<1>2. Open(live, m) /\ Sound(live)
  <2>. HIDE DEF k, emptied, refunded
  <2>. QED BY <1>1, SafeIs DEF Settle
<1>3. /\ Walked(live, refunded, m) /\ Walked(live, emptied, m)
      /\ k # Len(order) => "payout" \in live.half[m]
  <2>1. nothing \in [Traders -> Nat]
    OBVIOUS
  <2>. HIDE DEF nothing
  <2>2. k = Covered(live, m, live.basis[m], order)
    OBVIOUS
  <2>. HIDE DEF k
  <2>. QED BY <1>2, <2>1, <2>2, RefundedOK
<1>. HIDE DEF refunded, emptied, k
<1>4. CASE k = Len(order)
  <2>1. Settle(m, emptied, TRUE, "void")
    BY <1>1, <1>4
  <2>. QED BY <1>3, <2>1, SettleSafe
<1>5. CASE k # Len(order)
  <2>1. Settle(m, refunded, FALSE, "void") /\ live.half[m] # {}
    BY <1>1, <1>3, <1>5
  <2>. QED BY <1>3, <2>1, SettleSafe
<1>. QED BY <1>4, <1>5

-----------------------------------------------------------------------------
(* The reconcile loop, crashes and restarts                                *)

LEMMA PassIsExplained ==
  ASSUME NEW s, NEW pass, NEW k, PassOK(s, pass, k)
  PROVE  Explained(s, pass.state)
<1>1. ASSUME NEW j \in Markets
      PROVE  /\ s.half[j] \subseteq pass.state.half[j]
             /\ "round" \in pass.state.half[j] \ s.half[j] => TwoSided(s, j)
             /\ s.half[j] = {} /\ "payout" \in pass.state.half[j] => Short(s, j)
  <2>1. /\ s.half[j] \subseteq pass.state.half[j]
        /\ pass.state.half[j] \subseteq s.half[j] \cup {"round"}
        /\ "round" \in pass.state.half[j] \ s.half[j] => TwoSided(s, j)
        /\ "payout" # "round"
    BY DEF PassOK
  <2>. QED BY <2>1
<1>. QED BY <1>1 DEF Explained

\* A pass that closes nothing, or that is broken off, publishes nothing.
LEMMA PassIsPublished ==
  ASSUME NEW s, NEW pass, NEW k, PassOK(s, pass, k), pass.broken \/ ~ pass.closed,
         NEW d, Published(s, d)
  PROVE  Published(pass.state, d)
<1>1. CASE pass.broken
  BY <1>1 DEF PassOK, Published, Obstructed
<1>2. CASE ~ pass.broken
  <2>. DEFINE t == pass.state
  <2>1. \A j \in Markets : s.half[j] \subseteq t.half[j] /\ Kept(s, t, j)
    BY <1>2 DEF PassOK
  <2>. HIDE DEF t
  <2>2. ASSUME ~ Obstructed(t) PROVE ~ Obstructed(s)
    <3>1. ASSUME NEW j \in Markets PROVE ~ PoisonedAt(s, j) /\ "payout" \notin s.half[j]
      <4>1. ~ PoisonedAt(t, j) /\ "payout" \notin t.half[j]
        BY <2>2, PoisonedIs DEF Obstructed
      <4>. QED BY <2>1, <4>1 DEF Kept
    <3>. QED BY <3>1, PoisonedIs DEF Obstructed
  <2>3. ASSUME ~ Obstructed(t), NEW j \in Markets, t.half[j] = {}
        PROVE  t.round[j] = d.round[j] /\ t.q[j] = d.q[j]
    <3>1. s.half[j] = {} /\ t.round[j] = s.round[j] /\ t.q[j] = s.q[j]
      BY <2>1, <2>3 DEF Kept
    <3>2. ~ Obstructed(s)
      BY <2>2, <2>3
    <3>. QED BY <3>1, <3>2 DEF Published
  <2>. QED BY <2>3 DEF Published, t
<1>. QED BY <1>1, <1>2

LEMMA ReconcileSafe ==
  ASSUME Safe, Reconcile
  PROVE  Safe' /\ Reasons
<1>. DEFINE pass == Pass(live)
<1>1. /\ up = TRUE /\ up' = TRUE /\ crashes' \in 0..MaxCrashes /\ live' = pass.state
      /\ IF pass.closed /\ ~ pass.broken THEN Saved ELSE disk' = disk
  BY DEF Safe, Reconcile
<1>2. PassOK(live, pass, live.seq)
  BY SafeIs, PassIsOK
<1>. HIDE DEF pass
<1>3. Sound(live') /\ Explained(live, live')
  BY <1>1, <1>2, PassIsExplained DEF PassOK
<1>4. CASE pass.closed /\ ~ pass.broken
  BY <1>1, <1>3, <1>4, SavedStep
<1>5. CASE pass.broken \/ ~ pass.closed
  <2>1. disk' = disk /\ Published(live, disk)
    BY <1>1, <1>5 DEF Safe
  <2>2. Published(pass.state, disk)
    BY <1>2, <1>5, <2>1, PassIsPublished
  <2>. QED BY <1>1, <1>3, <2>1, <2>2, UnsavedStep
<1>6. pass.closed \in BOOLEAN /\ pass.broken \in BOOLEAN
  BY <1>2 DEF PassOK, Passes
<1>. QED BY <1>4, <1>5, <1>6

LEMMA StartSafe ==
  ASSUME Safe, Start
  PROVE  Safe' /\ Reasons
<1>. DEFINE pass == Pass(disk)
<1>1. /\ up = FALSE /\ up' = TRUE /\ crashes' \in 0..MaxCrashes /\ live' = pass.state
      /\ ~ pass.broken /\ IF pass.closed THEN Saved ELSE disk' = disk
      /\ live = disk
  BY DEF Safe, Start
<1>2. PassOK(disk, pass, disk.seq)
  BY SafeIs, PassIsOK
<1>. HIDE DEF pass
<1>3. Sound(live') /\ Explained(live, live')
  BY <1>1, <1>2, PassIsExplained DEF PassOK
<1>4. CASE pass.closed
  BY <1>1, <1>3, <1>4, SavedStep
<1>5. CASE ~ pass.closed
  <2>1. disk' = disk
    BY <1>1, <1>5
  <2>2. Published(disk, disk)
    BY DEF Published
  <2>3. Published(pass.state, disk)
    BY <1>2, <1>5, <2>2, PassIsPublished
  <2>. QED BY <1>1, <1>3, <2>1, <2>3, UnsavedStep
<1>. QED BY <1>4, <1>5

LEMMA CrashSafe ==
  ASSUME Safe, Crash
  PROVE  Safe' /\ Reasons
<1>1. /\ up' = FALSE /\ crashes' = crashes + 1 /\ crashes < MaxCrashes
      /\ live' = disk /\ disk' = disk /\ Sound(disk) /\ HalvesStay /\ crashes \in 0..MaxCrashes
  BY DEF Safe, Crash
<1>2. MaxCrashes \in Nat
  BY BatchRoundAssumption
<1>3. crashes' \in 0..MaxCrashes
  BY <1>1, <1>2
<1>4. HalvesStay'
  BY <1>1 DEF HalvesStay
<1>5. \A m \in Markets : (live').half[m] \subseteq live.half[m]
  BY <1>1 DEF HalvesStay
<1>6. Reasons
  <2>1. OneSidedRoundsClear
    BY <1>5 DEF OneSidedRoundsClear
  <2>2. ShortByRounding
    BY <1>5 DEF ShortByRounding
  <2>. QED BY <2>1, <2>2 DEF Reasons
<1>. QED BY <1>1, <1>3, <1>4, <1>6 DEF Safe

LEMMA RoundExpiresSafe ==
  ASSUME Safe, NEW m \in Markets, RoundExpires(m)
  PROVE  Safe' /\ Reasons
<1>1. /\ live' = [live EXCEPT !.due[m] = TRUE] /\ disk' = [disk EXCEPT !.due[m] = Open(disk, m)]
      /\ up' = up /\ crashes' = crashes /\ Open(live, m) /\ live.due[m] # TRUE
  BY DEF RoundExpires
<1>2. Sound(live) /\ Sound(disk)
  BY SafeIs
<1>3. /\ Sound(live') /\ (live').half = live.half /\ (live').round = live.round
      /\ (live').q = live.q /\ (live').pending = live.pending
  <2>1. Dues(live, live', m, TRUE) /\ TRUE \in BOOLEAN
    BY <1>1 DEF Dues
  <2>. QED BY ONLY <1>2, <2>1, m \in Markets, DueIsSound
<1>4. Open(disk, m) \in BOOLEAN
  BY DEF Open
<1>5. /\ Sound(disk') /\ (disk').half = disk.half /\ (disk').round = disk.round
      /\ (disk').q = disk.q
  <2>1. Dues(disk, disk', m, Open(disk, m))
    BY <1>1 DEF Dues
  <2>. QED BY ONLY <1>2, <1>4, <2>1, m \in Markets, DueIsSound
<1>6. up' \/ live' = disk'
  BY <1>1 DEF Safe
<1>7. up' => Published(live', disk')
  <2>1. ASSUME up' PROVE Published(live', disk')
    <3>1. Published(live, disk)
      BY <1>1, <2>1 DEF Safe
    <3>2. Published(live', disk)
      BY <1>3, <3>1, SameIsPublished
    <3>. QED BY <1>5, <3>2 DEF Published
  <2>. QED BY <2>1
<1>8. HalvesStay'
  BY <1>3, <1>5 DEF Safe, HalvesStay
<1>9. Reasons
  BY <1>3, SameIsExplained, ReasonsAre
<1>. QED BY <1>1, <1>3, <1>5, <1>6, <1>7, <1>8, <1>9 DEF Safe

-----------------------------------------------------------------------------
(* The theorems                                                            *)

LEMMA NextSafe ==
  ASSUME Safe, [Next]_vars
  PROVE  Safe' /\ [Reasons]_vars
<1>1. CASE UNCHANGED vars
  <2>1. live' = live /\ disk' = disk /\ up' = up /\ crashes' = crashes
    BY <1>1 DEF vars
  <2>2. Safe'
    BY <2>1 DEF Safe, HalvesStay
  <2>. QED BY <1>1, <2>2
<1>2. ASSUME NEW m \in Markets, NEW f \in Sponsors[m], CreateMarket(m, f)
      PROVE  Safe' /\ Reasons
  <2>1. f \in Traders \cup {Nobody}
    BY BatchRoundAssumption
  <2>. QED BY <1>2, <2>1, CreateMarketSafe
<1>3. ASSUME NEW m \in Markets, NEW t \in Traders, NEW r \in Requests[t][m], SubmitOrder(t, m, r)
      PROVE  Safe' /\ Reasons
  BY <1>3, SubmitOrderSafe
<1>4. ASSUME NEW m \in Markets, CloseByHand(m)
      PROVE  Safe' /\ Reasons
  BY <1>4, CloseByHandSafe
<1>5. ASSUME NEW m \in Markets, RoundExpires(m)
      PROVE  Safe' /\ Reasons
  BY <1>5, RoundExpiresSafe
<1>6. ASSUME NEW m \in Markets, NEW order \in PayoutOrders, NEW outcome \in {"yes", "no"},
             Resolve(m, outcome, order)
      PROVE  Safe' /\ Reasons
  BY <1>6, ResolveSafe
<1>7. ASSUME NEW m \in Markets, NEW order \in PayoutOrders, Void(m, order)
      PROVE  Safe' /\ Reasons
  BY <1>7, VoidSafe
<1>8. ASSUME Reconcile \/ Crash \/ Start
      PROVE  Safe' /\ Reasons
  BY <1>8, ReconcileSafe, CrashSafe, StartSafe
<1>9. CASE Next
  <2>1. Safe' /\ Reasons
    BY <1>2, <1>3, <1>4, <1>5, <1>6, <1>7, <1>8, <1>9 DEF Next
  <2>. QED BY <2>1
<1>. QED BY <1>1, <1>9

\* The invariant holds, in every behaviour.
THEOREM SafeAlways == Spec => []Safe
<1>1. Safe /\ [Next]_vars => Safe'
  BY NextSafe
<1>. QED BY InitSafe, <1>1, PTL DEF Spec

\* The state in memory and the state on disk have the types of the engine's and
\* the risk engine's fields.
THEOREM TypeCorrect == Spec => []TypeOK
<1>1. Safe => TypeOK
  BY DEF Safe, Sound, TypeOK
<1>. QED BY SafeAlways, <1>1, PTL

\* Every pending order has its maximum in its lock, in memory and on disk, so
\* that from_snapshot can load what was saved; a trader has one order of a
\* market, and who has none has nothing locked for it.
THEOREM LocksMatch == Spec => []LocksMatchPending
<1>1. ASSUME NEW s, Sound(s)
      PROVE  /\ Loadable(s)
             /\ \A m \in Markets :
                  /\ \A i, j \in DOMAIN s.pending[m] :
                       i # j => s.pending[m][i].trader # s.pending[m][j].trader
                  /\ \A a \in Parties : s.ledger.locks[a][m] > 0 =>
                       \E i \in DOMAIN s.pending[m] : s.pending[m][i].trader = a
  <2>1. \A m \in Markets : Pledged(s, m)
    BY <1>1 DEF Sound, MarketOK
  <2>. QED BY <2>1 DEF Pledged, Loadable
<1>2. Safe => LocksMatchPending
  BY <1>1 DEF Safe, LocksMatchPending
<1>. QED BY SafeAlways, <1>2, PTL

\* Fills, payouts, refunds and sweeps never ask the risk engine for more than is
\* there: no available balance is ever below zero, in memory or on disk.
THEOREM NotOverdrawn == Spec => []NobodyIsOverdrawn
<1>1. Safe => NobodyIsOverdrawn
  BY DEF Safe, Sound, NobodyIsOverdrawn
<1>. QED BY SafeAlways, <1>1, PTL

\* _assert_escrow with its tolerance one-sided, and what a refund needs: the
\* escrow of an open market has total_no_shares + C(posted_price) up to a
\* quantum per fill, and the subsidy and every credit that was spent, and pays
\* nothing that is not there.
THEOREM EscrowCovered == Spec => []EscrowIsCovered
<1>1. Safe => EscrowWithinRounding
  <2>1. ASSUME Safe, NEW m \in Markets, Open(live, m), live.half[m] = {}
        PROVE  ExpectedEscrow(live, m) - live.ledger.available[m] \in 0..live.fills[m]
    BY <2>1 DEF Safe, Sound, MarketOK, Rounded
  <2>. QED BY <2>1 DEF EscrowWithinRounding
<1>2. Safe => BasisCoversVoid
  BY DEF Safe, Sound, MarketOK, Backed, BasisCoversVoid
<1>3. Safe => NobodyIsOverdrawn
  BY DEF Safe, Sound, NobodyIsOverdrawn
<1>4. Safe => EscrowIsCovered
  BY <1>1, <1>2, <1>3 DEF EscrowIsCovered
<1>. QED BY SafeAlways, <1>4, PTL

\* A round that is closed in memory, and the price it posted, are on disk,
\* unless something obstructed the pass that closed it.
THEOREM RoundsSaved == Spec => []PublishedRoundsAreSaved
<1>1. Safe => PublishedRoundsAreSaved
  BY DEF Safe, Published, PublishedRoundsAreSaved
<1>. QED BY SafeAlways, <1>1, PTL

\* A round is left half filled only when its orders are on different sides, and
\* a payout stops half way only by less than a quantum per fill.
THEOREM HalvesExplained == Spec => HalvesAreExplained
<1>1. Safe /\ [Next]_vars => [Reasons]_vars
  BY NextSafe
<1>2. [Reasons]_vars => [OneSidedRoundsClear /\ ShortByRounding]_vars
  BY DEF Reasons
<1>. QED BY SafeAlways, <1>1, <1>2, PTL DEF Spec, HalvesAreExplained
=============================================================================
