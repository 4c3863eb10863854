---------------------------- MODULE CompleteSets ----------------------------
(***************************************************************************)
(* What the order book of exchange/venues/book promises, with no orders in *)
(* it: a market in complete sets.  A trader has wealth (credits, free or   *)
(* set aside for an order) and shares.  Trading moves both, but every yes  *)
(* share is matched by a no share and every such pair has taken exactly    *)
(* One credit out of the traders' wealth; settlement pays it all back.     *)
(***************************************************************************)
EXTENDS Integers, Functions

CONSTANTS Traders, Outcomes, One, Funds

VARIABLES wealth, shares, status, resolution

vars == <<wealth, shares, status, resolution>>

NoOutcome == "none"
NoShares == [t \in Traders |-> [o \in Outcomes |-> 0]]

Issued(o, s) == SumFunction([t \in Traders |-> s[t][o]])

Init ==
  /\ wealth = [t \in Traders |-> Funds]
  /\ shares = NoShares
  /\ status = "none"
  /\ resolution = NoOutcome

Open ==
  /\ status = "none"
  /\ status' = "open"
  /\ UNCHANGED <<wealth, shares, resolution>>

\* Any number of fills at any prices: no one is overdrawn, and the traders
\* together pay One for every set they create and get One for each they redeem.
Trade ==
  /\ status = "open"
  /\ wealth' \in [Traders -> Nat]
  /\ shares' \in [Traders -> [Outcomes -> Nat]]
  /\ \A o \in Outcomes :
       SumFunction(wealth') + One * Issued(o, shares')
         = SumFunction(wealth) + One * Issued(o, shares)
  /\ UNCHANGED <<status, resolution>>

Resolve(o) ==
  /\ status = "open"
  /\ wealth' = [t \in Traders |-> wealth[t] + One * shares[t][o]]
  /\ shares' = NoShares
  /\ status' = "resolved"
  /\ resolution' = o

Void ==
  /\ status = "open"
  /\ wealth' = [t \in Traders |-> wealth[t] + (One * SumFunction(shares[t])) \div 2]
  /\ shares' = NoShares
  /\ status' = "void"
  /\ UNCHANGED resolution

Next == Open \/ Trade \/ (\E o \in Outcomes : Resolve(o)) \/ Void

Spec == Init /\ [][Next]_vars
=============================================================================
