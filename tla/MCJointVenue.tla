---------------------------- MODULE MCJointVenue ----------------------------
(***************************************************************************)
(* A chain b -> c -> d -> a -> e of five binary variables, of which c      *)
(* repeats b and the others are even.  The edits close cycles over the     *)
(* chain: one covers the next by a fill edge, two need more than the width *)
(* budget together, two restructure the tree one after the other.  Raw     *)
(* payouts are b*ln(q/p) and b*ln((1-q)/(1-p)) for b = 2 in tenths of a    *)
(* credit: 1/4 to 3/4 and 1/2 to 3/4, none of them a whole credit; the     *)
(* first edit also makes the other outcome unlikely.  The treasury has     *)
(* less than a winner is due.                                              *)
(***************************************************************************)
EXTENDS JointVenue

CONSTANTS a, b, c, d, e

MCNames == <<a, b, c, d, e>>

Even == [o \in Outcomes |-> 0]
Only(outcome) == [o \in Outcomes |-> IF o = outcome THEN 0 ELSE Never]

MCMarginals == [v \in {a, b, c, d, e} |-> Even]
Given(u) == [{u} -> Outcomes]
MCRows ==
  [v \in {a, b, c, d, e} |->
     CASE v = b -> <<>>
       [] v = c -> [key \in Given(b) |-> Only(key[b])]
       [] v = d -> [key \in Given(c) |-> Even]
       [] v = a -> [key \in Given(d) |-> Even]
       [] v = e -> [key \in Given(a) |-> Even]]

Bold == [won |-> 22, lost |-> -22, yes |-> 0, no |-> 1]
Mild == [won |-> 8, lost |-> -14, yes |-> 0, no |-> 0]
Bet(v, given, edit) == [variable |-> v, given |-> given, edit |-> edit]

MCBets == {Bet(e, {b, c}, Bold), Bet(d, {e}, Mild), Bet(b, {a}, Bold)}

Interchangeable == Permutations(Traders) \cup Permutations(Outcomes)
=============================================================================
