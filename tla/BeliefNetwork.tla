--------------------------- MODULE BeliefNetwork ----------------------------
(***************************************************************************)
(* backend/inference/network_model.py and joint_market.py: the network of  *)
(* conditional tables the markets are seeded with, and the market maker    *)
(* over the whole joint distribution, which the junction tree stands in    *)
(* for.                                                                    *)
(*                                                                         *)
(* A probability is known by its order of magnitude: rank k stands for a   *)
(* positive multiple of epsilon^k, Never for 0.  Sums of masses become     *)
(* minima of ranks, products sums and quotients differences; nothing       *)
(* cancels, so every table operation of the code is followed exactly at    *)
(* this grain.                                                             *)
(***************************************************************************)
EXTENDS Integers, SequencesExt

CONSTANTS
  Names,      \* the variables, in the order of their ids
  Outcomes,   \* outcomes of a variable; all have as many
  Marginals,  \* the ranks of a market's stored marginals
  Rows        \* CONDITIONAL_MARGINALS: partial assignment -> ranks

Variables == Range(Names)
Never == 1000

Assignments(S) == [S -> Outcomes]
Contexts == UNION {Assignments(S) : S \in SUBSET Variables}

\* Products and quotients.
Times(x, y) == IF Never \in {x, y} THEN Never ELSE x + y
Over(x, y) == IF x = Never THEN Never ELSE x - y

(***************************************************************************)
(* build_network_nodes                                                     *)
(***************************************************************************)
Mentioned(v) == UNION {DOMAIN key : key \in DOMAIN Rows[v]}

\* A table with as many rows as the variables it mentions have assignments.
IsComplete(v) ==
  /\ v \notin Mentioned(v) /\ Mentioned(v) \subseteq Variables
  /\ Cardinality(DOMAIN Rows[v]) = Cardinality(Assignments(Mentioned(v)))

\* Any other market is a root; its prior is its stored marginals, or uniform
\* when they have no mass.
Parents(v) == IF IsComplete(v) THEN Mentioned(v) ELSE {}

Prior(v) ==
  IF Min(Range(Marginals[v])) = Never THEN [o \in Outcomes |-> 0] ELSE Marginals[v]

Row(v, key) == IF Parents(v) = {} THEN Prior(v) ELSE Rows[v][key]

Family(v) == {v} \cup Parents(v)
Families == {Family(v) : v \in Variables}

\* The table of v's family, each row normalized.
Factor(v) ==
  [a \in Assignments(Family(v)) |->
     LET row == Row(v, Restrict(a, Parents(v)))
     IN Over(row[a[v]], Min(Range(row)))]

\* Kahn's sort takes every variable whose parents are placed; a network with a
\* cycle is refused.
Placed ==
  FoldLeft(LAMBDA placed, v : {u \in Variables : Parents(u) \subseteq placed}, {}, Names)

ASSUME NetworkAssumption ==
  /\ Names \in Seq(Variables) /\ IsInjective(Names)
  /\ IsFiniteSet(Outcomes) /\ Cardinality(Outcomes) > 1
  /\ \A v \in Variables :
       /\ Marginals[v] \in [Outcomes -> 0..Never]
       /\ DOMAIN Rows[v] \subseteq Contexts
       /\ IsComplete(v) => DOMAIN Rows[v] = Assignments(Mentioned(v))
       /\ \A key \in DOMAIN Rows[v] : /\ Rows[v][key] \in [Outcomes -> 0..Never]
                                      /\ Min(Range(Rows[v][key])) # Never
  /\ Placed = Variables

(***************************************************************************)
(* Tables: [assignments of some variables -> ranks]                        *)
(***************************************************************************)
Agrees(a, context) == \A u \in DOMAIN context : a[u] = context[u]

MassOf(table, event) == Min({Never} \cup {table[a] : a \in event})
Slice(table, context) == {a \in DOMAIN table : Agrees(a, context)}
Total(table) == MassOf(table, DOMAIN table)

\* _projection_map: the sum of the entries that agree on S.
Project(table, S) ==
  [a \in Assignments(S) |-> MassOf(table, Slice(table, a))]

\* The entries multiplied by those of a factor over the variables S.
Product(table, factor, S) ==
  [a \in DOMAIN table |-> Times(table[a], factor[Restrict(a, S)])]

Normalized(table) == [a \in DOMAIN table |-> Over(table[a], Total(table))]

(***************************************************************************)
(* JointMarket                                                             *)
(***************************************************************************)
\* export_state: the product of the families.
SeededJoint ==
  [a \in Assignments(Variables) |->
     FoldLeft(LAMBDA mass, v : Times(mass, Factor(v)[Restrict(a, Family(v))]), 0, Names)]

\* Evidence on the variable itself is believed unconditionally.
PointMass(o) == [other \in Outcomes |-> IF other = o THEN 0 ELSE Never]

Yes(table, v, o, context) == MassOf(table, {a \in Slice(table, context) : a[v] = o})
No(table, v, o, context) == MassOf(table, {a \in Slice(table, context) : a[v] # o})

\* marginal: the ranks of v's outcomes in the context, all Never if it has no mass.
FlatBelief(flat, v, context) ==
  IF v \in DOMAIN context THEN PointMass(context[v])
  ELSE Normalized([o \in Outcomes |-> Yes(flat, v, o, context)])

\* The context has mass and the price is neither 0 nor 1.
Tradable(table, v, o, context) ==
  /\ Yes(table, v, o, context) # Never
  /\ No(table, v, o, context) # Never

\* trade_to_probability: the minimum-KL reweighting within the slice, to
\* probabilities of the ranks target.yes and target.no.
Reweighted(table, v, o, target, context) ==
  LET slice == MassOf(table, Slice(table, context))
      yes == Yes(table, v, o, context)
      no == No(table, v, o, context)
  IN [a \in DOMAIN table |->
        CASE table[a] = Never \/ ~Agrees(a, context) -> table[a]
          [] OTHER -> IF a[v] = o THEN table[a] + target.yes - (yes - slice)
                                  ELSE table[a] + target.no - (no - slice)]

\* condition: the entries that do not match go to zero.
Zeroed(table, v, o) ==
  [a \in DOMAIN table |-> IF a[v] = o THEN table[a] ELSE Never]

FlatTrade(flat, v, o, target, context) ==
  IF Tradable(flat, v, o, context) THEN Reweighted(flat, v, o, target, context) ELSE flat

FlatCondition(flat, v, o) == Normalized(Zeroed(flat, v, o))
=============================================================================
