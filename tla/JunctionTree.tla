---------------------------- MODULE JunctionTree ----------------------------
(***************************************************************************)
(* backend/inference/factored_market.py: the market maker that keeps the   *)
(* joint distribution as a junction tree, one belief table for each        *)
(* cluster and one for each separator, and passes messages between them.   *)
(* The clusters come from a min-fill triangulation of the families and of  *)
(* the scopes that were traded.                                            *)
(***************************************************************************)
EXTENDS BeliefNetwork

CONSTANT MaxWidth    \* the treewidth budget

(***************************************************************************)
(* _build_structure                                                        *)
(***************************************************************************)
Graph(scopes) == UNION {kSubset(2, s) : s \in scopes}
Adjacent(edges, v) == {u \in Variables : {u, v} \in edges /\ u # v}
Fill(edges, v) == kSubset(2, Adjacent(edges, v)) \ edges

\* (fill, states, name), compared in this order; as all variables have as many
\* outcomes, the states grow with the neighbours.
EliminationKey(edges, v) ==
  LET base == Len(Names) + 1
      name == CHOOSE i \in DOMAIN Names : Names[i] = v
  IN Cardinality(Fill(edges, v)) * base * base + Cardinality(Adjacent(edges, v)) * base + name

Cheapest(left, edges) ==
  CHOOSE v \in left : \A u \in left : EliminationKey(edges, v) <= EliminationKey(edges, u)

\* The clusters in elimination order, each with the variable it eliminates.
Eliminated(desk) ==
  LET v == Cheapest(desk.left, desk.edges)
      near == Adjacent(desk.edges, v)
  IN [left     |-> desk.left \ {v},
      edges    |-> {e \in desk.edges \cup kSubset(2, near) : v \notin e},
      clusters |-> Append(desk.clusters, [elim |-> v, vars |-> near \cup {v}])]

Triangulated(scopes) ==
  FoldLeft(LAMBDA desk, v : Eliminated(desk),
           [left |-> Variables, edges |-> Graph(scopes), clusters |-> <<>>], Names).clusters

At(clusters, v) == CHOOSE i \in DOMAIN clusters : clusters[i].elim = v

\* A cluster's separator is what it leaves of its variables; its parent is the
\* cluster of the separator's variable that is eliminated next, 0 at a root.
Rooted(clusters) ==
  [i \in DOMAIN clusters |->
     LET sep == clusters[i].vars \ {clusters[i].elim}
     IN [elim |-> clusters[i].elim, vars |-> clusters[i].vars, sep |-> sep,
         parent |-> IF sep = {} THEN 0 ELSE Min({At(clusters, u) : u \in sep})]]

\* Parents come later in the order than their children.
Component(clusters, i) ==
  LET root[k \in DOMAIN clusters] ==
        IF clusters[k].parent = 0 THEN k ELSE root[clusters[k].parent]
  IN root[i]

Clusters(scopes) == Rooted(Triangulated(scopes))

Fits(clusters) ==
  \A i \in DOMAIN clusters :
    Cardinality(Outcomes)^Cardinality(clusters[i].vars) <= 2^(MaxWidth + 1)

Linked(clusters, i, j) == clusters[i].parent = j \/ clusters[j].parent = i

\* A tree: the scopes traded so far, the clusters, their tables, and the table
\* of the separator between each cluster and its parent.
IsTree(tree) ==
  /\ tree.scopes \subseteq SUBSET Variables
  /\ tree.clusters \in Seq([elim : Variables, vars : SUBSET Variables,
                            sep : SUBSET Variables, parent : Nat])
  /\ DOMAIN tree.table = DOMAIN tree.clusters /\ DOMAIN tree.sep = DOMAIN tree.clusters
  /\ \A i \in DOMAIN tree.clusters :
       /\ tree.table[i] \in [Assignments(tree.clusters[i].vars) -> 0..Never]
       /\ tree.sep[i] \in [Assignments(tree.clusters[i].sep) -> 0..Never]

\* _covering_cluster: the smallest among the clusters that eliminate a variable
\* of the scope, else among all; 0 when there is none.
Covering(clusters, scope) ==
  LET covering == {i \in DOMAIN clusters : scope \subseteq clusters[i].vars}
      own == {i \in covering : clusters[i].elim \in scope}
      cost(i) == Cardinality(clusters[i].vars)
      smallest(S) == {i \in S : \A j \in S : cost(i) <= cost(j)}
      named(i) == CHOOSE k \in DOMAIN Names : Names[k] = clusters[i].elim
  IN CASE own # {} -> CHOOSE i \in smallest(own) : \A j \in smallest(own) : named(i) <= named(j)
       [] own = {} /\ covering # {} -> Min(smallest(covering))
       [] OTHER -> 0

(***************************************************************************)
(* Message passing                                                         *)
(***************************************************************************)
\* x itself, which TLC then evaluates once instead of at every use.
Once(x) == CHOOSE y \in {x} : y = x

\* _send: absorption across the edge between two linked clusters.
Passed(tree, edge) ==
  LET src == edge[1]
      dst == edge[2]
      child == IF tree.clusters[src].parent = dst THEN src ELSE dst
      between == tree.clusters[child].sep
      old == tree.sep[child]
      message == Project(tree.table[src], between)
      ratio == [k \in DOMAIN old |-> IF old[k] = Never THEN Never ELSE Over(message[k], old[k])]
  IN Once([tree EXCEPT !.table[dst] = Product(@, ratio, between), !.sep[child] = message])

Swapped(edge) == <<edge[2], edge[1]>>

\* The edges of start's component in breadth-first order, away from start.
Outward(clusters, start) ==
  LET reached(path) == {start} \cup {path[k][2] : k \in DOMAIN path}
      onward(path) == {link \in reached(path) \X (DOMAIN clusters \ reached(path)) :
                         Linked(clusters, link[1], link[2])}
  IN FoldLeft(LAMBDA path, v : path \o SetToSeq(onward(path)), <<>>, Names)

\* Mutant: messages go down the tree only.
DistributeDown(tree, start) ==
  FoldLeft(LAMBDA t, e : IF t.clusters[e[2]].parent = e[1] THEN Passed(t, e) ELSE t,
           tree, Outward(tree.clusters, start))

\* _distribute_from
Distribute(tree, start) == FoldLeft(Passed, tree, Outward(tree.clusters, start))

\* _collect_with_evidence: the belief of the target with the evidence absorbed.
Collected(tree, target, evidence) ==
  LET masked(i) ==
        LET v == tree.clusters[i].elim
        IN IF v \in DOMAIN evidence THEN Zeroed(tree.table[i], v, evidence[v]) ELSE tree.table[i]
      outward == Outward(tree.clusters, target)
      inward == Reverse([k \in DOMAIN outward |-> Swapped(outward[k])])
      given == Once([tree EXCEPT !.table = [i \in DOMAIN @ |-> masked(i)]])
  IN FoldLeft(Passed, given, inward).table[target]

\* The mass of an assignment: each component's evidence is collected at the
\* cluster of one of its variables.
MassOfAssignment(tree, a) ==
  LET home(v) == At(tree.clusters, v)
      part == [v \in DOMAIN a |-> Component(tree.clusters, home(v))]
      groups == {{u \in DOMAIN a : part[u] = part[v]} : v \in DOMAIN a}
      mass(group) == Total(Collected(tree, home(CHOOSE v \in group : TRUE), Restrict(a, group)))
  IN FoldSet(LAMBDA group, product : Times(mass(group), product), 0, groups)

\* marginal: the ranks of v's outcomes under the evidence, all Never if it has
\* no mass.  What is evident in another component only has to be possible.
Belief(tree, v, evidence) ==
  LET home == At(tree.clusters, v)
      near == {u \in DOMAIN evidence :
                 Component(tree.clusters, At(tree.clusters, u)) = Component(tree.clusters, home)}
      far == DOMAIN evidence \ near
      belief == IF DOMAIN evidence = {} THEN tree.table[home]
                ELSE Collected(tree, home, Restrict(evidence, near))
      mass(o) == MassOf(belief, {a \in DOMAIN belief : a[v] = o})
  IN CASE v \in DOMAIN evidence -> PointMass(evidence[v])
       [] v \notin DOMAIN evidence /\ MassOfAssignment(tree, Restrict(evidence, far)) = Never ->
            [o \in Outcomes |-> Never]
       [] OTHER -> Normalized([o \in Outcomes |-> mass(o)])

(***************************************************************************)
(* from_nodes                                                              *)
(***************************************************************************)
Separators(clusters, table) ==
  [i \in DOMAIN clusters |-> Project(table[i], clusters[i].sep)]

\* _calibrate_full: a pass up the tree, a pass down.
PassedUp(tree, i) ==
  LET up == tree.clusters[i].parent IN IF up = 0 THEN tree ELSE Passed(tree, <<i, up>>)
PassedDown(tree, i) ==
  LET up == tree.clusters[i].parent IN IF up = 0 THEN tree ELSE Passed(tree, <<up, i>>)

Calibrated(tree) ==
  LET inOrder == [i \in DOMAIN tree.clusters |-> i]
  IN FoldLeft(PassedDown, FoldLeft(PassedUp, tree, inOrder), Reverse(inOrder))

\* Every family's table goes into one cluster that covers it.
SeededTree ==
  LET clusters == Clusters(Families)
      ones(S) == [a \in Assignments(S) |-> 0]
      factors(i) == {v \in Variables : Covering(clusters, Family(v)) = i}
      table(i) == FoldSet(LAMBDA v, t : Product(t, Factor(v), Family(v)),
                          ones(clusters[i].vars), factors(i))
  IN Calibrated(Once([scopes |-> {}, clusters |-> clusters,
                      table |-> [i \in DOMAIN clusters |-> table(i)],
                      sep |-> [i \in DOMAIN clusters |-> ones(clusters[i].sep)]]))

ASSUME WidthAssumption == MaxWidth \in Nat \ {0} /\ Fits(Clusters(Families))

(***************************************************************************)
(* Trading                                                                 *)
(***************************************************************************)
\* _record_trade_scope, unless a family or an earlier scope covers it.
Known(tree, scope) == \E s \in Families \cup tree.scopes : scope \subseteq s

Recorded(tree, scope) ==
  IF Cardinality(scope) < 2 \/ Known(tree, scope) THEN tree
  ELSE [tree EXCEPT !.scopes = @ \cup {scope}]

\* What of the old beliefs the table of a new cluster is: a projection of the
\* cluster that covers it, else mass by mass.
Reassembled(tree, vars) ==
  LET source == Covering(tree.clusters, vars)
  IN IF source # 0 THEN Project(tree.table[source], vars)
     ELSE [a \in Assignments(vars) |-> MassOfAssignment(tree, a)]

\* Mutant: the tree is rebuilt around the new scope only.
RestructuredForgetful(tree, scope) ==
  LET clusters == Clusters(Families \cup {scope})
      table == [i \in DOMAIN clusters |-> Reassembled(tree, clusters[i].vars)]
  IN Once([scopes |-> tree.scopes \cup {scope}, clusters |-> clusters,
           table |-> table, sep |-> Separators(clusters, table)])

\* _restructure
Restructured(tree, scope) ==
  LET clusters == Clusters(Families \cup tree.scopes \cup {scope})
      table == [i \in DOMAIN clusters |-> Reassembled(tree, clusters[i].vars)]
  IN Once([scopes |-> tree.scopes \cup {scope}, clusters |-> clusters,
           table |-> table, sep |-> Separators(clusters, table)])

\* The tree a trade is tried on: one with a cluster for its whole scope.
Prepared(tree, scope) ==
  Recorded(IF Covering(tree.clusters, scope) # 0 THEN tree ELSE Restructured(tree, scope), scope)

Scope(v, context) == {v} \cup DOMAIN context

\* A trade past the width budget leaves the tree alone; one refused by the
\* tables has prepared it.
TradeFits(tree, scope) ==
  \/ Covering(tree.clusters, scope) # 0
  \/ Fits(Clusters(Families \cup tree.scopes \cup {scope}))

Trade(tree, v, o, target, context) ==
  LET scope == Scope(v, context)
      ready == Prepared(tree, scope)
      at == Covering(ready.clusters, scope)
  IN CASE ~TradeFits(tree, scope) -> [filled |-> FALSE, tree |-> tree]
       [] TradeFits(tree, scope) /\ ~Tradable(ready.table[at], v, o, context) ->
            [filled |-> FALSE, tree |-> ready]
       [] OTHER ->
            [filled |-> TRUE,
             tree |-> Distribute(
               Once([ready EXCEPT !.table[at] = Reweighted(@, v, o, target, context)]), at)]

\* condition: the entries are zeroed before the mass that is left is looked at.
Condition(tree, v, o) ==
  LET at == At(tree.clusters, v)
      zeroed == Once([tree EXCEPT !.table[at] = Zeroed(@, v, o)])
  IN IF Total(zeroed.table[at]) = Never
     THEN [done |-> FALSE, tree |-> zeroed]
     ELSE [done |-> TRUE,
           tree |-> Distribute(Once([zeroed EXCEPT !.table[at] = Normalized(@)]), at)]

(***************************************************************************)
(* Snapshots                                                               *)
(***************************************************************************)
\* from_snapshot takes the stored tables if the clusters stored with them are
\* those it builds from the stored scopes.
Rebuilds(tree) == Clusters(Families \cup tree.scopes) = tree.clusters

\* absorb_flat: every table is the flat joint's marginal.
Absorbed(flat, tree) ==
  LET table == [i \in DOMAIN tree.clusters |-> Project(flat, tree.clusters[i].vars)]
  IN [tree EXCEPT !.table = table, !.sep = Separators(tree.clusters, table)]

(***************************************************************************)
(* What the tree promises                                                  *)
(***************************************************************************)
\* joint = prod(cluster beliefs) / prod(separator beliefs)
JointOf(tree) ==
  [a \in Assignments(Variables) |->
     LET belief(i) == tree.table[i][Restrict(a, tree.clusters[i].vars)]
         between(i) == tree.sep[i][Restrict(a, tree.clusters[i].sep)]
         share(i) == CASE tree.clusters[i].parent = 0 -> belief(i)
                       [] between(i) = Never -> Never
                       [] OTHER -> Over(belief(i), between(i))
     IN FoldLeft(LAMBDA mass, i : Times(mass, share(i)), 0, [i \in DOMAIN tree.clusters |-> i])]

\* The clusters that have a variable are connected.
RunningIntersection(clusters) ==
  \A v \in Variables :
    \A i \in DOMAIN clusters :
      (v \in clusters[i].vars /\ v # clusters[i].elim) => v \in clusters[clusters[i].parent].vars
=============================================================================
