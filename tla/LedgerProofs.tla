---------------------------- MODULE LedgerProofs ----------------------------
(***************************************************************************)
(* What the proofs about every module that keeps balances rest on.         *)
(*                                                                         *)
(* First, what SumFunction of the community modules computes, for every    *)
(* finite domain (changing one entry of a function changes its sum by the  *)
(* difference, a sum of naturals bounds each of them, sums of sums and of  *)
(* multiples, ...), and that a fold which takes the members of a finite    *)
(* set one at a time exists and is determined by its steps.  The sum is    *)
(* defined by recursion over the subsets of the domain; the proofs are by  *)
(* smallest counterexample.                                                *)
(*                                                                         *)
(* Then, what each mutation of risk_engine.py does to a ledger, for any    *)
(* finite sets of accounts and locks: it keeps the types, it keeps every   *)
(* frozen balance equal to the sum of its locks, and it changes the        *)
(* credits in the system by exactly the amount it should.                  *)
(*                                                                         *)
(* And the order in which a feed lists what a route selects.               *)
(***************************************************************************)
EXTENDS Ledger, Feeds, FiniteSetsExt, FiniteSetTheorems, WellFoundedInduction, TLAPS

\* Every non-empty set of subsets of a finite set has a smallest member: the
\* induction principle of this module.
LEMMA MinimalSubset ==
  ASSUME NEW S, IsFiniteSet(S), NEW T \in SUBSET SUBSET S, T # {}
  PROVE  \E x \in T : \A y \in T : y \subseteq x => y = x
<1>1. IsWellFoundedOn(StrictSubsetOrdering(S), FiniteSubsetsOf(S))
  BY FS_StrictSubsetOrderingWellFounded
<1>2. T \subseteq FiniteSubsetsOf(S)
  BY FS_FiniteSubsetsOfFinite
<1>3. PICK x \in T : \A y \in T : ~ (<<y, x>> \in StrictSubsetOrdering(S))
  BY <1>1, <1>2, WFMin
<1>4. \A y \in T : y \subseteq x => y = x
  BY <1>3 DEF StrictSubsetOrdering
<1>. QED BY <1>4

\* The element the recursion of MapThenFoldSet takes out of s, and the recursion.
Chosen(s) == CHOOSE x \in s : TRUE
IsSum(g, f, S) ==
  g = [s \in SUBSET S |-> IF s = {} THEN 0 ELSE f[Chosen(s)] + g[s \ {Chosen(s)}]]

\* SumFunctionOnSet is the value at S of a function that satisfies the recursion.
LEMMA SumIsChoose ==
  ASSUME NEW f, NEW S
  PROVE  SumFunctionOnSet(f, S) = (CHOOSE g : IsSum(g, f, S))[S]
BY DEF SumFunctionOnSet, FoldFunctionOnSet, MapThenFoldSet, IsSum, Chosen

\* The recursion, at one subset.
LEMMA SumRecursion ==
  ASSUME NEW f, NEW S, NEW g, IsSum(g, f, S), NEW s \in SUBSET S
  PROVE  g[s] = IF s = {} THEN 0 ELSE f[Chosen(s)] + g[s \ {Chosen(s)}]
BY DEF IsSum

\* The element the recursion takes out is an element.
LEMMA ChosenIn ==
  ASSUME NEW s, s # {}
  PROVE  Chosen(s) \in s
BY DEF Chosen

\* Solutions of the recursion agree where both are defined.
LEMMA SumUnique ==
  ASSUME NEW f, NEW S, IsFiniteSet(S), NEW U \in SUBSET S,
         NEW g, IsSum(g, f, S), NEW h, IsSum(h, f, U)
  PROVE  \A s \in SUBSET U : g[s] = h[s]
<1>. DEFINE T == {s \in SUBSET U : g[s] # h[s]}
<1>1. SUFFICES ASSUME T # {} PROVE FALSE
  OBVIOUS
<1>2. PICK s \in T : \A y \in T : y \subseteq s => y = s
  <2>1. T \in SUBSET SUBSET S
    OBVIOUS
  <2>. HIDE DEF T
  <2>. QED
    BY <1>1, <2>1, MinimalSubset
<1>3. g[s] = IF s = {} THEN 0 ELSE f[Chosen(s)] + g[s \ {Chosen(s)}]
  BY SumRecursion
<1>4. h[s] = IF s = {} THEN 0 ELSE f[Chosen(s)] + h[s \ {Chosen(s)}]
  BY SumRecursion
<1>5. s # {}
  BY <1>3, <1>4
<1>6. Chosen(s) \in s
  BY <1>5, ChosenIn
<1>7. s \ {Chosen(s)} \notin T
  BY <1>2, <1>6
<1>8. g[s \ {Chosen(s)}] = h[s \ {Chosen(s)}]
  BY <1>7
<1>. QED
  BY <1>3, <1>4, <1>5, <1>8

\* Over a finite set the recursion has a solution.
LEMMA SumExists ==
  ASSUME NEW f, NEW S, IsFiniteSet(S)
  PROVE  \E g : IsSum(g, f, S)
<1>. DEFINE T == {s \in SUBSET S : ~ \E g : IsSum(g, f, s)}
<1>1. SUFFICES ASSUME T # {} PROVE FALSE
  OBVIOUS
<1>2. PICK s \in T : \A y \in T : y \subseteq s => y = s
  <2>1. T \in SUBSET SUBSET S
    OBVIOUS
  <2>. HIDE DEF T
  <2>. QED
    BY <1>1, <2>1, MinimalSubset
<1>. DEFINE Val(t) == (CHOOSE g : IsSum(g, f, t))[t]
            G == [t \in SUBSET s |->
                    IF t = {} THEN 0 ELSE f[Chosen(t)] + Val(t \ {Chosen(t)})]
<1>3. ASSUME NEW t \in SUBSET s, t # s
      PROVE  IsSum(CHOOSE g : IsSum(g, f, t), f, t)
  BY <1>2, <1>3
<1>4. ASSUME NEW t \in SUBSET s, t # s
      PROVE  Val(t) = G[t]
  <2>. DEFINE g == CHOOSE gg : IsSum(gg, f, t)
              u == t \ {Chosen(t)}
              h == CHOOSE gg : IsSum(gg, f, u)
  <2>1. IsSum(g, f, t)
    BY <1>3, <1>4
  <2>2. g[t] = IF t = {} THEN 0 ELSE f[Chosen(t)] + g[u]
    <3>. HIDE DEF g
    <3>. QED BY <2>1, SumRecursion
  <2>3. CASE t = {}
    BY <2>2, <2>3
  <2>4. CASE t # {}
    <3>1. u \in SUBSET t /\ u # s /\ u \in SUBSET s
      BY <2>4, ChosenIn
    <3>2. IsSum(h, f, u)
      BY <1>3, <3>1
    <3>3. IsFiniteSet(t)
      BY FS_Subset
    <3>4. g[u] = h[u]
      <4>. HIDE DEF g, h, u
      <4>. QED BY <2>1, <3>1, <3>2, <3>3, SumUnique
    <3>. QED BY <2>2, <2>4, <3>4
  <2>. QED BY <2>3, <2>4
<1>5. ASSUME NEW t \in SUBSET s
      PROVE  G[t] = IF t = {} THEN 0 ELSE f[Chosen(t)] + G[t \ {Chosen(t)}]
  <2>1. CASE t = {}
    BY <2>1
  <2>2. CASE t # {}
    <3>1. t \ {Chosen(t)} \in SUBSET s /\ t \ {Chosen(t)} # s
      BY <2>2, ChosenIn
    <3>2. Val(t \ {Chosen(t)}) = G[t \ {Chosen(t)}]
      BY <1>4, <3>1
    <3>. QED BY <2>2, <3>2
  <2>. QED BY <2>1, <2>2
<1>6. IsSum(G, f, s)
  <2>. DEFINE H == [t \in SUBSET s |->
                     IF t = {} THEN 0 ELSE f[Chosen(t)] + G[t \ {Chosen(t)}]]
  <2>1. G = H
    <3>. HIDE DEF Val
    <3>1. \A t \in SUBSET s : G[t] = H[t]
      BY <1>5
    <3>. QED BY <3>1
  <2>. QED BY <2>1 DEF IsSum
<1>. QED BY <1>2, <1>6

\* The recursion, for SumFunctionOnSet itself.
LEMMA SumUnfold ==
  ASSUME NEW f, NEW S, IsFiniteSet(S)
  PROVE  /\ SumFunctionOnSet(f, {}) = 0
         /\ S # {} => SumFunctionOnSet(f, S) = f[Chosen(S)] + SumFunctionOnSet(f, S \ {Chosen(S)})
<1>. DEFINE g == CHOOSE gg : IsSum(gg, f, S)
            u == S \ {Chosen(S)}
            h == CHOOSE gg : IsSum(gg, f, u)
            e == CHOOSE gg : IsSum(gg, f, {})
<1>1. IsSum(g, f, S)
  BY SumExists
<1>2. IsFiniteSet(u) /\ u \in SUBSET S
  BY FS_Subset
<1>3. IsSum(h, f, u)
  BY <1>2, SumExists
<1>4. IsSum(e, f, {})
  BY FS_EmptySet, SumExists
<1>5. e[{}] = 0
  <2>. HIDE DEF e
  <2>. QED BY <1>4, SumRecursion
<1>6. g[u] = h[u]
  <2>. HIDE DEF g, h, u
  <2>. QED BY <1>1, <1>2, <1>3, SumUnique
<1>7. S # {} => g[S] = f[Chosen(S)] + g[u]
  <2>. HIDE DEF g
  <2>. QED BY <1>1, SumRecursion
<1>. QED BY <1>5, <1>6, <1>7, SumIsChoose

\* Any element may be taken out first: the order of summation does not matter.
LEMMA SumRemove ==
  ASSUME NEW S, IsFiniteSet(S), NEW f \in [S -> Int]
  PROVE  \A s \in SUBSET S :
           /\ SumFunctionOnSet(f, s) \in Int
           /\ \A x \in s : SumFunctionOnSet(f, s) = f[x] + SumFunctionOnSet(f, s \ {x})
<1>. DEFINE Good(s) == /\ SumFunctionOnSet(f, s) \in Int
                       /\ \A x \in s : SumFunctionOnSet(f, s) = f[x] + SumFunctionOnSet(f, s \ {x})
            T == {s \in SUBSET S : ~ Good(s)}
<1>1. SUFFICES ASSUME T # {} PROVE FALSE
  OBVIOUS
<1>2. PICK s \in T : \A y \in T : y \subseteq s => y = s
  <2>1. T \in SUBSET SUBSET S
    OBVIOUS
  <2>. HIDE DEF T
  <2>. QED BY <1>1, <2>1, MinimalSubset
<1>. HIDE DEF Good
<1>3. \A t \in SUBSET s : t # s => Good(t)
  BY <1>2
<1>4. s # {}
  <2>1. SumFunctionOnSet(f, {}) = 0
    BY SumUnfold
  <2>2. Good({})
    BY <2>1 DEF Good
  <2>. QED BY <1>2, <2>2
<1>. DEFINE c == Chosen(s)
<1>5. c \in s /\ c \in S
  BY <1>4, ChosenIn
<1>6. IsFiniteSet(s)
  BY FS_Subset
<1>7. SumFunctionOnSet(f, s) = f[c] + SumFunctionOnSet(f, s \ {c})
  BY <1>4, <1>6, SumUnfold
<1>. HIDE DEF c
<1>8. SumFunctionOnSet(f, s \ {c}) \in Int
  <2>1. Good(s \ {c})
    BY <1>3, <1>5
  <2>. QED BY <2>1 DEF Good
<1>9. ASSUME NEW x \in s
      PROVE  SumFunctionOnSet(f, s) = f[x] + SumFunctionOnSet(f, s \ {x})
  <2>1. CASE x = c
    BY <1>7, <2>1
  <2>2. CASE x # c
    <3>1. Good(s \ {c}) /\ Good(s \ {x}) /\ Good((s \ {c}) \ {x})
      BY <1>3, <1>5
    <3>2. (s \ {c}) \ {x} = (s \ {x}) \ {c}
      OBVIOUS
    <3>3. SumFunctionOnSet(f, s \ {c}) = f[x] + SumFunctionOnSet(f, (s \ {c}) \ {x})
      BY <2>2, <3>1 DEF Good
    <3>4. SumFunctionOnSet(f, s \ {x}) = f[c] + SumFunctionOnSet(f, (s \ {c}) \ {x})
      BY <1>5, <2>2, <3>1, <3>2 DEF Good
    <3>5. SumFunctionOnSet(f, (s \ {c}) \ {x}) \in Int
      BY <3>1 DEF Good
    <3>6. f[x] \in Int /\ f[c] \in Int
      BY <1>5
    <3>. QED BY <1>7, <3>3, <3>4, <3>5, <3>6
  <2>. QED BY <2>1, <2>2
<1>10. SumFunctionOnSet(f, s) \in Int
  BY <1>5, <1>7, <1>8
<1>. QED BY <1>9, <1>10 DEF Good

\* The sum depends on the summands only.
LEMMA SumCongruent ==
  ASSUME NEW S, IsFiniteSet(S), NEW f, NEW g, \A x \in S : f[x] = g[x]
  PROVE  SumFunctionOnSet(f, S) = SumFunctionOnSet(g, S)
<1>. DEFINE T == {s \in SUBSET S : SumFunctionOnSet(f, s) # SumFunctionOnSet(g, s)}
<1>1. SUFFICES ASSUME T # {} PROVE FALSE
  OBVIOUS
<1>2. PICK s \in T : \A y \in T : y \subseteq s => y = s
  <2>1. T \in SUBSET SUBSET S
    OBVIOUS
  <2>. HIDE DEF T
  <2>. QED BY <1>1, <2>1, MinimalSubset
<1>3. IsFiniteSet(s)
  BY FS_Subset
<1>4. s # {}
  BY <1>2, <1>3, SumUnfold
<1>. DEFINE c == Chosen(s)
<1>5. c \in s
  BY <1>4, ChosenIn
<1>6. /\ SumFunctionOnSet(f, s) = f[c] + SumFunctionOnSet(f, s \ {c})
      /\ SumFunctionOnSet(g, s) = g[c] + SumFunctionOnSet(g, s \ {c})
  BY <1>3, <1>4, SumUnfold
<1>. HIDE DEF c
<1>7. SumFunctionOnSet(f, s \ {c}) = SumFunctionOnSet(g, s \ {c})
  BY <1>2, <1>5
<1>. QED BY <1>2, <1>5, <1>6, <1>7

\* Changing one entry changes the sum by the difference: why adjusting one
\* balance by a delta adjusts the total by the same delta (risk_engine.py).
THEOREM SumExcept ==
  ASSUME NEW S, IsFiniteSet(S), NEW f \in [S -> Int], NEW a \in S, NEW v \in Int
  PROVE  /\ SumFunction(f) \in Int
         /\ SumFunction([f EXCEPT ![a] = v]) = SumFunction(f) + v - f[a]
<1>. DEFINE g == [f EXCEPT ![a] = v]
<1>1. g \in [S -> Int] /\ DOMAIN g = S /\ DOMAIN f = S /\ g[a] = v
  OBVIOUS
<1>2. IsFiniteSet(S \ {a})
  BY FS_Subset
<1>3. SumFunctionOnSet(f, S \ {a}) = SumFunctionOnSet(g, S \ {a})
  BY <1>2, SumCongruent
<1>4. /\ SumFunctionOnSet(f, S) \in Int
      /\ SumFunctionOnSet(f, S) = f[a] + SumFunctionOnSet(f, S \ {a})
      /\ SumFunctionOnSet(f, S \ {a}) \in Int
  BY SumRemove
<1>5. SumFunctionOnSet(g, S) = v + SumFunctionOnSet(g, S \ {a})
  <2>. HIDE DEF g
  <2>. QED BY <1>1, SumRemove
<1>6. SumFunction(f) = SumFunctionOnSet(f, S) /\ SumFunction(g) = SumFunctionOnSet(g, S)
  BY <1>1 DEF SumFunction
<1>. HIDE DEF g
<1>7. f[a] \in Int
  OBVIOUS
<1>8. SumFunction(g) = SumFunction(f) + v - f[a]
  BY <1>3, <1>4, <1>5, <1>6, <1>7
<1>. QED BY <1>4, <1>6, <1>8 DEF g

\* A sum of naturals is a natural and bounds each of them: no lock is larger
\* than the frozen balance of its account (risk_engine.py).
THEOREM SumBounds ==
  ASSUME NEW S, IsFiniteSet(S), NEW f \in [S -> Nat]
  PROVE  /\ SumFunction(f) \in Nat
         /\ \A a \in S : f[a] <= SumFunction(f)
<1>. DEFINE T == {s \in SUBSET S : SumFunctionOnSet(f, s) \notin Nat}
<1>1. f \in [S -> Int]
  OBVIOUS
<1>2. \A s \in SUBSET S : SumFunctionOnSet(f, s) \in Nat
  <2>1. SUFFICES ASSUME T # {} PROVE FALSE
    OBVIOUS
  <2>2. PICK s \in T : \A y \in T : y \subseteq s => y = s
    <3>1. T \in SUBSET SUBSET S
      OBVIOUS
    <3>. HIDE DEF T
    <3>. QED BY <2>1, <3>1, MinimalSubset
  <2>3. s # {}
    <3>1. SumFunctionOnSet(f, {}) = 0
      BY SumUnfold
    <3>2. SumFunctionOnSet(f, {}) \in Nat
      BY <3>1
    <3>3. s \in SUBSET S /\ SumFunctionOnSet(f, s) \notin Nat
      OBVIOUS
    <3>. QED BY <3>2, <3>3, Zenon
  <2>4. PICK x \in s : TRUE
    BY <2>3
  <2>5. SumFunctionOnSet(f, s \ {x}) \in Nat
    BY <2>2
  <2>6. SumFunctionOnSet(f, s) = f[x] + SumFunctionOnSet(f, s \ {x})
    BY <1>1, SumRemove
  <2>7. f[x] \in Nat
    OBVIOUS
  <2>. QED BY <2>2, <2>5, <2>6, <2>7
<1>3. SumFunction(f) = SumFunctionOnSet(f, S)
  BY DEF SumFunction
<1>4. ASSUME NEW a \in S PROVE f[a] <= SumFunction(f)
  <2>1. SumFunctionOnSet(f, S) = f[a] + SumFunctionOnSet(f, S \ {a})
    BY <1>1, SumRemove
  <2>2. SumFunctionOnSet(f, S \ {a}) \in Nat /\ f[a] \in Nat
    BY <1>2
  <2>. QED BY <1>3, <2>1, <2>2
<1>. QED BY <1>2, <1>3, <1>4

\* A sum of zeros is zero: an account without locks has nothing frozen.
THEOREM SumZero ==
  ASSUME NEW S, IsFiniteSet(S), NEW f \in [S -> Int], \A a \in S : f[a] = 0
  PROVE  SumFunction(f) = 0
<1>. DEFINE T == {s \in SUBSET S : SumFunctionOnSet(f, s) # 0}
<1>1. \A s \in SUBSET S : SumFunctionOnSet(f, s) = 0
  <2>1. SUFFICES ASSUME T # {} PROVE FALSE
    OBVIOUS
  <2>2. PICK s \in T : \A y \in T : y \subseteq s => y = s
    <3>1. T \in SUBSET SUBSET S
      OBVIOUS
    <3>. HIDE DEF T
    <3>. QED BY <2>1, <3>1, MinimalSubset
  <2>3. s # {}
    BY <2>2, SumUnfold
  <2>4. PICK x \in s : TRUE
    BY <2>3
  <2>5. SumFunctionOnSet(f, s \ {x}) = 0
    BY <2>2
  <2>6. SumFunctionOnSet(f, s) = f[x] + SumFunctionOnSet(f, s \ {x})
    BY SumRemove
  <2>. QED BY <2>2, <2>5, <2>6
<1>. QED BY <1>1 DEF SumFunction

\* One summand less.
THEOREM SumWithout ==
  ASSUME NEW T, IsFiniteSet(T), NEW g \in [T -> Int], NEW x \in T,
         NEW f \in [T \ {x} -> Int], \A y \in T \ {x} : f[y] = g[y]
  PROVE  SumFunction(g) = SumFunction(f) + g[x] /\ SumFunction(f) \in Int
<1>1. IsFiniteSet(T \ {x})
  BY FS_RemoveElement
<1>2. /\ SumFunctionOnSet(g, T) = g[x] + SumFunctionOnSet(g, T \ {x})
      /\ SumFunctionOnSet(f, T \ {x}) \in Int
  BY <1>1, SumRemove
<1>3. SumFunctionOnSet(g, T \ {x}) = SumFunctionOnSet(f, T \ {x})
  BY <1>1, SumCongruent
<1>4. SumFunction(g) = SumFunctionOnSet(g, T) /\ SumFunction(f) = SumFunctionOnSet(f, T \ {x})
  <2>1. DOMAIN g = T /\ DOMAIN f = T \ {x}
    OBVIOUS
  <2>. QED BY <2>1 DEF SumFunction
<1>5. g[x] \in Int
  OBVIOUS
<1>. QED BY <1>2, <1>3, <1>4, <1>5

\* A summand is raised, or begins at nothing.
THEOREM SumCharge ==
  ASSUME NEW S, IsFiniteSet(S), NEW f \in [S -> Int], NEW x, NEW v \in Int,
         NEW g \in [S \cup {x} -> Int],
         \A y \in S \cup {x} : g[y] = (IF y \in S THEN f[y] ELSE 0) + (IF y = x THEN v ELSE 0)
  PROVE  SumFunction(g) = SumFunction(f) + v /\ SumFunction(f) \in Int
<1>1. CASE x \in S
  <2>0. S \cup {x} = S /\ f[x] \in Int /\ f[x] + v \in Int
    BY <1>1
  <2>1. g = [f EXCEPT ![x] = f[x] + v]
    <3>1. g \in [S -> Int] /\ \A y \in S : g[y] = IF y = x THEN f[x] + v ELSE f[y]
      BY <2>0
    <3>. QED BY <1>1, <2>0, <3>1
  <2>2. /\ SumFunction(f) \in Int
        /\ SumFunction([f EXCEPT ![x] = f[x] + v]) = SumFunction(f) + (f[x] + v) - f[x]
    <3>1. f[x] + v \in Int
      BY <2>0
    <3>. DEFINE w == f[x] + v
    <3>. HIDE DEF w
    <3>2. w \in Int
      BY <3>1 DEF w
    <3>3. /\ SumFunction(f) \in Int
          /\ SumFunction([f EXCEPT ![x] = w]) = SumFunction(f) + w - f[x]
      BY ONLY <1>1, <3>2, IsFiniteSet(S), f \in [S -> Int], SumExcept
    <3>. QED BY <3>3 DEF w
  <2>. QED BY <2>0, <2>1, <2>2
<1>2. CASE x \notin S
  <2>1. g[x] = v /\ \A y \in S : g[y] = f[y]
    <3>1. \A y \in S : f[y] \in Int /\ y # x
      BY <1>2
    <3>. QED BY <1>2, <3>1
  <2>. DEFINE T == S \cup {x}
  <2>2. IsFiniteSet(T) /\ T \ {x} = S /\ x \in T /\ g \in [T -> Int]
    BY <1>2, FS_AddElement
  <2>. HIDE DEF T
  <2>3. f \in [T \ {x} -> Int] /\ \A y \in T \ {x} : f[y] = g[y]
    BY <2>1, <2>2
  <2>4. SumFunction(g) = SumFunction(f) + g[x] /\ SumFunction(f) \in Int
    BY <2>2, <2>3, SumWithout
  <2>. QED BY <2>1, <2>4
<1>. QED BY <1>1, <1>2

-----------------------------------------------------------------------------
(* Folds.  The library folds by the same recursion as it sums; a fold whose *)
(* step stays in a set D is a solution of it, and so does what is true of   *)
(* the base and kept by the steps.                                          *)

\* g folds the step h over the subsets of I, taking c[s] out of each s.
FoldStep(g, h, base, c, s) == IF s = {} THEN base ELSE h[<<g[s \ {c[s]}], c[s]>>]
IsFold(g, h, base, c, I) ==
  g = [s \in SUBSET I |-> g[s]] /\ \A s \in SUBSET I : g[s] = FoldStep(g, h, base, c, s)
Steps(D, I) == [D \X I -> D]
FoldsInto(g, h, base, c, I, D) ==
  g \in [SUBSET I -> D] /\ \A s \in SUBSET I : g[s] = FoldStep(g, h, base, c, s)
Picks(c, I) == \A s \in SUBSET I : s # {} => c[s] \in s

\* Solutions agree where both are defined.
LEMMA FoldUnique ==
  ASSUME NEW I, IsFiniteSet(I), NEW h, NEW base, NEW c,
         \A s \in SUBSET I : s # {} => c[s] \in s,
         NEW U \in SUBSET I, NEW V \in SUBSET I, NEW g, IsFold(g, h, base, c, U),
         NEW k, IsFold(k, h, base, c, V)
  PROVE  \A s \in SUBSET (U \cap V) : g[s] = k[s]
<1>. DEFINE T == {s \in SUBSET (U \cap V) : g[s] # k[s]}
<1>1. SUFFICES ASSUME T # {} PROVE FALSE
  OBVIOUS
<1>2. PICK s \in T : \A y \in T : y \subseteq s => y = s
  <2>1. T \in SUBSET SUBSET I
    OBVIOUS
  <2>. HIDE DEF T
  <2>. QED BY <1>1, <2>1, MinimalSubset
<1>3. g[s] = FoldStep(g, h, base, c, s) /\ k[s] = FoldStep(k, h, base, c, s)
  BY DEF IsFold
<1>4. s # {} => c[s] \in s /\ s \ {c[s]} \notin T
  BY <1>2
<1>5. s # {} => g[s \ {c[s]}] = k[s \ {c[s]}]
  BY <1>4
<1>. QED BY <1>3, <1>5 DEF FoldStep

\* Over a finite set the recursion has a solution.
LEMMA FoldExists ==
  ASSUME NEW I, IsFiniteSet(I), NEW h, NEW base, NEW c,
         \A s \in SUBSET I : s # {} => c[s] \in s
  PROVE  \E g : IsFold(g, h, base, c, I)
<1>. DEFINE T == {s \in SUBSET I : ~ \E g : IsFold(g, h, base, c, s)}
<1>1. SUFFICES ASSUME T # {} PROVE FALSE
  OBVIOUS
<1>2. PICK s \in T : \A y \in T : y \subseteq s => y = s
  <2>1. T \in SUBSET SUBSET I
    OBVIOUS
  <2>. HIDE DEF T
  <2>. QED BY <1>1, <2>1, MinimalSubset
<1>. DEFINE Sol(t) == CHOOSE g : IsFold(g, h, base, c, t)
            G == [t \in SUBSET s |->
                    IF t = {} THEN base ELSE h[<<Sol(t \ {c[t]})[t \ {c[t]}], c[t]>>]]
<1>3. ASSUME NEW t \in SUBSET s, t # s PROVE IsFold(Sol(t), h, base, c, t)
  BY <1>2, <1>3
<1>. HIDE DEF Sol
<1>4. ASSUME NEW t \in SUBSET s, t # {}
      PROVE  G[t \ {c[t]}] = Sol(t \ {c[t]})[t \ {c[t]}]
  <2>. DEFINE u == t \ {c[t]}
              w == u \ {c[u]}
  <2>1. u \in SUBSET s /\ u # s
    BY <1>4
  <2>2. IsFold(Sol(u), h, base, c, u)
    BY <1>3, <2>1
  <2>. HIDE DEF u
  <2>3. CASE u = {}
    BY <2>1, <2>2, <2>3 DEF IsFold, FoldStep, u
  <2>4. CASE u # {}
    <3>1. w \in SUBSET s /\ w # s /\ w \in SUBSET u
      BY <2>1, <2>4
    <3>2. IsFold(Sol(w), h, base, c, w)
      BY <1>3, <3>1
    <3>3. Sol(u)[w] = Sol(w)[w]
      <4>1. w \in SUBSET (u \cap w) /\ u \in SUBSET I /\ w \in SUBSET I
        BY <2>1, <3>1
      <4>. HIDE DEF w
      <4>. QED BY <2>2, <3>2, <4>1, FoldUnique
    <3>4. Sol(u)[u] = h[<<Sol(u)[w], c[u]>>]
      BY <2>2, <2>4 DEF IsFold, FoldStep
    <3>5. G[u] = h[<<Sol(w)[w], c[u]>>]
      BY <2>1, <2>4
    <3>. QED BY <3>3, <3>4, <3>5 DEF u
  <2>. QED BY <2>3, <2>4
<1>5. IsFold(G, h, base, c, s)
  <2>1. G = [t \in SUBSET s |-> G[t]]
    OBVIOUS
  <2>2. ASSUME NEW t \in SUBSET s PROVE G[t] = FoldStep(G, h, base, c, t)
    BY <1>4 DEF FoldStep
  <2>. HIDE DEF G
  <2>. QED BY <2>1, <2>2 DEF IsFold
<1>. QED BY <1>2, <1>5

\* A step that stays in D makes a fold that does.
THEOREM FoldInto ==
  ASSUME NEW I, IsFiniteSet(I), NEW D, NEW h \in Steps(D, I), NEW base \in D, NEW c,
         Picks(c, I)
  PROVE  \E g : FoldsInto(g, h, base, c, I, D)
<1>. USE DEF Steps
<1>0. \A s \in SUBSET I : s # {} => c[s] \in s
  BY DEF Picks
<1>1. PICK g : IsFold(g, h, base, c, I)
  BY <1>0, FoldExists
<1>2. \A s \in SUBSET I : g[s] = FoldStep(g, h, base, c, s)
  BY <1>1 DEF IsFold
<1>. DEFINE T == {s \in SUBSET I : g[s] \notin D}
<1>3. T = {}
  <2>. SUFFICES ASSUME T # {} PROVE FALSE
    OBVIOUS
  <2>1. PICK s \in T : \A y \in T : y \subseteq s => y = s
    <3>1. T \in SUBSET SUBSET I
      OBVIOUS
    <3>. HIDE DEF T
    <3>. QED BY <3>1, MinimalSubset
  <2>2. s # {}
    BY <1>2 DEF FoldStep
  <2>3. c[s] \in s /\ s \ {c[s]} \notin T /\ s \ {c[s]} \in SUBSET I
    BY <1>0, <2>1, <2>2
  <2>4. <<g[s \ {c[s]}], c[s]>> \in D \X I
    BY <2>3
  <2>5. g[s] = h[<<g[s \ {c[s]}], c[s]>>]
    BY <1>2, <2>2 DEF FoldStep
  <2>. QED BY <2>4, <2>5
<1>4. g = [s \in SUBSET I |-> g[s]]
  BY <1>1, <1>2 DEF IsFold
<1>5. \A s \in SUBSET I : g[s] \in D
  BY <1>3
<1>. HIDE DEF T
<1>6. g \in [SUBSET I -> D]
  BY <1>4, <1>5
<1>. QED BY <1>2, <1>6 DEF FoldsInto

\* A finite set of integers has a largest member.
LEMMA LargestMember ==
  ASSUME NEW S, IsFiniteSet(S), S \subseteq Int, S # {}
  PROVE  \E x \in S : \A y \in S : x >= y
<1>. DEFINE T == {s \in SUBSET S : s # {} /\ ~ \E x \in s : \A y \in s : x >= y}
<1>1. SUFFICES ASSUME T # {} PROVE FALSE
  OBVIOUS
<1>2. PICK s \in T : \A y \in T : y \subseteq s => y = s
  <2>1. T \in SUBSET SUBSET S
    OBVIOUS
  <2>2. IsFiniteSet(S)
    OBVIOUS
  <2>. HIDE DEF T
  <2>. QED BY ONLY <1>1, <2>1, <2>2, MinimalSubset
<1>3. PICK x \in s : x \in Int
  BY <1>2
<1>4. s \ {x} # {} /\ s \ {x} \notin T
  <2>1. s # {x}
    BY <1>2, <1>3
  <2>2. s \ {x} \notin T
    <3>. HIDE DEF T
    <3>. QED BY <1>2, <1>3
  <2>. QED BY <1>3, <2>1, <2>2
<1>5. PICK y \in s \ {x} : \A z \in s \ {x} : y >= z
  BY <1>4
<1>6. y \in Int /\ y \in s /\ \A z \in s : z \in Int /\ (z = x \/ y >= z)
  BY <1>2, <1>5
<1>. HIDE DEF T
<1>. DEFINE most == IF y >= x THEN y ELSE x
<1>7. most \in s /\ \A z \in s : most >= z
  BY <1>3, <1>6
<1>. QED BY <1>2, <1>7 DEF T

\* Zero summands may be left out.
THEOREM SumSupport ==
  ASSUME NEW S, IsFiniteSet(S), NEW T \in SUBSET S, NEW f \in [S -> Int],
         NEW g \in [T -> Int], \A x \in T : g[x] = f[x], \A x \in S \ T : f[x] = 0
  PROVE  SumFunction(f) = SumFunction(g)
<1>. DEFINE B == {s \in SUBSET S : T \subseteq s /\ SumFunctionOnSet(f, s) # SumFunctionOnSet(f, T)}
<1>1. B = {}
  <2>. SUFFICES ASSUME B # {} PROVE FALSE
    OBVIOUS
  <2>1. PICK s \in B : \A y \in B : y \subseteq s => y = s
    <3>1. B \in SUBSET SUBSET S
      OBVIOUS
    <3>. HIDE DEF B
    <3>. QED BY <3>1, MinimalSubset
  <2>2. s # T
    BY <2>1
  <2>3. PICK x \in s : x \notin T
    BY <2>1, <2>2
  <2>4. SumFunctionOnSet(f, s \ {x}) = SumFunctionOnSet(f, T)
    BY <2>1, <2>3
  <2>5. /\ SumFunctionOnSet(f, s) = f[x] + SumFunctionOnSet(f, s \ {x})
        /\ SumFunctionOnSet(f, s \ {x}) \in Int /\ f[x] = 0
    <3>1. s \in SUBSET S /\ s \ {x} \in SUBSET S /\ x \in s
      BY <2>1
    <3>. QED BY <2>3, <3>1, SumRemove
  <2>. QED BY <2>1, <2>4, <2>5
<1>2. SumFunctionOnSet(f, S) = SumFunctionOnSet(f, T)
  BY <1>1
<1>3. SumFunctionOnSet(f, T) = SumFunctionOnSet(g, T)
  BY FS_Subset, SumCongruent
<1>4. DOMAIN f = S /\ DOMAIN g = T
  OBVIOUS
<1>. QED BY <1>2, <1>3, <1>4 DEF SumFunction

\* The sum of the sums, and of the multiples.
THEOREM SumAdd ==
  ASSUME NEW S, IsFiniteSet(S), NEW f \in [S -> Int], NEW g \in [S -> Int],
         NEW h \in [S -> Int], \A x \in S : h[x] = f[x] + g[x]
  PROVE  /\ SumFunction(f) \in Int /\ SumFunction(g) \in Int
         /\ SumFunction(h) = SumFunction(f) + SumFunction(g)
<1>. DEFINE OK(s) == /\ SumFunctionOnSet(f, s) \in Int /\ SumFunctionOnSet(g, s) \in Int
                     /\ SumFunctionOnSet(h, s) = SumFunctionOnSet(f, s) + SumFunctionOnSet(g, s)
            T == {s \in SUBSET S : ~ OK(s)}
<1>1. T = {}
  <2>. SUFFICES ASSUME T # {} PROVE FALSE
    OBVIOUS
  <2>1. PICK s \in T : \A y \in T : y \subseteq s => y = s
    <3>1. T \in SUBSET SUBSET S
      OBVIOUS
    <3>. HIDE DEF T
    <3>. QED BY <3>1, MinimalSubset
  <2>2. s # {}
    <3>1. SumFunctionOnSet(f, {}) = 0 /\ SumFunctionOnSet(g, {}) = 0 /\ SumFunctionOnSet(h, {}) = 0
      BY SumUnfold
    <3>2. OK({})
      BY <3>1
    <3>3. ~ OK(s)
      BY <2>1
    <3>. HIDE DEF OK
    <3>. QED BY <3>2, <3>3
  <2>3. PICK x \in s : TRUE
    BY <2>2
  <2>4. OK(s \ {x})
    BY <2>1, <2>3
  <2>5. /\ SumFunctionOnSet(f, s) = f[x] + SumFunctionOnSet(f, s \ {x})
        /\ SumFunctionOnSet(g, s) = g[x] + SumFunctionOnSet(g, s \ {x})
        /\ SumFunctionOnSet(h, s) = h[x] + SumFunctionOnSet(h, s \ {x})
    BY <2>1, <2>3, SumRemove
  <2>6. f[x] \in Int /\ g[x] \in Int /\ h[x] = f[x] + g[x]
    BY <2>1, <2>3
  <2>. QED BY <2>1, <2>4, <2>5, <2>6
<1>2. OK(S)
  BY <1>1
<1>. QED BY <1>2 DEF SumFunction

THEOREM SumTimes ==
  ASSUME NEW S, IsFiniteSet(S), NEW f \in [S -> Int], NEW c \in Int,
         NEW h \in [S -> Int], \A x \in S : h[x] = c * f[x]
  PROVE  SumFunction(f) \in Int /\ SumFunction(h) = c * SumFunction(f)
<1>. DEFINE OK(s) == /\ SumFunctionOnSet(f, s) \in Int
                     /\ SumFunctionOnSet(h, s) = c * SumFunctionOnSet(f, s)
            T == {s \in SUBSET S : ~ OK(s)}
<1>1. T = {}
  <2>. SUFFICES ASSUME T # {} PROVE FALSE
    OBVIOUS
  <2>1. PICK s \in T : \A y \in T : y \subseteq s => y = s
    <3>1. T \in SUBSET SUBSET S
      OBVIOUS
    <3>. HIDE DEF T
    <3>. QED BY <3>1, MinimalSubset
  <2>2. s # {}
    <3>1. SumFunctionOnSet(f, {}) = 0 /\ SumFunctionOnSet(h, {}) = 0
      BY SumUnfold
    <3>2. OK({})
      BY <3>1
    <3>3. ~ OK(s)
      BY <2>1
    <3>. HIDE DEF OK
    <3>. QED BY <3>2, <3>3
  <2>3. PICK x \in s : TRUE
    BY <2>2
  <2>4. OK(s \ {x})
    BY <2>1, <2>3
  <2>5. /\ SumFunctionOnSet(f, s) = f[x] + SumFunctionOnSet(f, s \ {x})
        /\ SumFunctionOnSet(h, s) = h[x] + SumFunctionOnSet(h, s \ {x})
    BY <2>1, <2>3, SumRemove
  <2>6. f[x] \in Int /\ h[x] = c * f[x]
    BY <2>1, <2>3
  <2>7. c * f[x] + c * SumFunctionOnSet(f, s \ {x}) = c * (f[x] + SumFunctionOnSet(f, s \ {x}))
    BY <2>4, <2>6
  <2>. QED BY <2>1, <2>4, <2>5, <2>6, <2>7
<1>2. OK(S)
  BY <1>1
<1>. QED BY <1>2 DEF SumFunction

\* A sum grows with its summands.
THEOREM SumMonotone ==
  ASSUME NEW S, IsFiniteSet(S), NEW f \in [S -> Int], NEW g \in [S -> Int],
         \A x \in S : f[x] <= g[x]
  PROVE  /\ SumFunction(f) \in Int /\ SumFunction(g) \in Int
         /\ SumFunction(f) <= SumFunction(g)
<1>. DEFINE d == [x \in S |-> g[x] - f[x]]
<1>1. d \in [S -> Nat] /\ d \in [S -> Int] /\ \A x \in S : g[x] = f[x] + d[x]
  OBVIOUS
<1>2. SumFunction(d) \in Nat
  <2>. HIDE DEF d
  <2>. QED BY ONLY <1>1, IsFiniteSet(S), SumBounds
<1>3. /\ SumFunction(f) \in Int /\ SumFunction(d) \in Int
      /\ SumFunction(g) = SumFunction(f) + SumFunction(d)
  <2>. HIDE DEF d
  <2>. QED BY ONLY <1>1, IsFiniteSet(S), f \in [S -> Int], g \in [S -> Int], SumAdd
<1>. HIDE DEF d
<1>. QED BY <1>2, <1>3

\* A restricted function has the sum of its domain.
LEMMA SumOnPart ==
  ASSUME NEW S, IsFiniteSet(S), NEW f \in [S -> Int], NEW s \in SUBSET S
  PROVE  /\ SumFunction([x \in s |-> f[x]]) = SumFunctionOnSet(f, s)
         /\ SumFunctionOnSet(f, s) \in Int
<1>. DEFINE g == [x \in s |-> f[x]]
<1>1. IsFiniteSet(s) /\ DOMAIN g = s /\ \A x \in s : g[x] = f[x]
  BY FS_Subset
<1>. HIDE DEF g
<1>2. SumFunctionOnSet(g, s) = SumFunctionOnSet(f, s)
  BY <1>1, SumCongruent
<1>. QED BY <1>1, <1>2, SumRemove DEF SumFunction, g

\* A sum is the sum of the sums of its parts.
THEOREM SumByParts ==
  ASSUME NEW S, IsFiniteSet(S), NEW P, IsFiniteSet(P), NEW part \in [S -> P],
         NEW f \in [S -> Int], NEW h, DOMAIN h = P,
         \A p \in P : h[p] = SumFunction([x \in {y \in S : part[y] = p} |-> f[x]])
  PROVE  SumFunction(f) = SumFunction(h)
<1>. DEFINE Of(s, p) == {y \in s : part[y] = p}
            Parts(s) == [p \in P |-> SumFunctionOnSet(f, Of(s, p))]
            T == {s \in SUBSET S : SumFunctionOnSet(f, s) # SumFunction(Parts(s))}
<1>0. ASSUME NEW s \in SUBSET S PROVE Parts(s) \in [P -> Int]
  <2>1. \A p \in P : Of(s, p) \in SUBSET S
    OBVIOUS
  <2>. HIDE DEF Of
  <2>. QED BY <2>1, SumRemove
<1>1. T = {}
  <2>. SUFFICES ASSUME T # {} PROVE FALSE
    OBVIOUS
  <2>1. PICK s \in T : \A y \in T : y \subseteq s => y = s
    <3>1. T \in SUBSET SUBSET S
      OBVIOUS
    <3>. HIDE DEF T
    <3>. QED BY <3>1, MinimalSubset
  <2>2. s # {}
    <3>1. SumFunctionOnSet(f, {}) = 0
      BY SumUnfold
    <3>2. Parts({}) \in [P -> Int] /\ \A p \in P : Parts({})[p] = 0
      <4>1. \A p \in P : Of({}, p) = {}
        OBVIOUS
      <4>. HIDE DEF Of
      <4>2. \A p \in P : Parts({})[p] = 0
        BY <3>1, <4>1
      <4>. QED BY <4>2
    <3>. HIDE DEF Parts
    <3>3. SumFunction(Parts({})) = 0
      BY <3>2, SumZero
    <3>. QED BY <2>1, <3>1, <3>3
  <2>3. PICK x \in s : x \in S
    BY <2>1, <2>2
  <2>. DEFINE t == s \ {x}
              q == part[x]
  <2>4. SumFunctionOnSet(f, t) = SumFunction(Parts(t))
    BY <2>1, <2>3
  <2>5. /\ SumFunctionOnSet(f, s) = f[x] + SumFunctionOnSet(f, t)
        /\ SumFunctionOnSet(f, t) \in Int /\ f[x] \in Int
    BY <2>1, <2>3, SumRemove
  <2>6. Of(s, q) \in SUBSET S /\ x \in Of(s, q) /\ Of(t, q) = Of(s, q) \ {x} /\ q \in P
        /\ \A p \in P : p # q => Of(t, p) = Of(s, p)
    BY <2>1, <2>3
  <2>7. SumFunctionOnSet(f, Of(s, q)) = f[x] + SumFunctionOnSet(f, Of(t, q))
    <3>. HIDE DEF Of, t, q
    <3>. QED BY <2>6, SumRemove
  <2>8. Parts(s) \in [P -> Int] /\ Parts(t) \in [P -> Int]
    BY <1>0, <2>1
  <2>9. Parts(s)[q] = f[x] + Parts(t)[q] /\ \A p \in P : p # q => Parts(s)[p] = Parts(t)[p]
    <3>. HIDE DEF Of, t, q
    <3>. QED BY <2>6, <2>7
  <2>. DEFINE a == Parts(s)
              b == Parts(t)
              v == a[q]
  <2>10. /\ a \in [P -> Int] /\ b \in [P -> Int] /\ q \in P /\ v = f[x] + b[q]
         /\ \A p \in P : p # q => a[p] = b[p]
         /\ SumFunctionOnSet(f, t) = SumFunction(b) /\ SumFunctionOnSet(f, s) # SumFunction(a)
    BY <2>1, <2>4, <2>6, <2>8, <2>9
  <2>. HIDE DEF a, b, t, q
  <2>11. b \in [P -> Int] /\ q \in P /\ v \in Int
    BY <2>10
  <2>12. a = [b EXCEPT ![q] = v] /\ b[q] \in Int
    BY <2>10
  <2>. HIDE DEF v
  <2>13. SumFunction(b) \in Int /\ SumFunction([b EXCEPT ![q] = v]) = SumFunction(b) + v - b[q]
    BY ONLY IsFiniteSet(P), <2>11, SumExcept
  <2>. QED BY <2>5, <2>10, <2>11, <2>12, <2>13
<1>2. SumFunction(f) = SumFunction(Parts(S))
  BY <1>1 DEF SumFunction
<1>3. \A p \in P : Of(S, p) \in SUBSET S /\ h[p] = SumFunction([x \in Of(S, p) |-> f[x]])
  OBVIOUS
<1>. HIDE DEF Of, T
<1>4. ASSUME NEW p \in P PROVE h[p] = SumFunctionOnSet(f, Of(S, p))
  <2>. DEFINE s == Of(S, p)
  <2>1. s \in SUBSET S /\ h[p] = SumFunction([x \in s |-> f[x]])
    BY <1>3
  <2>. HIDE DEF s
  <2>2. SumFunction([x \in s |-> f[x]]) = SumFunctionOnSet(f, s)
    BY <2>1, SumOnPart
  <2>. QED BY <2>1, <2>2 DEF s
<1>5. SumFunctionOnSet(h, P) = SumFunctionOnSet(Parts(S), P)
  BY <1>4, SumCongruent
<1>. QED BY <1>2, <1>5 DEF SumFunction

\* As many members as there are in the parts.
LEMMA CardinalityIsSum ==
  ASSUME NEW S, IsFiniteSet(S)
  PROVE  Cardinality(S) = SumFunction([x \in S |-> 1])
<1>. DEFINE f == [x \in S |-> 1]
            T == {s \in SUBSET S : Cardinality(s) # SumFunctionOnSet(f, s)}
<1>0. f \in [S -> Int] /\ \A x \in S : f[x] = 1
  OBVIOUS
<1>. HIDE DEF f
<1>1. T = {}
  <2>. SUFFICES ASSUME T # {} PROVE FALSE
    OBVIOUS
  <2>1. PICK s \in T : \A y \in T : y \subseteq s => y = s
    <3>1. T \in SUBSET SUBSET S
      OBVIOUS
    <3>. HIDE DEF T
    <3>. QED BY <3>1, MinimalSubset
  <2>2. s # {}
    BY <2>1, SumUnfold, FS_EmptySet
  <2>3. PICK x \in s : x \in S
    BY <2>1, <2>2
  <2>4. Cardinality(s \ {x}) = SumFunctionOnSet(f, s \ {x})
    BY <2>1, <2>3
  <2>5. /\ SumFunctionOnSet(f, s) = 1 + SumFunctionOnSet(f, s \ {x})
        /\ SumFunctionOnSet(f, s \ {x}) \in Int
    <3>1. s \in SUBSET S /\ s \ {x} \in SUBSET S
      BY <2>1
    <3>. QED BY <1>0, <2>3, <3>1, SumRemove
  <2>6. Cardinality(s \ {x}) = Cardinality(s) - 1 /\ Cardinality(s) \in Nat
    <3>1. IsFiniteSet(s)
      BY <2>1, FS_Subset
    <3>. QED BY <2>3, <3>1, FS_RemoveElement, FS_CardinalityType
  <2>. QED BY <2>1, <2>4, <2>5, <2>6
<1>2. DOMAIN f = S
  BY <1>0
<1>. QED BY <1>1, <1>2 DEF SumFunction, f

THEOREM CardinalityByParts ==
  ASSUME NEW S, IsFiniteSet(S), NEW P, IsFiniteSet(P), NEW part \in [S -> P],
         NEW h, DOMAIN h = P,
         \A p \in P : h[p] = Cardinality({y \in S : part[y] = p})
  PROVE  Cardinality(S) = SumFunction(h)
<1>. DEFINE f == [x \in S |-> 1]
            Of(p) == {y \in S : part[y] = p}
<1>1. f \in [S -> Int]
  OBVIOUS
<1>2. ASSUME NEW p \in P PROVE h[p] = SumFunction([x \in Of(p) |-> f[x]])
  <2>1. IsFiniteSet(Of(p)) /\ Cardinality(Of(p)) = SumFunction([x \in Of(p) |-> 1])
    BY FS_Subset, CardinalityIsSum
  <2>2. [x \in Of(p) |-> 1] = [x \in Of(p) |-> f[x]]
    OBVIOUS
  <2>. QED BY <2>1, <2>2
<1>3. SumFunction(f) = SumFunction(h)
  BY <1>1, <1>2, SumByParts
<1>. QED BY <1>3, CardinalityIsSum

\* A sum over 1..n, one summand longer.
THEOREM SumLonger ==
  ASSUME NEW n \in Nat, NEW g \in [1..(n + 1) -> Int], NEW f \in [1..n -> Int],
         \A i \in 1..n : f[i] = g[i]
  PROVE  SumFunction(f) \in Int /\ SumFunction(g) = SumFunction(f) + g[n + 1]
<1>. DEFINE T == 1..(n + 1)
            x == n + 1
<1>1. IsFiniteSet(T) /\ x \in T /\ T \ {x} = 1..n
  <2>1. IsFiniteSet(T)
    BY FS_Interval
  <2>2. x \in T /\ T \ {x} = 1..n
    OBVIOUS
  <2>. QED BY <2>1, <2>2
<1>2. g \in [T -> Int]
  OBVIOUS
<1>. HIDE DEF T, x
<1>3. f \in [T \ {x} -> Int] /\ \A y \in T \ {x} : f[y] = g[y]
  BY <1>1
<1>4. SumFunction(g) = SumFunction(f) + g[x] /\ SumFunction(f) \in Int
  BY ONLY <1>1, <1>2, <1>3, SumWithout
<1>. QED BY <1>4 DEF x

\* A set of numbers that holds 0 and, with each one below n, the next, holds all
\* up to n.
THEOREM UpTo ==
  ASSUME NEW n \in Nat, NEW S, 0 \in S, \A k \in 0..(n - 1) : k \in S => k + 1 \in S
  PROVE  \A k \in 0..n : k \in S
<1>. DEFINE T == {0 - k : k \in {i \in 0..n : i \notin S}}
<1>1. SUFFICES ASSUME NEW k \in 0..n, k \notin S PROVE FALSE
  OBVIOUS
<1>2. T \subseteq (0 - n)..0 /\ T \subseteq Int /\ 0 - k \in T
  BY <1>1
<1>3. IsFiniteSet(T)
  <2>1. IsFiniteSet((0 - n)..0)
    BY FS_Interval
  <2>. QED BY <1>2, <2>1, FS_Subset
<1>. HIDE DEF T
<1>4. PICK x \in T : \A y \in T : x >= y
  BY <1>2, <1>3, LargestMember
<1>5. PICK j \in 0..n : j \notin S /\ x = 0 - j
  BY DEF T
<1>6. j # 0
  BY <1>5
<1>7. j - 1 \in S
  <2>1. CASE j - 1 \notin S
    <3>1. 0 - (j - 1) \in T
      BY <1>5, <1>6, <2>1 DEF T
    <3>2. x >= 0 - (j - 1)
      BY <1>4, <3>1
    <3>. QED BY <1>5, <3>2
  <2>. QED BY <2>1
<1>8. j - 1 \in 0..(n - 1) /\ (j - 1) + 1 = j
  BY <1>5, <1>6
<1>. QED BY <1>5, <1>7, <1>8

\* An empty sum.
LEMMA SumOfNone == SumFunction([i \in 1..0 |-> 0]) = 0
<1>1. IsFiniteSet(1..0)
  BY FS_Interval
<1>. DEFINE f == [i \in 1..0 |-> 0]
<1>2. f \in [1..0 -> Int] /\ \A i \in 1..0 : f[i] = 0
  OBVIOUS
<1>. HIDE DEF f
<1>3. SumFunction(f) = 0
  BY ONLY <1>1, <1>2, SumZero
<1>. QED BY <1>3 DEF f

\* The first k entries.
Part(f, k) == [i \in 1..k |-> f[i]]

LEMMA PartSums ==
  ASSUME NEW n \in Nat, NEW f \in [1..n -> Int]
  PROVE  /\ SumFunction(Part(f, 0)) = 0 /\ Part(f, n) = f
         /\ \A k \in 0..(n - 1) :
              /\ SumFunction(Part(f, k)) \in Int
              /\ SumFunction(Part(f, k + 1)) = SumFunction(Part(f, k)) + f[k + 1]
<1>1. SumFunction(Part(f, 0)) = 0
  <2>1. Part(f, 0) = [i \in 1..0 |-> 0]
    BY DEF Part
  <2>. QED BY <2>1, SumOfNone
<1>2. Part(f, n) = f
  BY DEF Part
<1>3. ASSUME NEW k \in 0..(n - 1)
      PROVE  /\ SumFunction(Part(f, k)) \in Int
             /\ SumFunction(Part(f, k + 1)) = SumFunction(Part(f, k)) + f[k + 1]
  <2>. DEFINE g == Part(f, k + 1)
              e == Part(f, k)
  <2>1. /\ k \in Nat /\ g \in [1..(k + 1) -> Int] /\ e \in [1..k -> Int]
        /\ \A i \in 1..k : e[i] = g[i]
        /\ g[k + 1] = f[k + 1]
    BY DEF Part
  <2>. HIDE DEF g, e
  <2>2. SumFunction(e) \in Int /\ SumFunction(g) = SumFunction(e) + g[k + 1]
    BY ONLY <2>1, SumLonger
  <2>. QED BY <2>1, <2>2 DEF g, e
<1>. QED BY <1>1, <1>2, <1>3

\* A finite set of numbers from 1 to n: its largest member is one, and of all of
\* them it is n.
LEMMA MaxUpTo ==
  ASSUME NEW n \in Nat
  PROVE  /\ \A S \in SUBSET (1..n) : S # {} => Max(S) \in S
         /\ n > 0 => Max(1..n) = n /\ (1..n) \ {n} = 1..(n - 1)
<1>1. ASSUME NEW S \in SUBSET (1..n), S # {} PROVE Max(S) \in S /\ \A x \in S : Max(S) >= x
  <2>1. IsFiniteSet(S)
    <3>1. IsFiniteSet(1..n)
      BY FS_Interval
    <3>. QED BY <3>1, FS_Subset
  <2>2. S \subseteq Int
    OBVIOUS
  <2>3. \E x \in S : \A y \in S : x >= y
    BY <1>1, <2>1, <2>2, LargestMember
  <2>. QED BY <2>3 DEF Max
<1>2. ASSUME n > 0 PROVE Max(1..n) = n /\ (1..n) \ {n} = 1..(n - 1)
  <2>1. n \in 1..n
    BY <1>2
  <2>2. Max(1..n) \in 1..n /\ Max(1..n) >= n
    BY <1>1, <2>1
  <2>3. Max(1..n) = n
    BY <2>2
  <2>. QED BY <1>2, <2>3
<1>. QED BY <1>1, <1>2

\* The steps of a walk over 1..n, as the library folds them, and that it exists.
Turns(n) == DOMAIN [i \in 1..n |-> i]
Turn(n, S) == [i \in 1..n |-> i][Max(S)]

LEMMA TurnOK ==
  ASSUME NEW n \in Nat
  PROVE  /\ Turns(n) = 1..n
         /\ \A S \in SUBSET (1..n) : S # {} => Turn(n, S) = Max(S) /\ Max(S) \in S
<1>1. ASSUME NEW S \in SUBSET (1..n), S # {} PROVE Turn(n, S) = Max(S) /\ Max(S) \in S
  <2>1. Max(S) \in S /\ Max(S) \in 1..n
    BY <1>1, MaxUpTo
  <2>. QED BY <2>1 DEF Turn
<1>. QED BY <1>1 DEF Turns

IsWalk(g, n, D, h, base) ==
  /\ g \in [SUBSET Turns(n) -> D]
  /\ \A S \in SUBSET Turns(n) :
       g[S] = IF S = {} THEN base ELSE h[<<g[S \ {Max(S)}], Turn(n, S)>>]

LEMMA WalkExists ==
  ASSUME NEW n \in Nat, NEW D, NEW h \in Steps(D, 1..n), NEW base \in D
  PROVE  \E g : IsWalk(g, n, D, h, base)
<1>. DEFINE I == 1..n
            c == [S \in SUBSET I |-> Max(S)]
<1>1. IsFiniteSet(I) /\ Turns(n) = I
  BY FS_Interval, TurnOK
<1>2. Picks(c, I)
  BY TurnOK DEF Picks
<1>3. PICK g : FoldsInto(g, h, base, c, I, D)
  <2>. HIDE DEF I, c
  <2>. QED BY <1>1, <1>2, FoldInto DEF I
<1>4. \A S \in SUBSET I : g[S] = IF S = {} THEN base ELSE h[<<g[S \ {Max(S)}], Turn(n, S)>>]
  <2>1. ASSUME NEW S \in SUBSET I
        PROVE  g[S] = IF S = {} THEN base ELSE h[<<g[S \ {Max(S)}], Turn(n, S)>>]
    <3>1. g[S] = FoldStep(g, h, base, c, S)
      BY <1>3 DEF FoldsInto
    <3>2. S # {} => c[S] = Max(S) /\ Turn(n, S) = Max(S)
      BY TurnOK
    <3>. HIDE DEF c, I
    <3>. QED BY <3>1, <3>2 DEF FoldStep
  <2>. QED BY <2>1
<1>5. g \in [SUBSET I -> D]
  BY <1>3 DEF FoldsInto
<1>. HIDE DEF I
<1>. QED BY <1>1, <1>4, <1>5 DEF IsWalk

-----------------------------------------------------------------------------
(* Balance sheets.                                                         *)

\* Writing y into one lock and the difference into the owner's frozen balance:
\* what every method that touches a lock does, once or twice.
WithLock(locks, a, k, y) == [locks EXCEPT ![a][k] = y]
Matches(frozen, locks) == \A a \in DOMAIN frozen : frozen[a] = SumFunction(locks[a])

\* SumExcept for lock amounts, which are naturals.
LEMMA OneSummand ==
  ASSUME NEW K, IsFiniteSet(K), NEW m \in [K -> Nat], NEW k \in K, NEW y \in Nat
  PROVE  /\ SumFunction(m) \in Int
         /\ SumFunction([m EXCEPT ![k] = y]) = SumFunction(m) + y - m[k]
<1>1. m \in [K -> Int] /\ y \in Int
  OBVIOUS
<1>. QED BY <1>1, SumExcept

\* One lock and its owner's frozen balance change together, the others not at
\* all: frozen balances stay the sums of the locks.
LEMMA OneLock ==
  ASSUME NEW A, NEW K, IsFiniteSet(K),
         NEW frozen \in [A -> Int], NEW locks \in [A -> [K -> Nat]],
         Matches(frozen, locks), NEW a \in A, NEW k \in K, NEW y \in Nat
  PROVE  LET f == [frozen EXCEPT ![a] = @ + y - locks[a][k]]
             l == WithLock(locks, a, k, y)
         IN  f \in [A -> Int] /\ l \in [A -> [K -> Nat]] /\ Matches(f, l)
<1>. DEFINE f == [frozen EXCEPT ![a] = @ + y - locks[a][k]]
            l == WithLock(locks, a, k, y)
<1>1. f \in [A -> Int] /\ l \in [A -> [K -> Nat]]
  BY DEF WithLock
<1>2. ASSUME NEW c \in A PROVE f[c] = SumFunction(l[c])
  <2>1. CASE c # a
    <3>1. f[c] = frozen[c] /\ l[c] = locks[c]
      BY <2>1 DEF WithLock
    <3>. QED BY <3>1 DEF Matches
  <2>2. CASE c = a
    <3>1. l[a] = [locks[a] EXCEPT ![k] = y]
      BY DEF WithLock
    <3>2. locks[a] \in [K -> Int] /\ y \in Int
      OBVIOUS
    <3>3. /\ SumFunction(locks[a]) \in Int
          /\ SumFunction(l[a]) = SumFunction(locks[a]) + y - locks[a][k]
      <4>1. locks[a] \in [K -> Nat]
        OBVIOUS
      <4>2. /\ SumFunction(locks[a]) \in Int
            /\ SumFunction([locks[a] EXCEPT ![k] = y]) = SumFunction(locks[a]) + y - locks[a][k]
        BY ONLY <4>1, OneSummand, IsFiniteSet(K), k \in K, y \in Nat
      <4>. QED BY <3>1, <4>2
    <3>4. frozen[a] = SumFunction(locks[a])
      BY DEF Matches
    <3>5. f[a] = frozen[a] + y - locks[a][k]
      OBVIOUS
    <3>. QED BY <2>2, <3>3, <3>4, <3>5
  <2>. QED BY <2>1, <2>2
<1>. QED BY <1>1, <1>2 DEF Matches

\* One entry goes up by x, and so does the sum.
LEMMA SumUp ==
  ASSUME NEW A, IsFiniteSet(A), NEW f \in [A -> Int], NEW a \in A, NEW x \in Int
  PROVE  /\ SumFunction(f) \in Int
         /\ SumFunction([f EXCEPT ![a] = f[a] + x]) = SumFunction(f) + x
<1>1. f[a] \in Int /\ f[a] + x \in Int
  OBVIOUS
<1>2. /\ SumFunction(f) \in Int
      /\ SumFunction([f EXCEPT ![a] = f[a] + x]) = SumFunction(f) + (f[a] + x) - f[a]
  BY <1>1, SumExcept
<1>. QED BY <1>1, <1>2

\* One entry goes down by x, and so does the sum.
LEMMA SumDown ==
  ASSUME NEW A, IsFiniteSet(A), NEW f \in [A -> Int], NEW a \in A, NEW x \in Int
  PROVE  /\ SumFunction(f) \in Int
         /\ SumFunction([f EXCEPT ![a] = f[a] - x]) = SumFunction(f) - x
<1>1. f[a] \in Int /\ f[a] - x \in Int
  OBVIOUS
<1>2. /\ SumFunction(f) \in Int
      /\ SumFunction([f EXCEPT ![a] = f[a] - x]) = SumFunction(f) + (f[a] - x) - f[a]
  BY <1>1, SumExcept
<1>. QED BY <1>1, <1>2

\* OneLock for a lock that grows by x (or shrinks, when x is negative).
LEMMA OneLockMoves ==
  ASSUME NEW A, NEW K, IsFiniteSet(K),
         NEW frozen \in [A -> Int], NEW locks \in [A -> [K -> Nat]],
         Matches(frozen, locks), NEW a \in A, NEW k \in K, NEW x \in Int,
         locks[a][k] + x \in Nat
  PROVE  LET f == [frozen EXCEPT ![a] = frozen[a] + x]
             l == [locks EXCEPT ![a][k] = locks[a][k] + x]
         IN  f \in [A -> Int] /\ l \in [A -> [K -> Nat]] /\ Matches(f, l)
<1>. DEFINE y == locks[a][k] + x
            f == [frozen EXCEPT ![a] = frozen[a] + x]
            g == [frozen EXCEPT ![a] = frozen[a] + y - locks[a][k]]
<1>1. g \in [A -> Int] /\ WithLock(locks, a, k, y) \in [A -> [K -> Nat]]
      /\ Matches(g, WithLock(locks, a, k, y))
  <2>1. y \in Nat
    OBVIOUS
  <2>. HIDE DEF y
  <2>. QED BY <2>1, OneLock
<1>2. f = g
  <2>1. frozen[a] \in Int /\ locks[a][k] \in Nat
    OBVIOUS
  <2>2. frozen[a] + x = frozen[a] + y - locks[a][k]
    BY <2>1
  <2>. QED BY <2>2
<1>. QED BY <1>1, <1>2 DEF WithLock

\* SumUp with the functions under names, for the provers to match on.
Sheets(A) == [A -> Int]
Raised(f, a, x) == [f EXCEPT ![a] = f[a] + x]

LEMMA SumRaised ==
  ASSUME NEW A, IsFiniteSet(A), NEW f \in Sheets(A), NEW a \in A, NEW x \in Int
  PROVE  /\ Raised(f, a, x) \in Sheets(A)
         /\ SumFunction(f) \in Int
         /\ SumFunction(Raised(f, a, x)) = SumFunction(f) + x
<1>1. f \in [A -> Int] /\ f[a] \in Int /\ f[a] + x \in Int
  BY DEF Sheets
<1>2. /\ SumFunction(f) \in Int
      /\ SumFunction([f EXCEPT ![a] = f[a] + x]) = SumFunction(f) + (f[a] + x) - f[a]
  BY <1>1, SumExcept
<1>3. Raised(f, a, x) \in Sheets(A)
  BY <1>1 DEF Raised, Sheets
<1>. QED BY <1>1, <1>2, <1>3 DEF Raised

\* Two entries of a balance sheet move by opposite amounts, also when they are
\* the same entry: the sum stays.
LEMMA SumTransfer ==
  ASSUME NEW A, IsFiniteSet(A), NEW f \in [A -> Int],
         NEW a \in A, NEW b \in A, NEW x \in Int
  PROVE  SumFunction(Move(f, a, b, x)) = SumFunction(f)
<1>1. -x \in Int /\ f \in Sheets(A)
  BY DEF Sheets
<1>2. /\ Raised(f, a, -x) \in Sheets(A) /\ SumFunction(f) \in Int
      /\ SumFunction(Raised(f, a, -x)) = SumFunction(f) + (-x)
  BY ONLY <1>1, IsFiniteSet(A), a \in A, SumRaised
<1>3. SumFunction(Raised(Raised(f, a, -x), b, x)) = SumFunction(Raised(f, a, -x)) + x
  BY ONLY <1>2, IsFiniteSet(A), b \in A, x \in Int, SumRaised
<1>4. Move(f, a, b, x) = Raised(Raised(f, a, -x), b, x)
  <2>1. f[a] - x = f[a] + (-x)
    OBVIOUS
  <2>. QED BY <2>1 DEF Move, Raised
<1>. QED BY <1>2, <1>3, <1>4

\* The empty ledger of __init__ is a ledger, with no credits and nothing frozen.
LEMMA EmptyLedgerIsSound ==
  ASSUME NEW A, IsFiniteSet(A), NEW K, IsFiniteSet(K)
  PROVE  /\ EmptyLedger(A, K) \in Ledgers(A, K)
         /\ FrozenMatchesLocks(EmptyLedger(A, K))
         /\ Credits(EmptyLedger(A, K)) = 0
<1>. DEFINE L == EmptyLedger(A, K)
<1>1. L \in Ledgers(A, K)
  BY DEF EmptyLedger, Ledgers
<1>2. L.available = [a \in A |-> 0] /\ L.frozen = [a \in A |-> 0]
      /\ L.locks = [a \in A |-> [k \in K |-> 0]]
  BY DEF EmptyLedger
<1>3. SumFunction([a \in A |-> 0]) = 0 /\ SumFunction([k \in K |-> 0]) = 0
  BY SumZero
<1>4. FrozenMatchesLocks(L)
  BY <1>2, <1>3 DEF FrozenMatchesLocks
<1>5. Credits(L) = 0
  BY <1>2, <1>3 DEF Credits
<1>. QED BY <1>1, <1>4, <1>5
-----------------------------------------------------------------------------
(* The mutations.  Each lemma: types, frozen = sum of locks, credits.      *)

\* A ledger that is well typed and whose frozen balances match its locks.
SoundLedger(L, A, K) == L \in Ledgers(A, K) /\ FrozenMatchesLocks(L)

\* FrozenMatchesLocks looks at two fields only.
LEMMA MatchesFields ==
  ASSUME NEW A, NEW K, NEW L \in Ledgers(A, K)
  PROVE  FrozenMatchesLocks(L) <=> Matches(L.frozen, L.locks)
BY DEF FrozenMatchesLocks, Matches, Ledgers

\* The fields of a sound ledger.
LEMMA SoundFields ==
  ASSUME NEW A, NEW K, NEW L, SoundLedger(L, A, K)
  PROVE  /\ L \in Ledgers(A, K) /\ FrozenMatchesLocks(L)
         /\ L.available \in [A -> Int] /\ L.frozen \in [A -> Int]
         /\ L.locks \in [A -> [K -> Nat]]
         /\ Matches(L.frozen, L.locks)
BY MatchesFields DEF SoundLedger, Ledgers

\* Credits are an integer.
LEMMA CreditsInt ==
  ASSUME NEW A, NEW K, IsFiniteSet(A), NEW L, SoundLedger(L, A, K)
  PROVE  SumFunction(L.available) \in Int /\ SumFunction(L.frozen) \in Int
<1>1. L.available \in [A -> Int] /\ L.frozen \in [A -> Int]
  BY SoundFields
<1>2. CASE A = {}
  <2>1. \A a \in A : L.available[a] = 0 /\ L.frozen[a] = 0
    BY <1>2
  <2>2. SumFunction(L.available) = 0 /\ SumFunction(L.frozen) = 0
    BY ONLY <1>1, <2>1, IsFiniteSet(A), SumZero
  <2>. QED BY <2>2
<1>3. CASE A # {}
  <2>1. PICK a \in A : TRUE
    BY <1>3
  <2>2. 0 \in Int
    OBVIOUS
  <2>. QED BY ONLY <1>1, <2>1, <2>2, IsFiniteSet(A), SumExcept
<1>. QED BY <1>2, <1>3

\* mint: the account gains x, and so does the system.
LEMMA MintIsSound ==
  ASSUME NEW A, NEW K, IsFiniteSet(A), NEW L, SoundLedger(L, A, K),
         NEW a \in A, NEW x \in Int
  PROVE  SoundLedger(Mint(L, a, x), A, K) /\ Credits(Mint(L, a, x)) = Credits(L) + x
<1>. DEFINE M == Mint(L, a, x)
            v == [L.available EXCEPT ![a] = L.available[a] + x]
<1>1. /\ L \in Ledgers(A, K) /\ FrozenMatchesLocks(L)
      /\ L.available \in [A -> Int] /\ L.available[a] \in Int
  BY SoundFields
<1>2. v \in [A -> Int]
  BY <1>1
<1>3. M.available = v /\ M.frozen = L.frozen /\ M.locks = L.locks
  BY <1>1 DEF Mint, Ledgers
<1>4. M \in Ledgers(A, K)
  BY <1>1, <1>2 DEF Mint, Ledgers
<1>5. FrozenMatchesLocks(M)
  <2>. HIDE DEF M
  <2>. QED BY <1>1, <1>3 DEF FrozenMatchesLocks
<1>6. SumFunction(v) = SumFunction(L.available) + (L.available[a] + x) - L.available[a]
  <2>1. L.available[a] + x \in Int
    BY <1>1
  <2>. QED BY ONLY <1>1, <2>1, IsFiniteSet(A), a \in A, SumExcept
<1>7. Credits(M) = Credits(L) + x
  <2>1. SumFunction(L.available) \in Int /\ SumFunction(L.frozen) \in Int
    BY CreditsInt
  <2>. HIDE DEF M, v
  <2>. QED BY <1>1, <1>3, <1>6, <2>1 DEF Credits
<1>. QED BY <1>4, <1>5, <1>7 DEF SoundLedger
\* lock and increase_lock: credits move from available to frozen.
LEMMA FreezeIsSound ==
  ASSUME NEW A, NEW K, IsFiniteSet(A), IsFiniteSet(K), NEW L, SoundLedger(L, A, K),
         NEW a \in A, NEW k \in K, NEW x \in Int, L.locks[a][k] + x \in Nat
  PROVE  SoundLedger(Freeze(L, a, k, x), A, K) /\ Credits(Freeze(L, a, k, x)) = Credits(L)
<1>. DEFINE M == Freeze(L, a, k, x)
            v == [L.available EXCEPT ![a] = L.available[a] - x]
            f == [L.frozen EXCEPT ![a] = L.frozen[a] + x]
            l == [L.locks EXCEPT ![a][k] = L.locks[a][k] + x]
<1>1. L \in Ledgers(A, K) /\ Matches(L.frozen, L.locks)
  BY SoundFields
<1>2. L.available \in [A -> Int]
  BY SoundFields
<1>3. L.frozen \in [A -> Int]
  BY SoundFields
<1>4. L.locks \in [A -> [K -> Nat]]
  BY SoundFields
<1>5. f \in [A -> Int] /\ l \in [A -> [K -> Nat]] /\ Matches(f, l)
  BY <1>1, <1>3, <1>4, OneLockMoves
<1>6. SumFunction(L.available) \in Int /\ SumFunction(v) = SumFunction(L.available) - x
  BY <1>2, SumDown
<1>7. SumFunction(L.frozen) \in Int /\ SumFunction(f) = SumFunction(L.frozen) + x
  BY <1>3, SumUp
<1>8. M.available = v /\ M.frozen = f /\ M.locks = l
  BY <1>1 DEF Freeze, Ledgers
<1>9. M \in Ledgers(A, K)
  <2>1. v \in [A -> Int]
    BY <1>2
  <2>. QED BY <1>1, <1>5, <2>1 DEF Freeze, Ledgers
<1>. HIDE DEF M, v, f, l
<1>10. FrozenMatchesLocks(M)
  BY <1>5, <1>8, <1>9, MatchesFields
<1>11. Credits(M) = Credits(L)
  BY <1>6, <1>7, <1>8 DEF Credits
<1>. QED BY <1>9, <1>10, <1>11 DEF SoundLedger, M

\* decrease_lock and release_lock undo a lock: they are a lock of -x.
LEMMA DecreaseIsSound ==
  ASSUME NEW A, NEW K, IsFiniteSet(A), IsFiniteSet(K), NEW L, SoundLedger(L, A, K),
         NEW a \in A, NEW k \in K, NEW x \in Int, x <= L.locks[a][k]
  PROVE  /\ SoundLedger(DecreaseLock(L, a, k, x), A, K)
         /\ Credits(DecreaseLock(L, a, k, x)) = Credits(L)
<1>1. /\ L \in Ledgers(A, K) /\ L.available[a] \in Int /\ L.frozen[a] \in Int
      /\ L.available \in [A -> Int] /\ L.frozen \in [A -> Int]
      /\ L.locks \in [A -> [K -> Nat]] /\ L.locks[a][k] \in Nat
  BY SoundFields
<1>2. -x \in Int /\ L.locks[a][k] + (-x) \in Nat
  BY <1>1
<1>3. DecreaseLock(L, a, k, x) = Freeze(L, a, k, -x)
  <2>1. /\ L.available[a] + x = L.available[a] - (-x)
        /\ L.frozen[a] - x = L.frozen[a] + (-x)
        /\ L.locks[a][k] - x = L.locks[a][k] + (-x)
    BY <1>1
  <2>. QED BY ONLY <2>1 DEF DecreaseLock, Freeze
<1>. QED BY <1>2, <1>3, FreezeIsSound
\* settle_lock: the lock is gone, and the system has the payout instead of it.
LEMMA SettleIsSound ==
  ASSUME NEW A, NEW K, IsFiniteSet(A), IsFiniteSet(K), NEW L, SoundLedger(L, A, K),
         NEW a \in A, NEW k \in K, NEW payout \in Int
  PROVE  /\ SoundLedger(SettleLock(L, a, k, payout), A, K)
         /\ Credits(SettleLock(L, a, k, payout)) = Credits(L) + payout - L.locks[a][k]
<1>. DEFINE N == ReleaseLock(L, a, k)
            x == payout - L.locks[a][k]
<1>1. /\ L \in Ledgers(A, K) /\ L.available[a] \in Int /\ L.frozen[a] \in Int
      /\ L.available \in [A -> Int]
      /\ L.locks[a][k] \in Nat
  BY SoundFields
<1>2. SoundLedger(N, A, K) /\ Credits(N) = Credits(L)
  BY <1>1, DecreaseIsSound DEF ReleaseLock
<1>3. /\ SoundLedger(Mint(N, a, x), A, K)
      /\ Credits(Mint(N, a, x)) = Credits(N) + x
  <2>1. x \in Int
    BY <1>1
  <2>. HIDE DEF N, x
  <2>. QED BY <1>2, <2>1, MintIsSound
<1>4. SettleLock(L, a, k, payout) = Mint(N, a, x)
  <2>1. N.available[a] = L.available[a] + L.locks[a][k]
    BY <1>1 DEF ReleaseLock, DecreaseLock, Ledgers
  <2>2. N.available[a] + x = L.available[a] + payout /\ L.locks[a][k] - L.locks[a][k] = 0
    BY <1>1, <2>1
  <2>3. Mint(N, a, x) = [N EXCEPT !.available[a] = L.available[a] + payout]
    <3>. HIDE DEF N, x
    <3>. QED BY <2>2 DEF Mint
  <2>4. N = [L EXCEPT !.available[a] = L.available[a] + L.locks[a][k],
                      !.frozen[a] = L.frozen[a] - L.locks[a][k], !.locks[a][k] = 0]
    BY <2>2 DEF ReleaseLock, DecreaseLock
  <2>5. SettleLock(L, a, k, payout) = [N EXCEPT !.available[a] = L.available[a] + payout]
    <3>. HIDE DEF N, x
    <3>. QED BY <1>1, <2>4 DEF SettleLock, Ledgers
  <2>. QED BY <2>3, <2>5
<1>5. Credits(L) \in Int
  BY CreditsInt DEF Credits
<1>6. Credits(N) + x = Credits(L) + payout - L.locks[a][k]
  BY <1>1, <1>2, <1>5
<1>. QED BY <1>3, <1>4, <1>6

\* transfer_available: what one account loses the other gains.
LEMMA TransferAvailableIsSound ==
  ASSUME NEW A, NEW K, IsFiniteSet(A), IsFiniteSet(K), NEW L, SoundLedger(L, A, K),
         NEW a \in A, NEW b \in A, NEW x \in Int
  PROVE  /\ SoundLedger(TransferAvailable(L, a, b, x), A, K)
         /\ Credits(TransferAvailable(L, a, b, x)) = Credits(L)
<1>. DEFINE M == TransferAvailable(L, a, b, x)
            v == Move(L.available, a, b, x)
<1>1. L \in Ledgers(A, K) /\ FrozenMatchesLocks(L)
  BY SoundFields
<1>2. L.available \in [A -> Int]
  BY SoundFields
<1>3. v \in [A -> Int]
  BY <1>2 DEF Move
<1>4. M.available = v /\ M.frozen = L.frozen /\ M.locks = L.locks
  BY <1>1 DEF TransferAvailable, Ledgers
<1>5. M \in Ledgers(A, K)
  BY <1>1, <1>3 DEF TransferAvailable, Ledgers
<1>6. SumFunction(v) = SumFunction(L.available)
  BY <1>2, SumTransfer
<1>. HIDE DEF M, v
<1>7. FrozenMatchesLocks(M)
  BY <1>1, <1>4 DEF FrozenMatchesLocks
<1>8. Credits(M) = Credits(L)
  BY <1>4, <1>6 DEF Credits
<1>. QED BY <1>5, <1>7, <1>8 DEF SoundLedger, M

\* transfer_frozen: two locks and two frozen balances move, possibly of the same
\* account and possibly the same lock.
LEMMA TransferFrozenIsSound ==
  ASSUME NEW A, NEW K, IsFiniteSet(A), IsFiniteSet(K), NEW L, SoundLedger(L, A, K),
         NEW a \in A, NEW k \in K, NEW b \in A, NEW j \in K, NEW x \in Nat,
         x <= L.locks[a][k]
  PROVE  /\ SoundLedger(TransferFrozen(L, a, k, b, j, x), A, K)
         /\ Credits(TransferFrozen(L, a, k, b, j, x)) = Credits(L)
<1>. DEFINE M == TransferFrozen(L, a, k, b, j, x)
            f == [L.frozen EXCEPT ![a] = L.frozen[a] + (-x)]
            l == [L.locks EXCEPT ![a][k] = L.locks[a][k] + (-x)]
            f2 == [f EXCEPT ![b] = f[b] + x]
            l2 == [l EXCEPT ![b][j] = l[b][j] + x]
<1>1. L \in Ledgers(A, K) /\ Matches(L.frozen, L.locks)
  BY SoundFields
<1>2. L.frozen \in [A -> Int]
  BY SoundFields
<1>3. L.locks \in [A -> [K -> Nat]]
  BY SoundFields
<1>4. f \in [A -> Int] /\ l \in [A -> [K -> Nat]] /\ Matches(f, l)
  <2>1. -x \in Int /\ L.locks[a][k] + (-x) \in Nat
    BY <1>3
  <2>. QED BY <1>1, <1>2, <1>3, <2>1, OneLockMoves
<1>5. f2 \in [A -> Int] /\ l2 \in [A -> [K -> Nat]] /\ Matches(f2, l2)
  <2>. HIDE DEF f, l
  <2>1. x \in Int /\ l[b][j] + x \in Nat
    BY <1>4
  <2>. QED BY <1>4, <2>1, OneLockMoves
<1>6. f2 = Move(L.frozen, a, b, x) /\ l2 = MoveLocked(L.locks, a, k, b, j, x)
  <2>1. L.frozen[a] \in Int /\ L.locks[a][k] \in Nat
    BY <1>2, <1>3
  <2>2. L.frozen[a] + (-x) = L.frozen[a] - x /\ L.locks[a][k] + (-x) = L.locks[a][k] - x
    BY <2>1
  <2>. QED BY <2>2 DEF Move, MoveLocked
<1>7. SumFunction(f2) = SumFunction(L.frozen)
  <2>. HIDE DEF f2
  <2>. QED BY <1>2, <1>6, SumTransfer
<1>. HIDE DEF M, f2, l2
<1>8. M.available = L.available /\ M.frozen = f2 /\ M.locks = l2 /\ M \in Ledgers(A, K)
  BY <1>1, <1>5, <1>6 DEF Ledgers, TransferFrozen, M
<1>9. FrozenMatchesLocks(M)
  BY <1>5, <1>8, MatchesFields
<1>10. Credits(M) = Credits(L)
  BY <1>7, <1>8 DEF Credits
<1>. QED BY <1>8, <1>9, <1>10 DEF SoundLedger, M
-----------------------------------------------------------------------------
(* The same mutations entry by entry, for the proofs about the venues.      *)

\* N is L with the lock k of a lowered by x (raised, when x is negative).
Lowers(N, L, A, K, a, k, x) ==
  /\ SoundLedger(N, A, K) /\ Credits(N) = Credits(L)
  /\ \A b \in A : /\ N.available[b] = L.available[b] + IF b = a THEN x ELSE 0
                  /\ N.frozen[b] = L.frozen[b] - IF b = a THEN x ELSE 0
  /\ \A b \in A, j \in K :
       N.locks[b][j] = L.locks[b][j] - IF b = a /\ j = k THEN x ELSE 0

\* N is L with x handed from a to b, who may be the same.
HandsOver(N, L, A, K, a, b, x) ==
  /\ SoundLedger(N, A, K) /\ Credits(N) = Credits(L)
  /\ N.frozen = L.frozen /\ N.locks = L.locks
  /\ \A c \in A : N.available[c] =
       L.available[c] - (IF c = a THEN x ELSE 0) + IF c = b THEN x ELSE 0

\* decrease_lock
LEMMA DecreaseLowers ==
  ASSUME NEW A, NEW K, IsFiniteSet(A), IsFiniteSet(K), NEW L, SoundLedger(L, A, K),
         NEW a \in A, NEW k \in K, NEW x \in Int, x <= L.locks[a][k]
  PROVE  Lowers(DecreaseLock(L, a, k, x), L, A, K, a, k, x)
<1>. DEFINE N == DecreaseLock(L, a, k, x)
<1>1. /\ L \in Ledgers(A, K) /\ L.available \in [A -> Int] /\ L.frozen \in [A -> Int]
      /\ L.locks \in [A -> [K -> Nat]]
  BY SoundFields
<1>2. /\ N.available = [L.available EXCEPT ![a] = @ + x]
      /\ N.frozen = [L.frozen EXCEPT ![a] = @ - x]
      /\ N.locks = [L.locks EXCEPT ![a][k] = @ - x]
  BY <1>1 DEF DecreaseLock, Ledgers
<1>3. SoundLedger(N, A, K) /\ Credits(N) = Credits(L)
  BY DecreaseIsSound
<1>. HIDE DEF N
<1>4. ASSUME NEW b \in A
      PROVE  /\ N.available[b] = L.available[b] + IF b = a THEN x ELSE 0
             /\ N.frozen[b] = L.frozen[b] - IF b = a THEN x ELSE 0
  <2>1. L.available[b] \in Int /\ L.frozen[b] \in Int
    BY <1>1
  <2>. QED BY <1>1, <1>2, <2>1
<1>5. ASSUME NEW b \in A, NEW j \in K
      PROVE  N.locks[b][j] = L.locks[b][j] - IF b = a /\ j = k THEN x ELSE 0
  <2>1. L.locks[b][j] \in Int
    BY <1>1
  <2>. QED BY <1>1, <1>2, <2>1
<1>. QED BY <1>3, <1>4, <1>5 DEF N, Lowers

\* lock and increase_lock: lowering by the opposite amount.
LEMMA FreezeLowers ==
  ASSUME NEW A, NEW K, IsFiniteSet(A), IsFiniteSet(K), NEW L, SoundLedger(L, A, K),
         NEW a \in A, NEW k \in K, NEW x \in Nat
  PROVE  Lowers(Freeze(L, a, k, x), L, A, K, a, k, -x)
<1>1. /\ L \in Ledgers(A, K) /\ L.available[a] \in Int /\ L.frozen[a] \in Int
      /\ L.available \in [A -> Int] /\ L.frozen \in [A -> Int]
      /\ L.locks \in [A -> [K -> Nat]] /\ L.locks[a][k] \in Nat
  BY SoundFields
<1>2. -x \in Int /\ -x <= L.locks[a][k]
  BY <1>1
<1>3. Freeze(L, a, k, x) = DecreaseLock(L, a, k, -x)
  <2>1. /\ L.available[a] - x = L.available[a] + (-x)
        /\ L.frozen[a] + x = L.frozen[a] - (-x)
        /\ L.locks[a][k] + x = L.locks[a][k] - (-x)
    BY <1>1
  <2>. QED BY ONLY <2>1 DEF DecreaseLock, Freeze
<1>. QED BY <1>2, <1>3, DecreaseLowers

\* release_lock
LEMMA ReleaseLowers ==
  ASSUME NEW A, NEW K, IsFiniteSet(A), IsFiniteSet(K), NEW L, SoundLedger(L, A, K),
         NEW a \in A, NEW k \in K
  PROVE  Lowers(ReleaseLock(L, a, k), L, A, K, a, k, L.locks[a][k])
<1>1. L.locks[a][k] \in Int /\ L.locks[a][k] <= L.locks[a][k]
  BY SoundFields
<1>. QED BY <1>1, DecreaseLowers DEF ReleaseLock

\* transfer_available
LEMMA TransferHandsOver ==
  ASSUME NEW A, NEW K, IsFiniteSet(A), IsFiniteSet(K), NEW L, SoundLedger(L, A, K),
         NEW a \in A, NEW b \in A, NEW x \in Int
  PROVE  HandsOver(TransferAvailable(L, a, b, x), L, A, K, a, b, x)
<1>. DEFINE N == TransferAvailable(L, a, b, x)
<1>1. L \in Ledgers(A, K) /\ L.available \in [A -> Int]
  BY SoundFields
<1>2. SoundLedger(N, A, K) /\ Credits(N) = Credits(L)
  BY TransferAvailableIsSound
<1>3. N.frozen = L.frozen /\ N.locks = L.locks /\ N.available = Move(L.available, a, b, x)
  BY <1>1 DEF TransferAvailable, Ledgers
<1>. HIDE DEF N
<1>4. ASSUME NEW c \in A
      PROVE  N.available[c] = L.available[c] - (IF c = a THEN x ELSE 0) + IF c = b THEN x ELSE 0
  <2>. DEFINE v == L.available
              w == [v EXCEPT ![a] = @ - x]
  <2>1. v \in [A -> Int] /\ v[c] \in Int /\ w \in [A -> Int] /\ w[c] \in Int
    BY <1>1
  <2>2. w[c] = v[c] - IF c = a THEN x ELSE 0
    BY <2>1
  <2>3. N.available[c] = w[c] + IF c = b THEN x ELSE 0
    <3>1. N.available = [w EXCEPT ![b] = @ + x]
      BY <1>3 DEF Move
    <3>. HIDE DEF w
    <3>. QED BY <2>1, <3>1
  <2>. HIDE DEF w
  <2>. QED BY <2>1, <2>2, <2>3
<1>. QED BY <1>2, <1>3, <1>4 DEF N, HandsOver

\* N is L with x of the lock k of a handed to the lock j of b, another account.
HandsFrozen(N, L, A, K, a, k, b, j, x) ==
  /\ SoundLedger(N, A, K) /\ Credits(N) = Credits(L) /\ N.available = L.available
  /\ \A c \in A : N.frozen[c] =
       L.frozen[c] - (IF c = a THEN x ELSE 0) + IF c = b THEN x ELSE 0
  /\ \A c \in A, i \in K : N.locks[c][i] =
       L.locks[c][i] - (IF c = a /\ i = k THEN x ELSE 0) + IF c = b /\ i = j THEN x ELSE 0

\* transfer_frozen, between two accounts
LEMMA TransferHandsFrozen ==
  ASSUME NEW A, NEW K, IsFiniteSet(A), IsFiniteSet(K), NEW L, SoundLedger(L, A, K),
         NEW a \in A, NEW k \in K, NEW b \in A, NEW j \in K, NEW x \in Nat,
         x <= L.locks[a][k], a # b
  PROVE  HandsFrozen(TransferFrozen(L, a, k, b, j, x), L, A, K, a, k, b, j, x)
<1>. DEFINE N == TransferFrozen(L, a, k, b, j, x)
            f == [L.frozen EXCEPT ![a] = @ - x]
            l == [L.locks EXCEPT ![a][k] = @ - x]
<1>1. /\ L \in Ledgers(A, K) /\ L.frozen \in [A -> Int] /\ L.locks \in [A -> [K -> Nat]]
  BY SoundFields
<1>2. SoundLedger(N, A, K) /\ Credits(N) = Credits(L)
  BY TransferFrozenIsSound
<1>3. /\ N.available = L.available
      /\ N.frozen = [f EXCEPT ![b] = @ + x] /\ N.locks = [l EXCEPT ![b][j] = @ + x]
  BY <1>1 DEF TransferFrozen, Ledgers, Move, MoveLocked
<1>4. /\ f \in [A -> Int] /\ f[a] = L.frozen[a] - x
      /\ \A c \in A : c # a => f[c] = L.frozen[c]
  BY <1>1
<1>5. /\ l \in [A -> [K -> Int]] /\ l[a][k] = L.locks[a][k] - x
      /\ \A c \in A, i \in K : ~ (c = a /\ i = k) => l[c][i] = L.locks[c][i]
  BY <1>1
<1>. HIDE DEF f, l, N
<1>6. ASSUME NEW c \in A
      PROVE  N.frozen[c] = L.frozen[c] - (IF c = a THEN x ELSE 0) + IF c = b THEN x ELSE 0
  <2>1. L.frozen[c] \in Int /\ f[c] \in Int
    BY <1>1, <1>4
  <2>2. N.frozen[c] = IF c = b THEN f[c] + x ELSE f[c]
    BY <1>3, <1>4
  <2>. QED BY <1>4, <2>1, <2>2
<1>7. ASSUME NEW c \in A, NEW i \in K
      PROVE  N.locks[c][i] = L.locks[c][i] - (IF c = a /\ i = k THEN x ELSE 0)
                               + IF c = b /\ i = j THEN x ELSE 0
  <2>1. L.locks[c][i] \in Int /\ l[c][i] \in Int
    BY <1>1, <1>5
  <2>2. N.locks[c][i] = IF c = b /\ i = j THEN l[c][i] + x ELSE l[c][i]
    BY <1>3, <1>5
  <2>. QED BY <1>5, <2>1, <2>2
<1>. QED BY <1>2, <1>3, <1>6, <1>7 DEF N, HandsFrozen

-----------------------------------------------------------------------------
(* The order of a feed                                                     *)

\* The members of S from i on.
From(S, i) == {j \in S : j >= i}

\* NthLast numbers the members of a finite set of integers from the largest down.
LEMMA NthLastIs ==
  ASSUME NEW S, IsFiniteSet(S), S \subseteq Int
  PROVE  /\ Cardinality(S) \in Nat
         /\ \A k \in 1..Cardinality(S) :
              /\ NthLast(S, k) \in S
              /\ Cardinality(From(S, NthLast(S, k))) = k
         /\ \A i \in S : /\ Cardinality(From(S, i)) \in 1..Cardinality(S)
                         /\ NthLast(S, Cardinality(From(S, i))) = i
         /\ \A k, l \in 1..Cardinality(S) : k < l => NthLast(S, k) > NthLast(S, l)
<1>. DEFINE n == Cardinality(S)
            c == [i \in S |-> Cardinality(From(S, i))]
<1>1. n \in Nat
  BY FS_CardinalityType
<1>. HIDE DEF n
<1>2. ASSUME NEW i \in S
      PROVE  c[i] \in 1..n /\ IsFiniteSet(From(S, i)) /\ i \in From(S, i) /\ From(S, i) \subseteq S
  <2>1. i \in From(S, i) /\ From(S, i) \in SUBSET S
    BY DEF From
  <2>. DEFINE T == From(S, i)
  <2>. HIDE DEF T
  <2>2. IsFiniteSet(T) /\ Cardinality(T) <= n
    BY <2>1, FS_Subset DEF T, n
  <2>3. Cardinality(T) \in Nat /\ Cardinality(T) # 0
    BY <2>1, <2>2, FS_CardinalityType, FS_EmptySet DEF T
  <2>4. Cardinality(T) \in 1..n
    BY <1>1, <2>2, <2>3
  <2>. QED BY <2>1, <2>2, <2>4 DEF T
<1>3. ASSUME NEW i \in S, NEW j \in S, i < j
      PROVE  c[j] < c[i]
  <2>. DEFINE T == From(S, i)
              U == From(S, j)
  <2>1. U \in SUBSET T /\ i \in T /\ i \notin U
    <3>1. i \in Int /\ j \in Int /\ \A z \in S : z \in Int
      OBVIOUS
    <3>2. \A z \in S : z >= j => z >= i
      BY <1>3, <3>1
    <3>3. i >= i /\ ~(i >= j)
      BY <1>3, <3>1
    <3>. QED BY <3>2, <3>3 DEF From
  <2>2. IsFiniteSet(T) /\ c[i] \in 1..n /\ c[j] \in 1..n /\ c[i] = Cardinality(T) /\ c[j] = Cardinality(U)
    BY <1>2
  <2>. HIDE DEF T, U, c
  <2>3. Cardinality(U) <= Cardinality(T) /\ (Cardinality(T) = Cardinality(U) => T = U)
    BY <2>1, <2>2, FS_Subset
  <2>4. c[i] \in Int /\ c[j] \in Int
    BY <2>2
  <2>. QED BY <2>1, <2>2, <2>3, <2>4
<1>4. c \in [S -> 1..n]
  BY <1>2
<1>5. ASSUME NEW i \in S, NEW j \in S, c[i] = c[j] PROVE i = j
  <2>1. i \in Int /\ j \in Int /\ c[i] \in Int
    BY <1>4
  <2>2. ~(i < j) /\ ~(j < i)
    BY <1>3, <1>5, <2>1
  <2>. QED BY <2>1, <2>2
<1>. HIDE DEF c
<1>6. c \in Surjection(S, 1..n)
  <2>1. c \in Injection(S, 1..n)
    BY <1>4, <1>5 DEF Injection, IsInjective
  <2>2. IsFiniteSet(1..n) /\ Cardinality(1..n) = n
    BY <1>1, FS_Interval
  <2>. QED BY <2>1, <2>2, FS_Injection DEF n
<1>7. ASSUME NEW k \in 1..n
      PROVE  NthLast(S, k) \in S /\ c[NthLast(S, k)] = k
  <2>1. PICK i \in S : c[i] = k
    BY <1>6 DEF Surjection
  <2>2. Cardinality(From(S, i)) = k
    BY <2>1 DEF c
  <2>3. NthLast(S, k) \in S /\ Cardinality(From(S, NthLast(S, k))) = k
    <3>1. NthLast(S, k) = CHOOSE j \in S : Cardinality(From(S, j)) = k
      BY DEF NthLast, From
    <3>. QED BY <2>2, <3>1
  <2>. QED BY <2>3 DEF c
<1>8. ASSUME NEW i \in S
      PROVE  NthLast(S, c[i]) = i
  BY <1>4, <1>5, <1>7
<1>9. ASSUME NEW k \in 1..n, NEW l \in 1..n, k < l
      PROVE  NthLast(S, k) > NthLast(S, l)
  <2>1. NthLast(S, k) \in S /\ NthLast(S, l) \in S /\ c[NthLast(S, k)] = k /\ c[NthLast(S, l)] = l
    BY <1>7
  <2>2. NthLast(S, k) \in Int /\ NthLast(S, l) \in Int /\ k \in Int /\ l \in Int
    <3>1. \A z \in S : z \in Int
      OBVIOUS
    <3>2. NthLast(S, k) \in Int
      BY ONLY <2>1, <3>1
    <3>3. NthLast(S, l) \in Int
      BY ONLY <2>1, <3>1
    <3>4. k \in Int /\ l \in Int
      BY <1>1
    <3>. QED BY <3>2, <3>3, <3>4
  <2>3. ~(NthLast(S, k) < NthLast(S, l)) /\ NthLast(S, k) # NthLast(S, l)
    BY <1>3, <1>9, <2>1, <2>2
  <2>. QED BY <2>2, <2>3
<1>10. \A i \in S : c[i] = Cardinality(From(S, i))
  BY DEF c
<1>11. \A k \in 1..n : NthLast(S, k) \in S /\ Cardinality(From(S, NthLast(S, k))) = k
  BY <1>7, <1>10
<1>12. \A i \in S : Cardinality(From(S, i)) \in 1..n /\ NthLast(S, Cardinality(From(S, i))) = i
  BY <1>4, <1>8, <1>10
<1>. QED BY <1>1, <1>9, <1>11, <1>12 DEF n

\* The newest entries left out, the others keep their order.
LEMMA NthLastBelow ==
  ASSUME NEW S, IsFiniteSet(S), S \subseteq Int, NEW s \in 1..Cardinality(S),
         NEW T, T = {i \in S : i < NthLast(S, s)}
  PROVE  /\ Cardinality(T) = Cardinality(S) - s /\ Cardinality(T) \in Nat
         /\ \A k \in 1..Cardinality(T) : NthLast(T, k) = NthLast(S, s + k)
<1>. DEFINE m == NthLast(S, s)
            n == Cardinality(S)
<1>1. n \in Nat /\ m \in S /\ m \in Int /\ Cardinality(From(S, m)) = s
  BY NthLastIs
<1>2. IsFiniteSet(T) /\ T \subseteq S /\ T \subseteq Int /\ T = {i \in S : i < m}
  <2>1. T \in SUBSET S
    OBVIOUS
  <2>. QED BY <2>1, FS_Subset
<1>. HIDE DEF m
<1>3. IsFiniteSet(From(S, m)) /\ From(S, m) \subseteq S
  <2>1. From(S, m) \in SUBSET S
    BY DEF From
  <2>. QED BY <2>1, FS_Subset
<1>4. ASSUME NEW U, U \subseteq T
      PROVE  Cardinality(From(S, m) \cup U) = s + Cardinality(U) /\ Cardinality(U) \in Nat
  <2>1. From(S, m) \cap U = {}
    <3>1. \A z \in U : z \in S /\ z < m /\ z \in Int
      BY <1>2, <1>4
    <3>2. \A z \in U : ~(z >= m)
      BY <1>1, <3>1
    <3>. QED BY <3>2 DEF From
  <2>2. IsFiniteSet(U) /\ Cardinality(U) \in Nat
    BY <1>2, <1>4, FS_Subset, FS_CardinalityType
  <2>3. Cardinality(From(S, m) \cup U)
          = Cardinality(From(S, m)) + Cardinality(U) - Cardinality(From(S, m) \cap U)
    BY <1>3, <2>2, FS_Union
  <2>4. Cardinality(From(S, m) \cap U) = 0
    BY <2>1, FS_EmptySet
  <2>5. s \in Int
    BY <1>1
  <2>. QED BY <1>1, <2>2, <2>3, <2>4, <2>5
<1>5. Cardinality(T) = n - s /\ Cardinality(T) \in Nat
  <2>1. S = From(S, m) \cup T
    <3>1. \A z \in S : z \in Int
      OBVIOUS
    <3>2. \A z \in S : z >= m \/ z < m
      BY <1>1, <3>1
    <3>. QED BY <1>2, <3>2 DEF From
  <2>2. n = s + Cardinality(T) /\ Cardinality(T) \in Nat
    BY <1>4, <2>1
  <2>3. s \in Int
    BY <1>1
  <2>. QED BY <1>1, <2>2, <2>3
<1>6. ASSUME NEW k \in 1..Cardinality(T)
      PROVE  NthLast(T, k) = NthLast(S, s + k)
  <2>. DEFINE i == NthLast(T, k)
  <2>1. i \in T /\ Cardinality(From(T, i)) = k
    BY <1>2, NthLastIs
  <2>. HIDE DEF i
  <2>2. From(S, i) = From(S, m) \cup From(T, i)
    <3>1. \A z \in S : z \in Int
      OBVIOUS
    <3>2. i \in S /\ i < m /\ i \in Int
      BY <1>2, <2>1, <3>1
    <3>3. \A z \in S : z >= i <=> z >= m \/ (z < m /\ z >= i)
      BY <1>1, <3>1, <3>2
    <3>. QED BY <1>2, <3>3 DEF From
  <2>3. Cardinality(From(S, i)) = s + k
    <3>1. From(T, i) \subseteq T
      BY DEF From
    <3>. QED BY <1>4, <2>1, <2>2, <3>1
  <2>4. NthLast(S, Cardinality(From(S, i))) = i
    BY <1>2, <2>1, NthLastIs
  <2>. QED BY <2>3, <2>4 DEF i
<1>. QED BY <1>5, <1>6 DEF n

\* FromLast and FromFirst are sequences of the set's members, each once.
LEMMA FromLastIs ==
  ASSUME NEW S, IsFiniteSet(S), S \subseteq Int
  PROVE  /\ Cardinality(S) \in Nat
         /\ FromLast(S) \in Seq(S) /\ Len(FromLast(S)) = Cardinality(S)
         /\ \A i \in S : \E k \in 1..Cardinality(S) : FromLast(S)[k] = i
         /\ \A k, l \in 1..Cardinality(S) : FromLast(S)[k] = FromLast(S)[l] => k = l
<1>. DEFINE n == Cardinality(S)
<1>1. /\ n \in Nat
      /\ \A k \in 1..n : NthLast(S, k) \in S
      /\ \A i \in S : Cardinality(From(S, i)) \in 1..n /\ NthLast(S, Cardinality(From(S, i))) = i
      /\ \A k, l \in 1..n : k < l => NthLast(S, k) > NthLast(S, l)
  BY NthLastIs
<1>. HIDE DEF n
<1>2. FromLast(S) = [k \in 1..n |-> NthLast(S, k)]
  BY DEF FromLast, n
<1>3. FromLast(S) \in [1..n -> S]
  BY <1>1, <1>2
<1>4. FromLast(S) \in Seq(S) /\ Len(FromLast(S)) = n
  BY <1>1, <1>3
<1>5. \A i \in S : \E k \in 1..n : FromLast(S)[k] = i
  BY <1>1, <1>2
<1>6. ASSUME NEW k \in 1..n, NEW l \in 1..n, FromLast(S)[k] = FromLast(S)[l] PROVE k = l
  <2>1. NthLast(S, k) = NthLast(S, l) /\ NthLast(S, k) \in Int
    BY <1>1, <1>2, <1>6
  <2>2. ~ (k < l) /\ ~ (l < k)
    BY <1>1, <2>1
  <2>. QED BY <2>2
<1>. QED BY <1>1, <1>4, <1>5, <1>6 DEF n

LEMMA FromFirstIs ==
  ASSUME NEW S, IsFiniteSet(S), S \subseteq Int
  PROVE  /\ Cardinality(S) \in Nat
         /\ FromFirst(S) \in Seq(S) /\ Len(FromFirst(S)) = Cardinality(S)
         /\ Cardinality(S) > 0 =>
              /\ FromFirst(S)[Cardinality(S)] \in S
              /\ \A i \in S : i <= FromFirst(S)[Cardinality(S)]
<1>. DEFINE n == Cardinality(S)
<1>1. /\ n \in Nat
      /\ \A k \in 1..n : NthLast(S, k) \in S
      /\ \A i \in S : Cardinality(From(S, i)) \in 1..n /\ NthLast(S, Cardinality(From(S, i))) = i
      /\ \A k, l \in 1..n : k < l => NthLast(S, k) > NthLast(S, l)
  BY NthLastIs
<1>. HIDE DEF n
<1>2. FromFirst(S) = [k \in 1..n |-> NthLast(S, n + 1 - k)]
  BY DEF FromFirst, n
<1>3. FromFirst(S) \in [1..n -> S]
  <2>1. \A k \in 1..n : n + 1 - k \in 1..n
    BY <1>1
  <2>. QED BY <1>1, <1>2, <2>1
<1>4. FromFirst(S) \in Seq(S) /\ Len(FromFirst(S)) = n
  BY <1>1, <1>3
<1>5. ASSUME n > 0, NEW i \in S PROVE i <= FromFirst(S)[n]
  <2>. DEFINE k == Cardinality(From(S, i))
  <2>1. k \in 1..n /\ NthLast(S, k) = i /\ 1 \in 1..n
    BY <1>1, <1>5
  <2>. HIDE DEF k
  <2>2. FromFirst(S)[n] = NthLast(S, 1)
    <3>1. n \in 1..n /\ n + 1 - n = 1
      BY <1>1, <1>5
    <3>. QED BY <1>2, <3>1
  <2>3. k = 1 \/ NthLast(S, 1) > NthLast(S, k)
    BY <1>1, <2>1
  <2>4. i \in Int /\ NthLast(S, 1) \in Int
    BY <1>1, <2>1
  <2>. QED BY <2>1, <2>2, <2>3, <2>4
<1>6. n > 0 => FromFirst(S)[n] \in S
  BY <1>1, <1>3
<1>. QED BY <1>1, <1>4, <1>5, <1>6 DEF n

\* A page and the place after it.
LEMMA PageFromIs ==
  ASSUME NEW S, NEW feed \in Seq(S), NEW from \in 1..(Len(feed) + 1), NEW limit \in Nat \ {0}
  PROVE  LET n == Len(feed)
             page == PageFrom(feed, from, limit)
         IN  \/ page.next = 0 /\ page.items = SubSeq(feed, from, n)
             \/ \E upTo \in from..(n - 1) :
                  page.next = upTo + 1 /\ page.items = SubSeq(feed, from, upTo)
<1>. DEFINE n == Len(feed)
            upTo == IF from + limit - 1 < n THEN from + limit - 1 ELSE n
            page == PageFrom(feed, from, limit)
<1>0. n \in Nat /\ from \in Nat /\ from >= 1 /\ from <= n + 1
  OBVIOUS
<1>1. /\ page.items = SubSeq(feed, from, upTo)
      /\ page.next = IF from <= upTo /\ upTo < n THEN upTo + 1 ELSE 0
  BY DEF PageFrom
<1>. HIDE DEF n, page
<1>2. upTo = n \/ (upTo \in from..(n - 1) /\ upTo < n)
  BY <1>0
<1>. HIDE DEF upTo
<1>3. ASSUME upTo = n PROVE page.next = 0 /\ page.items = SubSeq(feed, from, n)
  BY <1>0, <1>1, <1>3
<1>4. ASSUME upTo \in from..(n - 1), upTo < n
      PROVE  page.next = upTo + 1 /\ page.items = SubSeq(feed, from, upTo)
  BY <1>0, <1>1, <1>4
<1>. QED BY <1>2, <1>3, <1>4 DEF n, page

LEMMA PagesJoin ==
  ASSUME NEW S, NEW s \in Seq(S), NEW t \in Seq(S)
  PROVE  /\ s \o t \in Seq(S) /\ Len(s \o t) = Len(s) + Len(t)
         /\ \A k \in 1..Len(s) : (s \o t)[k] = s[k]
         /\ \A k \in 1..Len(t) : (s \o t)[Len(s) + k] = t[k]
OBVIOUS

\* The rest of a sequence, taken in two.
LEMMA RestOf ==
  ASSUME NEW S, NEW feed \in Seq(S), NEW from \in 1..(Len(feed) + 1),
         NEW upTo \in from..(Len(feed) - 1)
  PROVE  SubSeq(feed, from, upTo) \o SubSeq(feed, upTo + 1, Len(feed)) = SubSeq(feed, from, Len(feed))
<1>. DEFINE n == Len(feed)
            head == SubSeq(feed, from, upTo)
            tail == SubSeq(feed, upTo + 1, n)
            whole == SubSeq(feed, from, n)
<1>1. n \in Nat /\ from \in Nat /\ upTo \in Nat /\ 1 <= from /\ from <= upTo /\ upTo <= n - 1
  OBVIOUS
<1>2. /\ head \in Seq(S) /\ Len(head) = upTo + 1 - from
      /\ \A k \in 1..(upTo + 1 - from) : head[k] = feed[from + k - 1]
  BY <1>1
<1>3. /\ tail \in Seq(S) /\ Len(tail) = n - upTo
      /\ \A k \in 1..(n - upTo) : tail[k] = feed[upTo + k]
  BY <1>1
<1>4. /\ whole \in Seq(S) /\ Len(whole) = n + 1 - from
      /\ \A k \in 1..(n + 1 - from) : whole[k] = feed[from + k - 1]
  BY <1>1
<1>. HIDE DEF n, head, tail, whole
<1>0. /\ head \o tail \in Seq(S) /\ Len(head \o tail) = Len(head) + Len(tail)
      /\ \A k \in 1..Len(head) : (head \o tail)[k] = head[k]
      /\ \A k \in 1..Len(tail) : (head \o tail)[Len(head) + k] = tail[k]
  <2>1. head \in Seq(S) /\ tail \in Seq(S)
    BY <1>2, <1>3
  <2>. QED BY ONLY <2>1, PagesJoin
<1>5. head \o tail \in Seq(S) /\ Len(head \o tail) = n + 1 - from
  BY <1>0, <1>1, <1>2, <1>3
<1>6. ASSUME NEW k \in 1..(n + 1 - from) PROVE (head \o tail)[k] = whole[k]
  <2>. DEFINE l == k - (upTo + 1 - from)
  <2>1. k \in 1..(upTo + 1 - from) \/ (l \in 1..(n - upTo) /\ upTo + l = from + k - 1)
    BY <1>1
  <2>2. CASE k \in 1..(upTo + 1 - from)
    <3>1. (head \o tail)[k] = head[k]
      BY <1>0, <1>2, <2>2
    <3>. QED BY <1>2, <1>4, <2>2, <3>1
  <2>3. CASE l \in 1..(n - upTo) /\ upTo + l = from + k - 1
    <3>1. Len(head) + l = k
      BY <1>1, <1>2
    <3>. HIDE DEF l
    <3>2. (head \o tail)[k] = tail[l]
      <4>1. l \in 1..Len(tail)
        BY <1>3, <2>3
      <4>2. (head \o tail)[Len(head) + l] = tail[l]
        BY <1>0, <4>1
      <4>. QED BY <3>1, <4>2
    <3>. QED BY <1>3, <1>4, <2>3, <3>2
  <2>. HIDE DEF l
  <2>. QED BY <2>1, <2>2, <2>3
<1>7. head \o tail = whole
  BY <1>4, <1>5, <1>6
<1>. QED BY <1>7 DEF n, head, tail, whole

\* The recursion by which a client reads on.
Reads(rest, pages) ==
  rest = [c \in DOMAIN pages |->
            pages[c].items \o (IF pages[c].next = 0 THEN <<>> ELSE rest[pages[c].next])]

LEMMA ReadIsChoose ==
  ASSUME NEW pages, NEW first
  PROVE  Read(pages, first) = (CHOOSE rest : Reads(rest, pages))[first]
BY DEF Read, Reads

\* Pages that each go on where the one before ended are read as the whole feed.
THEOREM ReadsAll ==
  ASSUME NEW S, NEW feed \in Seq(S), NEW pages, NEW at \in [DOMAIN pages -> 1..(Len(feed) + 1)],
         \A c \in DOMAIN pages :
           \/ pages[c].next = 0 /\ pages[c].items = SubSeq(feed, at[c], Len(feed))
           \/ \E upTo \in at[c]..(Len(feed) - 1) :
                /\ pages[c].next \in DOMAIN pages /\ pages[c].next # 0
                /\ at[pages[c].next] = upTo + 1
                /\ pages[c].items = SubSeq(feed, at[c], upTo),
         NEW first \in DOMAIN pages, at[first] = 1
  PROVE  Read(pages, first) = feed
<1>. DEFINE n == Len(feed)
            C == DOMAIN pages
            whole == [c \in C |-> SubSeq(feed, at[c], n)]
            Last(c) == pages[c].next = 0 /\ pages[c].items = SubSeq(feed, at[c], n)
            More(c, upTo) == /\ pages[c].next \in C /\ pages[c].next # 0
                             /\ at[pages[c].next] = upTo + 1
                             /\ pages[c].items = SubSeq(feed, at[c], upTo)
<1>1. n \in Nat /\ at \in [C -> 1..(n + 1)]
      /\ \A c \in C : Last(c) \/ \E upTo \in at[c]..(n - 1) : More(c, upTo)
  OBVIOUS
<1>2. \A c \in C : at[c] \in 1..(n + 1) /\ SubSeq(feed, at[c], n) \in Seq(S)
  BY <1>1
<1>3. Reads(whole, pages)
  <2>1. ASSUME NEW c \in C
        PROVE  whole[c] = pages[c].items \o (IF pages[c].next = 0 THEN <<>> ELSE whole[pages[c].next])
    <3>1. CASE Last(c)
      <4>1. whole[c] \in Seq(S) /\ pages[c].items = whole[c] /\ pages[c].next = 0
        BY <1>2, <3>1
      <4>. HIDE DEF whole
      <4>2. whole[c] \o <<>> = whole[c]
        BY <4>1
      <4>. QED BY <4>1, <4>2
    <3>2. CASE \E upTo \in at[c]..(n - 1) : More(c, upTo)
      <4>1. PICK upTo \in at[c]..(n - 1) : More(c, upTo)
        BY <3>2
      <4>2. SubSeq(feed, at[c], upTo) \o SubSeq(feed, upTo + 1, n) = SubSeq(feed, at[c], n)
        BY <1>2, <4>1, RestOf
      <4>3. whole[pages[c].next] = SubSeq(feed, upTo + 1, n)
        BY <4>1
      <4>. QED BY <4>1, <4>2, <4>3
    <3>. QED BY <1>1, <3>1, <3>2
  <2>2. whole = [c \in C |-> whole[c]]
    OBVIOUS
  <2>. HIDE DEF whole
  <2>. QED BY <2>1, <2>2 DEF Reads
<1>4. ASSUME NEW rest, Reads(rest, pages)
      PROVE  \A c \in C : rest[c] = whole[c]
  <2>. DEFINE Bad == {c \in C : rest[c] # whole[c]}
              T == {at[c] : c \in Bad}
  <2>. SUFFICES ASSUME Bad # {} PROVE FALSE
    OBVIOUS
  <2>0. Bad \subseteq C /\ \A c \in C : at[c] \in 1..(n + 1)
    BY <1>1
  <2>1. T # {} /\ T \subseteq 1..(n + 1) /\ T \subseteq Int
    <3>. HIDE DEF Bad, C, n
    <3>. QED BY <1>1, <2>0
  <2>2. IsFiniteSet(T)
    <3>1. IsFiniteSet(1..(n + 1))
      BY <1>1, FS_Interval
    <3>. HIDE DEF T
    <3>. QED BY <2>1, <3>1, FS_Subset
  <2>. HIDE DEF T
  <2>3. PICK x \in T : \A y \in T : x >= y
    BY <2>1, <2>2, LargestMember
  <2>4. PICK c \in Bad : at[c] = x
    BY <2>3 DEF T
  <2>5. /\ c \in C /\ rest[c] # whole[c] /\ at[c] \in 1..(n + 1)
        /\ \A d \in C : at[d] > at[c] => rest[d] = whole[d]
    <3>1. ASSUME NEW d \in C, at[d] > at[c], rest[d] # whole[d] PROVE FALSE
      <4>1. at[d] \in T
        BY <3>1 DEF T
      <4>2. at[d] \in Int /\ x \in Int /\ x >= at[d]
        BY <1>1, <2>1, <2>3, <4>1
      <4>. QED BY <2>4, <3>1, <4>2
    <3>. QED BY <1>1, <2>4, <3>1
  <2>. HIDE DEF whole, Bad
  <2>6. /\ rest[c] = pages[c].items \o (IF pages[c].next = 0 THEN <<>> ELSE rest[pages[c].next])
        /\ whole[c] = pages[c].items \o (IF pages[c].next = 0 THEN <<>> ELSE whole[pages[c].next])
    BY <1>3, <1>4, <2>5 DEF Reads
  <2>7. pages[c].next # 0 => rest[pages[c].next] = whole[pages[c].next]
    <3>1. CASE Last(c)
      BY <3>1
    <3>2. CASE \E upTo \in at[c]..(n - 1) : More(c, upTo)
      <4>1. PICK upTo \in at[c]..(n - 1) : More(c, upTo)
        BY <3>2
      <4>2. at[pages[c].next] > at[c]
        BY <1>1, <2>5, <4>1
      <4>. QED BY <2>5, <4>1, <4>2
    <3>. QED BY <1>1, <2>5, <3>1, <3>2
  <2>. QED BY <2>5, <2>6, <2>7
<1>5. \E rest : Reads(rest, pages)
  BY <1>3
<1>6. Reads(CHOOSE rest : Reads(rest, pages), pages)
  BY <1>5
<1>7. Read(pages, first) = whole[first]
  <2>. HIDE DEF whole
  <2>. QED BY <1>4, <1>6, ReadIsChoose
<1>8. SubSeq(feed, 1, n) = feed
  OBVIOUS
<1>. QED BY <1>7, <1>8
=============================================================================
