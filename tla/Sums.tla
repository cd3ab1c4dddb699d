-------------------------------- MODULE Sums --------------------------------
(***************************************************************************)
(* What holds of SumFunctionOnSet(f, S), the sum of f over a finite set,    *)
(* for every function and set. The budget ledger and the capacity of the   *)
(* bridge are checked against such sums.                                    *)
(*                                                                         *)
(* The library defines a sum as a recursive function on the subsets of S   *)
(* that takes a chosen element at a time. That such a function exists, is  *)
(* unique and does not depend on the choice is shown with a least           *)
(* counterexample, a subset of S that has it while no smaller one does.     *)
(***************************************************************************)
EXTENDS Integers, FiniteSets, FiniteSetsExt, FiniteSetTheorems, WellFoundedInduction, TLAPS

Any(s) == CHOOSE x \in s : TRUE

IsTotal(g, f, S) ==
    g = [s \in SUBSET S |-> IF s = {} THEN 0 ELSE f[Any(s)] + g[s \ {Any(s)}]]

TotalFcn(f, S) == CHOOSE g : IsTotal(g, f, S)

\* How the library defines a sum.
LEMMA TotalDef ==
    ASSUME NEW f, NEW S
    PROVE  SumFunctionOnSet(f, S) = TotalFcn(f, S)[S]
BY DEF SumFunctionOnSet, FoldFunctionOnSet, MapThenFoldSet, IsTotal, TotalFcn, Any

\* Induction over the subsets of a finite set, with a set of counterexamples in
\* place of a predicate: a set of subsets that is not empty has a minimal member.
LEMMA LeastSubset ==
    ASSUME NEW S, IsFiniteSet(S), NEW B, B \subseteq SUBSET S, B # {}
    PROVE  \E m \in B : \A t \in B : t \subseteq m => t = m
<1>1. SUBSET S = FiniteSubsetsOf(S)
  BY FS_FiniteSubsetsOfFinite
<1>2. PICK m \in B : \A t \in B : ~ (<<t, m>> \in StrictSubsetOrdering(S))
  BY <1>1, FS_StrictSubsetOrderingWellFounded, WFMin
<1>3. ASSUME NEW t \in B, t \subseteq m PROVE t = m
  <2>1. <<t, m>> \in (SUBSET S) \X (SUBSET S)
    OBVIOUS
  <2>2. QED
    BY <1>2, <1>3, <2>1 DEF StrictSubsetOrdering
<1>4. QED
  BY <1>2, <1>3

\* An element that is chosen from a set is in it.
LEMMA AnyIsElement == ASSUME NEW s, s # {} PROVE Any(s) \in s
BY DEF Any

\* Two such functions agree on the finite sets they are both defined for.
LEMMA TotalUnique ==
    ASSUME NEW f, NEW S, NEW T, NEW g, NEW h, IsTotal(g, f, S), IsTotal(h, f, T),
           NEW s, IsFiniteSet(s), s \subseteq S, s \subseteq T
    PROVE  g[s] = h[s]
<1> DEFINE B == {t \in SUBSET s : g[t] # h[t]}
<1> SUFFICES ASSUME B # {} PROVE FALSE
  OBVIOUS
<1>1. PICK m \in B : \A t \in B : t \subseteq m => t = m
  <2>1. B \subseteq SUBSET s
    OBVIOUS
  <2> HIDE DEF B
  <2>2. QED
    BY <2>1, LeastSubset
<1>2. \A t \in SUBSET s : /\ g[t] = IF t = {} THEN 0 ELSE f[Any(t)] + g[t \ {Any(t)}]
                          /\ h[t] = IF t = {} THEN 0 ELSE f[Any(t)] + h[t \ {Any(t)}]
  BY DEF IsTotal
<1>3. m # {}
  BY <1>2
<1>4. m \ {Any(m)} \in SUBSET s /\ m \ {Any(m)} \notin B
  BY <1>1, <1>3, AnyIsElement
<1>5. QED
  BY <1>2, <1>3, <1>4

\* There is such a function for the subsets of every finite set.
LEMMA TotalExists ==
    ASSUME NEW f, NEW S, IsFiniteSet(S)
    PROVE  \E g : IsTotal(g, f, S)
<1> DEFINE B == {t \in SUBSET S : ~ \E g : IsTotal(g, f, t)}
<1> SUFFICES ASSUME B # {} PROVE FALSE
  OBVIOUS
<1>1. PICK m \in B : \A t \in B : t \subseteq m => t = m
  <2>1. B \subseteq SUBSET S
    OBVIOUS
  <2> HIDE DEF B
  <2>2. QED
    BY <2>1, LeastSubset
<1> DEFINE Part(t) == TotalFcn(f, t)[t]
           g == [t \in SUBSET m |-> IF t = {} THEN 0 ELSE f[Any(t)] + Part(t \ {Any(t)})]
<1>2. \A t \in SUBSET m : t # m => IsTotal(TotalFcn(f, t), f, t)
  <2> SUFFICES ASSUME NEW t \in SUBSET m, t # m PROVE IsTotal(TotalFcn(f, t), f, t)
    OBVIOUS
  <2>1. \E h : IsTotal(h, f, t)
    BY <1>1
  <2>2. QED
    BY <2>1 DEF TotalFcn
<1>3. \A t \in SUBSET m : t # m => g[t] = Part(t)
  <2> SUFFICES ASSUME NEW t \in SUBSET m, t # m PROVE g[t] = Part(t)
    OBVIOUS
  <2> DEFINE u == t \ {Any(t)}
  <2>1. IsTotal(TotalFcn(f, t), f, t) /\ IsTotal(TotalFcn(f, u), f, u)
    <3>1. u \in SUBSET m /\ u # m
      OBVIOUS
    <3>2. QED
      BY <3>1, <1>2
  <2>2. Part(t) = IF t = {} THEN 0 ELSE f[Any(t)] + TotalFcn(f, t)[u]
    BY <2>1 DEF IsTotal
  <2>3. IsFiniteSet(u)
    BY FS_Subset
  <2>4. TotalFcn(f, t)[u] = Part(u)
    BY <2>1, <2>3, TotalUnique
  <2>5. QED
    BY <2>2, <2>4
<1>4. IsTotal(g, f, m)
  <2>1. \A t \in SUBSET m : t # {} => t \ {Any(t)} \in SUBSET m /\ t \ {Any(t)} # m
    BY AnyIsElement
  <2>2. \A t \in SUBSET m : t # {} => g[t \ {Any(t)}] = Part(t \ {Any(t)})
    BY <2>1, <1>3
  <2>3. QED
    BY <2>2 DEF IsTotal
<1>5. QED
  BY <1>1, <1>4

\* The recursion of a sum over a finite set, with the element it chooses.
LEMMA TotalStep ==
    ASSUME NEW f, NEW S, IsFiniteSet(S)
    PROVE  SumFunctionOnSet(f, S) =
             IF S = {} THEN 0 ELSE f[Any(S)] + SumFunctionOnSet(f, S \ {Any(S)})
<1> DEFINE R == S \ {Any(S)}
<1>0. IsFiniteSet(R)
  BY FS_Subset
<1>1. IsTotal(TotalFcn(f, S), f, S) /\ IsTotal(TotalFcn(f, R), f, R)
  BY <1>0, TotalExists DEF TotalFcn
<1>2. TotalFcn(f, S)[R] = TotalFcn(f, R)[R]
  BY <1>0, <1>1, TotalUnique
<1>3. TotalFcn(f, S)[S] = IF S = {} THEN 0 ELSE f[Any(S)] + TotalFcn(f, S)[R]
  BY <1>1 DEF IsTotal
<1>4. QED
  BY <1>2, <1>3, TotalDef

\* Nothing sums to zero.
LEMMA SumEmpty == ASSUME NEW f PROVE SumFunctionOnSet(f, {}) = 0
BY TotalStep, FS_EmptySet

\* A sum of integers is an integer.
LEMMA SumType ==
    ASSUME NEW f, NEW S, IsFiniteSet(S), \A x \in S : f[x] \in Int
    PROVE  SumFunctionOnSet(f, S) \in Int
<1> DEFINE B == {t \in SUBSET S : SumFunctionOnSet(f, t) \notin Int}
<1> SUFFICES ASSUME B # {} PROVE FALSE
  OBVIOUS
<1>1. PICK m \in B : \A t \in B : t \subseteq m => t = m
  <2>1. B \subseteq SUBSET S
    OBVIOUS
  <2> HIDE DEF B
  <2>2. QED
    BY <2>1, LeastSubset
<1>2. IsFiniteSet(m) 
  BY FS_Subset
<1>3. m # {} 
  BY SumEmpty
<1>4. m \ {Any(m)} \in SUBSET S /\ m \ {Any(m)} \notin B /\ f[Any(m)] \in Int
  BY <1>1, <1>3, AnyIsElement
<1>5. QED
  BY <1>2, <1>3, <1>4, TotalStep

\* Which element is taken out first makes no difference.
LEMMA SumRemove ==
    ASSUME NEW f, NEW S, IsFiniteSet(S), \A x \in S : f[x] \in Int, NEW x \in S
    PROVE  SumFunctionOnSet(f, S) = f[x] + SumFunctionOnSet(f, S \ {x})
<1> DEFINE Sum(t) == SumFunctionOnSet(f, t)
           B == {t \in SUBSET S : \E y \in t : Sum(t) # f[y] + Sum(t \ {y})}
<1> SUFFICES ASSUME B # {} PROVE FALSE
  OBVIOUS
<1>1. PICK m \in B : \A t \in B : t \subseteq m => t = m
  <2>1. B \subseteq SUBSET S
    OBVIOUS
  <2> HIDE DEF B
  <2>2. QED
    BY <2>1, LeastSubset
<1>2. PICK y \in m : Sum(m) # f[y] + Sum(m \ {y})
  OBVIOUS
<1> DEFINE z == Any(m)
<1>3. z \in m
  BY AnyIsElement
<1>4. \A t \in SUBSET m : IsFiniteSet(t) /\ Sum(t) \in Int
  BY FS_Subset, SumType
<1>5. Sum(m) = f[z] + Sum(m \ {z})
  BY <1>4, TotalStep
<1>6. y # z
  BY <1>2, <1>5
<1>7. m \ {z} \notin B /\ m \ {y} \notin B
  BY <1>1, <1>3
<1>8. Sum(m \ {z}) = f[y] + Sum((m \ {z}) \ {y})
  BY <1>6, <1>7
<1>9. Sum(m \ {y}) = f[z] + Sum((m \ {y}) \ {z})
  BY <1>3, <1>6, <1>7
<1>10. (m \ {z}) \ {y} = (m \ {y}) \ {z}
  OBVIOUS
<1>11. f[y] \in Int /\ f[z] \in Int /\ Sum((m \ {y}) \ {z}) \in Int
  BY <1>3, <1>4
<1>12. Sum(m) = f[z] + (f[y] + Sum((m \ {y}) \ {z}))
  BY <1>5, <1>8, <1>10
<1>13. f[z] + (f[y] + Sum((m \ {y}) \ {z})) = f[y] + (f[z] + Sum((m \ {y}) \ {z}))
  <2> HIDE DEF Sum, z
  <2>1. QED
    BY <1>11
<1>14. QED
  BY <1>2, <1>9, <1>12, <1>13

\* An element is added.
LEMMA SumAdd ==
    ASSUME NEW f, NEW S, IsFiniteSet(S), NEW x, x \notin S, \A y \in S \cup {x} : f[y] \in Int
    PROVE  SumFunctionOnSet(f, S \cup {x}) = SumFunctionOnSet(f, S) + f[x]
<1>1. IsFiniteSet(S \cup {x}) /\ (S \cup {x}) \ {x} = S
  BY FS_AddElement
<1>2. SumFunctionOnSet(f, S \cup {x}) = f[x] + SumFunctionOnSet(f, S)
  BY <1>1, SumRemove
<1>3. SumFunctionOnSet(f, S) \in Int /\ f[x] \in Int
  BY SumType
<1> QED
  BY <1>2, <1>3

\* Functions that agree on a set have the same sum over it.
LEMMA SumSame ==
    ASSUME NEW f, NEW g, NEW S, IsFiniteSet(S), \A x \in S : f[x] = g[x]
    PROVE  SumFunctionOnSet(f, S) = SumFunctionOnSet(g, S)
<1> DEFINE B == {t \in SUBSET S : SumFunctionOnSet(f, t) # SumFunctionOnSet(g, t)}
<1> SUFFICES ASSUME B # {} PROVE FALSE
  OBVIOUS
<1>1. PICK m \in B : \A t \in B : t \subseteq m => t = m
  <2>1. B \subseteq SUBSET S
    OBVIOUS
  <2> HIDE DEF B
  <2>2. QED
    BY <2>1, LeastSubset
<1>2. IsFiniteSet(m)
  BY FS_Subset
<1>3. m # {}
  BY SumEmpty
<1>4. m \ {Any(m)} \in SUBSET S /\ m \ {Any(m)} \notin B /\ f[Any(m)] = g[Any(m)]
  BY <1>1, <1>3, AnyIsElement
<1> QED
  BY <1>2, <1>3, <1>4, TotalStep

\* A sum over two sets that have nothing in common.
LEMMA SumUnion ==
    ASSUME NEW f, NEW S, NEW T, IsFiniteSet(S), IsFiniteSet(T), S \cap T = {},
           \A x \in S \cup T : f[x] \in Int
    PROVE  SumFunctionOnSet(f, S \cup T) = SumFunctionOnSet(f, S) + SumFunctionOnSet(f, T)
<1> DEFINE Sum(t) == SumFunctionOnSet(f, t)
           B == {t \in SUBSET T : Sum(S \cup t) # Sum(S) + Sum(t)}
<1> SUFFICES ASSUME B # {} PROVE FALSE
  OBVIOUS
<1>1. PICK m \in B : \A t \in B : t \subseteq m => t = m
  <2>1. B \subseteq SUBSET T
    OBVIOUS
  <2> HIDE DEF B
  <2>2. QED
    BY <2>1, LeastSubset
<1>2. Sum(S) \in Int /\ Sum(S \cup {}) = Sum(S)
  BY SumType
<1>3. m # {}
  BY <1>2, SumEmpty
<1> DEFINE z == Any(m)
           r == m \ {z}
<1>4. z \in m /\ z \notin S /\ f[z] \in Int
  BY <1>3, AnyIsElement
<1>5. IsFiniteSet(m) /\ IsFiniteSet(r) /\ IsFiniteSet(S \cup r)
  BY FS_Subset, FS_Union
<1>6. Sum(S \cup r) = Sum(S) + Sum(r)
  BY <1>1, <1>4
<1>7. (S \cup r) \cup {z} = S \cup m /\ r \cup {z} = m /\ z \notin S \cup r
  BY <1>4
<1>8. Sum(S \cup m) = Sum(S \cup r) + f[z]
  <2>1. \A x \in (S \cup r) \cup {z} : f[x] \in Int
    BY <1>7
  <2>2. Sum((S \cup r) \cup {z}) = Sum(S \cup r) + f[z]
    BY <2>1, <1>5, <1>7, SumAdd
  <2>3. QED
    BY <2>2, <1>7
<1>9. Sum(m) = Sum(r) + f[z]
  <2>1. \A x \in r \cup {z} : f[x] \in Int
    BY <1>7
  <2>2. Sum(r \cup {z}) = Sum(r) + f[z]
    BY <2>1, <1>5, <1>7, SumAdd
  <2>3. QED
    BY <2>2, <1>7
<1>10. Sum(r) \in Int
  BY <1>5, SumType
<1>11. Sum(S) + Sum(r) + f[z] = Sum(S) + (Sum(r) + f[z])
  <2> HIDE DEF Sum, z, r
  <2>1. QED
    BY <1>2, <1>4, <1>10
<1> QED
  BY <1>6, <1>8, <1>9, <1>11

\* A sum of natural numbers is one.
LEMMA SumNat ==
    ASSUME NEW f, NEW S, IsFiniteSet(S), \A x \in S : f[x] \in Nat
    PROVE  SumFunctionOnSet(f, S) \in Nat
<1> DEFINE B == {t \in SUBSET S : SumFunctionOnSet(f, t) \notin Nat}
<1> SUFFICES ASSUME B # {} PROVE FALSE
  OBVIOUS
<1>1. PICK m \in B : \A t \in B : t \subseteq m => t = m
  <2>1. B \subseteq SUBSET S
    OBVIOUS
  <2> HIDE DEF B
  <2>2. QED
    BY <2>1, LeastSubset
<1>2. IsFiniteSet(m)
  BY FS_Subset
<1>3. m # {}
  BY SumEmpty
<1>4. m \ {Any(m)} \in SUBSET S /\ m \ {Any(m)} \notin B /\ f[Any(m)] \in Nat
  BY <1>1, <1>3, AnyIsElement
<1> QED
  BY <1>2, <1>3, <1>4, TotalStep

\* Of natural numbers, a smaller set has no larger sum.
LEMMA SumSubset ==
    ASSUME NEW f, NEW S, NEW T, T \subseteq S, IsFiniteSet(S), \A x \in S : f[x] \in Nat
    PROVE  SumFunctionOnSet(f, T) <= SumFunctionOnSet(f, S)
<1>1. IsFiniteSet(T) /\ IsFiniteSet(S \ T)
  BY FS_Subset
<1>2. T \cap (S \ T) = {} /\ T \cup (S \ T) = S
  OBVIOUS
<1>3. \A x \in T \cup (S \ T) : f[x] \in Int
  BY <1>2
<1>4. SumFunctionOnSet(f, T \cup (S \ T)) = SumFunctionOnSet(f, T) + SumFunctionOnSet(f, S \ T)
  BY <1>1, <1>2, <1>3, SumUnion
<1>5. SumFunctionOnSet(f, S) = SumFunctionOnSet(f, T) + SumFunctionOnSet(f, S \ T)
  BY <1>2, <1>4
<1>6. SumFunctionOnSet(f, T) \in Nat /\ SumFunctionOnSet(f, S \ T) \in Nat
  BY <1>1, SumNat
<1> QED
  BY <1>5, <1>6

\* Where the function grows, so does the sum.
LEMMA SumMonotone ==
    ASSUME NEW f, NEW g, NEW S, IsFiniteSet(S),
           \A x \in S : f[x] \in Int /\ g[x] \in Int /\ f[x] <= g[x]
    PROVE  SumFunctionOnSet(f, S) <= SumFunctionOnSet(g, S)
<1> DEFINE B == {t \in SUBSET S : ~(SumFunctionOnSet(f, t) <= SumFunctionOnSet(g, t))}
<1> SUFFICES ASSUME B # {} PROVE FALSE
  OBVIOUS
<1>1. PICK m \in B : \A t \in B : t \subseteq m => t = m
  <2>1. B \subseteq SUBSET S
    OBVIOUS
  <2> HIDE DEF B
  <2>2. QED
    BY <2>1, LeastSubset
<1>2. IsFiniteSet(m) /\ IsFiniteSet(m \ {Any(m)})
  BY FS_Subset
<1>3. m # {}
  BY SumEmpty
<1>4. m \ {Any(m)} \in SUBSET S /\ m \ {Any(m)} \notin B /\ Any(m) \in S
  BY <1>1, <1>3, AnyIsElement
<1>5. SumFunctionOnSet(f, m \ {Any(m)}) \in Int /\ SumFunctionOnSet(g, m \ {Any(m)}) \in Int
  BY <1>2, <1>4, SumType
<1>6. SumFunctionOnSet(f, m) = f[Any(m)] + SumFunctionOnSet(f, m \ {Any(m)})
      /\ SumFunctionOnSet(g, m) = g[Any(m)] + SumFunctionOnSet(g, m \ {Any(m)})
  BY <1>2, <1>3, TotalStep
<1> QED
  BY <1>4, <1>5, <1>6

\* A function that changes at one element changes the sum by as much.
LEMMA SumChange ==
    ASSUME NEW f, NEW g, NEW S, IsFiniteSet(S), NEW x \in S,
           \A y \in S : f[y] \in Int /\ g[y] \in Int,
           \A y \in S : y # x => g[y] = f[y]
    PROVE  SumFunctionOnSet(g, S) = SumFunctionOnSet(f, S) - f[x] + g[x]
<1>1. IsFiniteSet(S \ {x})
  BY FS_Subset
<1>2. SumFunctionOnSet(g, S \ {x}) = SumFunctionOnSet(f, S \ {x})
  BY <1>1, SumSame
<1>3. SumFunctionOnSet(g, S) = g[x] + SumFunctionOnSet(g, S \ {x})
  BY SumRemove
<1>4. SumFunctionOnSet(f, S) = f[x] + SumFunctionOnSet(f, S \ {x})
  BY SumRemove
<1>5. SumFunctionOnSet(f, S \ {x}) \in Int
  BY <1>1, SumType
<1> QED
  BY <1>2, <1>3, <1>4, <1>5
=============================================================================
