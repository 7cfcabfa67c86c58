----------------------------- MODULE DataProofs -----------------------------
(***************************************************************************)
(* Lemmas about the operators that do not speak of any variable: sums over *)
(* finite sets, and the k-d tree of KdTree.  What a recursive definition   *)
(* computes is proved by a least counterexample: a nonempty set of natural *)
(* numbers has a least element.                                            *)
(***************************************************************************)
EXTENDS Sums, KdTree, FiniteSetTheorems, SequenceTheorems, WellFoundedInduction, TLAPS

Summed(f, S) == IsFiniteSet(S) /\ \A x \in S : f[x] \in Nat

\* What a unit of a sum is.
LEMMA UnitsAre ==
  ASSUME NEW f, NEW S, NEW u
  PROVE  u \in Units(f, S) <=> \E x \in S : \E n \in 1..f[x] : u = <<x, n>>
<1>1. u \in Units(f, S) <=> \E x \in S : u \in {x} \X (1..f[x])
  BY DEF Units
<1>2. ASSUME NEW x \in S PROVE u \in {x} \X (1..f[x]) <=> \E n \in 1..f[x] : u = <<x, n>>
  OBVIOUS
<1>3. QED
  BY <1>1, <1>2

\* A number has as many units as it says.
LEMMA OneUnits ==
  ASSUME NEW x, NEW n \in Nat
  PROVE  IsFiniteSet({x} \X (1..n)) /\ Cardinality({x} \X (1..n)) = n
<1>1. IsFiniteSet(1..n) /\ Cardinality(1..n) = n
  BY FS_Interval
<1>2. IsFiniteSet({x}) /\ Cardinality({x}) = 1
  BY FS_Singleton
<1>3. IsFiniteSet({x} \X (1..n)) /\ Cardinality({x} \X (1..n)) = Cardinality({x}) * Cardinality(1..n)
  BY <1>1, <1>2, FS_Product
<1>4. QED
  BY <1>1, <1>2, <1>3

\* A sum is a natural number.
LEMMA UnitsFinite == ASSUME NEW f, NEW S, Summed(f, S) PROVE IsFiniteSet(Units(f, S)) /\ SumOf(f, S) \in Nat
<1>1. PICK U : U = {{x} \X (1..f[x]) : x \in S}
  OBVIOUS
<1>2. PICK g : g = [x \in S |-> {x} \X (1..f[x])]
  OBVIOUS
<1>3. g \in Surjection(S, U)
  BY <1>1, <1>2 DEF Surjection
<1>4. IsFiniteSet(U)
  BY <1>3, FS_Surjection DEF Summed
<1>5. ASSUME NEW T \in U PROVE IsFiniteSet(T)
  <2>1. PICK x \in S : T = {x} \X (1..f[x])
    BY <1>1
  <2>2. PICK n \in Nat : n = f[x]
    BY DEF Summed
  <2>3. QED
    BY <2>1, <2>2, OneUnits
<1>6. IsFiniteSet(Units(f, S))
  BY <1>1, <1>4, <1>5, FS_UNION DEF Units
<1>7. QED
  BY <1>6, FS_CardinalityType DEF SumOf

LEMMA SumEmpty == ASSUME NEW f PROVE SumOf(f, {}) = 0
<1>1. Units(f, {}) = {}
  BY UnitsAre
<1>2. QED
  BY <1>1, FS_EmptySet DEF SumOf

\* Only the values on the set count.
LEMMA SumSame ==
  ASSUME NEW f, NEW g, NEW S, \A x \in S : f[x] = g[x]
  PROVE  SumOf(f, S) = SumOf(g, S)
<1>1. {{x} \X (1..f[x]) : x \in S} = {{x} \X (1..g[x]) : x \in S}
  OBVIOUS
<1>2. QED
  BY <1>1 DEF SumOf, Units

\* One term apart from the others.
LEMMA SumSplit ==
  ASSUME NEW f, NEW S, Summed(f, S), NEW x \in S
  PROVE  SumOf(f, S) = f[x] + SumOf(f, S \ {x}) /\ SumOf(f, S \ {x}) \in Nat
<1>1. PICK A : A = {x} \X (1..f[x])
  OBVIOUS
<1>2. PICK C : C = Units(f, S \ {x})
  OBVIOUS
<1>3. IsFiniteSet(A) /\ Cardinality(A) = f[x] /\ f[x] \in Nat
  BY <1>1, OneUnits DEF Summed
<1>4. Summed(f, S \ {x})
  BY FS_RemoveElement DEF Summed
<1>5. IsFiniteSet(C) /\ SumOf(f, S \ {x}) = Cardinality(C) /\ SumOf(f, S \ {x}) \in Nat
  BY <1>2, <1>4, UnitsFinite DEF SumOf
<1>6. A \cap C = {}
  BY <1>1, <1>2, UnitsAre
<1>7. Units(f, S) = A \cup C
  <2>1. ASSUME NEW u PROVE u \in Units(f, S) <=> u \in A \/ u \in C
    <3>1. u \in A <=> \E n \in 1..f[x] : u = <<x, n>>
      BY <1>1
    <3>2. u \in C <=> \E y \in S \ {x} : \E n \in 1..f[y] : u = <<y, n>>
      BY <1>2, UnitsAre
    <3>3. u \in Units(f, S) <=> \E y \in S : \E n \in 1..f[y] : u = <<y, n>>
      BY UnitsAre
    <3>4. QED
      BY <3>1, <3>2, <3>3
  <2>2. QED
    BY <2>1
<1>8. Cardinality(A \cup C) = Cardinality(A) + Cardinality(C) - Cardinality(A \cap C)
  BY <1>3, <1>5, FS_Union
<1>9. Cardinality(A \cap C) = 0
  BY <1>6, FS_EmptySet
<1>10. QED
  BY <1>3, <1>5, <1>7, <1>8, <1>9 DEF SumOf

\* One more term.
LEMMA SumMore ==
  ASSUME NEW f, NEW S, Summed(f, S), NEW x, x \notin S, f[x] \in Nat
  PROVE  SumOf(f, S \cup {x}) = SumOf(f, S) + f[x]
<1>1. Summed(f, S \cup {x})
  BY FS_AddElement DEF Summed
<1>2. (S \cup {x}) \ {x} = S
  OBVIOUS
<1>3. PICK T : T = S \cup {x}
  OBVIOUS
<1>4. SumOf(f, T) = f[x] + SumOf(f, T \ {x}) /\ SumOf(f, T \ {x}) \in Nat
  BY <1>1, <1>3, SumSplit
<1>5. T \ {x} = S
  BY <1>2, <1>3
<1>6. SumOf(f, T) = f[x] + SumOf(f, S) /\ SumOf(f, S) \in Nat
  BY <1>4, <1>5
<1>7. QED
  BY <1>3, <1>6

\* One term that grows.
LEMMA SumGrows ==
  ASSUME NEW f, NEW g, NEW S, Summed(f, S), Summed(g, S), NEW x \in S, NEW d \in Nat,
         g[x] = f[x] + d, \A y \in S : y # x => g[y] = f[y]
  PROVE  SumOf(g, S) = SumOf(f, S) + d
<1>1. SumOf(f, S) = f[x] + SumOf(f, S \ {x}) /\ SumOf(f, S \ {x}) \in Nat
  BY SumSplit
<1>2. SumOf(g, S) = g[x] + SumOf(g, S \ {x})
  BY SumSplit
<1>3. SumOf(g, S \ {x}) = SumOf(f, S \ {x})
  BY SumSame
<1>4. f[x] \in Nat
  BY DEF Summed
<1>5. QED
  BY <1>1, <1>2, <1>3, <1>4

\* The numbers of a sum may change their places.
LEMMA SumMoved ==
  ASSUME NEW f, NEW g, NEW S, NEW T, Summed(f, S), NEW h \in Bijection(S, T),
         \A x \in S : g[h[x]] = f[x]
  PROVE  SumOf(g, T) = SumOf(f, S)
<1>1. PICK A : A = Units(f, S)
  OBVIOUS
<1>2. PICK C : C = Units(g, T)
  OBVIOUS
<1>3. PICK m : m = [u \in A |-> <<h[u[1]], u[2]>>]
  OBVIOUS
<1>4. \A u : u \in A <=> \E x \in S : \E n \in 1..f[x] : u = <<x, n>>
  BY <1>1, UnitsAre
<1>5. \A u : u \in C <=> \E y \in T : \E n \in 1..g[y] : u = <<y, n>>
  BY <1>2, UnitsAre
<1>6. /\ \A x \in S : h[x] \in T
      /\ \A x, y \in S : h[x] = h[y] => x = y
      /\ \A y \in T : \E x \in S : h[x] = y
  BY DEF Bijection, Injection, Surjection, IsInjective, Range
<1>7. m \in [A -> C]
  BY <1>3, <1>4, <1>5, <1>6
<1>8. \A u, v \in A : m[u] = m[v] => u = v
  <2> SUFFICES ASSUME NEW u \in A, NEW v \in A, m[u] = m[v] PROVE u = v
    OBVIOUS
  <2>1. PICK x \in S : \E n \in 1..f[x] : u = <<x, n>>
    BY <1>4
  <2>2. PICK n : u = <<x, n>>
    BY <2>1
  <2>3. PICK y \in S : \E k \in 1..f[y] : v = <<y, k>>
    BY <1>4
  <2>4. PICK k : v = <<y, k>>
    BY <2>3
  <2>5. m[u] = <<h[x], n>> /\ m[v] = <<h[y], k>>
    BY <1>3, <2>2, <2>4
  <2>6. QED
    BY <1>6, <2>2, <2>4, <2>5
<1>9. \A w \in C : \E u \in A : m[u] = w
  <2> SUFFICES ASSUME NEW w \in C PROVE \E u \in A : m[u] = w
    OBVIOUS
  <2>1. PICK y \in T : \E n \in 1..g[y] : w = <<y, n>>
    BY <1>5
  <2>2. PICK n \in 1..g[y] : w = <<y, n>>
    BY <2>1
  <2>3. PICK x \in S : h[x] = y
    BY <1>6
  <2>4. n \in 1..f[x]
    BY <2>2, <2>3
  <2>5. <<x, n>> \in A
    BY <1>4, <2>4
  <2>6. m[<<x, n>>] = w
    BY <1>3, <2>2, <2>3, <2>5
  <2>7. QED
    BY <2>5, <2>6
<1>10. m \in Bijection(A, C)
  BY <1>7, <1>8, <1>9 DEF Bijection, Injection, Surjection, IsInjective, Range
<1>11. ExistsBijection(A, C)
  BY <1>10 DEF ExistsBijection
<1>12. IsFiniteSet(A)
  BY <1>1, UnitsFinite
<1>13. Cardinality(C) = Cardinality(A)
  BY <1>11, <1>12, FS_Bijection
<1>14. QED
  BY <1>1, <1>2, <1>13 DEF SumOf

-----------------------------------------------------------------------------
\* A set of natural numbers has a least element, and if it is bounded a greatest one.
LEMMA HasLeast == ASSUME NEW S, S \subseteq Nat, S # {} PROVE \E m \in S : \A x \in S : m <= x
<1>1. PICK m \in S : \A y \in S : ~(<<y, m>> \in OpToRel(<, Nat))
  BY WFMin, NatLessThanWellFounded
<1>2. \A y \in S : <<y, m>> \in OpToRel(<, Nat) <=> y < m
  BY DEF OpToRel
<1>3. \A y \in S : ~(y < m)
  BY <1>1, <1>2
<1>4. QED
  BY <1>3

LEMMA HasGreatest ==
  ASSUME NEW S, S \subseteq Nat, S # {}, NEW n \in Nat, \A x \in S : x <= n
  PROVE  \E m \in S : \A x \in S : x <= m
<1>1. PICK T : T = {n - x : x \in S}
  OBVIOUS
<1>2. \A x \in S : n - x \in Nat
  OBVIOUS
<1>3. T \subseteq Nat /\ T # {}
  BY <1>1, <1>2
<1>4. PICK k \in T : \A x \in T : k <= x
  BY <1>3, HasLeast
<1>5. PICK m \in S : k = n - m
  BY <1>1
<1>6. \A x \in S : n - x \in T
  BY <1>1
<1>7. \A x \in S : k <= n - x
  BY <1>4, <1>6
<1>8. \A x \in S : x <= m
  BY <1>5, <1>7
<1>9. QED
  BY <1>8

-----------------------------------------------------------------------------
\* One step of the search, and of the building.
VisitStep(cities, nodes, q, F, i) ==
   IF i = 0 THEN [v \in Views(cities) |-> v.best]
   ELSE Visit(cities, nodes[i], q, F[nodes[i].left], F[nodes[i].right])
VisitsOf(cities, nodes, q, F) == F = [i \in 0..Len(nodes) |-> VisitStep(cities, nodes, q, F, i)]

\* The search is a function that satisfies its equation, if there is one.
LEMMA VisitsIs ==
  ASSUME NEW cities, NEW nodes, NEW q
  PROVE Visits(cities, nodes, q) = CHOOSE F : VisitsOf(cities, nodes, q, F)
  BY Zenon DEF Visits, VisitsOf, VisitStep
LEMMA VisitsHold ==
  ASSUME NEW cities, NEW nodes, NEW q, \E F : VisitsOf(cities, nodes, q, F)
  PROVE VisitsOf(cities, nodes, q, Visits(cities, nodes, q))
  BY VisitsIs, Zenon

BuildStep(cities, F, n) ==
   IF n = 0 THEN [c \in Calls(cities, 0) |-> <<>>]
            ELSE Grown(cities, n, F[n \div 2], F[n - 1 - (n \div 2)])
BuildsOf(cities, max, F) == F = [n \in 0..max |-> BuildStep(cities, F, n)]
\* So is the building.
LEMMA BuildsIs ==
  ASSUME NEW cities, NEW max
  PROVE Builds(cities, max) = CHOOSE F : BuildsOf(cities, max, F)
  BY Zenon DEF Builds, BuildsOf, BuildStep
LEMMA BuildsHold ==
  ASSUME NEW cities, NEW max, \E F : BuildsOf(cities, max, F)
  PROVE BuildsOf(cities, max, Builds(cities, max))
  BY BuildsIs, Zenon

\* The children of a node come after it.
Forward(nodes) ==
    /\ Len(nodes) \in Nat
    /\ \A i \in 1..Len(nodes) : /\ nodes[i].left = 0 \/ nodes[i].left \in (i + 1)..Len(nodes)
                                /\ nodes[i].right = 0 \/ nodes[i].right \in (i + 1)..Len(nodes)

\* No node, and the last k ones.
Last(nodes, k) == {i \in 0..Len(nodes) : i = 0 \/ i > Len(nodes) - k}
VisitsLast(cities, nodes, q, F, k) == F = [i \in Last(nodes, k) |-> VisitStep(cities, nodes, q, F, i)]

\* A function for the last k nodes can be extended by the node before them.
LEMMA VisitOneMore ==
  ASSUME NEW cities, NEW nodes, NEW q, Forward(nodes), NEW k \in Nat, k < Len(nodes),
         NEW f, VisitsLast(cities, nodes, q, f, k)
  PROVE  \E g : VisitsLast(cities, nodes, q, g, k + 1)
<1> DEFINE D == Last(nodes, k)
           E == Last(nodes, k + 1)
           Step(h, i) == VisitStep(cities, nodes, q, h, i)
<1>0. PICK n : n = Len(nodes) - k
  OBVIOUS
<1>1. n \in 1..Len(nodes) /\ n \notin D /\ E = D \cup {n} /\ 0 \in D
  BY <1>0 DEF Last, Forward
<1>2. \A i \in E : i # 0 => i \in 1..Len(nodes) /\ nodes[i].left \in D /\ nodes[i].right \in D
  BY <1>0 DEF Last, Forward
<1>3. PICK g : g = [i \in E |-> IF i = n THEN Step(f, n) ELSE f[i]]
  OBVIOUS
<1>4. \A i \in D : g[i] = f[i]
  BY <1>1, <1>3
<1>5. \A i \in E : Step(g, i) = Step(f, i)
  BY <1>2, <1>4 DEF VisitStep
<1>6. \A i \in D : f[i] = Step(f, i)
  <2> HIDE DEF Step, D
  <2>1. f = [i \in D |-> Step(f, i)]
    BY DEF VisitsLast, D, Step
  <2>2. QED
    BY <2>1
<1>7. g = [i \in E |-> Step(g, i)]
  <2> HIDE DEF Step, D, E
  <2>1. \A i \in E : g[i] = Step(f, i)
    BY <1>1, <1>3, <1>6
  <2>2. \A i \in E : g[i] = Step(g, i)
    BY <2>1, <1>5
  <2>3. QED
    BY <2>2, <1>3
<1>8. QED
  BY <1>7 DEF VisitsLast

\* The search satisfies its equation: its recursion goes to nodes that come later.
LEMMA VisitsExist ==
  ASSUME NEW cities, NEW nodes, NEW q, Forward(nodes)
  PROVE  VisitsOf(cities, nodes, q, Visits(cities, nodes, q))
<1> DEFINE Some(k) == \E f : VisitsLast(cities, nodes, q, f, k)
           Bad == {k \in Nat : k <= Len(nodes) /\ ~Some(k)}
<1>1. Some(0)
  <2>1. Last(nodes, 0) = {0}
    BY DEF Last, Forward
  <2>2. PICK f : f = [i \in {0} |-> [v \in Views(cities) |-> v.best]]
    OBVIOUS
  <2>3. \A i \in {0} : VisitStep(cities, nodes, q, f, i) = [v \in Views(cities) |-> v.best]
    BY DEF VisitStep
  <2>4. f = [i \in {0} |-> VisitStep(cities, nodes, q, f, i)]
    BY <2>2, <2>3
  <2>5. QED
    BY <2>1, <2>4 DEF VisitsLast
<1>2. ASSUME NEW k \in Nat, k < Len(nodes), Some(k) PROVE Some(k + 1)
  BY <1>2, VisitOneMore
<1>3. Bad = {}
  <2> SUFFICES ASSUME Bad # {} PROVE FALSE
    OBVIOUS
  <2>1. PICK m \in Bad : \A x \in Bad : m <= x
    BY HasLeast
  <2>2. m \in Nat /\ m <= Len(nodes) /\ ~Some(m)
    OBVIOUS
  <2>3. m # 0
    BY <2>2, <1>1
  <2>4. Some(m - 1)
    <3> HIDE DEF Some
    <3>1. m - 1 \in Nat /\ m - 1 <= Len(nodes) /\ ~(m <= m - 1)
      BY <2>2, <2>3 DEF Forward
    <3>2. QED
      BY <3>1, <2>1
  <2>5. QED
    <3> HIDE DEF Some
    <3>1. m - 1 \in Nat /\ m - 1 < Len(nodes) /\ (m - 1) + 1 = m
      BY <2>2, <2>3 DEF Forward
    <3>2. QED
      BY <3>1, <2>2, <2>4, <1>2
<1>4. Some(Len(nodes))
  <2> HIDE DEF Some
  <2>1. QED
    BY <1>3 DEF Forward
<1>5. Last(nodes, Len(nodes)) = 0..Len(nodes)
  BY DEF Last, Forward
<1>6. QED
  BY <1>4, <1>5, VisitsHold DEF VisitsLast, VisitsOf

\* Both halves have fewer cities.
LEMMA Halves ==
  ASSUME NEW n \in Nat, n # 0
  PROVE  n \div 2 \in 0..(n - 1) /\ n - 1 - (n \div 2) \in 0..(n - 1)
  OBVIOUS

BuildsUpTo(cities, F, k) == F = [n \in 0..k |-> BuildStep(cities, F, n)]

\* A function up to k cities can be extended to k + 1.
LEMMA BuildOneMore ==
  ASSUME NEW cities, NEW k \in Nat, NEW f, BuildsUpTo(cities, f, k)
  PROVE  \E g : BuildsUpTo(cities, g, k + 1)
<1> DEFINE Step(h, i) == BuildStep(cities, h, i)
<1>1. PICK D, E : D = 0..k /\ E = 0..(k + 1)
  OBVIOUS
<1>2. PICK g : g = [i \in E |-> IF i = k + 1 THEN Step(f, k + 1) ELSE f[i]]
  OBVIOUS
<1>3. k + 1 \in E /\ k + 1 \notin D /\ D \subseteq E /\ \A i \in E : i = k + 1 \/ i \in D
  BY <1>1
<1>4. \A i \in D : g[i] = f[i]
  <2> HIDE DEF Step
  <2>1. QED
    BY <1>2, <1>3
<1>5. \A i \in E : i # 0 => i \div 2 \in D /\ i - 1 - (i \div 2) \in D
  BY <1>1, Halves
<1>6. \A i \in E : Step(g, i) = Step(f, i)
  BY <1>4, <1>5 DEF BuildStep
<1>7. \A i \in D : f[i] = Step(f, i)
  <2> HIDE DEF Step
  <2>1. f = [i \in D |-> Step(f, i)]
    BY <1>1 DEF BuildsUpTo, Step
  <2>2. QED
    BY <2>1
<1>8. g = [i \in E |-> Step(g, i)]
  <2> HIDE DEF Step
  <2>1. \A i \in E : g[i] = Step(f, i)
    BY <1>2, <1>3, <1>7
  <2>2. \A i \in E : g[i] = Step(g, i)
    BY <2>1, <1>6
  <2>3. QED
    BY <2>2, <1>2
<1>9. QED
  BY <1>1, <1>8 DEF BuildsUpTo

\* The building satisfies its equation: its recursion goes to fewer cities.
LEMMA BuildsExist ==
  ASSUME NEW cities, NEW max \in Nat
  PROVE  BuildsOf(cities, max, Builds(cities, max))
<1> DEFINE Some(k) == \E f : BuildsUpTo(cities, f, k)
           Bad == {k \in Nat : ~Some(k)}
<1>1. Some(0)
  <2>1. 0..0 = {0}
    OBVIOUS
  <2>2. PICK f : f = [n \in {0} |-> [c \in Calls(cities, 0) |-> <<>>]]
    OBVIOUS
  <2>3. \A n \in {0} : BuildStep(cities, f, n) = [c \in Calls(cities, 0) |-> <<>>]
    BY DEF BuildStep
  <2>4. f = [n \in {0} |-> BuildStep(cities, f, n)]
    BY <2>2, <2>3
  <2>5. QED
    BY <2>1, <2>4 DEF BuildsUpTo
<1>2. ASSUME NEW k \in Nat, Some(k) PROVE Some(k + 1)
  BY <1>2, BuildOneMore
<1>3. Bad = {}
  <2> SUFFICES ASSUME Bad # {} PROVE FALSE
    OBVIOUS
  <2>1. PICK m \in Bad : \A x \in Bad : m <= x
    BY HasLeast
  <2>2. m \in Nat /\ ~Some(m)
    OBVIOUS
  <2>3. m # 0
    BY <2>2, <1>1
  <2> HIDE DEF Some
  <2>4. m - 1 \in Nat /\ ~(m <= m - 1) /\ (m - 1) + 1 = m
    BY <2>2, <2>3
  <2>5. Some(m - 1)
    BY <2>4, <2>1
  <2>6. QED
    BY <2>2, <2>4, <2>5, <1>2
<1>4. Some(max)
  <2> HIDE DEF Some
  <2>1. QED
    BY <1>3
<1>5. QED
  BY <1>4, BuildsHold DEF BuildsUpTo, BuildsOf

\* Cities with a place.
Located(C) == \A c \in C : c.at[1] \in Int /\ c.at[2] \in Int

Precedes(items, axis, j, i) ==
    items[j].at[axis] < items[i].at[axis] \/ (items[j].at[axis] = items[i].at[axis] /\ j < i)
Rank(items, axis, i) == Cardinality(Before(items, axis, i)) + 1

\* Ranks number the cities, in the order of the sort.
LEMMA Ranks ==
  ASSUME NEW C, Located(C), NEW n \in Nat, NEW items \in [1..n -> C], NEW axis \in Axes
  PROVE  /\ \A i \in 1..n : Rank(items, axis, i) \in 1..n
         /\ \A i \in 1..n, j \in 1..n : Precedes(items, axis, j, i)
                => Rank(items, axis, j) < Rank(items, axis, i)
         /\ \A i \in 1..n, j \in 1..n : i = j \/ Precedes(items, axis, j, i) \/ Precedes(items, axis, i, j)
<1>1. PICK K : K = 1..n
  OBVIOUS
<1>2. PICK key : key = [i \in K |-> items[i].at[axis]]
  OBVIOUS
<1>3. \A i \in K : key[i] \in Int /\ key[i] = items[i].at[axis]
  BY <1>1, <1>2 DEF Located, Axes
<1>4. DOMAIN items = K
  BY <1>1
<1>5. \A i \in K, j \in K : Precedes(items, axis, j, i) <=> key[j] < key[i] \/ (key[j] = key[i] /\ j < i)
  BY <1>3 DEF Precedes
<1>6. \A i \in K : Before(items, axis, i) = {j \in K : Precedes(items, axis, j, i)}
  BY <1>4 DEF Before, Precedes
<1>7. K \subseteq Int
  BY <1>1
<1>8. \A i \in K : ~Precedes(items, axis, i, i)
  BY <1>5, <1>3, <1>7
<1>9. \A i \in K, j \in K, k \in K : Precedes(items, axis, k, j) /\ Precedes(items, axis, j, i)
                                     => Precedes(items, axis, k, i)
  BY <1>5, <1>3, <1>7
<1>10. \A i \in K, j \in K : i = j \/ Precedes(items, axis, j, i) \/ Precedes(items, axis, i, j)
  <2> SUFFICES ASSUME NEW i \in K, NEW j \in K
               PROVE  i = j \/ Precedes(items, axis, j, i) \/ Precedes(items, axis, i, j)
    OBVIOUS
  <2>1. i \in Int /\ j \in Int /\ key[i] \in Int /\ key[j] \in Int
    BY <1>3, <1>7
  <2>2. i = j \/ key[j] < key[i] \/ key[i] < key[j] \/ (key[j] = key[i] /\ (j < i \/ i < j))
    BY <2>1
  <2>3. QED
    BY <2>2, <1>5
<1>11. IsFiniteSet(K) /\ Cardinality(K) = n
  BY <1>1, FS_Interval
<1>12. ASSUME NEW i \in K
       PROVE  /\ IsFiniteSet(Before(items, axis, i)) /\ Cardinality(Before(items, axis, i)) \in Nat
              /\ Cardinality(Before(items, axis, i)) < n
  <2>1. Before(items, axis, i) \subseteq K /\ Before(items, axis, i) # K
    BY <1>6, <1>8
  <2>2. QED
    BY <2>1, <1>11, FS_Subset, FS_CardinalityType
<1>13. ASSUME NEW i \in K, NEW j \in K, Precedes(items, axis, j, i)
       PROVE  Cardinality(Before(items, axis, j)) < Cardinality(Before(items, axis, i))
  <2>1. Before(items, axis, j) \subseteq Before(items, axis, i)
    BY <1>6, <1>9, <1>13
  <2>2. j \in Before(items, axis, i) /\ j \notin Before(items, axis, j)
    BY <1>6, <1>8, <1>13
  <2>3. QED
    BY <2>1, <2>2, <1>12, FS_Subset
<1>14. QED
  BY <1>1, <1>10, <1>12, <1>13 DEF Rank

\* The sort keeps the cities and puts them in order.
LEMMA SortIs ==
  ASSUME NEW C, Located(C), NEW n \in Nat, NEW items \in [1..n -> C], NEW axis \in Axes
  PROVE  /\ SortOf(items, axis) \in [1..n -> C]
         /\ Elements(SortOf(items, axis)) = Elements(items)
         /\ \A r \in 1..n, s \in 1..n :
                r < s => SortOf(items, axis)[r].at[axis] <= SortOf(items, axis)[s].at[axis]
<1>1. PICK K : K = 1..n
  OBVIOUS
<1>2. PICK rank : rank = [i \in K |-> Rank(items, axis, i)]
  OBVIOUS
<1>3. rank \in [K -> K]
  BY <1>1, <1>2, Ranks
<1>4. \A i \in K, j \in K : Precedes(items, axis, j, i) => rank[j] < rank[i]
  BY <1>1, <1>2, Ranks
<1>5. \A i \in K, j \in K : i = j \/ Precedes(items, axis, j, i) \/ Precedes(items, axis, i, j)
  BY <1>1, Ranks
<1>6. K \subseteq Int
  BY <1>1
<1>7. \A i \in K, j \in K : rank[i] = rank[j] => i = j
  <2>1. \A i \in K : rank[i] \in Int
    BY <1>3, <1>6
  <2>2. \A i \in K, j \in K : i # j => rank[i] < rank[j] \/ rank[j] < rank[i]
    BY <1>4, <1>5
  <2>3. QED
    BY <2>1, <2>2
<1>8. rank \in Injection(K, K)
  BY <1>3, <1>7 DEF Injection, IsInjective
<1>9. IsFiniteSet(K)
  BY <1>1, FS_Interval
<1>10. rank \in Surjection(K, K)
  BY <1>8, <1>9, FS_Injection
<1>11. \A r \in K : \E i \in K : rank[i] = r
  BY <1>10 DEF Surjection
<1>12. DOMAIN items = K
  BY <1>1
<1>13. PICK at : at = [r \in K |-> CHOOSE i \in K : rank[i] = r]
  OBVIOUS
<1>14. \A r \in K : at[r] \in K /\ rank[at[r]] = r
  BY <1>11, <1>13
<1>15. \A i \in K : at[rank[i]] = i
  BY <1>14, <1>3, <1>7
<1>16. \A r \in K, i \in K : Cardinality(Before(items, axis, i)) = r - 1 <=> rank[i] = r
  <2>1. \A i \in K : rank[i] = Cardinality(Before(items, axis, i)) + 1 /\ rank[i] \in Int
    BY <1>2, <1>3, <1>6 DEF Rank
  <2>2. \A i \in K : Cardinality(Before(items, axis, i)) \in Nat
    <3> SUFFICES ASSUME NEW i \in K PROVE Cardinality(Before(items, axis, i)) \in Nat
      OBVIOUS
    <3>1. Before(items, axis, i) \subseteq K
      BY <1>12 DEF Before
    <3>2. QED
      BY <3>1, <1>9, FS_Subset, FS_CardinalityType
  <2>3. QED
    BY <2>1, <2>2, <1>6
<1>17. \A r \in K : Nth(items, axis, r) = at[r]
  <2> SUFFICES ASSUME NEW r \in K PROVE Nth(items, axis, r) = at[r]
    OBVIOUS
  <2>1. \A i \in K : Cardinality(Before(items, axis, i)) = r - 1 <=> i = at[r]
    BY <1>16, <1>14, <1>7
  <2>2. \A i \in DOMAIN items : Cardinality(Before(items, axis, i)) = r - 1 <=> i = at[r]
    BY <2>1, <1>12
  <2>3. at[r] \in DOMAIN items
    BY <1>14, <1>12
  <2>4. QED
    BY <2>2, <2>3 DEF Nth
<1>18. SortOf(items, axis) = [r \in K |-> items[at[r]]]
  BY <1>12, <1>17 DEF SortOf
<1>19. \A r \in K : items[at[r]] \in C
  BY <1>1, <1>14
<1>20. SortOf(items, axis) \in [K -> C]
  BY <1>18, <1>19
<1>21. Elements(SortOf(items, axis)) = Elements(items)
  <2>1. DOMAIN SortOf(items, axis) = K
    BY <1>18
  <2>2. \A r \in K : SortOf(items, axis)[r] = items[at[r]]
    BY <1>18
  <2>3. \A i \in K : SortOf(items, axis)[rank[i]] = items[i] /\ rank[i] \in K
    BY <2>2, <1>15, <1>3
  <2>4. \A x : x \in Elements(SortOf(items, axis)) => x \in Elements(items)
    BY <2>1, <2>2, <1>14, <1>12 DEF Elements
  <2>5. \A x : x \in Elements(items) => x \in Elements(SortOf(items, axis))
    BY <2>1, <2>3, <1>12 DEF Elements
  <2>6. QED
    BY <2>4, <2>5
<1>22. ASSUME NEW r \in K, NEW s \in K, r < s
       PROVE  SortOf(items, axis)[r].at[axis] <= SortOf(items, axis)[s].at[axis]
  <2>1. ~Precedes(items, axis, at[s], at[r])
    <3>1. r \in Int /\ s \in Int /\ ~(s < r)
      BY <1>22, <1>6
    <3>2. rank[at[s]] = s /\ rank[at[r]] = r /\ at[s] \in K /\ at[r] \in K
      BY <1>14
    <3>3. QED
      BY <3>1, <3>2, <1>4
  <2>2. at[r] # at[s]
    BY <1>14, <1>22, <1>6
  <2>3. Precedes(items, axis, at[r], at[s])
    BY <2>1, <2>2, <1>5, <1>14
  <2>4. items[at[r]].at[axis] \in Int /\ items[at[s]].at[axis] \in Int
    BY <1>19, <1>14 DEF Located, Axes
  <2>5. items[at[r]].at[axis] <= items[at[s]].at[axis]
    BY <2>3, <2>4 DEF Precedes
  <2>6. QED
    BY <2>5, <1>18
<1>23. QED
  BY <1>1, <1>20, <1>21, <1>22

\* Squares are not negative, and grow with what is squared.
LEMMA SquareIs == ASSUME NEW a \in Int PROVE Square(a) \in Int /\ 0 <= Square(a)
  BY DEF Square

LEMMA SquareGrows ==
  ASSUME NEW a \in Int, NEW b \in Int, 0 <= a, a <= b
  PROVE  Square(a) <= Square(b)
<1>1. b * b - a * a = (b - a) * (b + a)
  OBVIOUS
<1>2. b - a >= 0 /\ b + a >= 0
  OBVIOUS
<1>3. \A x \in Int, y \in Int : x >= 0 /\ y >= 0 => x * y >= 0
  OBVIOUS
<1>4. (b - a) * (b + a) >= 0
  BY <1>2, <1>3
<1>5. a * a \in Int /\ b * b \in Int
  OBVIOUS
<1>6. QED
  BY <1>1, <1>4, <1>5 DEF Square

LEMMA SquareOfMinus == ASSUME NEW a \in Int PROVE Square(-a) = Square(a)
  BY DEF Square

\* Two places are no nearer than their distance along an axis.
LEMMA DistanceIs ==
  ASSUME NEW p, NEW q, p[1] \in Int, p[2] \in Int, q[1] \in Int, q[2] \in Int, NEW axis \in Axes
  PROVE  Distance(p, q) \in Int /\ Square(p[axis] - q[axis]) <= Distance(p, q)
<1>1. p[1] - q[1] \in Int /\ p[2] - q[2] \in Int
  OBVIOUS
<1>2. /\ Square(p[1] - q[1]) \in Int /\ 0 <= Square(p[1] - q[1])
      /\ Square(p[2] - q[2]) \in Int /\ 0 <= Square(p[2] - q[2])
  BY <1>1, SquareIs
<1>3. axis = 1 \/ axis = 2
  BY DEF Axes
<1>4. QED
  BY <1>2, <1>3 DEF Distance

\* A place on the far side of a splitting line is no nearer than the line.
LEMMA BeyondTheLine ==
  ASSUME NEW x \in Int, NEW a \in Int, NEW b \in Int, (x < a /\ a <= b) \/ (a <= x /\ b <= a)
  PROVE  Square(x - a) <= Square(b - x)
<1>1. CASE x < a /\ a <= b
  <2>1. Square(a - x) <= Square(b - x)
    BY <1>1, SquareGrows
  <2>2. a - x = -(x - a) /\ x - a \in Int
    OBVIOUS
  <2>3. QED
    BY <2>1, <2>2, SquareOfMinus
<1>2. CASE a <= x /\ b <= a
  <2>1. Square(x - a) <= Square(x - b)
    BY <1>2, SquareGrows
  <2>2. x - b = -(b - x) /\ b - x \in Int
    OBVIOUS
  <2>3. QED
    BY <2>1, <2>2, SquareOfMinus
<1>3. QED
  BY <1>1, <1>2

-----------------------------------------------------------------------------
\* A search finds a city that is no farther than the best so far, nor than any of S.
NoFarther(r, S, q, C) ==
    /\ r \in {<<c>> : c \in C}
    /\ \A c \in S : Distance(r[1].at, q) <= Distance(c.at, q)

Held(b, C) == {c \in C : b = <<c>>}

Finds(G, axis, S, q, C) ==
    \A b \in C : NoFarther(G[[axis |-> axis, best |-> <<b>>]], S \cup {b}, q, C)

\* If the searches of both halves do, so does the search of the node that has them: what it
\* leaves out lies behind a line that is no nearer than what it has found.
LEMMA VisitFinds ==
  ASSUME NEW C, Located(C), NEW q, q[1] \in Int, q[2] \in Int, NEW axis \in Axes,
         NEW node, node.item \in C, NEW Left, NEW Right, NEW L \in SUBSET C, NEW R \in SUBSET C,
         Finds(Left, NextAxis(axis), L, q, C), Finds(Right, NextAxis(axis), R, q, C),
         \A c \in L : c.at[axis] <= node.item.at[axis],
         \A c \in R : node.item.at[axis] <= c.at[axis],
         NEW b \in Bests(C)
  PROVE  NoFarther(Visit(C, node, q, Left, Right)[[axis |-> axis, best |-> b]],
                   L \cup R \cup {node.item} \cup Held(b, C), q, C)
<1> DEFINE at == node.item.at
           here == IF b = None \/ Distance(at, q) < Distance(b[1].at, q) THEN <<node.item>> ELSE b
           diff == q[axis] - at[axis]
           Near == IF diff < 0 THEN Left ELSE Right
           Far == IF diff < 0 THEN Right ELSE Left
           NearSet == IF diff < 0 THEN L ELSE R
           FarSet == IF diff < 0 THEN R ELSE L
           found == Near[[axis |-> NextAxis(axis), best |-> here]]
           there == Far[[axis |-> NextAxis(axis), best |-> found]]
           result == IF Square(diff) < Distance(found[1].at, q) THEN there ELSE found
<1>1. Visit(C, node, q, Left, Right)[[axis |-> axis, best |-> b]] = result
  <2>1. PICK v : v = [axis |-> axis, best |-> b]
    OBVIOUS
  <2>2. v \in Views(C) /\ v.axis = axis /\ v.best = b
    BY <2>1 DEF Views, Bests
  <2>3. QED
    BY <2>1, <2>2 DEF Visit
<1>2. \A c \in C : Distance(c.at, q) \in Int /\ Square(c.at[axis] - q[axis]) <= Distance(c.at, q)
  BY DistanceIs DEF Located
<1>3. \A c \in C : c.at[axis] \in Int
  BY DEF Located, Axes
<1>4. q[axis] \in Int
  BY DEF Axes
<1>5. PICK h \in C : here = <<h>>
  BY DEF Bests
<1>6. /\ Distance(h.at, q) <= Distance(at, q)
      /\ \A c \in C : b = <<c>> => Distance(h.at, q) <= Distance(c.at, q)
  <2>1. CASE b = None
    <3>1. h = node.item
      BY <2>1, <1>5
    <3>2. \A c \in C : b # <<c>>
      BY <2>1 DEF None
    <3>3. QED
      BY <3>1, <3>2, <1>2
  <2>2. CASE b # None
    <3>1. PICK c0 \in C : b = <<c0>>
      BY <2>2 DEF Bests
    <3>2. b[1] = c0 /\ \A c \in C : b = <<c>> => c = c0
      BY <3>1
    <3>3. h = IF Distance(at, q) < Distance(c0.at, q) THEN node.item ELSE c0
      BY <3>1, <3>2, <2>2, <1>5
    <3>4. QED
      BY <3>2, <3>3, <1>2
  <2>3. QED
    BY <2>1, <2>2
<1>7. Finds(Near, NextAxis(axis), NearSet, q, C) /\ Finds(Far, NextAxis(axis), FarSet, q, C)
  OBVIOUS
<1>8. NoFarther(found, NearSet \cup {h}, q, C)
  BY <1>5, <1>7 DEF Finds
<1>9. PICK f \in C : found = <<f>> /\ found[1] = f
  BY <1>8 DEF NoFarther
<1>10. NoFarther(there, FarSet \cup {f}, q, C)
  BY <1>9, <1>7 DEF Finds
<1>11. \A c \in FarSet : Square(diff) <= Distance(c.at, q)
  <2> SUFFICES ASSUME NEW c \in FarSet PROVE Square(diff) <= Distance(c.at, q)
    OBVIOUS
  <2>1. c \in C
    OBVIOUS
  <2>2. (q[axis] < at[axis] /\ at[axis] <= c.at[axis]) \/ (at[axis] <= q[axis] /\ c.at[axis] <= at[axis])
    BY <1>3, <1>4
  <2>3. Square(diff) <= Square(c.at[axis] - q[axis])
    BY <2>1, <2>2, <1>3, <1>4, BeyondTheLine
  <2>4. Square(diff) \in Int /\ Square(c.at[axis] - q[axis]) \in Int
    BY <2>1, <1>3, <1>4, SquareIs
  <2>5. QED
    BY <2>1, <2>3, <2>4, <1>2
<1>12. Square(diff) \in Int
  BY <1>3, <1>4, SquareIs
<1> HIDE DEF here, Near, Far, found, there, diff
<1>13. /\ Distance(f.at, q) <= Distance(h.at, q)
       /\ \A c \in NearSet : Distance(f.at, q) <= Distance(c.at, q)
  BY <1>8, <1>9 DEF NoFarther
<1>14. NearSet \subseteq C /\ FarSet \subseteq C /\ NearSet \cup FarSet = L \cup R
  OBVIOUS
<1>15. PICK S : S = L \cup R \cup {node.item} \cup Held(b, C)
  OBVIOUS
<1>16. \A c \in S : c \in NearSet \/ c \in FarSet \/ c = node.item \/ (c \in C /\ b = <<c>>)
  BY <1>14, <1>15 DEF Held
<1> HIDE DEF NearSet, FarSet
<1>17. CASE Square(diff) < Distance(f.at, q)
  <2>1. result = there
    BY <1>17, <1>9
  <2>2. PICK t \in C : there = <<t>> /\ there[1] = t
    BY <1>10 DEF NoFarther
  <2>3. Distance(t.at, q) <= Distance(f.at, q) /\ \A c \in FarSet : Distance(t.at, q) <= Distance(c.at, q)
    BY <1>10, <2>2 DEF NoFarther
  <2>4. \A c \in S : c \in C /\ Distance(t.at, q) <= Distance(c.at, q)
    BY <2>2, <2>3, <1>2, <1>6, <1>13, <1>14, <1>16
  <2>5. QED
    BY <2>1, <2>2, <2>4, <1>1, <1>15 DEF NoFarther
<1>18. CASE ~(Square(diff) < Distance(f.at, q))
  <2>1. result = found
    BY <1>18, <1>9
  <2>2. \A c \in FarSet : Distance(f.at, q) <= Distance(c.at, q)
    BY <1>18, <1>11, <1>12, <1>2, <1>14
  <2>3. \A c \in S : c \in C /\ Distance(f.at, q) <= Distance(c.at, q)
    BY <2>2, <1>2, <1>6, <1>13, <1>14, <1>16
  <2>4. QED
    BY <2>1, <2>3, <1>1, <1>9, <1>15 DEF NoFarther
<1>19. QED
  BY <1>17, <1>18

\* Node i, whose subtree is i..last[i]: its left half is i+1..m and its right half m+1..last[i];
\* base is the index of the first node in the whole vector.
Splits(nodes, base, last, ax, i, m) ==
    /\ i <= m /\ m <= last[i]
    /\ IF m = i THEN nodes[i].left = 0
       ELSE nodes[i].left = base + i /\ last[i + 1] = m /\ ax[i + 1] = NextAxis(ax[i])
    /\ IF m = last[i] THEN nodes[i].right = 0
       ELSE nodes[i].right = base + m /\ last[m + 1] = last[i] /\ ax[m + 1] = NextAxis(ax[i])
    /\ \A k \in (i + 1)..m : nodes[k].item.at[ax[i]] <= nodes[i].item.at[ax[i]]
    /\ \A k \in (m + 1)..last[i] : nodes[i].item.at[ax[i]] <= nodes[k].item.at[ax[i]]

Planted(nodes, base, n, last, ax) ==
    /\ last \in [1..n -> 1..n] /\ ax \in [1..n -> Axes]
    /\ \A i \in 1..n : \E m \in 1..n : Splits(nodes, base, last, ax, i, m)

Tree(nodes, base, axis, n) ==
    \E last, ax : /\ Planted(nodes, base, n, last, ax)
                  /\ n # 0 => last[1] = n /\ ax[1] = axis

Block(nodes, i, j) == {nodes[k].item : k \in i..j}

\* In a tree, children come after their node.
LEMMA TreeIsForward ==
  ASSUME NEW n \in Nat, NEW nodes, Len(nodes) = n, NEW last, NEW ax, Planted(nodes, 1, n, last, ax)
  PROVE  Forward(nodes)
<1> SUFFICES ASSUME NEW i \in 1..n
             PROVE  /\ nodes[i].left = 0 \/ nodes[i].left \in (i + 1)..n
                    /\ nodes[i].right = 0 \/ nodes[i].right \in (i + 1)..n
  BY DEF Forward
<1>1. PICK m \in 1..n : Splits(nodes, 1, last, ax, i, m)
  BY DEF Planted
<1>2. last[i] \in 1..n
  BY DEF Planted
<1>3. i <= m /\ m <= last[i]
  BY <1>1 DEF Splits
<1>4. nodes[i].left = 0 \/ (m # i /\ nodes[i].left = 1 + i)
  BY <1>1 DEF Splits
<1>5. nodes[i].right = 0 \/ (m # last[i] /\ nodes[i].right = 1 + m)
  BY <1>1 DEF Splits
<1>6. QED
  BY <1>2, <1>3, <1>4, <1>5

\* The node at i finds a nearest city of its subtree.
Seeks(F, nodes, last, ax, i, q, C) ==
    \A b \in Bests(C) :
        NoFarther(F[i][[axis |-> ax[i], best |-> b]],
                  Block(nodes, i, last[i]) \cup Held(b, C), q, C)

\* If all later nodes do, so does this one.
LEMMA SeekOne ==
  ASSUME NEW n \in Nat, NEW nodes, Len(nodes) = n, NEW last, NEW ax, Planted(nodes, 1, n, last, ax),
         NEW C, Located(C), \A i \in 1..n : nodes[i].item \in C,
         NEW q, q[1] \in Int, q[2] \in Int,
         NEW F, VisitsOf(C, nodes, q, F), NEW i \in 1..n,
         \A j \in 1..n : j > i => Seeks(F, nodes, last, ax, j, q, C)
  PROVE  Seeks(F, nodes, last, ax, i, q, C)
<1>1. PICK m \in 1..n : Splits(nodes, 1, last, ax, i, m)
  BY DEF Planted
<1>2. last[i] \in 1..n /\ ax[i] \in Axes
  BY DEF Planted
<1>3. i <= m /\ m <= last[i]
  BY <1>1 DEF Splits
<1> DEFINE L == Block(nodes, i + 1, m)
           R == Block(nodes, m + 1, last[i])
<1>4. F[i] = Visit(C, nodes[i], q, F[nodes[i].left], F[nodes[i].right])
  <2>1. i \in 0..Len(nodes) /\ i # 0
    OBVIOUS
  <2>2. F[i] = VisitStep(C, nodes, q, F, i)
    BY <2>1 DEF VisitsOf
  <2>3. QED
    BY <2>1, <2>2 DEF VisitStep
<1>5. F[0] = [v \in Views(C) |-> v.best]
  <2>1. 0 \in 0..Len(nodes)
    OBVIOUS
  <2>2. F[0] = VisitStep(C, nodes, q, F, 0)
    BY <2>1 DEF VisitsOf
  <2>3. QED
    BY <2>2 DEF VisitStep
<1>6. ASSUME NEW a \in Axes PROVE Finds(F[0], a, {}, q, C)
  <2> SUFFICES ASSUME NEW b \in C
               PROVE  NoFarther(F[0][[axis |-> a, best |-> <<b>>]], {b}, q, C)
    BY DEF Finds
  <2>1. PICK v : v = [axis |-> a, best |-> <<b>>]
    OBVIOUS
  <2>2. v \in Views(C) /\ v.best = <<b>>
    BY <2>1 DEF Views, Bests
  <2>3. F[0][v] = <<b>>
    BY <2>2, <1>5
  <2>4. Distance(b.at, q) \in Int
    BY DistanceIs DEF Located, Axes
  <2>5. QED
    BY <2>1, <2>3, <2>4 DEF NoFarther
<1>7. ASSUME NEW j \in 1..n, j > i PROVE Finds(F[j], ax[j], Block(nodes, j, last[j]), q, C)
  <2> SUFFICES ASSUME NEW b \in C
               PROVE  NoFarther(F[j][[axis |-> ax[j], best |-> <<b>>]],
                                Block(nodes, j, last[j]) \cup {b}, q, C)
    BY DEF Finds
  <2>1. NoFarther(F[j][[axis |-> ax[j], best |-> <<b>>]],
                  Block(nodes, j, last[j]) \cup Held(<<b>>, C), q, C)
    BY <1>7 DEF Seeks, Bests
  <2>2. Held(<<b>>, C) = {b}
    BY DEF Held
  <2>3. QED
    BY <2>1, <2>2
<1>8. NextAxis(ax[i]) \in Axes
  BY <1>2 DEF NextAxis, Axes
<1>9. Finds(F[nodes[i].left], NextAxis(ax[i]), L, q, C)
  <2>1. CASE m = i
    <3>1. nodes[i].left = 0
      BY <1>1, <2>1 DEF Splits
    <3>2. L = {}
      BY <2>1 DEF Block
    <3>3. QED
      BY <3>1, <3>2, <1>6, <1>8
  <2>2. CASE m # i
    <3>1. nodes[i].left = i + 1 /\ last[i + 1] = m /\ ax[i + 1] = NextAxis(ax[i])
      BY <1>1, <2>2 DEF Splits
    <3>2. i + 1 \in 1..n /\ i + 1 > i
      BY <2>2, <1>3
    <3>3. QED
      BY <3>1, <3>2, <1>7
  <2>3. QED
    BY <2>1, <2>2
<1>10. Finds(F[nodes[i].right], NextAxis(ax[i]), R, q, C)
  <2>1. CASE m = last[i]
    <3>1. nodes[i].right = 0
      BY <1>1, <2>1 DEF Splits
    <3>2. R = {}
      BY <2>1, <1>2 DEF Block
    <3>3. QED
      BY <3>1, <3>2, <1>6, <1>8
  <2>2. CASE m # last[i]
    <3>1. nodes[i].right = m + 1 /\ last[m + 1] = last[i] /\ ax[m + 1] = NextAxis(ax[i])
      BY <1>1, <2>2 DEF Splits
    <3>2. m + 1 \in 1..n /\ m + 1 > i
      BY <2>2, <1>2, <1>3
    <3>3. QED
      BY <3>1, <3>2, <1>7
  <2>3. QED
    BY <2>1, <2>2
<1>11. L \subseteq C /\ R \subseteq C
  BY <1>2, <1>3 DEF Block
<1>12. /\ \A c \in L : c.at[ax[i]] <= nodes[i].item.at[ax[i]]
       /\ \A c \in R : nodes[i].item.at[ax[i]] <= c.at[ax[i]]
  BY <1>1 DEF Splits, Block
<1>13. Block(nodes, i, last[i]) = L \cup R \cup {nodes[i].item}
  <2>1. \A k : k \in i..last[i] <=> k = i \/ k \in (i + 1)..m \/ k \in (m + 1)..last[i]
    BY <1>2, <1>3
  <2>2. QED
    BY <2>1 DEF Block
<1> HIDE DEF L, R
<1>14. nodes[i].item \in C
  OBVIOUS
<1>15. ASSUME NEW b \in Bests(C)
       PROVE  NoFarther(F[i][[axis |-> ax[i], best |-> b]],
                        L \cup R \cup {nodes[i].item} \cup Held(b, C), q, C)
  <2>0. PICK a \in Axes : a = ax[i]
    BY <1>2
  <2>1. PICK nd, Left, Right :
            nd = nodes[i] /\ Left = F[nodes[i].left] /\ Right = F[nodes[i].right]
    OBVIOUS
  <2>2. /\ Finds(Left, NextAxis(a), L, q, C) /\ Finds(Right, NextAxis(a), R, q, C)
        /\ nd.item \in C /\ L \in SUBSET C /\ R \in SUBSET C
        /\ \A c \in L : c.at[a] <= nd.item.at[a]
        /\ \A c \in R : nd.item.at[a] <= c.at[a]
    BY <2>0, <2>1, <1>9, <1>10, <1>11, <1>12, <1>14
  <2>3. NoFarther(Visit(C, nd, q, Left, Right)[[axis |-> a, best |-> b]],
                  L \cup R \cup {nd.item} \cup Held(b, C), q, C)
    BY <2>2, VisitFinds
  <2>4. QED
    BY <2>0, <2>1, <2>3, <1>4
<1>16. QED
  BY <1>13, <1>15 DEF Seeks

\* Every node finds a nearest city of its subtree: there is no last one that does not.
LEMMA SeekAll ==
  ASSUME NEW n \in Nat, NEW nodes, Len(nodes) = n, NEW last, NEW ax, Planted(nodes, 1, n, last, ax),
         NEW C, Located(C), \A i \in 1..n : nodes[i].item \in C,
         NEW q, q[1] \in Int, q[2] \in Int,
         NEW F, VisitsOf(C, nodes, q, F)
  PROVE  \A i \in 1..n : Seeks(F, nodes, last, ax, i, q, C)
<1> DEFINE Good(i) == Seeks(F, nodes, last, ax, i, q, C)
<1>1. \A i \in 1..n : (\A j \in 1..n : j > i => Good(j)) => Good(i)
  BY SeekOne
<1>2. PICK Bad : Bad = {k \in Nat : k < n /\ ~Good(n - k)}
  OBVIOUS
<1> HIDE DEF Good
<1>3. Bad = {}
  <2> SUFFICES ASSUME Bad # {} PROVE FALSE
    OBVIOUS
  <2>1. Bad \subseteq Nat
    BY <1>2
  <2>2. PICK k \in Bad : \A x \in Bad : k <= x
    BY <2>1, HasLeast
  <2>3. k \in Nat /\ k < n /\ ~Good(n - k) /\ n - k \in 1..n
    BY <1>2
  <2>4. ASSUME NEW j \in 1..n, j > n - k PROVE Good(j)
    <3>1. n - j \in Nat /\ n - j < n /\ ~(k <= n - j) /\ n - (n - j) = j
      BY <2>3, <2>4
    <3>2. n - j \notin Bad
      BY <3>1, <2>2
    <3>3. QED
      BY <3>1, <3>2, <1>2
  <2>5. QED
    BY <2>3, <2>4, <1>1
<1>4. ASSUME NEW i \in 1..n PROVE Good(i)
  <2>1. n - i \in Nat /\ n - i < n /\ n - (n - i) = i
    OBVIOUS
  <2>2. QED
    BY <2>1, <1>2, <1>3
<1>5. QED
  BY <1>4 DEF Good

\* The search in a tree finds a nearest city.
LEMMA TreeFinds ==
  ASSUME NEW n \in Nat, n # 0, NEW nodes, Len(nodes) = n, DOMAIN nodes = 1..n, Tree(nodes, 1, 1, n),
         Located(ItemsOf(nodes)), NEW q, q[1] \in Int, q[2] \in Int
  PROVE  \E c \in Closest(ItemsOf(nodes), q) : Nearest(nodes, q) = <<c>>
<1>1. PICK C : C = ItemsOf(nodes)
  OBVIOUS
<1>2. PICK last, ax : Planted(nodes, 1, n, last, ax) /\ last[1] = n /\ ax[1] = 1
  BY DEF Tree
<1>3. \A i \in 1..n : nodes[i].item \in C
  BY <1>1 DEF ItemsOf
<1>4. PICK F : F = Visits(C, nodes, q)
  OBVIOUS
<1>5. VisitsOf(C, nodes, q, F)
  BY <1>2, <1>4, TreeIsForward, VisitsExist
<1>6. Seeks(F, nodes, last, ax, 1, q, C)
  <2>1. 1 \in 1..n
    OBVIOUS
  <2>2. Located(C)
    BY <1>1
  <2>3. QED
    BY <2>1, <2>2, <1>2, <1>3, <1>5, SeekAll
<1>7. Block(nodes, 1, n) = C
  BY <1>1 DEF Block, ItemsOf
<1>8. PICK r : r = F[1][[axis |-> 1, best |-> None]]
  OBVIOUS
<1>9. NoFarther(r, C \cup Held(None, C), q, C)
  BY <1>2, <1>6, <1>7, <1>8 DEF Seeks, Bests
<1>10. PICK c \in C : r = <<c>>
  BY <1>9 DEF NoFarther
<1>11. c \in Closest(C, q)
  BY <1>9, <1>10 DEF NoFarther, Closest
<1>12. nodes # <<>>
  OBVIOUS
<1>13. Nearest(nodes, q) = r
  BY <1>1, <1>4, <1>8, <1>12 DEF Nearest
<1>14. QED
  BY <1>1, <1>10, <1>11, <1>13

Nodes(C) == [item : C, left : Nat, right : Nat]

\* A tree of k nodes at the offset o of a vector.
Inside(nodes, last, ax, t, lastOf, axOf, o, k) ==
    \A j \in 1..k : nodes[o + j] = t[j] /\ last[o + j] = o + lastOf[j] /\ ax[o + j] = axOf[j]

\* A node of a smaller tree is split in the same way where the tree is put.
LEMMA SplitsWithin ==
  ASSUME NEW nodes, NEW last, NEW ax, NEW t, NEW lastOf, NEW axOf, NEW o \in Nat, NEW k \in Nat,
         NEW base \in Nat, \A x \in 1..k : lastOf[x] \in 1..k,
         Inside(nodes, last, ax, t, lastOf, axOf, o, k),
         NEW j \in 1..k, NEW m \in 1..k, Splits(t, base + o, lastOf, axOf, j, m)
  PROVE  Splits(nodes, base, last, ax, o + j, o + m)
<1>1. PICK l \in Nat : l = lastOf[j] /\ l <= k
  <2>1. lastOf[j] \in 1..k
    OBVIOUS
  <2>2. QED
    BY <2>1
<1>2. /\ j \in Nat /\ m \in Nat /\ m <= k /\ j <= m /\ m <= l
      /\ nodes[o + j] = t[j] /\ last[o + j] = o + l /\ ax[o + j] = axOf[j]
  BY <1>1 DEF Splits, Inside
<1>3. o + j <= o + m /\ o + m <= last[o + j]
  BY <1>1, <1>2
<1>4. IF o + m = o + j THEN nodes[o + j].left = 0
      ELSE /\ nodes[o + j].left = base + (o + j)
           /\ last[(o + j) + 1] = o + m /\ ax[(o + j) + 1] = NextAxis(ax[o + j])
  <2>1. CASE m = j
    BY <2>1, <1>2 DEF Splits
  <2>2. CASE m # j
    <3>1. /\ t[j].left = (base + o) + j /\ lastOf[j + 1] = m /\ axOf[j + 1] = NextAxis(axOf[j])
      BY <2>2 DEF Splits
    <3>2. j + 1 \in 1..k /\ o + (j + 1) = (o + j) + 1
      BY <2>2, <1>1, <1>2
    <3>3. last[o + (j + 1)] = o + lastOf[j + 1] /\ ax[o + (j + 1)] = axOf[j + 1]
      BY <3>2 DEF Inside
    <3>4. QED
      BY <2>2, <3>1, <3>2, <3>3, <1>1, <1>2
  <2>3. QED
    BY <2>1, <2>2
<1>5. IF o + m = last[o + j] THEN nodes[o + j].right = 0
      ELSE /\ nodes[o + j].right = base + (o + m)
           /\ last[(o + m) + 1] = last[o + j] /\ ax[(o + m) + 1] = NextAxis(ax[o + j])
  <2>1. CASE m = l
    BY <2>1, <1>1, <1>2 DEF Splits
  <2>2. CASE m # l
    <3>1. /\ t[j].right = (base + o) + m /\ lastOf[m + 1] = l /\ axOf[m + 1] = NextAxis(axOf[j])
      BY <2>2, <1>1 DEF Splits
    <3>2. m + 1 \in 1..k /\ o + (m + 1) = (o + m) + 1
      BY <2>2, <1>1, <1>2
    <3>3. last[o + (m + 1)] = o + lastOf[m + 1] /\ ax[o + (m + 1)] = axOf[m + 1]
      BY <3>2 DEF Inside
    <3>4. QED
      BY <2>2, <3>1, <3>2, <3>3, <1>1, <1>2
  <2>3. QED
    BY <2>1, <2>2
<1>6. ASSUME NEW x \in ((o + j) + 1)..(o + m)
      PROVE  nodes[x].item.at[ax[o + j]] <= nodes[o + j].item.at[ax[o + j]]
  <2>1. x - o \in (j + 1)..m /\ x - o \in 1..k /\ o + (x - o) = x
    BY <1>2
  <2>2. nodes[x] = t[x - o]
    BY <2>1 DEF Inside
  <2>3. t[x - o].item.at[axOf[j]] <= t[j].item.at[axOf[j]]
    BY <2>1 DEF Splits
  <2>4. QED
    BY <2>2, <2>3, <1>2
<1>7. ASSUME NEW x \in ((o + m) + 1)..last[o + j]
      PROVE  nodes[o + j].item.at[ax[o + j]] <= nodes[x].item.at[ax[o + j]]
  <2>1. x - o \in (m + 1)..l /\ x - o \in 1..k /\ o + (x - o) = x
    BY <1>1, <1>2
  <2>2. nodes[x] = t[x - o]
    BY <2>1 DEF Inside
  <2>3. t[j].item.at[axOf[j]] <= t[x - o].item.at[axOf[j]]
    BY <2>1, <1>1 DEF Splits
  <2>4. QED
    BY <2>2, <2>3, <1>2
<1>8. QED
  BY <1>3, <1>4, <1>5, <1>6, <1>7 DEF Splits

\* What is where when a node and two vectors are joined.
LEMMA JoinOf ==
  ASSUME NEW C, NEW L \in Seq(Nodes(C)), NEW R \in Seq(Nodes(C)), NEW node \in Nodes(C)
  PROVE  /\ <<node>> \o L \o R \in Seq(Nodes(C))
         /\ Len(<<node>> \o L \o R) = 1 + Len(L) + Len(R)
         /\ (<<node>> \o L \o R)[1] = node
         /\ \A j \in 1..Len(L) : (<<node>> \o L \o R)[1 + j] = L[j]
         /\ \A j \in 1..Len(R) : (<<node>> \o L \o R)[(1 + Len(L)) + j] = R[j]
         /\ ItemsOf(<<node>> \o L \o R) = {node.item} \cup ItemsOf(L) \cup ItemsOf(R)
<1>1. PICK N : N = Nodes(C)
  OBVIOUS
<1>2. PICK u : u = <<node>> \o L
  OBVIOUS
<1>3. PICK t : t = u \o R
  OBVIOUS
<1>4. PICK a, b : a = Len(L) /\ b = Len(R)
  OBVIOUS
<1>5. a \in Nat /\ b \in Nat /\ DOMAIN L = 1..a /\ DOMAIN R = 1..b
  BY <1>4, <1>1
<1>6. <<node>> \in Seq(N) /\ Len(<<node>>) = 1 /\ <<node>>[1] = node
  BY <1>1
<1>7. /\ u \in Seq(N) /\ Len(u) = 1 + a
      /\ \A i \in 1..(1 + a) : u[i] = IF i <= 1 THEN <<node>>[i] ELSE L[i - 1]
  BY <1>1, <1>2, <1>4, <1>6, ConcatProperties
<1>8. /\ t \in Seq(N) /\ Len(t) = (1 + a) + b
      /\ \A i \in 1..((1 + a) + b) : t[i] = IF i <= 1 + a THEN u[i] ELSE R[i - (1 + a)]
  <2>1. R \in Seq(N) /\ Len(R) = b /\ Len(u) = 1 + a /\ u \in Seq(N)
    BY <1>1, <1>4, <1>7
  <2>2. /\ u \o R \in Seq(N) /\ Len(u \o R) = Len(u) + Len(R)
        /\ \A i \in 1..(Len(u) + Len(R)) : (u \o R)[i] = IF i <= Len(u) THEN u[i] ELSE R[i - Len(u)]
    BY <2>1, ConcatProperties
  <2>3. QED
    BY <2>1, <2>2, <1>3
<1>9. t[1] = node
  BY <1>5, <1>6, <1>7, <1>8
<1>10. ASSUME NEW j \in 1..a PROVE t[1 + j] = L[j]
  <2>1. 1 + j \in 1..(1 + a) /\ 1 + j \in 1..((1 + a) + b) /\ ~(1 + j <= 1) /\ (1 + j) - 1 = j /\ 1 + j <= 1 + a
    BY <1>5
  <2>2. QED
    BY <2>1, <1>7, <1>8
<1>11. ASSUME NEW j \in 1..b PROVE t[(1 + a) + j] = R[j]
  <2>1. (1 + a) + j \in 1..((1 + a) + b) /\ ~((1 + a) + j <= 1 + a) /\ ((1 + a) + j) - (1 + a) = j
    BY <1>5
  <2>2. QED
    BY <2>1, <1>8
<1>12. ItemsOf(t) = {node.item} \cup ItemsOf(L) \cup ItemsOf(R)
  <2>1. DOMAIN t = 1..((1 + a) + b)
    BY <1>8
  <2>2. \A i \in 1..((1 + a) + b) :
            i = 1 \/ (i - 1 \in 1..a /\ i = 1 + (i - 1))
                  \/ (i - (1 + a) \in 1..b /\ i = (1 + a) + (i - (1 + a)))
    BY <1>5
  <2>3. ASSUME NEW i \in DOMAIN t PROVE t[i].item \in {node.item} \cup ItemsOf(L) \cup ItemsOf(R)
    <3>1. i = 1 \/ (i - 1 \in 1..a /\ i = 1 + (i - 1))
                  \/ (i - (1 + a) \in 1..b /\ i = (1 + a) + (i - (1 + a)))
      BY <2>1, <2>2
    <3>2. CASE i = 1
      BY <3>2, <1>9
    <3>3. CASE i - 1 \in 1..a /\ i = 1 + (i - 1)
      <4>1. t[i] = L[i - 1]
        BY <3>3, <1>10
      <4>2. QED
        BY <4>1, <3>3, <1>5 DEF ItemsOf
    <3>4. CASE i - (1 + a) \in 1..b /\ i = (1 + a) + (i - (1 + a))
      <4>1. t[i] = R[i - (1 + a)]
        BY <3>4, <1>11
      <4>2. QED
        BY <4>1, <3>4, <1>5 DEF ItemsOf
    <3>5. QED
      BY <3>1, <3>2, <3>3, <3>4
  <2>4. 1 \in DOMAIN t
    BY <2>1, <1>5
  <2>5. \A j \in 1..a : 1 + j \in DOMAIN t
    BY <2>1, <1>5
  <2>6. \A j \in 1..b : (1 + a) + j \in DOMAIN t
    BY <2>1, <1>5
  <2>7. ItemsOf(t) \subseteq {node.item} \cup ItemsOf(L) \cup ItemsOf(R)
    BY <2>3 DEF ItemsOf
  <2>8. node.item \in ItemsOf(t)
    BY <2>4, <1>9 DEF ItemsOf
  <2>9. ItemsOf(L) \subseteq ItemsOf(t)
    BY <2>5, <1>5, <1>10 DEF ItemsOf
  <2>10. ItemsOf(R) \subseteq ItemsOf(t)
    BY <2>6, <1>5, <1>11 DEF ItemsOf
  <2>11. QED
    BY <2>7, <2>8, <2>9, <2>10
<1>13. QED
  BY <1>1, <1>2, <1>3, <1>4, <1>5, <1>8, <1>9, <1>10, <1>11, <1>12

\* A node and the trees of what is before it and behind it, along its axis, are a tree.
LEMMA JoinIsTree ==
  ASSUME NEW C, NEW L \in Seq(Nodes(C)), NEW R \in Seq(Nodes(C)), NEW node \in Nodes(C),
         NEW a, NEW b, a = Len(L), b = Len(R), NEW base \in Nat, NEW axis \in Axes,
         Tree(L, base + 1, NextAxis(axis), a), Tree(R, base + 1 + a, NextAxis(axis), b),
         node.left = IF a = 0 THEN 0 ELSE base + 1,
         node.right = IF b = 0 THEN 0 ELSE base + 1 + a,
         \A c \in ItemsOf(L) : c.at[axis] <= node.item.at[axis],
         \A c \in ItemsOf(R) : node.item.at[axis] <= c.at[axis]
  PROVE  Tree(<<node>> \o L \o R, base, axis, 1 + a + b)
<1>1. a \in Nat /\ b \in Nat /\ DOMAIN L = 1..a /\ DOMAIN R = 1..b
  OBVIOUS
<1>2. PICK t, n : t = <<node>> \o L \o R /\ n = 1 + a + b
  OBVIOUS
<1>3. /\ t[1] = node /\ \A j \in 1..a : t[1 + j] = L[j]
      /\ \A j \in 1..b : t[(1 + a) + j] = R[j]
  BY <1>2, JoinOf
<1>4. PICK lastL, axL : /\ Planted(L, base + 1, a, lastL, axL)
                        /\ a # 0 => lastL[1] = a /\ axL[1] = NextAxis(axis)
  BY DEF Tree
<1>5. PICK lastR, axR : /\ Planted(R, base + 1 + a, b, lastR, axR)
                        /\ b # 0 => lastR[1] = b /\ axR[1] = NextAxis(axis)
  BY DEF Tree
<1>6. /\ \A j \in 1..a : lastL[j] \in 1..a /\ axL[j] \in Axes
      /\ \A j \in 1..b : lastR[j] \in 1..b /\ axR[j] \in Axes
  BY <1>4, <1>5 DEF Planted
<1>7. PICK last : last = [i \in 1..n |-> IF i = 1 THEN n
                                         ELSE IF i <= 1 + a THEN 1 + lastL[i - 1]
                                         ELSE (1 + a) + lastR[i - (1 + a)]]
  OBVIOUS
<1>8. PICK ax : ax = [i \in 1..n |-> IF i = 1 THEN axis
                                     ELSE IF i <= 1 + a THEN axL[i - 1] ELSE axR[i - (1 + a)]]
  OBVIOUS
<1>9. \A i \in 1..n : \/ i = 1
                      \/ i - 1 \in 1..a /\ i = 1 + (i - 1) /\ i # 1 /\ i <= 1 + a
                      \/ /\ i - (1 + a) \in 1..b /\ i = (1 + a) + (i - (1 + a))
                         /\ i # 1 /\ ~(i <= 1 + a)
  BY <1>1, <1>2
<1>10. ASSUME NEW i \in 1..n PROVE last[i] \in 1..n /\ ax[i] \in Axes
  <2>1. CASE i = 1
    BY <2>1, <1>1, <1>2, <1>7, <1>8
  <2>2. CASE i - 1 \in 1..a /\ i # 1 /\ i <= 1 + a
    <3>1. last[i] = 1 + lastL[i - 1] /\ ax[i] = axL[i - 1]
      BY <2>2, <1>7, <1>8
    <3>2. PICK l \in 1..a : l = lastL[i - 1]
      BY <2>2, <1>6
    <3>3. 1 + l \in 1..n
      BY <1>1, <1>2
    <3>4. QED
      BY <2>2, <3>1, <3>2, <3>3, <1>6
  <2>3. CASE i - (1 + a) \in 1..b /\ i # 1 /\ ~(i <= 1 + a)
    <3>1. last[i] = (1 + a) + lastR[i - (1 + a)] /\ ax[i] = axR[i - (1 + a)]
      BY <2>3, <1>7, <1>8
    <3>2. PICK l \in 1..b : l = lastR[i - (1 + a)]
      BY <2>3, <1>6
    <3>3. (1 + a) + l \in 1..n
      BY <1>1, <1>2
    <3>4. QED
      BY <2>3, <3>1, <3>2, <3>3, <1>6
  <2>4. QED
    BY <2>1, <2>2, <2>3, <1>9
<1>11. last \in [1..n -> 1..n] /\ ax \in [1..n -> Axes]
  BY <1>7, <1>8, <1>10
<1>12. Inside(t, last, ax, L, lastL, axL, 1, a)
  <2> SUFFICES ASSUME NEW j \in 1..a
               PROVE  t[1 + j] = L[j] /\ last[1 + j] = 1 + lastL[j] /\ ax[1 + j] = axL[j]
    BY DEF Inside
  <2>1. 1 + j \in 1..n /\ 1 + j # 1 /\ 1 + j <= 1 + a /\ (1 + j) - 1 = j
    BY <1>1, <1>2
  <2>2. QED
    BY <2>1, <1>3, <1>7, <1>8
<1>13. Inside(t, last, ax, R, lastR, axR, 1 + a, b)
  <2> SUFFICES ASSUME NEW j \in 1..b
               PROVE  /\ t[(1 + a) + j] = R[j] /\ last[(1 + a) + j] = (1 + a) + lastR[j]
                      /\ ax[(1 + a) + j] = axR[j]
    BY DEF Inside
  <2>1. /\ (1 + a) + j \in 1..n /\ (1 + a) + j # 1 /\ ~((1 + a) + j <= 1 + a)
        /\ ((1 + a) + j) - (1 + a) = j
    BY <1>1, <1>2
  <2>2. QED
    BY <2>1, <1>3, <1>7, <1>8
<1>14. last[1] = n /\ ax[1] = axis /\ n \in Nat /\ 1 \in 1..n
  BY <1>1, <1>2, <1>7, <1>8
<1>15. Splits(t, base, last, ax, 1, 1 + a)
  <2>1. 1 <= 1 + a /\ 1 + a <= last[1]
    BY <1>1, <1>2, <1>14
  <2>2. IF 1 + a = 1 THEN t[1].left = 0
        ELSE t[1].left = base + 1 /\ last[1 + 1] = 1 + a /\ ax[1 + 1] = NextAxis(ax[1])
    <3>1. CASE a = 0
      BY <3>1, <1>3
    <3>2. CASE a # 0
      <4>1. 1 \in 1..a
        BY <3>2, <1>1
      <4>2. last[1 + 1] = 1 + a /\ ax[1 + 1] = NextAxis(axis)
        BY <4>1, <3>2, <1>4, <1>12 DEF Inside
      <4>3. QED
        BY <3>2, <4>2, <1>1, <1>3, <1>14
    <3>3. QED
      BY <3>1, <3>2
  <2>3. IF 1 + a = last[1] THEN t[1].right = 0
        ELSE /\ t[1].right = base + (1 + a) /\ last[(1 + a) + 1] = last[1]
             /\ ax[(1 + a) + 1] = NextAxis(ax[1])
    <3>1. CASE b = 0
      BY <3>1, <1>1, <1>2, <1>3, <1>14
    <3>2. CASE b # 0
      <4>1. 1 \in 1..b
        BY <3>2, <1>1
      <4>2. last[(1 + a) + 1] = (1 + a) + b /\ ax[(1 + a) + 1] = NextAxis(axis)
        BY <4>1, <3>2, <1>5, <1>13 DEF Inside
      <4>3. 1 + a # n /\ base + 1 + a = base + (1 + a) /\ (1 + a) + b = n
        BY <3>2, <1>1, <1>2
      <4>4. QED
        BY <3>2, <4>2, <4>3, <1>3, <1>14
    <3>3. QED
      BY <3>1, <3>2
  <2>4. ASSUME NEW k \in (1 + 1)..(1 + a) PROVE t[k].item.at[ax[1]] <= t[1].item.at[ax[1]]
    <3>1. k - 1 \in 1..a /\ 1 + (k - 1) = k
      BY <1>1
    <3>2. t[k] = L[k - 1]
      BY <3>1, <1>3
    <3>3. L[k - 1].item \in ItemsOf(L)
      BY <3>1, <1>1 DEF ItemsOf
    <3>4. QED
      BY <3>2, <3>3, <1>3, <1>14
  <2>5. ASSUME NEW k \in ((1 + a) + 1)..last[1] PROVE t[1].item.at[ax[1]] <= t[k].item.at[ax[1]]
    <3>1. k - (1 + a) \in 1..b /\ (1 + a) + (k - (1 + a)) = k
      BY <1>1, <1>2, <1>14
    <3>2. t[k] = R[k - (1 + a)]
      BY <3>1, <1>3
    <3>3. R[k - (1 + a)].item \in ItemsOf(R)
      BY <3>1, <1>1 DEF ItemsOf
    <3>4. QED
      BY <3>2, <3>3, <1>3, <1>14
  <2>6. QED
    BY <2>1, <2>2, <2>3, <2>4, <2>5 DEF Splits
<1>16. ASSUME NEW i \in 1..n PROVE \E m \in 1..n : Splits(t, base, last, ax, i, m)
  <2>1. CASE i = 1
    <3>1. 1 + a \in 1..n
      BY <1>1, <1>2
    <3>2. QED
      BY <2>1, <3>1, <1>15
  <2>2. CASE i - 1 \in 1..a /\ i = 1 + (i - 1)
    <3>1. PICK j \in 1..a : i = 1 + j
      BY <2>2
    <3>2. PICK m \in 1..a : Splits(L, base + 1, lastL, axL, j, m)
      BY <1>4 DEF Planted
    <3>3. \A x \in 1..a : lastL[x] \in 1..a
      BY <1>4 DEF Planted
    <3>4. Splits(t, base, last, ax, 1 + j, 1 + m)
      <4>1. 1 \in Nat
        OBVIOUS
      <4>2. QED
        BY <4>1, <3>2, <3>3, <1>1, <1>12, SplitsWithin
    <3>5. 1 + m \in 1..n
      BY <1>1, <1>2
    <3>6. QED
      BY <3>1, <3>4, <3>5
  <2>3. CASE i - (1 + a) \in 1..b /\ i = (1 + a) + (i - (1 + a))
    <3>1. PICK j \in 1..b : i = (1 + a) + j
      BY <2>3
    <3>2. PICK m \in 1..b : Splits(R, base + 1 + a, lastR, axR, j, m)
      BY <1>5 DEF Planted
    <3>3. \A x \in 1..b : lastR[x] \in 1..b
      BY <1>5 DEF Planted
    <3>4. Splits(t, base, last, ax, (1 + a) + j, (1 + a) + m)
      <4>1. PICK o \in Nat : o = 1 + a
        BY <1>1
      <4>2. base + 1 + a = base + o
        BY <4>1, <1>1
      <4>3. Splits(R, base + o, lastR, axR, j, m) /\ Inside(t, last, ax, R, lastR, axR, o, b)
        BY <3>2, <4>1, <4>2, <1>13
      <4>4. Splits(t, base, last, ax, o + j, o + m)
        BY <4>3, <3>3, <1>1, SplitsWithin
      <4>5. QED
        BY <4>1, <4>4
    <3>5. (1 + a) + m \in 1..n
      BY <1>1, <1>2
    <3>6. QED
      BY <3>1, <3>4, <3>5
  <2>4. QED
    BY <2>1, <2>2, <2>3, <1>9
<1>17. Planted(t, base, n, last, ax)
  BY <1>11, <1>16 DEF Planted
<1>18. QED
  BY <1>2, <1>14, <1>17 DEF Tree

\* A call of build_rec with k cities appends a tree of them.
Grew(t, items, axis, base, k, C) ==
    /\ t \in Seq(Nodes(C)) /\ Len(t) = k /\ Tree(t, base, axis, k)
    /\ ItemsOf(t) = Elements(items)
GrowsTrees(G, k, C) ==
    \A items \in [1..k -> C], axis \in Axes, base \in Nat :
        Grew(G[[items |-> items, axis |-> axis, base |-> base]], items, axis, base, k, C)

\* The elements from i to j.
Slice(s, i, j) == {s[x] : x \in i..j}

IsPart(t, s, i, j, k, C) == t \in [1..k -> C] /\ Elements(t) = Slice(s, i, j)

\* The cities of a part of the sorted vector.
LEMMA PartOf ==
  ASSUME NEW C, NEW s, NEW i \in Nat, NEW j \in Nat, NEW k \in Nat, k = j - i + 1,
         \A x \in i..j : s[x] \in C
  PROVE  IsPart(SubSeq(s, i, j), s, i, j, k, C)
<1>2. PICK t : t = SubSeq(s, i, j)
  OBVIOUS
<1>3. /\ t \in Seq(C) /\ Len(t) = IF i <= j THEN j - i + 1 ELSE 0
      /\ \A x \in 1..(j - i + 1) : t[x] = s[i + x - 1]
  BY <1>2, SubSeqProperties
<1>4. Len(t) = k
  BY <1>3
<1>5. t \in [1..k -> C]
  BY <1>3, <1>4, LenProperties
<1>6. DOMAIN t = 1..k
  BY <1>5
<1>7. \A x \in 1..k : t[x] = s[i + x - 1] /\ i + x - 1 \in i..j
  BY <1>3
<1>8. \A y \in i..j : y - i + 1 \in 1..k /\ i + (y - i + 1) - 1 = y
  OBVIOUS
<1>9. \A y \in i..j : t[y - i + 1] = s[y]
  BY <1>7, <1>8
<1>10. \A c : c \in Elements(t) => c \in Slice(s, i, j)
  BY <1>6, <1>7 DEF Elements, Slice
<1>11. \A c : c \in Slice(s, i, j) => c \in Elements(t)
  BY <1>6, <1>8, <1>9 DEF Elements, Slice
<1>12. QED
  BY <1>2, <1>5, <1>10, <1>11 DEF IsPart

\* If the calls for the halves append trees of their cities, so does the call for all.
LEMMA GrownGrows ==
  ASSUME NEW C, Located(C), NEW n \in Nat, n # 0, NEW Left, NEW Right,
         GrowsTrees(Left, n \div 2, C), GrowsTrees(Right, n - 1 - (n \div 2), C)
  PROVE  GrowsTrees(Grown(C, n, Left, Right), n, C)
<1> SUFFICES ASSUME NEW items \in [1..n -> C], NEW axis \in Axes, NEW base \in Nat
             PROVE  Grew(Grown(C, n, Left, Right)[[items |-> items, axis |-> axis, base |-> base]],
                         items, axis, base, n, C)
  BY DEF GrowsTrees
<1>1. PICK a \in Nat, b \in Nat : a = n \div 2 /\ b = n - 1 - a
  BY Halves
<1>2. n = 1 + a + b /\ a + 1 \in 1..n /\ a + 2 \in 1..(n + 1) /\ a \in 0..n
  BY <1>1
<1>3. PICK s : s = SortOf(items, axis)
  OBVIOUS
<1>4. /\ s \in [1..n -> C] /\ Elements(s) = Elements(items)
      /\ \A x \in 1..n, y \in 1..n : x < y => s[x].at[axis] <= s[y].at[axis]
  BY <1>3, SortIs
<1>5. NextAxis(axis) \in Axes /\ base + 1 \in Nat /\ base + 1 + a \in Nat
  BY DEF NextAxis, Axes
<1> DEFINE node == [item |-> s[a + 1],
                    left |-> IF a = 0 THEN 0 ELSE base + 1,
                    right |-> IF a = n - 1 THEN 0 ELSE base + 1 + a]
           below == SubSeq(s, 1, a)
           above == SubSeq(s, a + 2, n)
           L == Left[[items |-> below, axis |-> NextAxis(axis), base |-> base + 1]]
           R == Right[[items |-> above, axis |-> NextAxis(axis), base |-> base + 1 + a]]
<1>6. Grown(C, n, Left, Right)[[items |-> items, axis |-> axis, base |-> base]] = <<node>> \o L \o R
  <2>1. PICK c : c = [items |-> items, axis |-> axis, base |-> base]
    OBVIOUS
  <2>2. c \in Calls(C, n) /\ c.items = items /\ c.axis = axis /\ c.base = base
    BY <2>1 DEF Calls
  <2>3. QED
    BY <2>1, <2>2, <1>1, <1>3 DEF Grown
<1>7. below \in [1..a -> C] /\ Elements(below) = Slice(s, 1, a)
  <2>1. PICK i \in Nat, j \in Nat : i = 1 /\ j = a /\ a = j - i + 1
    BY <1>2
  <2>2. \A x \in i..j : s[x] \in C
    <3>1. \A x \in i..j : x \in 1..n
      BY <2>1, <1>2
    <3>2. QED
      BY <3>1, <1>4
  <2>3. IsPart(SubSeq(s, i, j), s, i, j, a, C)
    BY <2>1, <2>2, PartOf
  <2>4. QED
    BY <2>1, <2>3 DEF IsPart
<1>8. above \in [1..b -> C] /\ Elements(above) = Slice(s, a + 2, n)
  <2>1. PICK i \in Nat, j \in Nat : i = a + 2 /\ j = n /\ b = j - i + 1
    BY <1>2
  <2>2. \A x \in i..j : s[x] \in C
    <3>1. \A x \in i..j : x \in 1..n
      BY <2>1, <1>2
    <3>2. QED
      BY <3>1, <1>4
  <2>3. IsPart(SubSeq(s, i, j), s, i, j, b, C)
    BY <2>1, <2>2, PartOf
  <2>4. QED
    BY <2>1, <2>3 DEF IsPart
<1> HIDE DEF below, above
<1>9. Grew(L, below, NextAxis(axis), base + 1, a, C)
  BY <1>1, <1>5, <1>7 DEF GrowsTrees
<1>10. Grew(R, above, NextAxis(axis), base + 1 + a, b, C)
  BY <1>1, <1>5, <1>8 DEF GrowsTrees
<1>11. node \in Nodes(C)
  BY <1>2, <1>4, <1>5 DEF Nodes
<1>12. node.item = s[a + 1]
  OBVIOUS
<1>13. /\ node.left = IF a = 0 THEN 0 ELSE base + 1
       /\ node.right = IF b = 0 THEN 0 ELSE base + 1 + a
  BY <1>2
<1>14. \A c \in ItemsOf(L) : c.at[axis] <= node.item.at[axis]
  <2>1. \A x \in 1..a : s[x].at[axis] <= s[a + 1].at[axis]
    <3>1. \A x \in 1..a : x \in 1..n /\ x < a + 1
      BY <1>2
    <3>2. QED
      BY <3>1, <1>2, <1>4
  <2>2. ItemsOf(L) = Slice(s, 1, a)
    BY <1>7, <1>9 DEF Grew
  <2>3. QED
    BY <2>1, <2>2, <1>12 DEF Slice
<1>15. \A c \in ItemsOf(R) : node.item.at[axis] <= c.at[axis]
  <2>1. \A x \in (a + 2)..n : s[a + 1].at[axis] <= s[x].at[axis]
    <3>1. \A x \in (a + 2)..n : x \in 1..n /\ a + 1 < x
      BY <1>2
    <3>2. QED
      BY <3>1, <1>2, <1>4
  <2>2. ItemsOf(R) = Slice(s, a + 2, n)
    BY <1>8, <1>10 DEF Grew
  <2>3. QED
    BY <2>1, <2>2, <1>12 DEF Slice
<1> HIDE DEF node, L, R
<1>16. /\ L \in Seq(Nodes(C)) /\ Len(L) = a /\ Tree(L, base + 1, NextAxis(axis), a)
       /\ R \in Seq(Nodes(C)) /\ Len(R) = b /\ Tree(R, base + 1 + a, NextAxis(axis), b)
  BY <1>9, <1>10 DEF Grew
<1>17. /\ <<node>> \o L \o R \in Seq(Nodes(C)) /\ Len(<<node>> \o L \o R) = 1 + a + b
       /\ ItemsOf(<<node>> \o L \o R) = {node.item} \cup ItemsOf(L) \cup ItemsOf(R)
  <2>1. PICK l, r, nd : l = L /\ r = R /\ nd = node
    OBVIOUS
  <2>2. l \in Seq(Nodes(C)) /\ r \in Seq(Nodes(C)) /\ nd \in Nodes(C)
    BY <2>1, <1>11, <1>16
  <2>3. /\ <<nd>> \o l \o r \in Seq(Nodes(C)) /\ Len(<<nd>> \o l \o r) = 1 + Len(l) + Len(r)
        /\ ItemsOf(<<nd>> \o l \o r) = {nd.item} \cup ItemsOf(l) \cup ItemsOf(r)
    BY <2>2, JoinOf
  <2>4. QED
    BY <2>1, <2>3, <1>16
<1>18. Tree(<<node>> \o L \o R, base, axis, 1 + a + b)
  BY <1>11, <1>13, <1>14, <1>15, <1>16, JoinIsTree
<1>19. {node.item} \cup ItemsOf(L) \cup ItemsOf(R) = Elements(items)
  <2>1. ItemsOf(L) = Slice(s, 1, a) /\ ItemsOf(R) = Slice(s, a + 2, n)
    BY <1>7, <1>8, <1>9, <1>10 DEF Grew
  <2>2. \A x : x \in 1..n <=> x = a + 1 \/ x \in 1..a \/ x \in (a + 2)..n
    BY <1>2
  <2>3. Elements(s) = {s[x] : x \in 1..n}
    BY <1>4 DEF Elements
  <2>4. Elements(s) = {s[a + 1]} \cup Slice(s, 1, a) \cup Slice(s, a + 2, n)
    BY <2>2, <2>3 DEF Slice
  <2>5. QED
    BY <2>1, <2>4, <1>4, <1>12
<1>20. QED
  BY <1>2, <1>6, <1>17, <1>18, <1>19 DEF Grew

\* Every call of build_rec appends a tree of its cities.
LEMMA BuildsGrow ==
  ASSUME NEW C, Located(C), NEW max \in Nat
  PROVE  \A n \in 0..max : GrowsTrees(Builds(C, max)[n], n, C)
<1>1. PICK F : F = Builds(C, max)
  OBVIOUS
<1>2. F = [n \in 0..max |-> BuildStep(C, F, n)]
  BY <1>1, BuildsExist DEF BuildsOf
<1>3. \A n \in 0..max : F[n] = BuildStep(C, F, n)
  <2> DEFINE Step(n) == BuildStep(C, F, n)
  <2>1. F = [n \in 0..max |-> Step(n)]
    BY <1>2
  <2> HIDE DEF Step
  <2>2. \A n \in 0..max : F[n] = Step(n)
    BY <2>1
  <2>3. QED
    BY <2>2 DEF Step
<1>4. GrowsTrees(F[0], 0, C)
  <2> SUFFICES ASSUME NEW items \in [1..0 -> C], NEW axis \in Axes, NEW base \in Nat
               PROVE  Grew(F[0][[items |-> items, axis |-> axis, base |-> base]],
                           items, axis, base, 0, C)
    BY DEF GrowsTrees
  <2>1. F[0] = [c \in Calls(C, 0) |-> <<>>]
    BY <1>3 DEF BuildStep
  <2>2. PICK c : c = [items |-> items, axis |-> axis, base |-> base]
    OBVIOUS
  <2>3. c \in Calls(C, 0)
    BY <2>2 DEF Calls
  <2>4. F[0][c] = <<>>
    BY <2>1, <2>3
  <2>5. <<>> \in Seq(Nodes(C)) /\ Len(<<>>) = 0
    OBVIOUS
  <2>6. ItemsOf(<<>>) = {} /\ Elements(items) = {}
    <3>1. DOMAIN items = {} /\ DOMAIN <<>> = {}
      OBVIOUS
    <3>2. QED
      BY <3>1 DEF ItemsOf, Elements
  <2>7. Tree(<<>>, base, axis, 0)
    <3>1. PICK e : e = [i \in 1..0 |-> 1]
      OBVIOUS
    <3>2. e \in [1..0 -> 1..0] /\ e \in [1..0 -> Axes]
      BY <3>1
    <3>3. Planted(<<>>, base, 0, e, e)
      BY <3>2 DEF Planted
    <3>4. QED
      BY <3>3 DEF Tree
  <2>8. QED
    BY <2>2, <2>4, <2>5, <2>6, <2>7 DEF Grew
<1>5. ASSUME NEW n \in 0..max, n # 0, \A m \in 0..max : m < n => GrowsTrees(F[m], m, C)
      PROVE  GrowsTrees(F[n], n, C)
  <2>1. n \div 2 \in 0..max /\ n \div 2 < n /\ n - 1 - (n \div 2) \in 0..max /\ n - 1 - (n \div 2) < n
    BY <1>5, Halves
  <2>2. GrowsTrees(F[n \div 2], n \div 2, C) /\ GrowsTrees(F[n - 1 - (n \div 2)], n - 1 - (n \div 2), C)
    BY <1>5, <2>1
  <2>3. F[n] = Grown(C, n, F[n \div 2], F[n - 1 - (n \div 2)])
    BY <1>3, <1>5 DEF BuildStep
  <2>4. GrowsTrees(Grown(C, n, F[n \div 2], F[n - 1 - (n \div 2)]), n, C)
    BY <1>5, <2>2, GrownGrows
  <2>5. QED
    BY <2>3, <2>4
<1>6. PICK Bad : Bad = {n \in 0..max : ~GrowsTrees(F[n], n, C)}
  OBVIOUS
<1>7. Bad = {}
  <2> SUFFICES ASSUME Bad # {} PROVE FALSE
    OBVIOUS
  <2>1. Bad \subseteq Nat
    BY <1>6
  <2>2. PICK m \in Bad : \A x \in Bad : m <= x
    BY <2>1, HasLeast
  <2>3. m \in 0..max /\ ~GrowsTrees(F[m], m, C)
    BY <1>6
  <2>4. m # 0
    BY <2>3, <1>4
  <2>5. \A x \in 0..max : x < m => GrowsTrees(F[x], x, C)
    <3>1. \A x \in 0..max : x < m => ~(m <= x)
      BY <2>3
    <3>2. \A x \in 0..max : x < m => x \notin Bad
      BY <3>1, <2>2
    <3>3. QED
      BY <3>2, <1>6
  <2>6. QED
    BY <2>3, <2>4, <2>5, <1>5
<1>8. QED
  BY <1>1, <1>6, <1>7

\* No cities, no tree.
LEMMA BuildNothing == Build(<<>>) = <<>>
<1>1. PICK C : C = Elements(<<>>)
  OBVIOUS
<1>2. PICK F : F = Builds(C, 0)
  OBVIOUS
<1>3. F = [n \in 0..0 |-> BuildStep(C, F, n)]
  BY <1>2, BuildsExist DEF BuildsOf
<1>4. F[0] = [c \in Calls(C, 0) |-> <<>>]
  <2>1. 0 \in 0..0
    OBVIOUS
  <2>2. F[0] = BuildStep(C, F, 0)
    BY <2>1, <1>3
  <2>3. QED
    BY <2>2 DEF BuildStep
<1>5. PICK c : c = [items |-> <<>>, axis |-> 1, base |-> 1]
  OBVIOUS
<1>6. c \in Calls(C, 0)
  <2>1. <<>> \in [1..0 -> C] /\ 1 \in Axes /\ 1 \in Nat
    BY DEF Axes
  <2>2. QED
    BY <2>1, <1>5 DEF Calls
<1>7. Build(<<>>) = F[0][c]
  <2>1. Len(<<>>) = 0
    OBVIOUS
  <2>2. QED
    BY <2>1, <1>1, <1>2, <1>5 DEF Build
<1>8. QED
  BY <1>4, <1>6, <1>7

\* The tree that build_rec makes of some cities answers with a nearest one of them, whatever
\* halves nearest_rec leaves out, and the empty one with none.
THEOREM BuildThenNearest ==
  ASSUME NEW n \in Nat, NEW items, items \in [1..n -> Elements(items)], Located(Elements(items)),
         Len(items) = n, NEW q, q[1] \in Int, q[2] \in Int
  PROVE  IF n = 0 THEN Nearest(Build(items), q) = None
         ELSE \E c \in Closest(Elements(items), q) : Nearest(Build(items), q) = <<c>>
<1>1. PICK C : C = Elements(items)
  OBVIOUS
<1>2. PICK t : t = Build(items)
  OBVIOUS
<1>3. Grew(t, items, 1, 1, n, C)
  <2>1. n \in 0..n /\ 1 \in Axes /\ 1 \in Nat
    BY DEF Axes
  <2>2. Located(C) /\ items \in [1..n -> C]
    BY <1>1
  <2>3. GrowsTrees(Builds(C, n)[n], n, C)
    BY <2>1, <2>2, BuildsGrow
  <2>4. t = Builds(C, n)[n][[items |-> items, axis |-> 1, base |-> 1]]
    BY <1>1, <1>2 DEF Build
  <2>5. QED
    BY <2>1, <2>2, <2>3, <2>4 DEF GrowsTrees
<1>4. /\ t \in Seq(Nodes(C)) /\ Len(t) = n /\ Tree(t, 1, 1, n) /\ ItemsOf(t) = C
  BY <1>1, <1>3 DEF Grew
<1>5. DOMAIN t = 1..n
  BY <1>4
<1>6. CASE n = 0
  <2>1. t = <<>>
    BY <1>4, <1>6
  <2>2. QED
    BY <2>1, <1>2, <1>6 DEF Nearest
<1>7. CASE n # 0
  <2>1. Located(ItemsOf(t))
    BY <1>1, <1>4
  <2>2. \E c \in Closest(ItemsOf(t), q) : Nearest(t, q) = <<c>>
    BY <2>1, <1>4, <1>5, <1>7, TreeFinds
  <2>3. QED
    BY <2>2, <1>1, <1>2, <1>4, <1>7
<1>8. QED
  BY <1>6, <1>7

=============================================================================
