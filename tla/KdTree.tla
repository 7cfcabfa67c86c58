------------------------------- MODULE KdTree -------------------------------
(***************************************************************************)
(* The k-d tree of services/region.rs: a vector of nodes that name their   *)
(* children by index, built in pre-order, and the search in it.            *)
(*                                                                         *)
(* Abstractions.  A city is a record with its place, a pair of numbers, at *)
(* "at"; an Option is a sequence of at most one city.  The recursion is a  *)
(* function, over the number of cities left and over the nodes, so that    *)
(* proofs can unfold it.                                                   *)
(***************************************************************************)
EXTENDS Integers, Sequences, FiniteSets

None == <<>>

Axes == {1, 2}      \* latitude, longitude
NextAxis(axis) == 3 - axis
Square(n) == n * n
Distance(p, q) == Square(p[1] - q[1]) + Square(p[2] - q[2])

Elements(items) == {items[i] : i \in DOMAIN items}

\* The cities that come before the i-th one in a stable sort.
Before(items, axis, i) ==
    {j \in DOMAIN items : \/ items[j].at[axis] < items[i].at[axis]
                          \/ items[j].at[axis] = items[i].at[axis] /\ j < i}

Nth(items, axis, r) == CHOOSE i \in DOMAIN items : Cardinality(Before(items, axis, i)) = r - 1

SortOf(items, axis) == [r \in DOMAIN items |-> items[Nth(items, axis, r)]]

\* What a call of build_rec is given: n cities, and the index of the next node.
Calls(cities, n) == [items : [1..n -> cities], axis : Axes, base : Nat]

\* The pivot is the upper of two medians.
Grown(cities, n, Left, Right) ==
    [c \in Calls(cities, n) |->
        LET sorted == SortOf(c.items, c.axis)
            mid == n \div 2
        IN  <<[item |-> sorted[mid + 1],
               left |-> IF mid = 0 THEN 0 ELSE c.base + 1,
               right |-> IF mid = n - 1 THEN 0 ELSE c.base + 1 + mid]>>
            \o Left[[items |-> SubSeq(sorted, 1, mid),
                     axis |-> NextAxis(c.axis), base |-> c.base + 1]]
            \o Right[[items |-> SubSeq(sorted, mid + 2, n),
                      axis |-> NextAxis(c.axis), base |-> c.base + 1 + mid]]]

Builds(cities, max) ==
    LET build[n \in 0..max] ==
            IF n = 0 THEN [c \in Calls(cities, 0) |-> <<>>]
            ELSE Grown(cities, n, build[n \div 2], build[n - 1 - (n \div 2)])
    IN  build

Build(items) == Builds(Elements(items), Len(items))[Len(items)][[items |-> items, axis |-> 1, base |-> 1]]

\* What a call of nearest_rec is given, besides the node.
Bests(cities) == {None} \cup {<<c>> : c \in cities}
Views(cities) == [axis : Axes, best : Bests(cities)]

\* The far half is searched only if the splitting line is nearer than the best
\* city so far.
Visit(cities, node, q, Left, Right) ==
    [v \in Views(cities) |->
        LET at == node.item.at
            here == IF v.best = None \/ Distance(at, q) < Distance(v.best[1].at, q)
                    THEN <<node.item>> ELSE v.best
            diff == q[v.axis] - at[v.axis]
            Near == IF diff < 0 THEN Left ELSE Right
            Far == IF diff < 0 THEN Right ELSE Left
            found == Near[[axis |-> NextAxis(v.axis), best |-> here]]
        IN  IF Square(diff) < Distance(found[1].at, q)
            THEN Far[[axis |-> NextAxis(v.axis), best |-> found]] ELSE found]

Visits(cities, nodes, q) ==
    LET visit[i \in 0..Len(nodes)] ==
            IF i = 0 THEN [v \in Views(cities) |-> v.best]
            ELSE Visit(cities, nodes[i], q, visit[nodes[i].left], visit[nodes[i].right])
    IN  visit

ItemsOf(nodes) == {nodes[i].item : i \in DOMAIN nodes}

Nearest(nodes, q) ==
    IF nodes = <<>> THEN None
    ELSE Visits(ItemsOf(nodes), nodes, q)[1][[axis |-> 1, best |-> None]]

Closest(cities, q) == {p \in cities : \A r \in cities : Distance(p.at, q) <= Distance(r.at, q)}
=============================================================================
