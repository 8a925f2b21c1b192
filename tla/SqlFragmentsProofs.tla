------------------------- MODULE SqlFragmentsProofs -------------------------
(***************************************************************************)
(* SqlFragmentsProofs: what compiling a query comes to, whatever its       *)
(* filter.  The lemmas go from the parts to the whole: induction and       *)
(* recursion over filters, the placeholders of a concatenation, one test,  *)
(* one condition, one group, one filter, one query.  Induction on numbers  *)
(* is derived from the sizes of intervals, and on filters from that.       *)
(***************************************************************************)
EXTENDS SqlFragments, FiniteSetTheorems, TLAPS

(* Induction over the natural numbers, for a set.                          *)
LEMMA NatInd ==
    ASSUME NEW S, 0 \in S, \A n \in Nat : n \in S => n + 1 \in S
    PROVE  \A n \in Nat : n \in S
<1> SUFFICES ASSUME NEW k \in Nat, k \notin S PROVE FALSE
  OBVIOUS
<1> DEFINE D == {m \in 0..k : m \notin S}
<1> DEFINE f == [m \in D |-> m - 1]
<1>1. IsFiniteSet(D) /\ k \in D
  <2>1. IsFiniteSet(0..k)
    BY FS_Interval
  <2>2. D \in SUBSET (0..k) /\ k \in D
    OBVIOUS
  <2> HIDE DEF D
  <2> QED
    BY <2>1, <2>2, FS_Subset
<1>2. f \in [D -> D \ {k}]
  BY SMT
<1>3. \A x, y \in D : f[x] = f[y] => x = y
  OBVIOUS
<1> HIDE DEF D
<1>4. f \in Injection(D, D \ {k})
  BY <1>2, <1>3 DEF Injection, IsInjective
<1> HIDE DEF f
<1>5. IsFiniteSet(D \ {k}) /\ Cardinality(D \ {k}) = Cardinality(D) - 1 /\ Cardinality(D) \in Nat
  BY <1>1, FS_RemoveElement, FS_CardinalityType
<1>6. Cardinality(D) <= Cardinality(D \ {k})
  BY <1>4, <1>5, FS_Injection
<1> QED
  BY <1>5, <1>6

(* The filters nested up to n are those nested less, and groups of those.  *)
LEMMA FilterNodesDef ==
    /\ FilterNodes[0] = FilterCondition
    /\ \A n \in 1..Nesting :
          FilterNodes[n] = FilterNodes[n - 1] \cup FilterGroup(FilterNodes[n - 1])
<1> DEFINE Level(f, n) == IF n = 0 THEN FilterCondition ELSE f[n - 1] \cup FilterGroup(f[n - 1])
<1> DEFINE S == {m \in Nat : \E f : f = [n \in 0..m |-> Level(f, n)]}
<1>0. \A n, f, g : (n = 0 \/ f[n - 1] = g[n - 1]) => Level(f, n) = Level(g, n)
  OBVIOUS
<1>1. 0 \in S
  <2> DEFINE f == [n \in 0..0 |-> FilterCondition]
  <2>1. \A n \in 0..0 : n = 0
    OBVIOUS
  <2>2. f = [n \in 0..0 |-> Level(f, n)]
    BY <2>1
  <2> QED
    BY <2>2
<1>2. ASSUME NEW m \in Nat, m \in S PROVE m + 1 \in S
  <2>1. PICK f : f = [n \in 0..m |-> Level(f, n)]
    BY <1>2
  <2> HIDE DEF Level
  <2> DEFINE g == [n \in 0..(m + 1) |-> Level(f, n)]
  <2>2. \A n \in 0..m : g[n] = f[n]
    BY <2>1
  <2>3. \A n \in 0..(m + 1) : Level(g, n) = Level(f, n)
    <3> TAKE n \in 0..(m + 1)
    <3>1. n = 0 \/ n - 1 \in 0..m
      OBVIOUS
    <3> HIDE DEF g
    <3> QED
      BY <3>1, <2>2, <1>0
  <2>4. g = [n \in 0..(m + 1) |-> Level(g, n)]
    BY <2>3
  <2>5. \E h : h = [n \in 0..(m + 1) |-> Level(h, n)]
    <3> HIDE DEF g
    <3> QED
      BY <2>4
  <2> QED
    BY <2>5
<1>3. Nesting \in S
  <2> HIDE DEF S
  <2> QED BY <1>1, <1>2, NatInd, NestingAssumption
<1>4. \E f : f = [n \in 0..Nesting |-> Level(f, n)]
  BY <1>3
<1>5. FilterNodes = [n \in 0..Nesting |-> Level(FilterNodes, n)]
  BY <1>4 DEF FilterNodes
<1> HIDE DEF Level
<1>6. FilterNodes[0] = Level(FilterNodes, 0) /\ \A n \in 1..Nesting : FilterNodes[n] = Level(FilterNodes, n)
  BY <1>5, NestingAssumption
<1>7. Level(FilterNodes, 0) = FilterCondition
  BY DEF Level
<1>8. ASSUME NEW n \in 1..Nesting
      PROVE  Level(FilterNodes, n) = FilterNodes[n - 1] \cup FilterGroup(FilterNodes[n - 1])
  <2>1. n # 0
    OBVIOUS
  <2> QED
    BY <2>1, Zenon DEF Level
<1> QED
  BY <1>6, <1>7, <1>8

(* Filters nested less are filters nested more.                            *)
LEMMA FilterNodesGrow ==
    \A m \in 0..Nesting : \A n \in 0..m : FilterNodes[n] \subseteq FilterNodes[m]
<1> DEFINE S == {m \in Nat : m <= Nesting =>
                    \A n \in 0..m : FilterNodes[n] \subseteq FilterNodes[m]}
<1>1. 0 \in S
  <2>1. \A n \in 0..0 : n = 0
    OBVIOUS
  <2> QED
    BY <2>1
<1>2. ASSUME NEW m \in Nat, m \in S PROVE m + 1 \in S
  <2>1. SUFFICES ASSUME m + 1 <= Nesting, NEW n \in 0..(m + 1)
                 PROVE  FilterNodes[n] \subseteq FilterNodes[m + 1]
    OBVIOUS
  <2>2. FilterNodes[m] \subseteq FilterNodes[m + 1]
    <3>1. m + 1 \in 1..Nesting /\ (m + 1) - 1 = m
      BY <2>1, NestingAssumption
    <3> QED
      BY <3>1, FilterNodesDef
  <2>3. CASE n = m + 1
    BY <2>3
  <2>4. CASE n # m + 1
    <3>1. n \in 0..m /\ m <= Nesting
      BY <2>1, <2>4, NestingAssumption
    <3> QED
      BY <1>2, <2>2, <3>1
  <2> QED
    BY <2>3, <2>4
<1> HIDE DEF S
<1>3. \A m \in Nat : m \in S
  BY <1>1, <1>2, NatInd
<1> QED
  BY <1>3, NestingAssumption DEF S

(* A group nested up to n has its children nested up to n - 1.             *)
LEMMA ChildNodes ==
    ASSUME NEW n \in 0..Nesting, NEW node \in FilterNodes[n]
    PROVE  \/ node \in FilterCondition /\ ~IsGroup(node)
           \/ n # 0 /\ IsGroup(node) /\ node \in FilterGroup(FilterNodes[n - 1])
<1> DEFINE Shaped(m) ==
        \A x \in FilterNodes[m] :
            \/ x \in FilterCondition /\ ~IsGroup(x)
            \/ m # 0 /\ IsGroup(x) /\ x \in FilterGroup(FilterNodes[m - 1])
<1> DEFINE S == {m \in Nat : m <= Nesting => Shaped(m)}
<1>a. \A x \in FilterCondition : ~IsGroup(x)
  BY DEF FilterCondition, IsGroup
<1>b. \A X : \A x \in FilterGroup(X) : IsGroup(x)
  BY DEF FilterGroup, IsGroup
<1>c. \A X, Y : X \subseteq Y => FilterGroup(X) \subseteq FilterGroup(Y)
  BY DEF FilterGroup
<1>1. 0 \in S
  BY FilterNodesDef, <1>a
<1>2. ASSUME NEW m \in Nat, m \in S PROVE m + 1 \in S
  <2>1. SUFFICES ASSUME m + 1 <= Nesting, NEW x \in FilterNodes[m + 1]
                 PROVE  \/ x \in FilterCondition /\ ~IsGroup(x)
                        \/ IsGroup(x) /\ x \in FilterGroup(FilterNodes[m])
    BY <1>2
  <2>2. m + 1 \in 1..Nesting /\ (m + 1) - 1 = m /\ m \in 0..Nesting /\ m <= Nesting
    BY <2>1, NestingAssumption
  <2>3. x \in FilterNodes[m] \/ x \in FilterGroup(FilterNodes[m])
    BY <2>2, FilterNodesDef
  <2>4. CASE x \in FilterGroup(FilterNodes[m])
    BY <2>4, <1>b
  <2>5. CASE x \in FilterNodes[m]
    <3>1. \/ x \in FilterCondition /\ ~IsGroup(x)
          \/ m # 0 /\ IsGroup(x) /\ x \in FilterGroup(FilterNodes[m - 1])
      BY <1>2, <2>2, <2>5
    <3>2. ASSUME m # 0 PROVE FilterNodes[m - 1] \subseteq FilterNodes[m]
      <4>1. m - 1 \in 0..m
        BY <3>2
      <4> QED
        BY <4>1, <2>2, FilterNodesGrow
    <3> QED
      BY <3>1, <3>2, <1>c
  <2> QED
    BY <2>3, <2>4, <2>5
<1> HIDE DEF S
<1>3. n \in S
  BY <1>1, <1>2, NatInd, NestingAssumption
<1>4. Shaped(n)
  BY <1>3, NestingAssumption DEF S
<1> QED
  BY <1>4


(* A filter is a condition, or a group of filters.                         *)
LEMMA FilterCases ==
    ASSUME NEW node \in FilterNode
    PROVE  \/ node \in FilterCondition /\ ~IsGroup(node)
           \/ IsGroup(node) /\ node \in FilterGroup(FilterNode)
<1>1. Nesting \in 0..Nesting /\ node \in FilterNodes[Nesting]
  BY NestingAssumption DEF FilterNode
<1>2. CASE node \in FilterCondition /\ ~IsGroup(node)
  BY <1>2
<1>3. CASE Nesting # 0 /\ IsGroup(node) /\ node \in FilterGroup(FilterNodes[Nesting - 1])
  <2>1. Nesting - 1 \in 0..Nesting
    BY <1>3, NestingAssumption
  <2>2. FilterNodes[Nesting - 1] \subseteq FilterNode
    BY <1>1, <2>1, FilterNodesGrow DEF FilterNode
  <2> QED
    BY <1>3, <2>2 DEF FilterGroup
<1> QED
  BY <1>1, <1>2, <1>3, ChildNodes

(* Induction over filters, for a set.                                      *)
LEMMA FilterInduction ==
    ASSUME NEW S, FilterCondition \subseteq S,
           \A node \in FilterNode :
               IsGroup(node) /\ (\A i \in DOMAIN node.conditions : node.conditions[i] \in S)
                   => node \in S
    PROVE  FilterNode \subseteq S
<1> DEFINE T == {m \in Nat : m <= Nesting => FilterNodes[m] \subseteq S}
<1>1. 0 \in T
  BY FilterNodesDef
<1>2. ASSUME NEW m \in Nat, m \in T PROVE m + 1 \in T
  <2>1. SUFFICES ASSUME m + 1 <= Nesting, NEW x \in FilterNodes[m + 1]
                 PROVE  x \in S
    OBVIOUS
  <2>2. m + 1 \in 0..Nesting /\ (m + 1) - 1 = m /\ m <= Nesting /\ Nesting \in 0..Nesting
    BY <2>1, NestingAssumption
  <2>3. x \in FilterNode
    BY <2>2, FilterNodesGrow, NestingAssumption DEF FilterNode
  <2>4. CASE x \in FilterCondition
    BY <2>4
  <2>5. CASE IsGroup(x) /\ x \in FilterGroup(FilterNodes[m])
    <3>1. \A i \in DOMAIN x.conditions : x.conditions[i] \in FilterNodes[m]
      BY <2>5 DEF FilterGroup
    <3>2. FilterNodes[m] \subseteq S
      BY <1>2, <2>2
    <3> QED
      BY <2>3, <2>5, <3>1, <3>2
  <2> QED
    BY <2>2, <2>4, <2>5, ChildNodes
<1> HIDE DEF T
<1>3. Nesting \in T
  BY <1>1, <1>2, NatInd, NestingAssumption
<1> QED
  BY <1>3, NestingAssumption DEF T, FilterNode

(* The values of a function for the children of a node.                    *)
Kids(node, f) ==
    IF IsGroup(node) THEN [i \in DOMAIN node.conditions |-> f[node.conditions[i]]] ELSE <<>>

(* f is defined by recursion over filters: G makes the value of a filter   *)
(* of those of its children.                                               *)
FoldsFilters(f, V, G) ==
    /\ f \in [FilterNode -> V]
    /\ \A node \in FilterNode : f[node] = G[<<node, Kids(node, f)>>]

(* There is such a function.                                               *)
LEMMA FilterRecursion ==
    ASSUME NEW V, NEW G \in [FilterNode \X Seq(V) -> V]
    PROVE  \E f : FoldsFilters(f, V, G)
<1> DEFINE Defined(m) ==
        \E f \in [FilterNodes[m] -> V] :
            \A node \in FilterNodes[m] : f[node] = G[<<node, Kids(node, f)>>]
<1> DEFINE S == {m \in Nat : m <= Nesting => Defined(m)}
<1>0. \A m \in 0..Nesting : FilterNodes[m] \subseteq FilterNode
  BY FilterNodesGrow, NestingAssumption DEF FilterNode
<1>1. 0 \in S
  <2> DEFINE f == [node \in FilterCondition |-> G[<<node, <<>>>>]]
  <2>1. FilterCondition \subseteq FilterNode
    BY <1>0, FilterNodesDef, NestingAssumption
  <2>2. \A node \in FilterCondition : ~IsGroup(node)
    BY DEF FilterCondition, IsGroup
  <2>3. \A node \in FilterCondition : Kids(node, f) = <<>>
    BY <2>2 DEF Kids
  <2>4. f \in [FilterCondition -> V]
    <3>1. \A node \in FilterCondition : <<node, <<>>>> \in FilterNode \X Seq(V)
      <4>1. <<>> \in Seq(V)
        OBVIOUS
      <4> QED
        BY <2>1, <4>1
    <3>2. \A node \in FilterCondition : G[<<node, <<>>>>] \in V
      <4> TAKE node \in FilterCondition
      <4> HIDE DEF f
      <4> QED
        BY <3>1
    <3> QED
      BY <3>2
  <2>5. \A node \in FilterCondition : f[node] = G[<<node, Kids(node, f)>>]
    BY <2>3
  <2> HIDE DEF f
  <2>6. Defined(0)
    BY <2>4, <2>5, FilterNodesDef
  <2> QED
    BY <2>6
<1>2. ASSUME NEW m \in Nat, m \in S PROVE m + 1 \in S
  <2>1. SUFFICES ASSUME m + 1 <= Nesting PROVE Defined(m + 1)
    OBVIOUS
  <2>2. m + 1 \in 0..Nesting /\ (m + 1) - 1 = m /\ m <= Nesting /\ m \in 0..(m + 1)
    BY <2>1, NestingAssumption
  <2>3. PICK f \in [FilterNodes[m] -> V] :
            \A node \in FilterNodes[m] : f[node] = G[<<node, Kids(node, f)>>]
    BY <1>2, <2>2
  <2> DEFINE g == [node \in FilterNodes[m + 1] |-> G[<<node, Kids(node, f)>>]]
  <2>4. FilterNodes[m] \subseteq FilterNodes[m + 1] /\ FilterNodes[m + 1] \subseteq FilterNode
    BY <2>2, <1>0, FilterNodesGrow
  <2>5. \A node \in FilterNodes[m + 1] : IsGroup(node) =>
            /\ node.conditions \in Seq(FilterNodes[m])
            /\ \A i \in DOMAIN node.conditions : node.conditions[i] \in FilterNodes[m]
    <3> SUFFICES ASSUME NEW node \in FilterNodes[m + 1], IsGroup(node)
                 PROVE  node.conditions \in Seq(FilterNodes[m])
      OBVIOUS
    <3>1. node \in FilterGroup(FilterNodes[m])
      BY <2>2, ChildNodes
    <3> QED
      BY <3>1 DEF FilterGroup
  <2>6. \A node \in FilterNodes[m + 1] : Kids(node, f) \in Seq(V)
    <3> SUFFICES ASSUME NEW node \in FilterNodes[m + 1] PROVE Kids(node, f) \in Seq(V)
      OBVIOUS
    <3>1. CASE ~IsGroup(node)
      BY <3>1 DEF Kids
    <3>2. CASE IsGroup(node)
      <4>1. /\ DOMAIN node.conditions = 1..Len(node.conditions)
            /\ Len(node.conditions) \in Nat
            /\ \A i \in DOMAIN node.conditions : f[node.conditions[i]] \in V
        BY <2>5, <3>2
      <4>2. Kids(node, f) = [i \in 1..Len(node.conditions) |-> f[node.conditions[i]]]
        BY <3>2, <4>1 DEF Kids
      <4> QED
        BY <4>1, <4>2
    <3> QED
      BY <3>1, <3>2
  <2>7. g \in [FilterNodes[m + 1] -> V]
    BY <2>4, <2>6
  <2>8. \A node \in FilterNodes[m] : g[node] = f[node]
    BY <2>3, <2>4
  <2>9. \A node \in FilterNodes[m + 1] : g[node] = G[<<node, Kids(node, f)>>]
    OBVIOUS
  <2> HIDE DEF g
  <2>10. \A node \in FilterNodes[m + 1] : Kids(node, g) = Kids(node, f)
    BY <2>5, <2>8 DEF Kids
  <2> QED
    BY <2>7, <2>9, <2>10
<1> HIDE DEF S
<1>3. Nesting \in S
  BY <1>1, <1>2, NatInd, NestingAssumption
<1>4. Defined(Nesting)
  BY <1>3, NestingAssumption DEF S
<1> QED
  BY <1>4 DEF FoldsFilters, FilterNode

(* f is defined by recursion over the numbers up to n: it starts with v,   *)
(* and G makes each value of its predecessor's.                            *)
Iterates(f, n, V, v, G) ==
    /\ f \in [0..n -> V]
    /\ f[0] = v
    /\ \A i \in 1..n : f[i] = G[<<i, f[i - 1]>>]

(* There is such a function.                                               *)
LEMMA NatRecursion ==
    ASSUME NEW n \in Nat, NEW V, NEW v \in V, NEW G \in [(1..n) \X V -> V]
    PROVE  \E f : Iterates(f, n, V, v, G)
<1> DEFINE Defined(m) ==
        \E f \in [0..m -> V] : f[0] = v /\ \A i \in 1..m : f[i] = G[<<i, f[i - 1]>>]
<1> DEFINE S == {m \in Nat : m <= n => Defined(m)}
<1>1. 0 \in S
  <2> DEFINE f == [i \in 0..0 |-> v]
  <2>1. f \in [0..0 -> V] /\ f[0] = v /\ 1..0 = {}
    OBVIOUS
  <2> HIDE DEF f
  <2>2. Defined(0)
    BY <2>1
  <2> QED
    BY <2>2
<1>2. ASSUME NEW m \in Nat, m \in S PROVE m + 1 \in S
  <2>1. SUFFICES ASSUME m + 1 <= n PROVE Defined(m + 1)
    OBVIOUS
  <2>2. PICK f \in [0..m -> V] : f[0] = v /\ \A i \in 1..m : f[i] = G[<<i, f[i - 1]>>]
    BY <1>2, <2>1
  <2> DEFINE g == [i \in 0..(m + 1) |-> IF i = m + 1 THEN G[<<m + 1, f[m]>>] ELSE f[i]]
  <2>3. G[<<m + 1, f[m]>>] \in V
    <3>1. m + 1 \in 1..n /\ m \in 0..m
      BY <2>1
    <3> QED
      BY <2>2, <3>1
  <2>4. /\ \A i \in 0..m : g[i] = f[i]
        /\ g[m + 1] = G[<<m + 1, f[m]>>]
        /\ g \in [0..(m + 1) -> V]
    BY <2>3
  <2> HIDE DEF g
  <2>5. ASSUME NEW i \in 1..(m + 1) PROVE g[i] = G[<<i, g[i - 1]>>]
    <3>1. CASE i = m + 1
      <4>1. i - 1 = m /\ m \in 0..m
        BY <3>1
      <4> QED
        BY <2>4, <3>1, <4>1
    <3>2. CASE i # m + 1
      <4>1. i \in 1..m /\ i \in 0..m /\ i - 1 \in 0..m
        BY <3>2
      <4> QED
        BY <2>2, <2>4, <4>1
    <3> QED
      BY <3>1, <3>2
  <2>6. g[0] = v
    BY <2>2, <2>4
  <2> QED
    BY <2>4, <2>5, <2>6
<1> HIDE DEF S
<1>3. n \in S
  BY <1>1, <1>2, NatInd
<1>4. Defined(n)
  BY <1>3 DEF S
<1> QED
  BY <1>4 DEF Iterates

-----------------------------------------------------------------------------
(* FlattenSeq.                                                             *)

(* f holds the flattenings of the prefixes of s.                           *)
FlattensPrefixes(f, X, s) ==
    /\ f \in [1..Len(s) -> Seq(X)]
    /\ f[1] = s[1]
    /\ \A i \in 2..Len(s) : f[i] = f[i - 1] \o s[i]

(* The last of them is the flattening of s.                                *)
LEMMA FlattenPrefixes ==
    ASSUME NEW X, NEW s \in Seq(Seq(X)), s # <<>>
    PROVE  \E f : FlattensPrefixes(f, X, s) /\ FlattenSeq(s) = f[Len(s)]
<1> DEFINE n == Len(s)
<1> DEFINE Body(f, i) == IF i = 1 THEN s[i] ELSE f[i - 1] \o s[i]
<1>1. n \in Nat /\ n >= 1 /\ \A i \in 1..n : s[i] \in Seq(X)
  OBVIOUS
<1> DEFINE G == [x \in (1..n) \X Seq(X) |-> x[2] \o s[x[1]]]
<1>2. G \in [(1..n) \X Seq(X) -> Seq(X)]
  BY <1>1
<1> HIDE DEF n
<1>3. PICK h \in [0..n -> Seq(X)] : h[0] = <<>> /\ \A i \in 1..n : h[i] = G[<<i, h[i - 1]>>]
  <2>1. <<>> \in Seq(X)
    OBVIOUS
  <2> DEFINE V == Seq(X)
  <2> DEFINE v == <<>>
  <2>2. v \in V /\ G \in [(1..n) \X V -> V] /\ n \in Nat
    BY <2>1, <1>1, <1>2
  <2> HIDE DEF G, V, v
  <2>3. \E h : Iterates(h, n, V, v, G)
    BY <2>2, NatRecursion
  <2> QED
    BY <2>3 DEF V, v, Iterates
<1>4. \A i \in 1..n : i - 1 \in 0..n /\ h[i - 1] \in Seq(X) /\ h[i] = h[i - 1] \o s[i]
  <2> SUFFICES ASSUME NEW i \in 1..n PROVE i - 1 \in 0..n /\ h[i - 1] \in Seq(X) /\ h[i] = h[i - 1] \o s[i]
    OBVIOUS
  <2>1. i - 1 \in 0..n
    BY <1>1
  <2>2. h[i - 1] \in Seq(X)
    BY <2>1
  <2>3. G[<<i, h[i - 1]>>] = h[i - 1] \o s[i]
    BY <2>2
  <2> QED
    BY <1>3, <2>1, <2>2, <2>3
<1> DEFINE f == [i \in 1..n |-> h[i]]
<1>5. f \in [1..n -> Seq(X)]
  BY <1>1
<1>6. f[1] = s[1]
  <2>0. 1 \in 1..n /\ 1 - 1 = 0
    BY <1>1
  <2>1. h[1] = <<>> \o s[1] /\ s[1] \in Seq(X)
    <3>1. h[1] = h[1 - 1] \o s[1]
      BY <1>4, <2>0, Zenon
    <3> QED
      BY <1>1, <1>3, <2>0, <3>1
  <2>2. \A x \in Seq(X) : <<>> \o x = x
    OBVIOUS
  <2>3. f[1] = h[1]
    BY <2>0
  <2> HIDE DEF f
  <2> QED
    BY <2>1, <2>2, <2>3
<1>7. \A i \in 2..n : f[i] = f[i - 1] \o s[i]
  <2> TAKE i \in 2..n
  <2>1. i \in 1..n /\ i - 1 \in 1..n
    BY <1>1
  <2> QED
    BY <1>4, <2>1
<1>8. f = [i \in 1..n |-> Body(f, i)]
  <2> HIDE DEF f
  <2>1. \A i \in 1..n : f[i] = Body(f, i)
    <3> TAKE i \in 1..n
    <3>1. i = 1 \/ i \in 2..n
      BY <1>1
    <3> QED
      BY <3>1, <1>6, <1>7
  <2> QED
    BY <2>1, <1>5
<1>9. \E g : g = [i \in 1..n |-> Body(g, i)]
  <2> HIDE DEF f, Body
  <2> QED
    BY <1>8
<1> DEFINE g == CHOOSE g : g = [i \in 1..n |-> Body(g, i)]
<1>10. g = [i \in 1..n |-> Body(g, i)]
  <2> HIDE DEF Body
  <2> QED
    BY <1>9
<1>11. FlattenSeq(s) = g[n]
  BY <1>1 DEF FlattenSeq, n
<1> HIDE DEF g
<1>12. g[1] = s[1] /\ \A i \in 2..n : g[i] = g[i - 1] \o s[i]
  <2>1. \A i \in 1..n : g[i] = Body(g, i)
    <3> HIDE DEF Body
    <3> QED
      BY <1>10
  <2>2. 1 \in 1..n /\ \A i \in 2..n : i \in 1..n /\ i # 1
    BY <1>1
  <2> QED
    BY <2>1, <2>2
<1> DEFINE S == {m \in Nat : m \in 1..n => g[m] = f[m]}
<1>13. \A m \in Nat : m \in S
  <2>1. 0 \in S
    OBVIOUS
  <2>2. ASSUME NEW m \in Nat, m \in S PROVE m + 1 \in S
    <3>1. SUFFICES ASSUME m + 1 \in 1..n PROVE g[m + 1] = f[m + 1]
      OBVIOUS
    <3> HIDE DEF f
    <3>2. CASE m = 0
      BY <3>2, <1>6, <1>12
    <3>3. CASE m # 0
      <4>1. m \in 1..n /\ m + 1 \in 2..n /\ (m + 1) - 1 = m
        BY <3>1, <3>3, <1>1
      <4> QED
        BY <2>2, <4>1, <1>7, <1>12
    <3> QED
      BY <3>2, <3>3
  <2> HIDE DEF S
  <2> QED
    BY <2>1, <2>2, NatInd
<1> HIDE DEF f
<1>14. g[n] = f[n]
  BY <1>1, <1>13
<1>15. FlattensPrefixes(f, X, s) /\ FlattenSeq(s) = f[Len(s)]
  BY <1>5, <1>6, <1>7, <1>11, <1>14 DEF n, FlattensPrefixes
<1> QED
  BY <1>15

(* Nothing flattens to nothing, one sequence to itself.                    *)
LEMMA FlattenSmall ==
    /\ FlattenSeq(<<>>) = <<>>
    /\ \A X : \A x \in Seq(X) : FlattenSeq(<<x>>) = x
<1>1. FlattenSeq(<<>>) = <<>>
  BY DEF FlattenSeq
<1>2. ASSUME NEW X, NEW x \in Seq(X) PROVE FlattenSeq(<<x>>) = x
  <2>1. <<x>> \in Seq(Seq(X)) /\ <<x>> # <<>> /\ Len(<<x>>) = 1 /\ <<x>>[1] = x
    OBVIOUS
  <2> DEFINE s == <<x>>
  <2> HIDE DEF s
  <2>2. PICK f : FlattensPrefixes(f, X, s) /\ FlattenSeq(s) = f[Len(s)]
    BY <2>1, FlattenPrefixes DEF s
  <2> QED
    BY <2>1, <2>2 DEF s, FlattensPrefixes
<1> QED
  BY <1>1, <1>2

(* Flattening yields a sequence.                                           *)
LEMMA FlattenType ==
    ASSUME NEW X, NEW s \in Seq(Seq(X))
    PROVE  FlattenSeq(s) \in Seq(X)
<1>1. CASE s = <<>>
  <2>1. <<>> \in Seq(X)
    OBVIOUS
  <2> QED
    BY <1>1, <2>1, FlattenSmall
<1>2. CASE s # <<>>
  <2>1. Len(s) \in 1..Len(s)
    BY <1>2
  <2>2. PICK f : FlattensPrefixes(f, X, s) /\ FlattenSeq(s) = f[Len(s)]
    BY <1>2, FlattenPrefixes
  <2> QED
    BY <2>1, <2>2 DEF FlattensPrefixes
<1> QED
  BY <1>1, <1>2

(* One more sequence is flattened to the end.                              *)
LEMMA FlattenAppend ==
    ASSUME NEW X, NEW s \in Seq(Seq(X)), NEW x \in Seq(X)
    PROVE  FlattenSeq(Append(s, x)) = FlattenSeq(s) \o x
<1>1. CASE s = <<>>
  <2>1. Append(s, x) = <<x>>
    BY <1>1
  <2>2. <<>> \o x = x
    OBVIOUS
  <2> QED
    BY <1>1, <2>1, <2>2, FlattenSmall
<1>2. CASE s # <<>>
  <2> DEFINE t == Append(s, x)
  <2> DEFINE n == Len(s)
  <2>1. /\ t \in Seq(Seq(X)) /\ t # <<>> /\ Len(t) = n + 1 /\ n \in Nat /\ n >= 1
        /\ t[n + 1] = x /\ \A i \in 1..n : t[i] = s[i]
    <3> DEFINE Y == Seq(X)
    <3>1. s \in Seq(Y) /\ x \in Y
      OBVIOUS
    <3> HIDE DEF Y
    <3>2. t \in Seq(Y) /\ Len(t) = n + 1 /\ t[n + 1] = x /\ \A i \in 1..n : t[i] = s[i]
      BY <3>1
    <3>3. n \in Nat /\ n >= 1
      BY <1>2, <3>1
    <3> HIDE DEF t, n
    <3> QED
      BY <3>2, <3>3 DEF Y
  <2> HIDE DEF t
  <2>a. PICK f : FlattensPrefixes(f, X, s) /\ FlattenSeq(s) = f[n]
    BY <1>2, FlattenPrefixes
  <2>2. FlattenSeq(s) = f[n] /\ f[1] = s[1] /\ \A i \in 2..n : f[i] = f[i - 1] \o s[i]
    BY <2>a DEF FlattensPrefixes
  <2>b. PICK g : FlattensPrefixes(g, X, t) /\ FlattenSeq(t) = g[Len(t)]
    BY <2>1, FlattenPrefixes
  <2>3. /\ FlattenSeq(t) = g[Len(t)] /\ g[1] = t[1]
        /\ \A i \in 2..Len(t) : g[i] = g[i - 1] \o t[i]
    BY <2>b DEF FlattensPrefixes
  <2> HIDE DEF n
  <2> DEFINE S == {m \in Nat : m \in 1..n => f[m] = g[m]}
  <2>4. 0 \in S
    OBVIOUS
  <2>5. ASSUME NEW m \in Nat, m \in S PROVE m + 1 \in S
    <3>1. SUFFICES ASSUME m + 1 \in 1..n PROVE f[m + 1] = g[m + 1]
      OBVIOUS
    <3>2. CASE m = 0
      BY <3>2, <3>1, <2>1, <2>2, <2>3
    <3>3. CASE m # 0
      <4>1. m \in 1..n /\ m + 1 \in 2..n /\ m + 1 \in 2..Len(t) /\ (m + 1) - 1 = m
        BY <3>1, <3>3, <2>1
      <4>2. f[m + 1] = f[m] \o s[m + 1] /\ g[m + 1] = g[m] \o t[m + 1]
        BY <4>1, <2>2, <2>3
      <4>3. f[m] = g[m]
        BY <4>1, <2>5
      <4> QED
        BY <4>2, <4>3, <3>1, <2>1
    <3> QED
      BY <3>2, <3>3
  <2> HIDE DEF S
  <2>6. n \in S
    BY <2>4, <2>5, <2>1, NatInd
  <2>7. f[n] = g[n]
    BY <2>6, <2>1 DEF S
  <2>8. n + 1 \in 2..Len(t) /\ (n + 1) - 1 = n
    BY <2>1
  <2>9. g[n + 1] = g[n] \o t[n + 1]
    BY <2>3, <2>8
  <2> QED
    BY <2>1, <2>2, <2>3, <2>7, <2>9 DEF t
<1> QED
  BY <1>1, <1>2

(* Flattening distributes over concatenation.                              *)
LEMMA FlattenConcat ==
    ASSUME NEW X, NEW s \in Seq(Seq(X)), NEW t \in Seq(Seq(X))
    PROVE  FlattenSeq(s \o t) = FlattenSeq(s) \o FlattenSeq(t)
<1> DEFINE S == {k \in Nat : \A u \in Seq(Seq(X)) :
                    Len(u) = k => FlattenSeq(s \o u) = FlattenSeq(s) \o FlattenSeq(u)}
<1>1. 0 \in S
  <2> SUFFICES ASSUME NEW u \in Seq(Seq(X)), Len(u) = 0
               PROVE  FlattenSeq(s \o u) = FlattenSeq(s) \o FlattenSeq(u)
    OBVIOUS
  <2>1. u = <<>> /\ s \o u = s
    OBVIOUS
  <2>2. \A x \in Seq(X) : x \o <<>> = x
    OBVIOUS
  <2> QED
    BY <2>1, <2>2, FlattenSmall, FlattenType
<1>2. ASSUME NEW k \in Nat, k \in S PROVE k + 1 \in S
  <2> SUFFICES ASSUME NEW u \in Seq(Seq(X)), Len(u) = k + 1
               PROVE  FlattenSeq(s \o u) = FlattenSeq(s) \o FlattenSeq(u)
    OBVIOUS
  <2> DEFINE v == [i \in 1..k |-> u[i]]
  <2> DEFINE x == u[k + 1]
  <2>1. x \in Seq(X) /\ v \in Seq(Seq(X)) /\ Len(v) = k
    OBVIOUS
  <2>2. u = Append(v, x)
    <3>1. Append(v, x) \in Seq(Seq(X)) /\ Len(Append(v, x)) = k + 1
      BY <2>1
    <3>2. \A i \in 1..(k + 1) : Append(v, x)[i] = u[i]
      BY <2>1
    <3> QED
      BY <3>1, <3>2
  <2> HIDE DEF v, x
  <2>3. s \o u = Append(s \o v, x)
    BY <2>1, <2>2
  <2>4. s \o v \in Seq(Seq(X))
    BY <2>1
  <2>5. FlattenSeq(s \o u) = FlattenSeq(s \o v) \o x
    BY <2>1, <2>3, <2>4, FlattenAppend
  <2>6. FlattenSeq(s \o v) = FlattenSeq(s) \o FlattenSeq(v)
    BY <1>2, <2>1
  <2>7. FlattenSeq(u) = FlattenSeq(v) \o x
    BY <2>1, <2>2, FlattenAppend
  <2>8. \A a, b, c \in Seq(X) : (a \o b) \o c = a \o (b \o c)
    OBVIOUS
  <2>9. FlattenSeq(s) \in Seq(X) /\ FlattenSeq(v) \in Seq(X)
    BY <2>1, FlattenType
  <2>10. (FlattenSeq(s) \o FlattenSeq(v)) \o x = FlattenSeq(s) \o (FlattenSeq(v) \o x)
    BY <2>1, <2>8, <2>9
  <2> QED
    BY <2>5, <2>6, <2>7, <2>10
<1> HIDE DEF S
<1>3. \A k \in Nat : k \in S
  BY <1>1, <1>2, NatInd, Zenon
<1>4. Len(t) \in Nat
  OBVIOUS
<1> QED
  BY <1>3, <1>4 DEF S

-----------------------------------------------------------------------------
(* The conditions of a filter.                                             *)

(* Those of a group are those of its children.                             *)
LEMMA ConditionsOfDef ==
    /\ \A node \in FilterNode :
          ConditionsOf[node] =
              IF IsGroup(node)
              THEN UNION {ConditionsOf[node.conditions[i]] : i \in DOMAIN node.conditions}
              ELSE {node}
    /\ \A node \in FilterNode : ConditionsOf[node] \subseteq FilterCondition
<1> DEFINE V == SUBSET FilterCondition
<1> DEFINE G == [x \in FilterNode \X Seq(V) |->
                    IF IsGroup(x[1]) THEN UNION {x[2][i] : i \in DOMAIN x[2]} ELSE {x[1]}]
<1> DEFINE Body(f, node) ==
        IF IsGroup(node) THEN UNION {f[node.conditions[i]] : i \in DOMAIN node.conditions}
        ELSE {node}
<1>1. G \in [FilterNode \X Seq(V) -> V]
  <2>1. ASSUME NEW x \in FilterNode \X Seq(V)
        PROVE  (IF IsGroup(x[1]) THEN UNION {x[2][i] : i \in DOMAIN x[2]} ELSE {x[1]}) \in V
    <3>1. x[1] \in FilterNode /\ x[2] \in Seq(V)
      OBVIOUS
    <3>2. \A i \in DOMAIN x[2] : x[2][i] \in V
      BY <3>1
    <3>3. ~IsGroup(x[1]) => x[1] \in FilterCondition
      BY <3>1, FilterCases
    <3> QED
      BY <3>2, <3>3
  <2> QED
    BY <2>1
<1>2. PICK f : FoldsFilters(f, V, G)
  <2> HIDE DEF V, G
  <2> QED
    BY <1>1, FilterRecursion
<1>3. \A node \in FilterNode : f[node] = Body(f, node)
  <2> SUFFICES ASSUME NEW node \in FilterNode PROVE f[node] = Body(f, node)
    OBVIOUS
  <2>1. Kids(node, f) \in Seq(V)
    BY <1>2, FilterCases DEF FoldsFilters, Kids, FilterGroup
  <2>2. f[node] = G[<<node, Kids(node, f)>>]
    BY <1>2 DEF FoldsFilters
  <2>3. G[<<node, Kids(node, f)>>] =
            IF IsGroup(node) THEN UNION {Kids(node, f)[i] : i \in DOMAIN Kids(node, f)} ELSE {node}
    BY <2>1
  <2> HIDE DEF V, G
  <2>4. CASE IsGroup(node)
    <3>1. Kids(node, f) = [i \in DOMAIN node.conditions |-> f[node.conditions[i]]]
      BY <2>4 DEF Kids
    <3>2. UNION {Kids(node, f)[i] : i \in DOMAIN Kids(node, f)}
            = UNION {f[node.conditions[i]] : i \in DOMAIN node.conditions}
      BY <3>1
    <3> QED
      BY <2>2, <2>3, <2>4, <3>2
  <2>5. CASE ~IsGroup(node)
    BY <2>2, <2>3, <2>5
  <2> QED
    BY <2>4, <2>5
<1>4. f = [node \in FilterNode |-> Body(f, node)]
  <2>1. f = [node \in FilterNode |-> f[node]]
    BY <1>2 DEF FoldsFilters
  <2> HIDE DEF Body
  <2> QED
    BY <2>1, <1>3
<1>5. \E g : g = [node \in FilterNode |-> Body(g, node)]
  <2> HIDE DEF Body
  <2> QED
    BY <1>4
<1>6. ConditionsOf = [node \in FilterNode |-> Body(ConditionsOf, node)]
  BY <1>5 DEF ConditionsOf
<1>7. \A node \in FilterNode : ConditionsOf[node] = Body(ConditionsOf, node)
  <2> HIDE DEF Body
  <2> QED
    BY <1>6
<1> DEFINE S == {node \in FilterNode : ConditionsOf[node] \subseteq FilterCondition}
<1>8. FilterNode \subseteq S
  <2>1. FilterCondition \subseteq S
    <3> SUFFICES ASSUME NEW node \in FilterCondition PROVE node \in S
      OBVIOUS
    <3>1. node \in FilterNode
      BY FilterNodesDef, FilterNodesGrow, NestingAssumption DEF FilterNode
    <3>2. ~IsGroup(node)
      BY DEF FilterCondition, IsGroup
    <3> QED
      BY <1>7, <3>1, <3>2
  <2>2. ASSUME NEW node \in FilterNode, IsGroup(node),
               \A i \in DOMAIN node.conditions : node.conditions[i] \in S
        PROVE  node \in S
    <3>1. ConditionsOf[node] = UNION {ConditionsOf[node.conditions[i]] : i \in DOMAIN node.conditions}
      BY <1>7, <2>2
    <3>2. \A i \in DOMAIN node.conditions : ConditionsOf[node.conditions[i]] \subseteq FilterCondition
      BY <2>2
    <3>3. ConditionsOf[node] \subseteq FilterCondition
      BY <3>1, <3>2
    <3> QED
      BY <3>3
  <2> HIDE DEF S
  <2> QED
    BY <2>1, <2>2, FilterInduction
<1> QED
  BY <1>7, <1>8

-----------------------------------------------------------------------------
(* Placeholders.                                                           *)

(* The tokens of a rendering.                                              *)
SqlColumn == STRING
SqlOperation ==
    {"", "=", "<>", ">", ">=", "<", "<=", "LIKE", "ILIKE", "LIKE" \o " ESCAPE",
     "ILIKE" \o " ESCAPE", "IS NULL", "IS NOT NULL", "= ANY", "!= ALL", "IN", "NOT IN",
     "1 = 0", "1 = 1"}
SqlToken ==
    [kind : {"test", "(", ")", "AND", "OR"}, column : {""} \cup SqlColumn,
     op : SqlOperation, args : Seq(Nat)]
Verdict == {"ok", "UnmappedField", "ValueShapeMismatch", "ArrayTooLarge", "StringTooLong"}
Rendering == [error : Verdict, sql : Seq(SqlToken), builder : Builder]

(* What a rendering that starts with n and binds k parameters refers to.   *)
Numbers(d, n, k) == [j \in 1..k |-> Placeholder(d, n + j - 1)]

(* What a concatenation is, element by element.                            *)
LEMMA SeqConcat ==
    ASSUME NEW Y, NEW u \in Seq(Y), NEW v \in Seq(Y), NEW w \in Seq(Y),
           Len(w) = Len(u) + Len(v),
           \A i \in 1..Len(u) : w[i] = u[i],
           \A i \in 1..Len(v) : w[Len(u) + i] = v[i]
    PROVE  w = u \o v
<1>1. u \o v \in Seq(Y) /\ Len(u \o v) = Len(u) + Len(v) /\ Len(u) \in Nat /\ Len(v) \in Nat
  OBVIOUS
<1>2. ASSUME NEW i \in 1..(Len(u) + Len(v)) PROVE w[i] = (u \o v)[i]
  <2>1. CASE i \in 1..Len(u)
    BY <2>1
  <2>2. CASE i \notin 1..Len(u)
    <3>1. i - Len(u) \in 1..Len(v) /\ Len(u) + (i - Len(u)) = i
      BY <2>2, <1>1
    <3>2. (u \o v)[i] = v[i - Len(u)]
      BY <2>2, <1>1
    <3> QED
      BY <3>1, <3>2
  <2> QED
    BY <2>1, <2>2
<1> QED
  BY <1>1, <1>2

(* The placeholders of a text are those of its parts.                      *)
LEMMA PlaceholdersOf ==
    /\ Placeholders(<<>>) = <<>>
    /\ \A t \in SqlToken : Placeholders(<<t>>) = t.args
    /\ \A s \in Seq(SqlToken) : Placeholders(s) \in Seq(Nat)
    /\ \A s, t \in Seq(SqlToken) : Placeholders(s \o t) = Placeholders(s) \o Placeholders(t)
<1> DEFINE A(s) == [i \in DOMAIN s |-> s[i].args]
<1>1. \A s \in Seq(SqlToken) : A(s) \in Seq(Seq(Nat))
  <2> SUFFICES ASSUME NEW s \in Seq(SqlToken) PROVE A(s) \in Seq(Seq(Nat))
    OBVIOUS
  <2>1. DOMAIN s = 1..Len(s) /\ Len(s) \in Nat /\ \A i \in 1..Len(s) : s[i] \in SqlToken
    OBVIOUS
  <2> DEFINE Y == Seq(Nat)
  <2>2. \A x \in SqlToken : x.args \in Y
    BY DEF SqlToken
  <2> HIDE DEF Y
  <2>3. A(s) \in Seq(Y)
    BY <2>1, <2>2
  <2> QED
    BY <2>3 DEF Y
<1>2. Placeholders(<<>>) = <<>>
  <2>1. A(<<>>) = <<>>
    OBVIOUS
  <2> QED
    BY <2>1, FlattenSmall DEF Placeholders
<1>3. ASSUME NEW t \in SqlToken PROVE Placeholders(<<t>>) = t.args
  <2>1. A(<<t>>) = <<t.args>>
    OBVIOUS
  <2>2. t.args \in Seq(Nat)
    BY DEF SqlToken
  <2> QED
    BY <2>1, <2>2, FlattenSmall DEF Placeholders
<1>4. ASSUME NEW s \in Seq(SqlToken) PROVE Placeholders(s) \in Seq(Nat)
  BY <1>1, FlattenType DEF Placeholders
<1>5. ASSUME NEW s \in Seq(SqlToken), NEW t \in Seq(SqlToken)
      PROVE  Placeholders(s \o t) = Placeholders(s) \o Placeholders(t)
  <2>1. A(s \o t) = A(s) \o A(t)
    <3>1. A(s) \in Seq(Seq(Nat)) /\ A(t) \in Seq(Seq(Nat)) /\ A(s \o t) \in Seq(Seq(Nat))
      BY <1>1
    <3> DEFINE Y == Seq(Nat)
    <3> DEFINE n == Len(s)
    <3> DEFINE m == Len(t)
    <3>2. /\ n \in Nat /\ m \in Nat /\ Len(s \o t) = n + m
          /\ \A i \in 1..n : (s \o t)[i] = s[i]
          /\ \A i \in 1..m : (s \o t)[n + i] = t[i]
          /\ DOMAIN s = 1..n /\ DOMAIN t = 1..m /\ DOMAIN (s \o t) = 1..(n + m)
      OBVIOUS
    <3> DEFINE st == s \o t
    <3>3. /\ Len(A(s)) = n /\ Len(A(t)) = m /\ Len(A(st)) = n + m
          /\ \A i \in 1..n : A(s)[i] = s[i].args /\ A(st)[i] = s[i].args
          /\ \A i \in 1..m : A(t)[i] = t[i].args /\ A(st)[n + i] = t[i].args
      <4> HIDE DEF n, m, st
      <4>1. \A i \in 1..n : i \in 1..(n + m)
        BY <3>2
      <4>2. \A i \in 1..m : n + i \in 1..(n + m)
        BY <3>2
      <4> QED
        BY <3>2, <4>1, <4>2 DEF st
    <3>4. A(s) \in Seq(Y) /\ A(t) \in Seq(Y) /\ A(st) \in Seq(Y)
      BY <3>1
    <3> HIDE DEF A, Y, n, m, st
    <3>5. /\ Len(A(st)) = Len(A(s)) + Len(A(t))
          /\ \A i \in 1..Len(A(s)) : A(st)[i] = A(s)[i]
          /\ \A i \in 1..Len(A(t)) : A(st)[Len(A(s)) + i] = A(t)[i]
      BY <3>3
    <3>6. A(st) = A(s) \o A(t)
      BY <3>4, <3>5, SeqConcat, Zenon
    <3> QED
      BY <3>6 DEF st
  <2>2. FlattenSeq(A(s) \o A(t)) = FlattenSeq(A(s)) \o FlattenSeq(A(t))
    <3> HIDE DEF A
    <3> QED
      BY <1>1, FlattenConcat
  <2> QED
    BY <2>1, <2>2 DEF Placeholders
<1> QED
  BY <1>2, <1>3, <1>4, <1>5

(* Placeholders are numbers, and numbered on.                              *)
LEMMA NumbersConcat ==
    ASSUME NEW d, NEW n \in Nat, NEW k \in Nat, NEW l \in Nat
    PROVE  /\ Numbers(d, n, k) \in Seq(Nat)
           /\ Numbers(d, n, k) \o Numbers(d, n + k, l) = Numbers(d, n, k + l)
<1>1. \A m \in Nat, i \in Nat : i >= 1 => Placeholder(d, m + i - 1) \in Nat
  BY DEF Placeholder
<1>2. \A m, j \in Nat : Numbers(d, m, j) \in Seq(Nat) /\ Len(Numbers(d, m, j)) = j
  <2> SUFFICES ASSUME NEW m \in Nat, NEW j \in Nat
               PROVE  Numbers(d, m, j) \in Seq(Nat) /\ Len(Numbers(d, m, j)) = j
    OBVIOUS
  <2>1. \A i \in 1..j : Placeholder(d, m + i - 1) \in Nat
    BY <1>1
  <2> DEFINE s == [i \in 1..j |-> Placeholder(d, m + i - 1)]
  <2>2. \A i \in 1..j : s[i] \in Nat
    BY <2>1
  <2>3. s = [i \in 1..j |-> s[i]]
    OBVIOUS
  <2>4. Numbers(d, m, j) = s
    BY DEF Numbers
  <2> HIDE DEF s
  <2>5. s \in Seq(Nat) /\ Len(s) = j
    BY <2>2, <2>3
  <2> QED
    BY <2>4, <2>5
<1> DEFINE u == Numbers(d, n, k)
<1> DEFINE v == Numbers(d, n + k, l)
<1> DEFINE w == Numbers(d, n, k + l)
<1>3. u \in Seq(Nat) /\ v \in Seq(Nat) /\ w \in Seq(Nat) /\ Len(u) = k /\ Len(v) = l /\ Len(w) = k + l
  <2>1. n + k \in Nat /\ k + l \in Nat
    OBVIOUS
  <2> QED
    BY <1>2, <2>1
<1>4. /\ \A j \in 1..k : u[j] = Placeholder(d, n + j - 1)
      /\ \A j \in 1..l : v[j] = Placeholder(d, n + k + j - 1)
      /\ \A j \in 1..(k + l) : w[j] = Placeholder(d, n + j - 1)
  BY DEF Numbers
<1> HIDE DEF u, v, w
<1>5. \A i \in 1..k : w[i] = u[i]
  BY <1>4
<1>6. \A i \in 1..l : w[k + i] = v[i]
  <2> TAKE i \in 1..l
  <2>1. k + i \in 1..(k + l) /\ n + (k + i) - 1 = n + k + i - 1
    OBVIOUS
  <2> QED
    BY <2>1, <1>4
<1>7. w = u \o v
  <2>1. /\ Len(w) = Len(u) + Len(v)
        /\ \A i \in 1..Len(u) : w[i] = u[i]
        /\ \A i \in 1..Len(v) : w[Len(u) + i] = v[i]
    BY <1>3, <1>5, <1>6
  <2> QED
    BY <1>3, <2>1, SeqConcat, Zenon
<1> QED
  BY <1>3, <1>7 DEF u, v, w

-----------------------------------------------------------------------------
(* Renderings.                                                             *)

(* A test is a token, and a text of tokens a rendering.                    *)
LEMMA TestType ==
    ASSUME NEW column \in SqlColumn, NEW op \in SqlOperation, NEW args \in Seq(Nat)
    PROVE  Test(column, op, args) \in SqlToken /\ Test(column, op, args).args = args
BY DEF Test, SqlToken

(* A success and the builder that it leaves make a rendering.              *)
LEMMA RenderedType ==
    ASSUME NEW sql \in Seq(SqlToken), NEW b \in Builder
    PROVE  /\ Rendered(sql, b) \in Rendering
           /\ Rendered(sql, b).error = "ok"
           /\ Rendered(sql, b).sql = sql
           /\ Rendered(sql, b).builder = b
BY DEF Rendered, Rendering, Verdict

(* The rendering r, made from the builder b on, refers to the parameters   *)
(* that it has bound and to no others, in their order.                     *)
Advances(d, b, r) ==
    \E k \in Nat :
        /\ r.builder.next = b.next + k
        /\ Len(r.builder.params) = Len(b.params) + k
        /\ Placeholders(r.sql) = Numbers(d, b.next, k)

(* Binding a scalar or an array, and binding each of several scalars.      *)
LEMMA BindType ==
    ASSUME NEW b \in Builder
    PROVE  /\ \A x \in FilterScalar :
                 /\ Bind(b, One(x)) \in Builder
                 /\ Len(Bind(b, One(x)).params) = Len(b.params) + 1
           /\ \A xs \in Seq(FilterScalar) :
                 /\ Bind(b, Array(xs)) \in Builder
                 /\ Len(Bind(b, Array(xs)).params) = Len(b.params) + 1
                 /\ BindEach(b, xs) \in Builder
                 /\ Len(BindEach(b, xs).params) = Len(b.params) + Len(xs)
           /\ b.next \in Nat /\ b.next >= 1
<1> DEFINE P == [array : BOOLEAN, items : Seq(FilterScalar)]
<1>1. b.next \in Nat \ {0} /\ b.params \in Seq(P)
  BY DEF Builder
<1>2. ASSUME NEW x \in FilterScalar PROVE One(x) \in P
  <2>1. <<x>> \in Seq(FilterScalar)
    OBVIOUS
  <2> QED
    BY <2>1 DEF One
<1>3. ASSUME NEW xs \in Seq(FilterScalar) PROVE Array(xs) \in P
  BY DEF Array
<1> HIDE DEF P
<1>4. \A p \in P : /\ [next |-> b.next + 1, params |-> Append(b.params, p)] \in [next : Nat \ {0}, params : Seq(P)]
                   /\ Len(Append(b.params, p)) = Len(b.params) + 1
  BY <1>1
<1>5. ASSUME NEW xs \in Seq(FilterScalar)
      PROVE  /\ BindEach(b, xs) \in [next : Nat \ {0}, params : Seq(P)]
             /\ Len(BindEach(b, xs).params) = Len(b.params) + Len(xs)
  <2> DEFINE ps == [i \in DOMAIN xs |-> One(xs[i])]
  <2>1. DOMAIN xs = 1..Len(xs) /\ Len(xs) \in Nat /\ \A i \in DOMAIN xs : xs[i] \in FilterScalar
    OBVIOUS
  <2>2. \A i \in DOMAIN xs : One(xs[i]) \in P
    BY <1>2, <2>1
  <2>3. ps \in Seq(P) /\ Len(ps) = Len(xs)
    <3>1. \A i \in 1..Len(xs) : ps[i] \in P
      BY <2>1, <2>2
    <3>2. ps = [i \in 1..Len(xs) |-> ps[i]]
      BY <2>1
    <3> HIDE DEF ps
    <3> QED
      BY <2>1, <3>1, <3>2
  <2> HIDE DEF ps
  <2>4. b.params \o ps \in Seq(P) /\ Len(b.params \o ps) = Len(b.params) + Len(xs)
    BY <1>1, <2>3
  <2>5. b.next + Len(xs) \in Nat \ {0}
    BY <1>1, <2>1
  <2>6. BindEach(b, xs) = [next |-> b.next + Len(xs), params |-> b.params \o ps]
    BY DEF BindEach, ps
  <2> QED
    BY <2>4, <2>5, <2>6
<1>6. Builder = [next : Nat \ {0}, params : Seq(P)]
  BY DEF Builder, P
<1> QED
  BY <1>1, <1>2, <1>3, <1>4, <1>5, <1>6 DEF Bind

(* Every placeholder is a number.                                          *)
LEMMA PlaceholderType == \A d, n : n \in Nat => Placeholder(d, n) \in Nat
BY DEF Placeholder

(* One test of a column that binds one parameter.                          *)
LEMMA OneTestRenders ==
    ASSUME NEW d, NEW b \in Builder, NEW column \in SqlColumn, NEW op \in SqlOperation, NEW c \in Builder,
           c.next = b.next + 1, Len(c.params) = Len(b.params) + 1,
           NEW r, r = Rendered(<<Test(column, op, <<Placeholder(d, b.next)>>)>>, c)
    PROVE  r \in Rendering /\ r.error = "ok" /\ Advances(d, b, r)
<1> DEFINE t == Test(column, op, <<Placeholder(d, b.next)>>)
<1>1. b.next \in Nat /\ Placeholder(d, b.next) \in Nat
  BY BindType, PlaceholderType
<1>2. t \in SqlToken /\ t.args = <<Placeholder(d, b.next)>>
  <2>1. <<Placeholder(d, b.next)>> \in Seq(Nat)
    BY <1>1
  <2> QED
    BY <2>1, TestType
<1> HIDE DEF t
<1> DEFINE sql == <<t>>
<1>3. sql \in Seq(SqlToken)
  BY <1>2
<1>4. r = Rendered(sql, c)
  BY DEF t
<1> HIDE DEF sql
<1>5. r \in Rendering /\ r.error = "ok" /\ r.sql = sql /\ r.builder = c
  BY <1>3, <1>4, RenderedType
<1>6. Placeholders(r.sql) = Numbers(d, b.next, 1)
  <2>1. Placeholders(r.sql) = <<Placeholder(d, b.next)>>
    BY <1>2, <1>5, PlaceholdersOf DEF sql
  <2>2. Numbers(d, b.next, 1) = [j \in 1..1 |-> Placeholder(d, b.next)]
    BY <1>1 DEF Numbers
  <2> QED
    BY <2>1, <2>2
<1> QED
  BY <1>5, <1>6 DEF Advances

(* A test that binds nothing.                                              *)
LEMMA BareTestRenders ==
    ASSUME NEW d, NEW b \in Builder, NEW column \in SqlColumn, NEW op \in SqlOperation,
           NEW r, r = Rendered(<<Test(column, op, <<>>)>>, b)
    PROVE  r \in Rendering /\ r.error = "ok" /\ Advances(d, b, r)
<1> DEFINE t == Test(column, op, <<>>)
<1>1. t \in SqlToken /\ t.args = <<>>
  <2>1. <<>> \in Seq(Nat)
    OBVIOUS
  <2> QED
    BY <2>1, TestType
<1> HIDE DEF t
<1> DEFINE sql == <<t>>
<1>2. sql \in Seq(SqlToken)
  BY <1>1
<1>3. r = Rendered(sql, b)
  BY DEF t
<1> HIDE DEF sql
<1>4. r \in Rendering /\ r.error = "ok" /\ r.sql = sql /\ r.builder = b
  BY <1>2, <1>3, RenderedType
<1>5. Placeholders(r.sql) = Numbers(d, b.next, 0)
  <2>1. Placeholders(r.sql) = <<>>
    BY <1>1, <1>4, PlaceholdersOf DEF sql
  <2>2. Numbers(d, b.next, 0) = <<>>
    BY DEF Numbers
  <2> QED
    BY <2>1, <2>2
<1>6. b.next = b.next + 0 /\ Len(b.params) = Len(b.params) + 0
  BY BindType DEF Builder
<1> QED
  BY <1>4, <1>5, <1>6 DEF Advances

(* A set is bound whole or element by element, by the dialect.             *)
LEMMA SetRenders ==
    ASSUME NEW d \in Dialects, NEW b \in Builder, NEW column \in SqlColumn,
           NEW negated \in BOOLEAN, NEW xs \in Seq(FilterScalar),
           NEW r, r = RenderSet(d, b, column, negated, xs)
    PROVE  r \in Rendering /\ r.error = "ok" /\ Advances(d, b, r)
<1>1. CASE BindsSetAsArray(d)
  <2> DEFINE op == IF negated THEN "!= ALL" ELSE "= ANY"
  <2>1. op \in SqlOperation
    BY Zenon DEF SqlOperation
  <2>2. r = Rendered(<<Test(column, op, <<Placeholder(d, b.next)>>)>>, Bind(b, Array(xs)))
    BY <1>1 DEF RenderSet
  <2>3. /\ Bind(b, Array(xs)) \in Builder
        /\ Bind(b, Array(xs)).next = b.next + 1
        /\ Len(Bind(b, Array(xs)).params) = Len(b.params) + 1
    BY BindType DEF Bind
  <2> HIDE DEF op
  <2> QED
    BY <2>1, <2>2, <2>3, OneTestRenders
<1>2. CASE ~BindsSetAsArray(d) /\ xs = <<>>
  <2> DEFINE op == IF negated THEN "1 = 1" ELSE "1 = 0"
  <2>1. op \in SqlOperation
    BY Zenon DEF SqlOperation
  <2>2. r = Rendered(<<Test(column, op, <<>>)>>, b)
    BY <1>2 DEF RenderSet
  <2> HIDE DEF op
  <2> QED
    BY <2>1, <2>2, BareTestRenders
<1>3. CASE ~BindsSetAsArray(d) /\ xs # <<>>
  <2> DEFINE op == IF negated THEN "NOT IN" ELSE "IN"
  <2> DEFINE args == [i \in DOMAIN xs |-> Placeholder(d, b.next + i - 1)]
  <2> DEFINE t == Test(column, op, args)
  <2> DEFINE c == BindEach(b, xs)
  <2> DEFINE n == Len(xs)
  <2>1. n \in Nat /\ DOMAIN xs = 1..n /\ b.next \in Nat
    BY BindType
  <2>2. args = Numbers(d, b.next, n)
    BY <2>1 DEF Numbers
  <2>3. args \in Seq(Nat)
    <3>1. Numbers(d, b.next, n) \in Seq(Nat)
      <4> HIDE DEF n
      <4> QED
        BY <2>1, NumbersConcat
    <3> QED
      BY <2>2, <3>1
  <2>4. op \in SqlOperation
    BY Zenon DEF SqlOperation
  <2>5. r = Rendered(<<t>>, c)
    BY <1>3 DEF RenderSet
  <2> HIDE DEF args, op
  <2>6. t \in SqlToken /\ t.args = args
    BY <2>3, <2>4, TestType
  <2>7. c \in Builder /\ Len(c.params) = Len(b.params) + n /\ c.next = b.next + n
    BY BindType DEF BindEach
  <2> HIDE DEF t, c, n
  <2> DEFINE sql == <<t>>
  <2>8. sql \in Seq(SqlToken) /\ r = Rendered(sql, c)
    BY <2>5, <2>6
  <2> HIDE DEF sql
  <2>9. r \in Rendering /\ r.error = "ok" /\ r.sql = sql /\ r.builder = c
    BY <2>7, <2>8, RenderedType
  <2>10. Placeholders(r.sql) = Numbers(d, b.next, n)
    BY <2>2, <2>9, <2>6, PlaceholdersOf DEF sql
  <2> QED
    BY <2>1, <2>7, <2>9, <2>10 DEF Advances
<1> QED
  BY <1>1, <1>2, <1>3

(* A refusal is a rendering.                                               *)
LEMMA FailedType ==
    ASSUME NEW error \in Verdict, NEW b \in Builder
    PROVE  Failed(error, b) \in Rendering /\ Failed(error, b).error = error
<1>1. <<>> \in Seq(SqlToken)
  OBVIOUS
<1> QED
  BY <1>1 DEF Failed, Rendering

(* A column tested against one bound scalar.                               *)
LEMMA BoundTestRenders ==
    ASSUME NEW d, NEW b \in Builder, NEW column \in SqlColumn, NEW op \in SqlOperation,
           NEW x \in FilterScalar, NEW r, r = BoundTest(d, b, column, op, x)
    PROVE  r \in Rendering /\ r.error = "ok" /\ Advances(d, b, r)
<1>1. /\ Bind(b, One(x)) \in Builder
      /\ Bind(b, One(x)).next = b.next + 1
      /\ Len(Bind(b, One(x)).params) = Len(b.params) + 1
  BY BindType DEF Bind
<1>2. r = Rendered(<<Test(column, op, <<Placeholder(d, b.next)>>)>>, Bind(b, One(x)))
  BY DEF BoundTest
<1> QED
  BY <1>1, <1>2, OneTestRenders

(* The pattern of a wrapped text is a text.                                *)
LEMMA LikePatternType ==
    ASSUME NEW op, NEW s \in Seq(STRING)
    PROVE  Text(LikePattern(op, s)) \in FilterScalar
<1> DEFINE Esc == [i \in DOMAIN s |-> IF s[i] \in Special THEN <<"\\", s[i]>> ELSE <<s[i]>>]
<1>1. "\\" \in STRING /\ "%" \in STRING
  BY CharactersAssumption DEF Special
<1> DEFINE Y == Seq(STRING)
<1>2. Esc \in Seq(Y)
  <2>1. DOMAIN s = 1..Len(s) /\ Len(s) \in Nat /\ \A i \in 1..Len(s) : s[i] \in STRING
    OBVIOUS
  <2>2. \A c \in STRING : <<"\\", c>> \in Y /\ <<c>> \in Y
    BY <1>1
  <2>3. \A i \in 1..Len(s) : Esc[i] \in Y
    BY <2>1, <2>2
  <2>4. Esc = [i \in 1..Len(s) |-> Esc[i]]
    BY <2>1
  <2> HIDE DEF Y, Esc
  <2> QED
    BY <2>1, <2>3, <2>4
<1>3. EscapeLike(s) \in Y
  <2>1. EscapeLike(s) = FlattenSeq(Esc)
    BY DEF EscapeLike
  <2> HIDE DEF Esc
  <2> QED
    BY <1>2, <2>1, FlattenType
<1>4. LikePattern(op, s) \in Y
  <2> DEFINE pre == IF op = "starts_with" THEN <<>> ELSE <<"%">>
  <2> DEFINE post == IF op = "ends_with" THEN <<>> ELSE <<"%">>
  <2>1. <<>> \in Y /\ <<"%">> \in Y
    BY <1>1
  <2>2. pre \in Y /\ post \in Y
    <3> HIDE DEF Y
    <3> QED
      BY <2>1
  <2>3. LikePattern(op, s) = pre \o EscapeLike(s) \o post
    BY DEF LikePattern
  <2> HIDE DEF pre, post
  <2> QED
    BY <1>3, <2>2, <2>3
<1> HIDE DEF Y
<1> QED
  BY <1>4 DEF Text, FilterScalar, Y

(* A value of the shape that its operator expects.                         *)
LEMMA FittingValue ==
    ASSUME NEW op \in FilterOperator, NEW value \in FilterValue, ShapeFits(op, value)
    PROVE  /\ op \in SetOperators => value.items \in Seq(FilterScalar)
           /\ op \notin SetOperators => value.items[1] \in FilterScalar
           /\ op \in WrappedOperators => value.items[1].text \in Seq(STRING)
<1>1. CASE value \in [shape : {"scalar"}, items : [1..1 -> FilterScalar]]
  <2>1. value.shape = "scalar" /\ value.items[1] \in FilterScalar
    BY <1>1
  <2>2. \A x \in FilterScalar : x.type = "string" => x.text \in Seq(STRING)
    BY DEF FilterScalar, Bool, NullScalar
  <2> QED
    BY <2>1, <2>2 DEF ShapeFits
<1>2. CASE value \in [shape : {"list"}, items : Seq(FilterScalar)]
  <2>1. value.shape = "list" /\ value.items \in Seq(FilterScalar)
    BY <1>2
  <2>2. op \in SetOperators
    BY <2>1 DEF ShapeFits
  <2>3. op \notin WrappedOperators
    BY <2>2 DEF SetOperators, WrappedOperators
  <2> QED
    BY <2>1, <2>2, <2>3
<1> QED
  BY <1>1, <1>2 DEF FilterValue

(* A test of a fitting value never fails.                                  *)
LEMMA TestRenders ==
    ASSUME NEW d \in Dialects, NEW b \in Builder, NEW column \in SqlColumn,
           NEW op \in FilterOperator, NEW value \in FilterValue, ShapeFits(op, value),
           NEW r, r = RenderTest(d, b, column, op, value.items)
    PROVE  r \in Rendering /\ r.error = "ok" /\ Advances(d, b, r)
<1> DEFINE x == value.items[1]
<1>1. CASE op \in SetOperators
  <2>1. r = RenderSet(d, b, column, op = "not_in", value.items)
    BY <1>1 DEF RenderTest
  <2>2. (op = "not_in") \in BOOLEAN /\ value.items \in Seq(FilterScalar)
    BY <1>1, FittingValue
  <2> QED
    BY <2>1, <2>2, SetRenders
<1>2. ASSUME op \notin SetOperators PROVE x \in FilterScalar
  BY <1>2, FittingValue
<1>3. CASE op \in PatternOperators
  <2>1. op \notin SetOperators
    BY <1>3 DEF PatternOperators, SetOperators
  <2>2. PICK o \in {"LIKE", "ILIKE"} : r = BoundTest(d, b, column, o, x)
    BY <1>3, <2>1 DEF RenderTest, PatternOperators, IlikeKeyword
  <2>3. o \in SqlOperation
    BY Zenon DEF SqlOperation
  <2> QED
    BY <1>2, <2>1, <2>2, <2>3, BoundTestRenders
<1>4. CASE op \in WrappedOperators
  <2>1. op \notin SetOperators /\ op # "like" /\ op # "ilike"
    BY <1>4 DEF WrappedOperators, SetOperators
  <2> DEFINE o == IlikeKeyword(d) \o " ESCAPE"
  <2> DEFINE y == Text(LikePattern(op, x.text))
  <2>2. r = BoundTest(d, b, column, o, y)
    BY <1>4, <2>1 DEF RenderTest
  <2>3. o \in SqlOperation
    BY Zenon DEF SqlOperation, IlikeKeyword
  <2>4. y \in FilterScalar
    BY <1>4, FittingValue, LikePatternType
  <2> HIDE DEF o, y
  <2> QED
    BY <2>2, <2>3, <2>4, BoundTestRenders
<1>5. CASE op \in EqualityOperators \cup OrderOperators
  <2>1. op \notin SetOperators /\ op # "like" /\ op # "ilike" /\ op \notin WrappedOperators
    BY <1>5 DEF EqualityOperators, OrderOperators, WrappedOperators, SetOperators
  <2>2. CASE op \in EqualityOperators /\ x.type = "null"
    <3> DEFINE o == IF op = "eq" THEN "IS NULL" ELSE "IS NOT NULL"
    <3>1. o \in SqlOperation
      BY Zenon DEF SqlOperation
    <3>2. r = Rendered(<<Test(column, o, <<>>)>>, b)
      BY <2>1, <2>2 DEF RenderTest
    <3> HIDE DEF o
    <3> QED
      BY <3>1, <3>2, BareTestRenders
  <2>3. CASE ~(op \in EqualityOperators /\ x.type = "null")
    <3>1. r = BoundTest(d, b, column, SqlOperator[op], x)
      BY <2>1, <2>3 DEF RenderTest
    <3>2. SqlOperator[op] \in {"=", "<>", ">", ">=", "<", "<="}
      BY <1>5 DEF SqlOperator, EqualityOperators, OrderOperators
    <3>3. SqlOperator[op] \in SqlOperation
      BY <3>2, Zenon DEF SqlOperation
    <3> QED
      BY <1>2, <2>1, <3>1, <3>3, BoundTestRenders
  <2> QED
    BY <2>2, <2>3
<1> QED
  BY <1>1, <1>3, <1>4, <1>5 DEF FilterOperator

(* Only texts are measured, and nothing else has one.                      *)
LEMMA BoundsOk ==
    ASSUME NEW op \in FilterOperator, NEW value \in FilterValue, ShapeFits(op, value)
    PROVE  /\ BoundsError(op, value) \in Verdict
           /\ BoundsError(op, value) = "ok" <=>
                /\ op \in SetOperators => Len(value.items) <= MaxArraySize
                /\ \A i \in DOMAIN value.items : Len(value.items[i].text) <= MaxStringLen
<1>0. \A xs \in Seq(FilterScalar) :
        /\ DOMAIN xs = 1..Len(xs) /\ Len(xs) \in Nat
        /\ \A i \in DOMAIN xs : xs[i] \in FilterScalar
  OBVIOUS
<1>1. /\ DOMAIN value.items = 1..Len(value.items) /\ Len(value.items) \in Nat
      /\ \A i \in DOMAIN value.items : value.items[i] \in FilterScalar
  <2>1. CASE value \in [shape : {"scalar"}, items : [1..1 -> FilterScalar]]
    <3>1. value.items \in [1..1 -> FilterScalar]
      BY <2>1
    <3>2. \A xs \in [1..1 -> FilterScalar] : xs \in Seq(FilterScalar)
      <4> TAKE xs \in [1..1 -> FilterScalar]
      <4>1. \A i \in 1..1 : xs[i] \in FilterScalar
        OBVIOUS
      <4>2. xs = [i \in 1..1 |-> xs[i]]
        OBVIOUS
      <4> QED
        BY <4>1, <4>2
    <3> QED
      BY <1>0, <3>1, <3>2
  <2>2. CASE value \in [shape : {"list"}, items : Seq(FilterScalar)]
    BY <2>2
  <2> QED
    BY <2>1, <2>2 DEF FilterValue
<1>2. ASSUME NEW x \in FilterScalar
      PROVE  Len(x.text) \in Nat /\ (x.type # "string" => Len(x.text) <= MaxStringLen)
  <2>1. CASE x.type = "string"
    <3>1. x.text \in Seq(STRING)
      BY <2>1 DEF FilterScalar, Bool, NullScalar
    <3> QED
      BY <2>1, <3>1
  <2>2. CASE x.type # "string"
    <3>1. x.text = <<>>
      BY <2>2 DEF FilterScalar, Bool, NullScalar
    <3>2. Len(x.text) = 0
      BY <3>1
    <3> QED
      BY <3>2, OptionsAssumption
  <2> QED
    BY <2>1, <2>2
<1>3. \A n \in Nat : ~(n > MaxArraySize) <=> n <= MaxArraySize
  BY OptionsAssumption
<1>4. \A n \in Nat : ~(n > MaxStringLen) <=> n <= MaxStringLen
  BY OptionsAssumption
<1>5. BoundsError(op, value) = "ok" <=>
        /\ ~(op \in SetOperators /\ Len(value.items) > MaxArraySize)
        /\ ~\E i \in DOMAIN value.items :
               value.items[i].type = "string" /\ Len(value.items[i].text) > MaxStringLen
  BY DEF BoundsError
<1>6. (\E i \in DOMAIN value.items :
           value.items[i].type = "string" /\ Len(value.items[i].text) > MaxStringLen)
        <=> ~\A i \in DOMAIN value.items : Len(value.items[i].text) <= MaxStringLen
  BY <1>1, <1>2, <1>4
<1>7. (op \in SetOperators /\ Len(value.items) > MaxArraySize)
        <=> ~(op \in SetOperators => Len(value.items) <= MaxArraySize)
  BY <1>1, <1>3
<1>8. BoundsError(op, value) \in Verdict
  BY DEF BoundsError, Verdict
<1> QED
  BY <1>5, <1>6, <1>7, <1>8

(* Columns have names, as any field map says.                              *)
IsFieldMap(map) == \A f \in DOMAIN map : map[f] \in STRING

(* The error e is that of a condition of node.                             *)
Fault(map, node, e) == \E c \in ConditionsOf[node] : e = ConditionError(map, c)

(* The function f renders node: it fails, for one of its conditions, unless *)
(* all of them are well formed, and otherwise refers to the parameters     *)
(* that it binds.                                                          *)
Renders(d, map, node, f) ==
    /\ f \in [Builder -> Rendering]
    /\ \A b \in Builder :
          /\ f[b].error = "ok" <=> \A c \in ConditionsOf[node] : WellFormed(map, c)
          /\ f[b].error # "ok" => Fault(map, node, f[b].error)
          /\ f[b].error = "ok" => Advances(d, b, f[b])

(* A condition has no error exactly when it is well formed.                *)
LEMMA ConditionErrors ==
    ASSUME NEW map, NEW c \in FilterCondition
    PROVE  /\ ConditionError(map, c) \in Verdict
           /\ ConditionError(map, c) = "ok" <=> WellFormed(map, c)
<1>1. c.operator \in FilterOperator /\ c.value \in FilterValue
  BY DEF FilterCondition
<1>2. CASE c.field \notin DOMAIN map
  BY <1>2 DEF ConditionError, Verdict, WellFormed
<1>3. CASE c.field \in DOMAIN map /\ ~ShapeFits(c.operator, c.value)
  BY <1>3 DEF ConditionError, Verdict, WellFormed
<1>4. CASE c.field \in DOMAIN map /\ ShapeFits(c.operator, c.value)
  <2>1. ConditionError(map, c) = BoundsError(c.operator, c.value)
    BY <1>4 DEF ConditionError
  <2> QED
    BY <1>1, <1>4, <2>1, BoundsOk DEF WellFormed
<1> QED
  BY <1>2, <1>3, <1>4

(* A condition renders exactly when it is well formed.                     *)
LEMMA ConditionRenders ==
    ASSUME NEW d \in Dialects, NEW map, IsFieldMap(map), NEW c \in FilterCondition,
           NEW b \in Builder, NEW r, r = RenderCondition(d, map, b, c)
    PROVE  /\ r \in Rendering
           /\ r.error = ConditionError(map, c)
           /\ r.error = "ok" <=> WellFormed(map, c)
           /\ r.error = "ok" => Advances(d, b, r)
<1>1. c.operator \in FilterOperator /\ c.value \in FilterValue
  BY DEF FilterCondition
<1> DEFINE e == ConditionError(map, c)
<1>2. e \in Verdict /\ (e = "ok" <=> WellFormed(map, c))
  BY ConditionErrors
<1>3. CASE e # "ok"
  <2>1. r = Failed(e, b)
    BY <1>3 DEF RenderCondition
  <2> HIDE DEF e
  <2>2. r \in Rendering /\ r.error = e
    BY <1>2, <2>1, FailedType
  <2> QED
    BY <1>2, <1>3, <2>2 DEF e
<1>4. CASE e = "ok"
  <2>1. r = RenderTest(d, b, map[c.field], c.operator, c.value.items)
    BY <1>4 DEF RenderCondition
  <2>2. c.field \in DOMAIN map /\ ShapeFits(c.operator, c.value)
    BY <1>2, <1>4 DEF WellFormed
  <2>3. map[c.field] \in SqlColumn
    BY <2>2 DEF SqlColumn, IsFieldMap
  <2>4. c.operator \in SetOperators => Len(c.value.items) <= MaxArraySize
    BY <1>2, <1>4 DEF WellFormed
  <2>5. r \in Rendering /\ r.error = "ok" /\ Advances(d, b, r)
    BY <1>1, <2>1, <2>2, <2>3, TestRenders
  <2> QED
    BY <1>2, <1>4, <2>5
<1> QED
  BY <1>3, <1>4

-----------------------------------------------------------------------------
(* Groups.                                                                 *)

(* Joining and nesting texts joins their placeholders.                     *)
LEMMA JoinNested ==
    ASSUME NEW s \in Seq(SqlToken), NEW t \in Seq(SqlToken), NEW op, NEW child,
           NEW u, u = Join(s, Joiner(op), Nested(child, t))
    PROVE  u \in Seq(SqlToken) /\ Placeholders(u) = Placeholders(s) \o Placeholders(t)
<1>0. \A x, y \in Seq(SqlToken) :
        x \o y \in Seq(SqlToken) /\ Placeholders(x \o y) = Placeholders(x) \o Placeholders(y)
  BY PlaceholdersOf
<1>1. ASSUME NEW kind \in {"(", ")", "AND", "OR"}
      PROVE  <<Token(kind)>> \in Seq(SqlToken) /\ Placeholders(<<Token(kind)>>) = <<>>
  <2>1. <<>> \in Seq(Nat) /\ "" \in SqlOperation
    BY DEF SqlOperation
  <2>2. Token(kind) \in SqlToken /\ Token(kind).args = <<>>
    BY <2>1 DEF Token, SqlToken
  <2>3. \A x \in SqlToken : <<x>> \in Seq(SqlToken)
    OBVIOUS
  <2> QED
    BY <2>2, <2>3, PlaceholdersOf
<1>2. \A x \in Seq(Nat) : x \o <<>> = x /\ <<>> \o x = x
  OBVIOUS
<1> DEFINE v == Nested(child, t)
<1>3. v \in Seq(SqlToken) /\ Placeholders(v) = Placeholders(t)
  <2>1. CASE ~(IsGroup(child) /\ t # <<>>)
    BY <2>1 DEF Nested
  <2>2. CASE IsGroup(child) /\ t # <<>>
    <3> DEFINE l == <<Token("(")>>
    <3> DEFINE r == <<Token(")")>>
    <3>1. v = (l \o t) \o r
      BY <2>2 DEF Nested, Parenthesized
    <3>2. l \in Seq(SqlToken) /\ r \in Seq(SqlToken) /\ Placeholders(l) = <<>> /\ Placeholders(r) = <<>>
      BY <1>1
    <3> HIDE DEF l, r, v
    <3>a. l \o t \in Seq(SqlToken) /\ Placeholders(l \o t) = <<>> \o Placeholders(t)
      BY <1>0, <3>2, Zenon
    <3> DEFINE lt == l \o t
    <3> HIDE DEF lt
    <3>c. lt \in Seq(SqlToken)
      BY <3>a DEF lt
    <3>b. lt \o r \in Seq(SqlToken) /\ Placeholders(lt \o r) = Placeholders(lt) \o <<>>
      BY <1>0, <3>2, <3>c, Zenon
    <3>3. v \in Seq(SqlToken) /\ Placeholders(v) = (<<>> \o Placeholders(t)) \o <<>>
      BY <3>1, <3>a, <3>b DEF lt
    <3>4. Placeholders(t) \in Seq(Nat)
      BY PlaceholdersOf
    <3> QED
      BY <1>2, <3>3, <3>4
  <2> QED
    BY <2>1, <2>2
<1> HIDE DEF v
<1>a. u = Join(s, Joiner(op), v)
  BY DEF v
<1>4. u \in Seq(SqlToken) /\ Placeholders(u) = Placeholders(s) \o Placeholders(v)
  <2>0. Placeholders(s) \in Seq(Nat) /\ Placeholders(v) \in Seq(Nat)
    BY <1>3, PlaceholdersOf
  <2>1. CASE v = <<>>
    BY <1>2, <1>a, <2>0, <2>1, PlaceholdersOf DEF Join
  <2>2. CASE v # <<>> /\ s = <<>>
    BY <1>2, <1>3, <1>a, <2>0, <2>2, PlaceholdersOf DEF Join
  <2>3. CASE v # <<>> /\ s # <<>>
    <3> DEFINE j == <<Token(Joiner(op))>>
    <3>1. u = (s \o j) \o v
      BY <1>a, <2>3 DEF Join
    <3>2. j \in Seq(SqlToken) /\ Placeholders(j) = <<>>
      BY <1>1 DEF Joiner
    <3> HIDE DEF j
    <3>a. s \o j \in Seq(SqlToken) /\ Placeholders(s \o j) = Placeholders(s) \o <<>>
      <4>1. s \o j \in Seq(SqlToken) /\ Placeholders(s \o j) = Placeholders(s) \o Placeholders(j)
        BY <1>0, <3>2, Zenon
      <4> QED
        BY <3>2, <4>1, Zenon
    <3> DEFINE sj == s \o j
    <3> HIDE DEF sj
    <3>c. sj \in Seq(SqlToken)
      BY <3>a DEF sj
    <3>b. sj \o v \in Seq(SqlToken) /\ Placeholders(sj \o v) = Placeholders(sj) \o Placeholders(v)
      BY <1>0, <1>3, <3>c, Zenon
    <3>3. u \in Seq(SqlToken) /\ Placeholders(u) = (Placeholders(s) \o <<>>) \o Placeholders(v)
      BY <3>1, <3>a, <3>b DEF sj
    <3> QED
      BY <1>2, <2>0, <3>3
  <2> QED
    BY <2>1, <2>2, <2>3
<1> QED
  BY <1>3, <1>4 DEF v

(* What has been rendered of a group, before, and its child i.             *)
Extended(node, children, i, before) ==
    LET r == children[i][before.builder]
    IN  IF before.error # "ok" THEN before
        ELSE [r EXCEPT !.sql = Join(before.sql, Joiner(node.operator),
                                    Nested(node.conditions[i], r.sql))]

(* A rendering that goes on from before to r: their texts, one after the   *)
(* other, and the parameters of r; an error before it stays.               *)
Continues(q, before, r) ==
    /\ r \in Rendering /\ q \in Rendering
    /\ before.error = "ok" =>
          /\ q.error = r.error
          /\ q.builder = r.builder
          /\ Placeholders(q.sql) = Placeholders(before.sql) \o Placeholders(r.sql)

(* Extending what was rendered before by a child goes on to that child.    *)
LEMMA ExtendedType ==
    ASSUME NEW node, NEW children \in Seq([Builder -> Rendering]), NEW i \in 1..Len(children),
           NEW before \in Rendering, NEW r, r = children[i][before.builder],
           NEW q, q = Extended(node, children, i, before)
    PROVE  Continues(q, before, r)
<1>1. before.builder \in Builder /\ before.sql \in Seq(SqlToken)
  BY DEF Rendering
<1>2. children[i] \in [Builder -> Rendering]
  OBVIOUS
<1>3. r \in Rendering /\ r.sql \in Seq(SqlToken)
  BY <1>1, <1>2 DEF Rendering
<1> DEFINE u == Join(before.sql, Joiner(node.operator), Nested(node.conditions[i], r.sql))
<1>4. u \in Seq(SqlToken) /\ Placeholders(u) = Placeholders(before.sql) \o Placeholders(r.sql)
  <2> DEFINE s == before.sql
  <2> DEFINE t == r.sql
  <2> DEFINE child == node.conditions[i]
  <2> DEFINE op == node.operator
  <2>1. s \in Seq(SqlToken) /\ t \in Seq(SqlToken) /\ u = Join(s, Joiner(op), Nested(child, t))
    BY <1>1, <1>3
  <2> HIDE DEF s, t, child, op, u
  <2>2. u \in Seq(SqlToken) /\ Placeholders(u) = Placeholders(s) \o Placeholders(t)
    BY <2>1, JoinNested, SMT
  <2> QED
    BY <2>2 DEF s, t
<1> HIDE DEF u
<1> DEFINE e == [r EXCEPT !.sql = u]
<1>5. e \in Rendering /\ e.error = r.error /\ e.builder = r.builder /\ e.sql = u
  BY <1>3, <1>4 DEF Rendering
<1>6. q = IF before.error # "ok" THEN before ELSE e
  BY DEF Extended, e, u
<1> HIDE DEF e
<1> QED
  BY <1>3, <1>4, <1>5, <1>6 DEF Continues

(* The renderings of the first children of a group, from b on.             *)
RendersFirst(done, node, children, b) ==
    /\ done \in [0..Len(children) -> Rendering]
    /\ done[0] = Rendered(<<>>, b)
    /\ \A i \in 1..Len(children) : done[i] = Extended(node, children, i, done[i - 1])

(* Rendering a group renders its children in turn.                         *)
LEMMA GroupRendering ==
    ASSUME NEW node, NEW children \in Seq([Builder -> Rendering]), NEW b \in Builder
    PROVE  \E done : /\ RendersFirst(done, node, children, b)
                     /\ RenderGroup(node, children)[b] = done[Len(children)]
<1> DEFINE n == Len(children)
<1> DEFINE v == Rendered(<<>>, b)
<1> DEFINE G == [x \in (1..n) \X Rendering |-> Extended(node, children, x[1], x[2])]
<1>1. n \in Nat
  OBVIOUS
<1>2. v \in Rendering
  <2>1. <<>> \in Seq(SqlToken)
    OBVIOUS
  <2> DEFINE sql == <<>>
  <2> HIDE DEF sql
  <2>2. Rendered(sql, b) \in Rendering
    BY <2>1, RenderedType DEF sql
  <2> QED
    BY <2>2 DEF sql
<1>3. G \in [(1..n) \X Rendering -> Rendering]
  <2>1. ASSUME NEW x \in (1..n) \X Rendering PROVE Extended(node, children, x[1], x[2]) \in Rendering
    <3>1. x[1] \in 1..n /\ x[2] \in Rendering
      OBVIOUS
    <3> DEFINE i == x[1]
    <3> DEFINE before == x[2]
    <3> DEFINE q == Extended(node, children, i, before)
    <3> DEFINE r == children[i][before.builder]
    <3>2. i \in 1..Len(children) /\ before \in Rendering
      BY <3>1
    <3> HIDE DEF i, before
    <3>3. q = Extended(node, children, i, before) /\ r = children[i][before.builder]
      OBVIOUS
    <3> HIDE DEF q, r
    <3>4. Continues(q, before, r)
      BY <3>2, <3>3, ExtendedType, SMT
    <3> QED
      BY <3>4 DEF q, i, before, Continues
  <2> QED
    BY <2>1
<1>4. \A i \in 1..n, q \in Rendering : G[<<i, q>>] = Extended(node, children, i, q)
  OBVIOUS
<1> HIDE DEF G, v, n
<1>5. PICK f : Iterates(f, n, Rendering, v, G)
  BY <1>1, <1>2, <1>3, NatRecursion
<1>6. f \in [0..n -> Rendering] /\ f[0] = v /\ \A i \in 1..n : f[i] = G[<<i, f[i - 1]>>]
  BY <1>5 DEF Iterates
<1>7. \A i \in 1..n : i - 1 \in 0..n /\ f[i - 1] \in Rendering /\ f[i] = Extended(node, children, i, f[i - 1])
  <2> SUFFICES ASSUME NEW i \in 1..n
               PROVE  i - 1 \in 0..n /\ f[i - 1] \in Rendering /\ f[i] = Extended(node, children, i, f[i - 1])
    OBVIOUS
  <2>1. i - 1 \in 0..n
    BY <1>1
  <2>2. f[i - 1] \in Rendering
    BY <1>6, <2>1
  <2> QED
    BY <1>4, <1>6, <2>1, <2>2
<1>8. RendersFirst(f, node, children, b)
  BY <1>6, <1>7 DEF RendersFirst, n, v
<1> DEFINE Body(done, i) == IF i = 0 THEN v ELSE Extended(node, children, i, done[i - 1])
<1>9. f = [i \in 0..n |-> Body(f, i)]
  <2>1. \A i \in 0..n : f[i] = Body(f, i)
    <3> TAKE i \in 0..n
    <3>1. i = 0 \/ i \in 1..n
      BY <1>1
    <3>2. i \in 1..n => i # 0
      OBVIOUS
    <3> QED
      BY <1>6, <1>7, <3>1, <3>2
  <2> HIDE DEF Body
  <2> QED
    BY <1>6, <2>1
<1>10. \E g : g = [i \in 0..n |-> Body(g, i)]
  <2> HIDE DEF Body
  <2> QED
    BY <1>9
<1> DEFINE g == CHOOSE g : g = [i \in 0..n |-> Body(g, i)]
<1>11. g = [i \in 0..n |-> Body(g, i)]
  <2> HIDE DEF Body
  <2> QED
    BY <1>10
<1>12. RenderGroup(node, children)[b] = g[n]
  BY DEF RenderGroup, Extended, n, v
<1> HIDE DEF g
<1>13. \A i \in 0..n : g[i] = Body(g, i)
  <2> HIDE DEF Body
  <2> QED
    BY <1>11
<1> DEFINE S == {m \in Nat : m \in 0..n => g[m] = f[m]}
<1>14. \A m \in Nat : m \in S
  <2>1. 0 \in S
    BY <1>6, <1>13
  <2>2. ASSUME NEW m \in Nat, m \in S PROVE m + 1 \in S
    <3>1. SUFFICES ASSUME m + 1 \in 0..n PROVE g[m + 1] = f[m + 1]
      OBVIOUS
    <3>2. m \in 0..n /\ m + 1 \in 1..n /\ m + 1 # 0 /\ (m + 1) - 1 = m
      BY <1>1, <3>1
    <3>3. g[m + 1] = Extended(node, children, m + 1, g[m])
      BY <1>13, <3>1, <3>2
    <3>4. f[m + 1] = Extended(node, children, m + 1, f[m])
      BY <1>7, <3>2
    <3> QED
      BY <2>2, <3>2, <3>3, <3>4
  <2> HIDE DEF S
  <2> QED
    BY <2>1, <2>2, NatInd
<1>15. g[n] = f[n]
  BY <1>1, <1>14
<1> QED
  BY <1>8, <1>12, <1>15 DEF n

(* A rendering on top of another goes on where that one ended.             *)
LEMMA AdvancesOn ==
    ASSUME NEW d, NEW b \in Builder, NEW p \in Rendering, NEW r \in Rendering, NEW e,
           Advances(d, b, p), Advances(d, p.builder, r),
           e.builder = r.builder, Placeholders(e.sql) = Placeholders(p.sql) \o Placeholders(r.sql)
    PROVE  Advances(d, b, e)
<1>1. PICK k \in Nat : /\ p.builder.next = b.next + k
                       /\ Len(p.builder.params) = Len(b.params) + k
                       /\ Placeholders(p.sql) = Numbers(d, b.next, k)
  BY DEF Advances
<1>2. PICK l \in Nat : /\ r.builder.next = p.builder.next + l
                       /\ Len(r.builder.params) = Len(p.builder.params) + l
                       /\ Placeholders(r.sql) = Numbers(d, p.builder.next, l)
  BY DEF Advances
<1>3. b.next \in Nat /\ Len(b.params) \in Nat
  BY DEF Builder
<1>4. Placeholders(e.sql) = Numbers(d, b.next, k + l)
  <2>1. Placeholders(e.sql) = Numbers(d, b.next, k) \o Numbers(d, b.next + k, l)
    BY <1>1, <1>2
  <2> QED
    BY <1>3, <2>1, NumbersConcat
<1>5. k + l \in Nat
  OBVIOUS
<1>6. e.builder.next = b.next + (k + l) /\ Len(e.builder.params) = Len(b.params) + (k + l)
  <2>1. \A x, y, z, n, m \in Nat : y = x + n /\ z = y + m => z = x + (n + m)
    OBVIOUS
  <2>2. p.builder.next \in Nat /\ Len(p.builder.params) \in Nat
    BY <1>1, <1>3
  <2>3. r.builder.next \in Nat /\ Len(r.builder.params) \in Nat
    BY <1>2, <2>2
  <2>4. r.builder.next = b.next + (k + l)
    BY <1>1, <1>2, <1>3, <2>1, <2>2, <2>3
  <2>5. Len(r.builder.params) = Len(b.params) + (k + l)
    <3> DEFINE x == Len(b.params)
    <3> DEFINE y == Len(p.builder.params)
    <3> DEFINE z == Len(r.builder.params)
    <3>1. x \in Nat /\ y \in Nat /\ z \in Nat /\ y = x + k /\ z = y + l
      BY <1>1, <1>2, <1>3, <2>2, <2>3
    <3> HIDE DEF x, y, z
    <3>2. z = x + (k + l)
      BY <3>1
    <3> QED
      BY <3>2 DEF x, z
  <2> QED
    BY <2>4, <2>5
<1> QED
  BY <1>4, <1>5, <1>6 DEF Advances

(* A group renders as its children do, one on top of the other.            *)
LEMMA GroupRenders ==
    ASSUME NEW d, NEW map, NEW node \in FilterNode, IsGroup(node),
           NEW children \in Seq([Builder -> Rendering]),
           Len(children) = Len(node.conditions),
           \A i \in 1..Len(children) : Renders(d, map, node.conditions[i], children[i])
    PROVE  Renders(d, map, node, RenderGroup(node, children))
<1> DEFINE n == Len(children)
<1>1. n \in Nat /\ DOMAIN node.conditions = 1..n
  BY FilterCases DEF FilterGroup
<1> HIDE DEF n
<1>2. ConditionsOf[node] = UNION {ConditionsOf[node.conditions[i]] : i \in 1..n}
  BY <1>1, ConditionsOfDef
<1> DEFINE Ok(i) == \A c \in ConditionsOf[node.conditions[i]] : WellFormed(map, c)
<1> DEFINE Bad(i, error) == Fault(map, node.conditions[i], error)
<1>3. /\ (\A c \in ConditionsOf[node] : WellFormed(map, c)) <=> \A i \in 1..n : Ok(i)
      /\ \A i \in 1..n, error \in Verdict : Bad(i, error) => Fault(map, node, error)
  BY <1>2 DEF Fault
<1>4. ASSUME NEW b \in Builder
      PROVE  LET q == RenderGroup(node, children)[b]
             IN  /\ q \in Rendering
                 /\ q.error = "ok" <=> \A c \in ConditionsOf[node] : WellFormed(map, c)
                 /\ q.error # "ok" => Fault(map, node, q.error)
                 /\ q.error = "ok" => Advances(d, b, q)
  <2>1. PICK done : /\ RendersFirst(done, node, children, b)
                    /\ RenderGroup(node, children)[b] = done[n]
    BY GroupRendering DEF n
  <2>2. /\ done \in [0..n -> Rendering] /\ done[0] = Rendered(<<>>, b)
        /\ \A i \in 1..n : done[i] = Extended(node, children, i, done[i - 1])
    BY <2>1 DEF RendersFirst, n
  <2> DEFINE Good(m) ==
        /\ done[m].error = "ok" <=> \A i \in 1..m : Ok(i)
        /\ done[m].error # "ok" => \E i \in 1..m : Bad(i, done[m].error)
        /\ done[m].error = "ok" => Advances(d, b, done[m])
  <2> HIDE DEF Ok, Bad
  <2> DEFINE S == {m \in Nat : m <= n => Good(m)}
  <2>3. 0 \in S
    <3>1. 1..0 = {}
      OBVIOUS
    <3>2. done[0].error = "ok" /\ done[0].sql = <<>> /\ done[0].builder = b
      BY <2>2 DEF Rendered
    <3>3. Placeholders(done[0].sql) = Numbers(d, b.next, 0)
      <4>1. Numbers(d, b.next, 0) = <<>>
        BY DEF Numbers
      <4> QED
        BY <3>2, <4>1, PlaceholdersOf
    <3>4. b.next = b.next + 0 /\ Len(b.params) = Len(b.params) + 0
      BY DEF Builder
    <3>5. Advances(d, b, done[0])
      BY <3>2, <3>3, <3>4 DEF Advances
    <3> QED
      BY <3>1, <3>2, <3>5
  <2>4. ASSUME NEW m \in Nat, m \in S PROVE m + 1 \in S
    <3>1. SUFFICES ASSUME m + 1 <= n PROVE Good(m + 1)
      OBVIOUS
    <3>2. /\ m + 1 \in 1..n /\ (m + 1) - 1 = m /\ m \in 0..n /\ m <= n
          /\ 1..(m + 1) = (1..m) \cup {m + 1}
      BY <1>1, <3>1
    <3>3. Good(m)
      BY <2>4, <3>2
    <3> DEFINE p == done[m]
    <3> DEFINE e == done[m + 1]
    <3> DEFINE r == children[m + 1][p.builder]
    <3>4. p \in Rendering /\ p.builder \in Builder
      BY <2>2, <3>2 DEF Rendering
    <3>5. e = Extended(node, children, m + 1, p)
      BY <2>2, <3>2
    <3>6. CASE p.error # "ok"
      <4>1. e = p
        BY <3>5, <3>6 DEF Extended
      <4>2. (\E i \in 1..(m + 1) : Bad(i, e.error)) /\ ~\A i \in 1..(m + 1) : Ok(i)
        BY <3>2, <3>3, <3>6, <4>1
      <4> QED
        BY <3>6, <4>1, <4>2
    <3>7. CASE p.error = "ok"
      <4>1. m + 1 \in 1..Len(children)
        BY <3>2 DEF n
      <4>2. /\ r \in Rendering /\ e.error = r.error /\ e.builder = r.builder
            /\ Placeholders(e.sql) = Placeholders(p.sql) \o Placeholders(r.sql)
        <5> DEFINE j == m + 1
        <5>1. r = children[j][p.builder] /\ j \in 1..Len(children) /\ e = Extended(node, children, j, p)
          BY <3>5, <4>1
        <5> HIDE DEF p, e, r, j
        <5>2. Continues(e, p, r)
          BY <3>4, <5>1, ExtendedType, SMT
        <5> QED
          BY <3>7, <5>2 DEF Continues
      <4>3. /\ r.error = "ok" <=> Ok(m + 1)
            /\ r.error # "ok" => Bad(m + 1, r.error)
            /\ r.error = "ok" => Advances(d, p.builder, r)
        BY <3>4, <4>1 DEF Renders, Ok, Bad
      <4>4. e.error = "ok" <=> \A i \in 1..(m + 1) : Ok(i)
        BY <3>2, <3>3, <3>7, <4>2, <4>3
      <4>5. ASSUME e.error = "ok" PROVE Advances(d, b, e)
        <5>1. Advances(d, b, p) /\ Advances(d, p.builder, r)
          BY <3>3, <3>7, <4>2, <4>3, <4>5
        <5> HIDE DEF p, e, r
        <5> QED
          BY <3>4, <4>2, <5>1, AdvancesOn, Zenon
      <4>6. e.error # "ok" => \E i \in 1..(m + 1) : Bad(i, e.error)
        BY <3>2, <4>2, <4>3
      <4> QED
        BY <4>4, <4>5, <4>6
    <3> QED
      BY <3>6, <3>7
  <2> HIDE DEF S
  <2>5. n \in S
    BY <1>1, <2>3, <2>4, NatInd
  <2>6. Good(n)
    BY <1>1, <2>5 DEF S
  <2>7. done[n] \in Rendering /\ done[n].error \in Verdict
    BY <1>1, <2>2 DEF Rendering
  <2>8. done[n].error # "ok" => Fault(map, node, done[n].error)
    BY <1>3, <2>6, <2>7
  <2> QED
    BY <1>3, <2>1, <2>6, <2>7, <2>8
<1>5. RenderGroup(node, children) \in [Builder -> Rendering]
  <2>1. RenderGroup(node, children) = [b \in Builder |-> RenderGroup(node, children)[b]]
    BY DEF RenderGroup
  <2> QED
    BY <1>4, <2>1
<1> QED
  BY <1>4, <1>5 DEF Renders

(* A group renders to a function of the builder, whatever its children do. *)
LEMMA GroupRenderingType ==
    ASSUME NEW node, NEW children \in Seq([Builder -> Rendering])
    PROVE  RenderGroup(node, children) \in [Builder -> Rendering]
<1>1. ASSUME NEW b \in Builder PROVE RenderGroup(node, children)[b] \in Rendering
  <2>1. PICK done : /\ RendersFirst(done, node, children, b)
                    /\ RenderGroup(node, children)[b] = done[Len(children)]
    BY GroupRendering
  <2>2. Len(children) \in 0..Len(children)
    OBVIOUS
  <2> QED
    BY <2>1, <2>2 DEF RendersFirst
<1>2. RenderGroup(node, children) = [b \in Builder |-> RenderGroup(node, children)[b]]
  BY DEF RenderGroup
<1> QED
  BY <1>1, <1>2

(* A filter compiles exactly when all of its conditions are well formed,   *)
(* and refers to the parameters that it binds.                             *)
LEMMA NodeRenders ==
    ASSUME NEW d \in Dialects, NEW map, IsFieldMap(map), NEW node \in FilterNode
    PROVE  Renders(d, map, node, RenderNode(d, map, node))
<1> DEFINE V == [Builder -> Rendering]
<1> DEFINE Alone(x) == [b \in Builder |-> RenderCondition(d, map, b, x)]
<1> DEFINE G == [x \in FilterNode \X Seq(V) |->
                    IF IsGroup(x[1]) THEN RenderGroup(x[1], x[2]) ELSE Alone(x[1])]
<1> DEFINE Body(f, x) ==
        IF IsGroup(x) THEN RenderGroup(x, [i \in DOMAIN x.conditions |-> f[x.conditions[i]]])
        ELSE Alone(x)
<1>1. ASSUME NEW x \in FilterCondition PROVE Alone(x) \in V
  <2>1. ASSUME NEW b \in Builder PROVE RenderCondition(d, map, b, x) \in Rendering
    <3> DEFINE r == RenderCondition(d, map, b, x)
    <3>1. r = RenderCondition(d, map, b, x)
      OBVIOUS
    <3> HIDE DEF r
    <3>2. r \in Rendering
      BY <3>1, ConditionRenders, SMT
    <3> QED
      BY <3>2 DEF r
  <2> QED
    BY <2>1
<1>2. G \in [FilterNode \X Seq(V) -> V]
  <2>1. ASSUME NEW x \in FilterNode \X Seq(V)
        PROVE  (IF IsGroup(x[1]) THEN RenderGroup(x[1], x[2]) ELSE Alone(x[1])) \in V
    <3>1. x[1] \in FilterNode /\ x[2] \in Seq(V)
      OBVIOUS
    <3>2. RenderGroup(x[1], x[2]) \in V
      BY <3>1, GroupRenderingType
    <3>3. ~IsGroup(x[1]) => x[1] \in FilterCondition
      BY <3>1, FilterCases
    <3> HIDE DEF Alone
    <3> QED
      BY <1>1, <3>2, <3>3
  <2> HIDE DEF Alone
  <2> QED
    BY <2>1
<1>3. PICK f : FoldsFilters(f, V, G)
  <2> HIDE DEF V, G
  <2> QED
    BY <1>2, FilterRecursion
<1>4. \A x \in FilterNode : f[x] = Body(f, x)
  <2> SUFFICES ASSUME NEW x \in FilterNode PROVE f[x] = Body(f, x)
    OBVIOUS
  <2> HIDE DEF V, Alone
  <2>1. Kids(x, f) \in Seq(V)
    BY <1>3, FilterCases DEF FoldsFilters, Kids, FilterGroup
  <2>2. f[x] = G[<<x, Kids(x, f)>>]
    BY <1>3 DEF FoldsFilters
  <2>3. G[<<x, Kids(x, f)>>] = IF IsGroup(x) THEN RenderGroup(x, Kids(x, f)) ELSE Alone(x)
    BY <2>1
  <2> HIDE DEF G
  <2>4. IsGroup(x) => Kids(x, f) = [i \in DOMAIN x.conditions |-> f[x.conditions[i]]]
    BY DEF Kids
  <2> QED
    BY <2>2, <2>3, <2>4
<1>5. f = [x \in FilterNode |-> Body(f, x)]
  <2>1. f = [x \in FilterNode |-> f[x]]
    BY <1>3 DEF FoldsFilters
  <2> HIDE DEF Body
  <2> QED
    BY <2>1, <1>4
<1>6. \E g : g = [x \in FilterNode |-> Body(g, x)]
  <2> HIDE DEF Body
  <2> QED
    BY <1>5
<1> DEFINE g == CHOOSE g : g = [x \in FilterNode |-> Body(g, x)]
<1>7. g = [x \in FilterNode |-> Body(g, x)]
  <2> HIDE DEF Body
  <2> QED
    BY <1>6
<1>8. \A x \in FilterNode : RenderNode(d, map, x) = g[x]
  BY DEF RenderNode
<1> HIDE DEF g
<1>9. \A x \in FilterNode : g[x] = Body(g, x)
  <2> HIDE DEF Body
  <2> QED
    BY <1>7
<1> DEFINE S == {x \in FilterNode : Renders(d, map, x, g[x])}
<1>10. FilterCondition \subseteq S
  <2> SUFFICES ASSUME NEW x \in FilterCondition PROVE x \in S
    OBVIOUS
  <2>1. x \in FilterNode /\ ~IsGroup(x)
    <3>1. Nesting \in 0..Nesting /\ 0 \in 0..Nesting
      BY NestingAssumption
    <3>2. FilterCondition \subseteq FilterNode
      BY <3>1, FilterNodesGrow, FilterNodesDef DEF FilterNode
    <3>3. ~IsGroup(x)
      BY DEF FilterCondition, IsGroup
    <3> QED
      BY <3>2, <3>3
  <2>2. g[x] = Alone(x)
    BY <1>9, <2>1
  <2>3. ConditionsOf[x] = {x}
    BY <2>1, ConditionsOfDef
  <2>4. ASSUME NEW b \in Builder
        PROVE  /\ g[x][b].error = "ok" <=> WellFormed(map, x)
               /\ g[x][b].error = ConditionError(map, x)
               /\ g[x][b].error = "ok" => Advances(d, b, g[x][b])
    <3> DEFINE r == g[x][b]
    <3>1. r = RenderCondition(d, map, b, x)
      BY <2>2
    <3> HIDE DEF r
    <3>2. /\ r.error = "ok" <=> WellFormed(map, x)
          /\ r.error = ConditionError(map, x)
          /\ r.error = "ok" => Advances(d, b, r)
      BY <3>1, ConditionRenders, SMT
    <3> QED
      BY <3>2 DEF r
  <2>5. g[x] \in V
    BY <1>1, <2>2
  <2>6. Renders(d, map, x, g[x])
    BY <2>3, <2>4, <2>5 DEF Renders, Fault
  <2> QED
    BY <2>1, <2>6
<1>11. ASSUME NEW x \in FilterNode, IsGroup(x),
              \A i \in DOMAIN x.conditions : x.conditions[i] \in S
       PROVE  x \in S
  <2> DEFINE kids == [i \in DOMAIN x.conditions |-> g[x.conditions[i]]]
  <2>1. g[x] = RenderGroup(x, kids)
    BY <1>9, <1>11
  <2>2. \A i \in DOMAIN x.conditions : Renders(d, map, x.conditions[i], g[x.conditions[i]])
    BY <1>11
  <2>3. DOMAIN x.conditions = 1..Len(x.conditions) /\ Len(x.conditions) \in Nat
    BY <1>11, FilterCases DEF FilterGroup
  <2>4. /\ kids \in Seq(V) /\ Len(kids) = Len(x.conditions)
        /\ \A i \in 1..Len(kids) : Renders(d, map, x.conditions[i], kids[i])
    <3>1. \A i \in DOMAIN x.conditions : g[x.conditions[i]] \in V
      BY <2>2 DEF Renders
    <3> HIDE DEF V
    <3> QED
      BY <2>2, <2>3, <3>1
  <2> HIDE DEF kids
  <2>5. Renders(d, map, x, RenderGroup(x, kids))
    BY <1>11, <2>4, GroupRenders
  <2> QED
    BY <2>1, <2>5
<1>12. FilterNode \subseteq S
  <2> HIDE DEF S
  <2> QED
    BY <1>10, <1>11, FilterInduction
<1> QED
  BY <1>8, <1>12

-----------------------------------------------------------------------------
(* Compiling.                                                              *)

(* The fragments q of a query: it compiles exactly when its conditions are *)
(* well formed and its sort fields have columns, and then its placeholders *)
(* are those of its parameters; otherwise the error is that of a condition *)
(* or of the sort.                                                         *)
CompilesTo(q, d, map, start, node, sort) ==
    LET sorted == \A i \in DOMAIN sort : sort[i].field \in DOMAIN map
    IN  /\ q.error = "ok" <=> (\A c \in ConditionsOf[node] : WellFormed(map, c)) /\ sorted
        /\ q.error = "ok" =>
              Placeholders(q.where) = [k \in DOMAIN q.params |-> Placeholder(d, start + k - 1)]
        /\ q.error # "ok" =>
              Fault(map, node, q.error) \/ (q.error = "UnmappedField" /\ ~sorted)

(* Compile makes such fragments.                                           *)
LEMMA CompileResult ==
    ASSUME NEW d \in Dialects, NEW map, IsFieldMap(map), NEW start \in Nat \ {0},
           NEW node \in FilterNode, NEW sort, NEW limit,
           NEW q, q = Compile(d, map, start, node, sort, limit)
    PROVE  CompilesTo(q, d, map, start, node, sort)
<1> DEFINE b == Params(start)
<1> DEFINE f == RenderNode(d, map, node)
<1> DEFINE r == f[b]
<1> DEFINE order == RenderOrderBy(map, sort)
<1>1. b \in Builder /\ b.next = start /\ Len(b.params) = 0
  <2>1. ~(start < 1)
    OBVIOUS
  <2>2. b = [next |-> start, params |-> <<>>]
    BY <2>1 DEF Params
  <2>3. b \in Builder
    <3>1. \A P : [next |-> start, params |-> <<>>] \in [next : Nat \ {0}, params : Seq(P)]
      OBVIOUS
    <3> QED
      BY <2>2, <3>1 DEF Builder
  <2> QED
    BY <2>2, <2>3
<1>2. Renders(d, map, node, f)
  BY NodeRenders
<1> HIDE DEF b, f
<1>3. /\ r \in Rendering
      /\ r.error = "ok" <=> \A c \in ConditionsOf[node] : WellFormed(map, c)
      /\ r.error # "ok" => Fault(map, node, r.error)
      /\ r.error = "ok" => Advances(d, b, r)
  BY <1>1, <1>2 DEF Renders
<1>4. /\ order.error = "ok" <=> \A i \in DOMAIN sort : sort[i].field \in DOMAIN map
      /\ order.error # "ok" => order.error = "UnmappedField"
  BY DEF RenderOrderBy
<1>5. /\ q.error = IF r.error # "ok" THEN r.error ELSE order.error
      /\ q.where = r.sql /\ q.params = r.builder.params
  BY DEF Compile, b, f
<1> HIDE DEF r, order
<1>6. q.error = "ok" <=> r.error = "ok" /\ order.error = "ok"
  BY <1>5
<1>7. ASSUME q.error = "ok"
      PROVE  Placeholders(q.where) = [k \in DOMAIN q.params |-> Placeholder(d, start + k - 1)]
  <2>1. PICK n \in Nat : /\ Len(r.builder.params) = Len(b.params) + n
                         /\ Placeholders(r.sql) = Numbers(d, b.next, n)
    BY <1>3, <1>6, <1>7 DEF Advances
  <2>2. Len(q.params) = n
    BY <1>1, <1>5, <2>1
  <2>3. DOMAIN q.params = 1..n
    <3>1. r.builder \in Builder
      BY <1>3 DEF Rendering
    <3> QED
      BY <1>5, <2>2, <3>1 DEF Builder
  <2> QED
    BY <1>1, <1>5, <2>1, <2>3 DEF Numbers
<1> QED
  BY <1>3, <1>4, <1>5, <1>6, <1>7 DEF CompilesTo

=============================================================================
