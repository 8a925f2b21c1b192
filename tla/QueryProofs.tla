----------------------------- MODULE QueryProofs -----------------------------
(***************************************************************************)
(* QueryProofs: the theorems about queries.  Of QueryCompile: what compile *)
(* binds and what it refuses, for every filter nested up to Nesting.  Of   *)
(* ListQuery: what an accepted request asks for, that nothing of it is     *)
(* dropped, and that it compiles, for every request of up to MaxPairs      *)
(* pairs.  Each state machine has an inductive invariant (QCInv, LQInv)    *)
(* that says what its variables hold in terms of its input; the lemmas on  *)
(* rendering and on recursion over filters are those of SqlFragmentsProofs.*)
(***************************************************************************)
EXTENDS QueryCompile, ListQuery, SqlFragmentsProofs

-----------------------------------------------------------------------------
(* QueryCompile.                                                           *)

(* What has been compiled is what the query compiles to.                   *)
QCInv ==
    /\ filter \in FilterNode
    /\ composed \in BOOLEAN
    /\ DOMAIN fragments \subseteq Dialects
    /\ \A d \in DOMAIN fragments :
          fragments[d] = Compile(d, FieldMap, StartParam, filter, Sort, Limit)

(* No step changes the filter or what was compiled for another dialect.    *)
THEOREM CompilingInvariant == QCSpec => []QCInv
<1>1. QCInit => QCInv
  <2> SUFFICES ASSUME QCInit PROVE QCInv
    OBVIOUS
  <2>1. filter \in FilterNode /\ composed \in BOOLEAN
    BY FiltersAssumption DEF QCInit
  <2>2. DOMAIN fragments = {}
    BY DEF QCInit
  <2> QED
    BY <2>1, <2>2 DEF QCInv
<1>2. QCInv /\ [QCNext]_qcVars => QCInv'
  <2> SUFFICES ASSUME QCInv, [QCNext]_qcVars PROVE QCInv'
    OBVIOUS
  <2>1. ASSUME NEW d \in Dialects, CompileFor(d) PROVE QCInv'
    <3> DEFINE q == Compile(d, FieldMap, StartParam, filter, Sort, Limit)
    <3>1. filter' = filter /\ composed' = composed /\ StartParam' = StartParam
      BY <2>1 DEF CompileFor, StartParam
    <3>2. fragments' = [e \in DOMAIN fragments \cup {d} |-> IF e = d THEN q ELSE fragments[e]]
      BY <2>1 DEF CompileFor
    <3> DEFINE Result(e) == Compile(e, FieldMap, StartParam, filter, Sort, Limit)
    <3>q. q = Result(d)
      OBVIOUS
    <3>r. \A e : Compile(e, FieldMap, StartParam, filter, Sort, Limit)' = Result(e)
      BY <3>1 DEF StartParam
    <3>i. \A e \in DOMAIN fragments : fragments[e] = Result(e)
      BY DEF QCInv
    <3> HIDE DEF q, Result
    <3>3. /\ DOMAIN fragments' = DOMAIN fragments \cup {d}
          /\ \A e \in DOMAIN fragments : fragments'[e] = fragments[e]
          /\ fragments'[d] = q
      <4>1. d \notin DOMAIN fragments
        BY <2>1 DEF CompileFor
      <4> QED
        BY <3>2, <4>1
    <3>4. \A e \in DOMAIN fragments' : fragments'[e] = Result(e)
      BY <3>3, <3>q, <3>i
    <3>5. DOMAIN fragments' \subseteq Dialects /\ filter' \in FilterNode /\ composed' \in BOOLEAN
      BY <3>1, <3>3 DEF QCInv
    <3> QED
      BY <3>4, <3>5, <3>r DEF QCInv
  <2>2. CASE UNCHANGED qcVars
    <3>1. filter' = filter /\ composed' = composed /\ fragments' = fragments
      BY <2>2 DEF qcVars
    <3> QED
      BY <3>1 DEF QCInv, StartParam
  <2> QED
    BY <2>1, <2>2 DEF QCNext
<1> QED
  BY <1>1, <1>2, PTL DEF QCSpec

(* The field map has columns with names.                                   *)
LEMMA Columns == IsFieldMap(FieldMap)
BY ColumnsAssumption DEF IsFieldMap

(* Each fragment refers to its parameters, all of them and in their order, *)
(* from the number on that the caller of compile() said: a consumer's      *)
(* statement keeps its own.                                                *)
THEOREM CompiledPlaceholders == QCSpec => []PlaceholdersMatchParams
<1>1. QCInv => PlaceholdersMatchParams
  <2> SUFFICES ASSUME QCInv, NEW d \in Compiled
               PROVE  Placeholders(Fragment(d).where) =
                        [k \in DOMAIN Fragment(d).params |-> Placeholder(d, StartParam + k - 1)]
    BY DEF PlaceholdersMatchParams
  <2> DEFINE q == fragments[d]
  <2> DEFINE start == StartParam
  <2>1. d \in DOMAIN fragments /\ q.error = "ok" /\ d \in Dialects
    BY DEF Compiled, QCInv
  <2>2. filter \in FilterNode /\ start \in Nat \ {0}
    BY DEF QCInv, StartParam
  <2>3. q = Compile(d, FieldMap, start, filter, Sort, Limit)
    BY <2>1 DEF QCInv
  <2> HIDE DEF q, start
  <2>4. CompilesTo(q, d, FieldMap, start, filter, Sort)
    BY <2>1, <2>2, <2>3, Columns, CompileResult, SMT
  <2> QED
    BY <2>1, <2>4 DEF q, start, Fragment, CompilesTo
<1> QED
  BY <1>1, CompilingInvariant, PTL

(* A query compiles in either dialect exactly when every condition of its  *)
(* filter is well formed, however deep it stands, and the sort fields have *)
(* columns.                                                                *)
THEOREM CompiledExactly == QCSpec => []CompilesWhenWellFormed
<1>1. QCInv => CompilesWhenWellFormed
  <2> SUFFICES ASSUME QCInv, NEW d \in DOMAIN fragments
               PROVE  d \in Compiled <=>
                        /\ \A c \in ConditionsOf[filter] : WellFormed(FieldMap, c)
                        /\ \A i \in DOMAIN Sort : Sort[i].field \in DOMAIN FieldMap
    BY DEF CompilesWhenWellFormed
  <2> DEFINE q == fragments[d]
  <2> DEFINE start == StartParam
  <2> DEFINE node == filter
  <2>1. d \in Dialects /\ node \in FilterNode /\ start \in Nat \ {0}
    BY DEF QCInv, StartParam
  <2>2. q = Compile(d, FieldMap, start, node, Sort, Limit)
    BY DEF QCInv
  <2>3. d \in Compiled <=> q.error = "ok"
    BY DEF Compiled
  <2> HIDE DEF q, start, node
  <2>4. CompilesTo(q, d, FieldMap, start, node, Sort)
    BY <2>1, <2>2, Columns, CompileResult, SMT
  <2> QED
    BY <2>3, <2>4 DEF q, node, CompilesTo
<1> QED
  BY <1>1, CompilingInvariant, PTL

-----------------------------------------------------------------------------
(* Sort values.                                                            *)

SortClause == [field : STRING, direction : {"asc", "desc"}]
ClauseOf(part) == [field |-> part.field, direction |-> IF part.dash THEN "desc" ELSE "asc"]
Blank(parts, j) == parts[j].field = ""
NonBlank(parts, k) == {j \in 1..k : ~Blank(parts, j)}

(* The parts that are not blank, up to one and to the next.                *)
LEMMA NonBlankGrows ==
    ASSUME NEW parts, NEW k \in Nat
    PROVE  /\ IsFiniteSet(NonBlank(parts, k)) /\ Cardinality(NonBlank(parts, k)) \in Nat
           /\ NonBlank(parts, 0) = {}
           /\ IF Blank(parts, k + 1) THEN NonBlank(parts, k + 1) = NonBlank(parts, k)
              ELSE /\ NonBlank(parts, k + 1) = NonBlank(parts, k) \cup {k + 1}
                   /\ Cardinality(NonBlank(parts, k + 1)) = Cardinality(NonBlank(parts, k)) + 1
<1> DEFINE B == NonBlank(parts, k)
<1>0. B \in SUBSET (1..k) /\ k + 1 \notin B
  BY DEF NonBlank
<1>1. B \in SUBSET (1..k) /\ IsFiniteSet(1..k) /\ k + 1 \notin B
  BY <1>0, FS_Interval
<1>2. NonBlank(parts, 0) = {}
  BY DEF NonBlank
<1>3. 1..(k + 1) = (1..k) \cup {k + 1}
  OBVIOUS
<1>4. IF Blank(parts, k + 1) THEN NonBlank(parts, k + 1) = B
      ELSE NonBlank(parts, k + 1) = B \cup {k + 1}
  BY <1>3 DEF NonBlank
<1> HIDE DEF B
<1>5. IsFiniteSet(B) /\ Cardinality(B) \in Nat
  BY <1>1, FS_Subset, FS_CardinalityType
<1>6. Cardinality(B \cup {k + 1}) = Cardinality(B) + 1
  BY <1>1, <1>5, FS_AddElement
<1> QED
  BY <1>2, <1>4, <1>5, <1>6 DEF B

(* The sequence s has the clauses of the first k parts, in their order.    *)
HasClauses(s, parts, k) ==
    /\ s \in Seq(SortClause)
    /\ Len(s) = Cardinality(NonBlank(parts, k))
    /\ \A j \in NonBlank(parts, k) :
          /\ Cardinality(NonBlank(parts, j)) \in 1..Len(s)
          /\ s[Cardinality(NonBlank(parts, j))] = ClauseOf(parts[j])

(* One more clause stands last.                                            *)
LEMMA ClauseAppended ==
    ASSUME NEW parts, NEW k \in Nat, ~Blank(parts, k + 1),
           NEW part \in SortPart, part = parts[k + 1], NEW s, HasClauses(s, parts, k)
    PROVE  HasClauses(Append(s, ClauseOf(part)), parts, k + 1)
<1> DEFINE c == ClauseOf(part)
<1> DEFINE t == Append(s, c)
<1>1. c \in SortClause
  BY DEF ClauseOf, SortClause, SortPart
<1> HIDE DEF c
<1>2. s \in Seq(SortClause)
  BY DEF HasClauses
<1>3. /\ t \in Seq(SortClause) /\ Len(t) = Len(s) + 1 /\ Len(s) \in Nat
      /\ \A i \in 1..Len(s) : t[i] = s[i]
      /\ t[Len(s) + 1] = c
  <2> DEFINE Y == SortClause
  <2>1. c \in Y /\ s \in Seq(Y) /\ t = Append(s, c)
    BY <1>1, <1>2
  <2> HIDE DEF Y, t
  <2>2. t \in Seq(Y) /\ Len(t) = Len(s) + 1 /\ Len(s) \in Nat
    BY <2>1
  <2>3. \A i \in 1..Len(s) : t[i] = s[i]
    BY <2>1
  <2>4. t[Len(s) + 1] = c
    BY <2>1
  <2> QED
    BY <2>2, <2>3, <2>4 DEF Y
<1> HIDE DEF t
<1>4. /\ NonBlank(parts, k + 1) = NonBlank(parts, k) \cup {k + 1}
      /\ Cardinality(NonBlank(parts, k + 1)) = Cardinality(NonBlank(parts, k)) + 1
  BY NonBlankGrows
<1>5. Len(t) = Cardinality(NonBlank(parts, k + 1))
  BY <1>3, <1>4 DEF HasClauses
<1>6. ASSUME NEW j \in NonBlank(parts, k + 1)
      PROVE  /\ Cardinality(NonBlank(parts, j)) \in 1..Len(t)
             /\ t[Cardinality(NonBlank(parts, j))] = ClauseOf(parts[j])
  <2>1. CASE j \in NonBlank(parts, k)
    <3> DEFINE i == Cardinality(NonBlank(parts, j))
    <3>1. i \in 1..Len(s) /\ s[i] = ClauseOf(parts[j])
      BY <2>1 DEF HasClauses
    <3> HIDE DEF i
    <3>2. \A m, l \in Nat : i \in 1..m /\ l = m + 1 => i \in 1..l
      OBVIOUS
    <3>3. i \in 1..Len(t) /\ t[i] = s[i]
      <4>1. Len(t) \in Nat /\ Len(s) \in Nat /\ Len(t) = Len(s) + 1
        BY <1>3
      <4> QED
        BY <1>3, <3>1, <3>2, <4>1
    <3> QED
      BY <3>1, <3>3 DEF i
  <2>2. CASE j = k + 1
    <3>1. Len(t) \in 1..Len(t) /\ Len(t) = Len(s) + 1
      <4>1. \A m, l \in Nat : l = m + 1 => l \in 1..l
        OBVIOUS
      <4>2. Len(t) \in Nat /\ Len(s) \in Nat /\ Len(t) = Len(s) + 1
        BY <1>3
      <4> QED
        BY <4>1, <4>2
    <3> QED
      BY <1>3, <1>5, <2>2, <3>1 DEF c
  <2> QED
    BY <1>4, <2>1, <2>2
<1>7. HasClauses(t, parts, k + 1)
  BY <1>3, <1>5, <1>6 DEF HasClauses
<1> QED
  BY <1>7 DEF t, c

(* A sort value parses to the clauses of all of its parts.                 *)
LEMMA SortValueParses ==
    ASSUME NEW parts \in Seq(SortPart)
    PROVE  HasClauses(ParseSortValue(parts), parts, Len(parts))
<1> DEFINE n == Len(parts)
<1> DEFINE V == Seq(SortClause)
<1> DEFINE Step(i, s) == IF Blank(parts, i) THEN s ELSE Append(s, ClauseOf(parts[i]))
<1> DEFINE G == [x \in (1..n) \X V |-> Step(x[1], x[2])]
<1>1. n \in Nat /\ \A i \in 1..n : parts[i] \in SortPart
  OBVIOUS
<1>2. <<>> \in V
  OBVIOUS
<1>3. G \in [(1..n) \X V -> V]
  <2>1. ASSUME NEW x \in (1..n) \X V PROVE Step(x[1], x[2]) \in V
    <3>1. x[1] \in 1..n /\ x[2] \in V
      OBVIOUS
    <3>2. ClauseOf(parts[x[1]]) \in SortClause
      BY <1>1, <3>1 DEF ClauseOf, SortClause, SortPart
    <3> DEFINE c == ClauseOf(parts[x[1]])
    <3> DEFINE s == x[2]
    <3> DEFINE Y == SortClause
    <3>3. c \in Y /\ s \in Seq(Y)
      BY <3>1, <3>2
    <3> HIDE DEF c, s, Y
    <3>4. Append(s, c) \in Seq(Y)
      BY <3>3
    <3>5. Append(x[2], ClauseOf(parts[x[1]])) \in V
      BY <3>4 DEF c, s, Y
    <3> QED
      BY <3>1, <3>5
  <2> HIDE DEF Step
  <2> QED
    BY <2>1
<1>4. \A i \in 1..n, s \in V : G[<<i, s>>] = Step(i, s)
  OBVIOUS
<1> HIDE DEF G, V, n
<1> DEFINE e == <<>>
<1>e. e \in V
  BY <1>2
<1> HIDE DEF e
<1>5. PICK f : Iterates(f, n, V, e, G)
  BY <1>1, <1>e, <1>3, NatRecursion
<1>6. f \in [0..n -> V] /\ f[0] = e /\ \A i \in 1..n : f[i] = Step(i, f[i - 1])
  <2>1. f \in [0..n -> V] /\ f[0] = e /\ \A i \in 1..n : f[i] = G[<<i, f[i - 1]>>]
    BY <1>5 DEF Iterates
  <2>2. \A i \in 1..n : i - 1 \in 0..n
    BY <1>1
  <2>3. \A i \in 1..n : f[i - 1] \in V
    BY <2>1, <2>2
  <2> HIDE DEF Step
  <2> QED
    BY <1>4, <2>1, <2>3
<1> DEFINE Body(g, i) == IF i = 0 THEN <<>> ELSE Step(i, g[i - 1])
<1>7. f = [i \in 0..n |-> Body(f, i)]
  <2>1. \A i \in 0..n : f[i] = Body(f, i)
    <3> TAKE i \in 0..n
    <3>1. (i = 0 \/ i \in 1..n) /\ (i \in 1..n => i # 0)
      BY <1>1
    <3> HIDE DEF Step
    <3> QED
      BY <1>6, <3>1 DEF e
  <2> HIDE DEF Body
  <2> QED
    BY <1>6, <2>1
<1>8. \E g : g = [i \in 0..n |-> Body(g, i)]
  <2> HIDE DEF Body
  <2> QED
    BY <1>7
<1> DEFINE g == CHOOSE g : g = [i \in 0..n |-> Body(g, i)]
<1>9. g = [i \in 0..n |-> Body(g, i)]
  <2> HIDE DEF Body
  <2> QED
    BY <1>8
<1>10. ParseSortValue(parts) = g[n]
  BY DEF ParseSortValue, ClauseOf, Blank, n
<1> HIDE DEF g
<1>11. \A i \in 0..n : g[i] = Body(g, i)
  <2> HIDE DEF Body
  <2> QED
    BY <1>9
<1> DEFINE S == {k \in Nat : k <= n => HasClauses(g[k], parts, k)}
<1>12. 0 \in S
  <2>0. 0 \in 0..n
    BY <1>1
  <2> DEFINE s == g[0]
  <2>1. s = <<>>
    <3>1. g[0] = Body(g, 0)
      BY <1>11, <2>0
    <3> HIDE DEF g
    <3> QED
      BY <3>1
  <2>2. NonBlank(parts, 0) = {} /\ Cardinality({}) = 0
    BY NonBlankGrows, FS_EmptySet
  <2> HIDE DEF s
  <2>3. s \in Seq(SortClause) /\ Len(s) = 0
    BY <2>1
  <2>4. HasClauses(s, parts, 0)
    BY <2>2, <2>3 DEF HasClauses
  <2> QED
    BY <2>4 DEF s
<1>13. ASSUME NEW k \in Nat, k \in S PROVE k + 1 \in S
  <2>1. SUFFICES ASSUME k + 1 <= n PROVE HasClauses(g[k + 1], parts, k + 1)
    OBVIOUS
  <2>2. k + 1 \in 0..n /\ k + 1 \in 1..n /\ k + 1 # 0 /\ (k + 1) - 1 = k /\ k <= n
    BY <1>1, <2>1
  <2>3. HasClauses(g[k], parts, k)
    BY <1>13, <2>2
  <2>4. g[k + 1] = Step(k + 1, g[k])
    <3> HIDE DEF Step
    <3> QED
      BY <1>11, <2>2
  <2>5. CASE Blank(parts, k + 1)
    <3>1. NonBlank(parts, k + 1) = NonBlank(parts, k)
      BY <2>5, NonBlankGrows
    <3> QED
      BY <2>3, <2>4, <2>5, <3>1 DEF HasClauses
  <2>6. CASE ~Blank(parts, k + 1)
    <3>1. g[k + 1] = Append(g[k], ClauseOf(parts[k + 1]))
      BY <2>4, <2>6
    <3>2. parts[k + 1] \in SortPart
      BY <1>1, <2>2
    <3> QED
      BY <2>3, <2>6, <3>1, <3>2, ClauseAppended
  <2> QED
    BY <2>5, <2>6
<1> HIDE DEF S
<1>14. \A k \in Nat : k \in S
  BY <1>12, <1>13, NatInd, Zenon
<1> QED
  BY <1>1, <1>10, <1>14 DEF S, n

-----------------------------------------------------------------------------
(* What has been gathered from the pairs g.                                *)

PairsFor(g, keys) == {i \in DOMAIN g : g[i].key \in keys}
CursorsFor(g) == {i \in PairsFor(g, CursorKeys) : g[i].cursor # ""}

(* One more pair is one for its own keys only.                             *)
Appends(h, g, p) ==
    /\ h \in Seq(Pair) /\ Len(g) \in Nat
    /\ DOMAIN g = 1..Len(g) /\ DOMAIN h = 1..(Len(g) + 1)
    /\ \A i \in 1..Len(g) : h[i] = g[i]
    /\ h[Len(g) + 1] = p

(* A pair read is appended to those given.                                 *)
LEMMA PairAppended ==
    ASSUME NEW g \in Seq(Pair), NEW p \in Pair
    PROVE  Appends(Append(g, p), g, p)
<1> DEFINE Y == Pair
<1> DEFINE h == Append(g, p)
<1>1. g \in Seq(Y) /\ p \in Y
  OBVIOUS
<1> HIDE DEF Y
<1>2. h \in Seq(Y) /\ Len(g) \in Nat /\ DOMAIN g = 1..Len(g) /\ DOMAIN h = 1..(Len(g) + 1)
  BY <1>1
<1>3. (\A i \in 1..Len(g) : h[i] = g[i]) /\ h[Len(g) + 1] = p
  BY <1>1
<1> QED
  BY <1>2, <1>3 DEF Appends, Y

(* The pairs for some keys stay, and a pair read joins them if it is one.  *)
LEMMA PairsGrow ==
    ASSUME NEW h, NEW g, NEW p, Appends(h, g, p), NEW keys
    PROVE  /\ PairsFor(g, keys) \subseteq 1..Len(g)
           /\ \A i \in PairsFor(g, keys) : h[i] = g[i] /\ i <= Len(g)
           /\ Len(g) + 1 \notin PairsFor(g, keys)
           /\ PairsFor(h, keys) =
                IF p.key \in keys THEN PairsFor(g, keys) \cup {Len(g) + 1} ELSE PairsFor(g, keys)
<1> DEFINE n == Len(g)
<1>1. n \in Nat /\ DOMAIN g = 1..n /\ DOMAIN h = (1..n) \cup {n + 1} /\ n + 1 \notin 1..n
  BY DEF Appends
<1>2. (\A i \in 1..n : h[i] = g[i]) /\ h[n + 1] = p
  BY DEF Appends
<1> HIDE DEF n
<1>3. \A i \in 1..n : i <= n
  BY <1>1
<1>4. PairsFor(g, keys) \subseteq 1..n
  BY <1>1 DEF PairsFor
<1>5. PairsFor(h, keys) =
        IF p.key \in keys THEN PairsFor(g, keys) \cup {n + 1} ELSE PairsFor(g, keys)
  BY <1>1, <1>2 DEF PairsFor
<1> QED
  BY <1>1, <1>2, <1>3, <1>4, <1>5 DEF n

(* The variable v has the value of the last pair for some keys, if any.    *)
LatestNumber(g, keys, v) ==
    \/ PairsFor(g, keys) = {} /\ v = None
    \/ \E i \in LastOf(PairsFor(g, keys)) : v = g[i].number
LatestCursor(g, v) ==
    \/ CursorsFor(g) = {} /\ v = None
    \/ \E i \in LastOf(CursorsFor(g)) : v = g[i].cursor

(* The pair read is the last one for its keys.                             *)
LEMMA NumberRead ==
    ASSUME NEW h, NEW g, NEW p, Appends(h, g, p), NEW keys, NEW v, LatestNumber(g, keys, v)
    PROVE  IF p.key \in keys THEN LatestNumber(h, keys, p.number) ELSE LatestNumber(h, keys, v)
<1> DEFINE S == PairsFor(g, keys)
<1> DEFINE n == Len(g)
<1>1. n \in Nat /\ S \subseteq 1..n /\ (\A i \in S : h[i] = g[i] /\ i <= n) /\ h[n + 1] = p
  BY PairsGrow DEF Appends
<1>2. PairsFor(h, keys) = IF p.key \in keys THEN S \cup {n + 1} ELSE S
  BY PairsGrow
<1>3. CASE p.key \in keys
  <2>1. \A i \in 1..n : i <= n + 1
    BY <1>1
  <2> HIDE DEF S, n
  <2>2. n + 1 \in LastOf(S \cup {n + 1})
    BY <1>1, <2>1 DEF LastOf
  <2> QED
    BY <1>1, <1>2, <1>3, <2>2 DEF LatestNumber
<1>4. CASE p.key \notin keys
  <2>1. PairsFor(h, keys) = S
    BY <1>2, <1>4
  <2>2. CASE S = {} /\ v = None
    BY <1>4, <2>1, <2>2 DEF LatestNumber
  <2>3. CASE \E i \in LastOf(S) : v = g[i].number
    <3>1. PICK i \in LastOf(S) : v = g[i].number
      BY <2>3
    <3>2. i \in S
      BY <3>1 DEF LastOf
    <3>3. h[i] = g[i]
      BY <1>1, <3>2
    <3> HIDE DEF S
    <3> QED
      BY <1>4, <2>1, <3>1, <3>3 DEF LatestNumber
  <2> QED
    BY <2>2, <2>3 DEF LatestNumber
<1> QED
  BY <1>3, <1>4

(* The cursor read is the last one, unless it is blank.                    *)
LEMMA CursorRead ==
    ASSUME NEW h, NEW g, NEW p, Appends(h, g, p), NEW v, LatestCursor(g, v)
    PROVE  IF p.key \in CursorKeys /\ p.cursor # "" THEN LatestCursor(h, p.cursor)
           ELSE LatestCursor(h, v)
<1> DEFINE S == CursorsFor(g)
<1> DEFINE n == Len(g)
<1> DEFINE T == PairsFor(g, CursorKeys)
<1>1. n \in Nat /\ T \subseteq 1..n /\ (\A i \in T : h[i] = g[i] /\ i <= n) /\ h[n + 1] = p
  BY PairsGrow DEF Appends
<1>2. PairsFor(h, CursorKeys) = IF p.key \in CursorKeys THEN T \cup {n + 1} ELSE T
  BY PairsGrow
<1>3. S = {i \in T : g[i].cursor # ""} /\ CursorsFor(h) = {i \in PairsFor(h, CursorKeys) : h[i].cursor # ""}
  BY DEF CursorsFor
<1> HIDE DEF S, T, n
<1>4. CursorsFor(h) = IF p.key \in CursorKeys /\ p.cursor # "" THEN S \cup {n + 1} ELSE S
  BY <1>1, <1>2, <1>3
<1>5. S \subseteq 1..n /\ \A i \in S : h[i] = g[i] /\ i <= n
  BY <1>1, <1>3
<1>6. CASE p.key \in CursorKeys /\ p.cursor # ""
  <2>1. \A i \in 1..n : i <= n + 1
    BY <1>1
  <2>2. n + 1 \in LastOf(S \cup {n + 1})
    <3>1. n + 1 <= n + 1 /\ S \subseteq 1..n
      BY <1>1, <1>5
    <3>2. \A k \in S \cup {n + 1} : k <= n + 1
      BY <2>1, <3>1
    <3> QED
      BY <3>2 DEF LastOf
  <2>3. n + 1 \in LastOf(CursorsFor(h))
    BY <1>4, <1>6, <2>2
  <2>4. LatestCursor(h, p.cursor)
    BY <1>1, <2>3 DEF LatestCursor
  <2> QED
    BY <1>6, <2>4
<1>7. CASE ~(p.key \in CursorKeys /\ p.cursor # "")
  <2>1. CursorsFor(h) = S
    BY <1>4, <1>7
  <2>2. CASE S = {} /\ v = None
    BY <1>7, <2>1, <2>2 DEF LatestCursor
  <2>3. CASE \E i \in LastOf(S) : v = g[i].cursor
    <3>1. PICK i \in LastOf(S) : v = g[i].cursor
      BY <2>3
    <3>2. i \in S
      BY <3>1 DEF LastOf
    <3>3. h[i] = g[i]
      BY <1>5, <3>2
    <3> QED
      BY <1>7, <2>1, <3>1, <3>3 DEF LatestCursor
  <2> QED
    BY <2>2, <2>3 DEF LatestCursor, S
<1> QED
  BY <1>6, <1>7

(* The condition c is the one that the filter pair p asks for.             *)
ConditionOf(p) ==
    Condition(p.brackets[1], KeyOperator(p.brackets),
              ParseFilterValue(p.literals, KeyOperator(p.brackets)))
Shaped(c) == c.value.shape = IF c.operator \in SetOperators THEN "list" ELSE "scalar"
Asks(c, p) ==
    /\ c.field = p.brackets[1]
    /\ Len(p.brackets) = 2 => c.operator = p.brackets[2]
    /\ c.operator \in SetOperators => Len(c.value.items) = Len(p.literals)

(* What a literal reads as is a scalar.                                    *)
LEMMA ScalarParsed ==
    ASSUME NEW literal \in STRING
    PROVE  ParseScalar(literal) \in FilterScalar
<1> DEFINE x == ParseScalar(literal)
<1>1. CASE literal \in {"true", "false", "null"}
  BY <1>1 DEF ParseScalar, FilterScalar
<1>2. CASE literal \notin {"true", "false", "null"} /\ literal \in DOMAIN Numerals
  <2>1. x = Number(Numerals[literal])
    BY <1>2 DEF ParseScalar
  <2>2. Numerals[literal] \in Int
    BY <1>2, NumeralsAssumption
  <2> QED
    BY <2>1, <2>2 DEF Number, FilterScalar
<1>3. CASE literal \notin {"true", "false", "null"} /\ literal \notin DOMAIN Numerals
  <2>1. x = Text(<<literal>>)
    BY <1>3 DEF ParseScalar
  <2>2. <<literal>> \in Seq(STRING)
    <3>1. \A Y : \A y \in Y : <<y>> \in Seq(Y)
      OBVIOUS
    <3> QED
      BY <3>1, Zenon
  <2> QED
    BY <2>1, <2>2 DEF Text, FilterScalar
<1> QED
  BY <1>1, <1>2, <1>3

(* A filter pair that is not refused makes the condition that it asks for. *)
LEMMA ConditionMade ==
    ASSUME NEW p \in Pair, p.key = "filter", FilterKeyError(p.brackets) = "ok",
           NEW c, c = ConditionOf(p)
    PROVE  c \in FilterCondition /\ Shaped(c) /\ Asks(c, p)
<1> DEFINE parts == p.brackets
<1> DEFINE literals == p.literals
<1> DEFINE op == KeyOperator(parts)
<1> DEFINE value == ParseFilterValue(literals, op)
<1>1. parts \in Seq(STRING) /\ literals \in Seq(STRING) /\ literals # <<>>
  BY DEF Pair, SizeKeys, NumberKeys, OffsetKeys, CursorKeys
<1>2. FilterKeyError(parts) = "ok"
  OBVIOUS
<1>3. c = [kind |-> "condition", field |-> parts[1], operator |-> op, value |-> value]
  BY DEF ConditionOf, Condition
<1> HIDE DEF parts, literals
<1>4. Len(parts) \in {1, 2} /\ (Len(parts) = 2 => parts[2] \in FilterOperator)
  BY <1>2 DEF FilterKeyError
<1>5. parts[1] \in STRING
  BY <1>1, <1>4
<1>6. op \in FilterOperator /\ (Len(parts) = 2 => op = parts[2])
  BY <1>4 DEF KeyOperator, FilterOperator, EqualityOperators
<1>7. /\ Len(literals) \in Nat /\ Len(literals) # 0
      /\ DOMAIN literals = 1..Len(literals)
      /\ \A i \in 1..Len(literals) : literals[i] \in STRING
  BY <1>1
<1> HIDE DEF op
<1>8. CASE op \in SetOperators
  <2> DEFINE xs == [i \in DOMAIN literals |-> ParseScalar(literals[i])]
  <2>1. value = List(xs)
    BY <1>8 DEF ParseFilterValue
  <2>2. \A i \in 1..Len(literals) : xs[i] \in FilterScalar
    BY <1>7, ScalarParsed
  <2>3. xs = [i \in 1..Len(literals) |-> xs[i]]
    BY <1>7
  <2> HIDE DEF xs
  <2>4. xs \in Seq(FilterScalar) /\ Len(xs) = Len(literals)
    BY <1>7, <2>2, <2>3
  <2>5. value \in FilterValue /\ value.shape = "list" /\ value.items = xs
    BY <2>1, <2>4 DEF List, FilterValue
  <2> HIDE DEF value
  <2>6. c \in FilterCondition /\ Shaped(c)
    BY <1>3, <1>5, <1>6, <1>8, <2>5 DEF FilterCondition, Shaped
  <2>7. Asks(c, p)
    BY <1>3, <1>6, <2>4, <2>5 DEF Asks, parts, literals
  <2> QED
    BY <2>6, <2>7
<1>9. CASE op \notin SetOperators
  <2> DEFINE x == IF Len(literals) = 1 THEN ParseScalar(literals[1]) ELSE Text(literals)
  <2>1. value = Scalar(x)
    BY <1>9 DEF ParseFilterValue
  <2>2. x \in FilterScalar
    <3>1. CASE Len(literals) = 1
      <4>1. literals[1] \in STRING
        BY <1>7, <3>1
      <4> QED
        BY <3>1, <4>1, ScalarParsed
    <3>2. CASE Len(literals) # 1
      BY <1>1, <3>2 DEF Text, FilterScalar
    <3> QED
      BY <3>1, <3>2
  <2> HIDE DEF x
  <2>3. value \in FilterValue /\ value.shape = "scalar"
    <3> DEFINE xs == <<x>>
    <3>1. xs \in [1..1 -> FilterScalar]
      BY <2>2
    <3> HIDE DEF xs
    <3>2. value = [shape |-> "scalar", items |-> xs]
      BY <2>1 DEF Scalar, xs
    <3> QED
      BY <3>1, <3>2 DEF FilterValue
  <2> HIDE DEF value
  <2>4. c \in FilterCondition /\ Shaped(c)
    BY <1>3, <1>5, <1>6, <1>9, <2>3 DEF FilterCondition, Shaped
  <2>5. Asks(c, p)
    BY <1>3, <1>6, <1>9 DEF Asks, parts
  <2> QED
    BY <2>4, <2>5
<1> QED
  BY <1>8, <1>9

(* The conditions f are those of the filter pairs of g, in their order.    *)
FiltersOf(g, f) ==
    LET A == PairsFor(g, {"filter"})
    IN  /\ f \in Seq(FilterCondition)
        /\ Len(f) = Cardinality(A)
        /\ \A i \in A : Rank(A, i) \in 1..Len(f) /\ Asks(f[Rank(A, i)], g[i])
        /\ \A k \in 1..Len(f) : Shaped(f[k])

(* The rank of an element is not changed by greater ones.                  *)
LEMMA Ranks ==
    ASSUME NEW n \in Nat, NEW S \in SUBSET (1..n)
    PROVE  /\ IsFiniteSet(S) /\ Cardinality(S) \in Nat
           /\ Cardinality(S \cup {n + 1}) = Cardinality(S) + 1
           /\ \A i \in S : Rank(S \cup {n + 1}, i) = Rank(S, i)
           /\ Rank(S \cup {n + 1}, n + 1) = Cardinality(S) + 1
<1>1. IsFiniteSet(1..n) /\ n + 1 \notin S
  <2>1. IsFiniteSet(1..n)
    BY FS_Interval
  <2>2. n + 1 \notin 1..n
    OBVIOUS
  <2> QED
    BY <2>1, <2>2
<1>2. IsFiniteSet(S) /\ Cardinality(S) \in Nat
  BY <1>1, FS_Subset, FS_CardinalityType
<1>3. Cardinality(S \cup {n + 1}) = Cardinality(S) + 1
  BY <1>1, <1>2, FS_AddElement
<1>4. ASSUME NEW i \in S PROVE Rank(S \cup {n + 1}, i) = Rank(S, i)
  <2>1. ~(n + 1 <= i)
    OBVIOUS
  <2>2. {k \in S \cup {n + 1} : k <= i} = {k \in S : k <= i}
    BY <2>1
  <2> QED
    BY <2>2 DEF Rank
<1>5. Rank(S \cup {n + 1}, n + 1) = Cardinality(S) + 1
  <2>0. (\A k \in 1..n : k <= n + 1) /\ n + 1 <= n + 1
    OBVIOUS
  <2>1. \A k \in S \cup {n + 1} : k <= n + 1
    BY <2>0
  <2>2. {k \in S \cup {n + 1} : k <= n + 1} = S \cup {n + 1}
    BY <2>1
  <2> QED
    BY <1>3, <2>2 DEF Rank
<1> QED
  BY <1>2, <1>3, <1>4, <1>5

(* The condition of a filter pair read stands last.                        *)
LEMMA FilterRead ==
    ASSUME NEW h, NEW g, NEW p \in Pair, Appends(h, g, p), NEW f, FiltersOf(g, f)
    PROVE  /\ p.key # "filter" => FiltersOf(h, f)
           /\ p.key = "filter" /\ FilterKeyError(p.brackets) = "ok" =>
                FiltersOf(h, Append(f, ConditionOf(p)))
<1> DEFINE keys == {"filter"}
<1>k. p.key \in keys <=> p.key = "filter"
  OBVIOUS
<1> HIDE DEF keys
<1> DEFINE A == PairsFor(g, keys)
<1> DEFINE n == Len(g)
<1>1. n \in Nat /\ A \subseteq 1..n /\ (\A i \in A : h[i] = g[i]) /\ h[n + 1] = p
  BY PairsGrow DEF Appends
<1>2. PairsFor(h, keys) = IF p.key = "filter" THEN A \cup {n + 1} ELSE A
  BY <1>k, PairsGrow
<1>3. /\ f \in Seq(FilterCondition) /\ Len(f) = Cardinality(A)
      /\ \A i \in A : Rank(A, i) \in 1..Len(f) /\ Asks(f[Rank(A, i)], g[i])
      /\ \A k \in 1..Len(f) : Shaped(f[k])
  BY DEF FiltersOf, keys
<1> HIDE DEF A, n
<1>4. ASSUME p.key # "filter" PROVE FiltersOf(h, f)
  BY <1>1, <1>2, <1>3, <1>4 DEF FiltersOf, keys
<1>5. ASSUME p.key = "filter", FilterKeyError(p.brackets) = "ok"
      PROVE  FiltersOf(h, Append(f, ConditionOf(p)))
  <2> DEFINE c == ConditionOf(p)
  <2>1. c \in FilterCondition /\ Shaped(c) /\ Asks(c, p)
    BY <1>5, ConditionMade
  <2> HIDE DEF c
  <2> DEFINE e == Append(f, c)
  <2>2. /\ e \in Seq(FilterCondition) /\ Len(e) = Len(f) + 1 /\ Len(f) \in Nat
        /\ \A k \in 1..Len(f) : e[k] = f[k]
        /\ e[Len(f) + 1] = c
    BY <1>3, <2>1
  <2> HIDE DEF e
  <2> DEFINE B == A \cup {n + 1}
  <2>3. /\ Cardinality(A) \in Nat /\ Cardinality(B) = Cardinality(A) + 1
        /\ \A i \in A : Rank(B, i) = Rank(A, i)
        /\ Rank(B, n + 1) = Cardinality(A) + 1
    BY <1>1, Ranks
  <2>4. PairsFor(h, keys) = B
    BY <1>2, <1>5
  <2>b. \A i \in B : i \in A \/ i = n + 1
    OBVIOUS
  <2> HIDE DEF B
  <2>5. 1..Len(e) = (1..Len(f)) \cup {Len(f) + 1}
    <3>1. \A x, y \in Nat : y = x + 1 => 1..y = (1..x) \cup {x + 1}
      OBVIOUS
    <3> QED
      BY <2>2, <3>1
  <2>6. ASSUME NEW i \in B PROVE Rank(B, i) \in 1..Len(e) /\ Asks(e[Rank(B, i)], h[i])
    <3>1. CASE i \in A
      <4> DEFINE r == Rank(A, i)
      <4>1. r \in 1..Len(f) /\ Asks(f[r], g[i]) /\ h[i] = g[i] /\ Rank(B, i) = r
        BY <1>1, <1>3, <2>3, <3>1
      <4> HIDE DEF r
      <4> QED
        BY <2>2, <2>5, <4>1
    <3>2. CASE i = n + 1
      <4>1. Rank(B, i) = Len(f) + 1 /\ h[i] = p
        BY <1>1, <1>3, <2>3, <3>2
      <4> QED
        BY <2>1, <2>2, <2>5, <4>1
    <3> QED
      BY <2>b, <3>1, <3>2
  <2>7. \A k \in 1..Len(e) : Shaped(e[k])
    BY <1>3, <2>1, <2>2, <2>5
  <2>8. Len(e) = Cardinality(B)
    BY <1>3, <2>2, <2>3
  <2>9. FiltersOf(h, e)
    BY <2>2, <2>4, <2>6, <2>7, <2>8 DEF FiltersOf, keys
  <2> QED
    BY <2>9 DEF e, c
<1> QED
  BY <1>4, <1>5

(* The clauses of the sort pairs of g, and those up to one.                *)
SortKeys == {"sort"}
PartsFor(g) == UNION {{i} \X DOMAIN g[i].parts : i \in PairsFor(g, SortKeys)}
ClausesFor(g) == {c \in PartsFor(g) : ~Blank(g[c[1]].parts, c[2])}
UpTo(C, c) == {e \in C : e[1] < c[1] \/ (e[1] = c[1] /\ e[2] <= c[2])}

(* The clauses of a sort pair read are those of its parts.                 *)
LEMMA ClausesGrow ==
    ASSUME NEW h, NEW g, NEW p \in Pair, Appends(h, g, p)
    PROVE  /\ \A c \in ClausesFor(g) :
                c[1] \in 1..Len(g) /\ c = <<c[1], c[2]>> /\ h[c[1]] = g[c[1]]
           /\ p.key # "sort" => ClausesFor(h) = ClausesFor(g)
           /\ p.key = "sort" =>
                ClausesFor(h) = ClausesFor(g)
                    \cup ({Len(g) + 1} \X NonBlank(p.parts, Len(p.parts)))
<1> DEFINE S == PairsFor(g, SortKeys)
<1> DEFINE n == Len(g)
<1> DEFINE m == Len(p.parts)
<1> DEFINE Parts(k, i) == {i} \X DOMAIN k[i].parts
<1>1. n \in Nat /\ S \subseteq 1..n /\ (\A i \in S : h[i] = g[i]) /\ h[n + 1] = p
  BY PairsGrow DEF Appends
<1>2. PairsFor(h, SortKeys) = IF p.key = "sort" THEN S \cup {n + 1} ELSE S
  <2>1. p.key \in SortKeys <=> p.key = "sort"
    BY DEF SortKeys
  <2> QED
    BY <2>1, PairsGrow
<1>3. p.key = "sort" => DOMAIN p.parts = 1..m
  BY DEF Pair, SizeKeys, NumberKeys, OffsetKeys, CursorKeys
<1>4. /\ PartsFor(g) = UNION {Parts(g, i) : i \in S}
      /\ PartsFor(h) = UNION {Parts(h, i) : i \in PairsFor(h, SortKeys)}
  BY DEF PartsFor
<1> HIDE DEF S, n, m
<1>5. \A i \in S : Parts(h, i) = Parts(g, i)
  BY <1>1
<1>6. \A c \in PartsFor(g) : c[1] \in S /\ c = <<c[1], c[2]>> /\ h[c[1]] = g[c[1]]
  <2> SUFFICES ASSUME NEW i \in S, NEW c \in Parts(g, i)
               PROVE  c[1] \in S /\ c = <<c[1], c[2]>> /\ h[c[1]] = g[c[1]]
    BY <1>4
  <2>1. c[1] = i /\ c = <<c[1], c[2]>>
    OBVIOUS
  <2> QED
    BY <1>1, <2>1
<1>7. \A c \in PartsFor(g) : Blank(h[c[1]].parts, c[2]) <=> Blank(g[c[1]].parts, c[2])
  BY <1>6
<1>8. ASSUME p.key # "sort" PROVE ClausesFor(h) = ClausesFor(g)
  <2>1. PartsFor(h) = PartsFor(g)
    <3> HIDE DEF Parts
    <3> QED
      BY <1>2, <1>4, <1>5, <1>8
  <2> QED
    BY <1>7, <2>1 DEF ClausesFor
<1>9. ASSUME p.key = "sort"
      PROVE  ClausesFor(h) = ClausesFor(g) \cup ({n + 1} \X NonBlank(p.parts, m))
  <2>1. PartsFor(h) = PartsFor(g) \cup Parts(h, n + 1)
    <3> HIDE DEF Parts
    <3> QED
      BY <1>2, <1>4, <1>5, <1>9
  <2>2. Parts(h, n + 1) = {n + 1} \X (1..m)
    BY <1>1, <1>3, <1>9
  <2> DEFINE N == {c \in {n + 1} \X (1..m) : ~Blank(h[c[1]].parts, c[2])}
  <2>3. N = {n + 1} \X NonBlank(p.parts, m)
    <3>1. \A c \in {n + 1} \X (1..m) :
            Blank(h[c[1]].parts, c[2]) <=> Blank(p.parts, c[2])
      BY <1>1
    <3>2. N = {c \in {n + 1} \X (1..m) : ~Blank(p.parts, c[2])}
      BY <3>1
    <3> HIDE DEF N
    <3>3. \A c : c \in N <=> c \in {n + 1} \X NonBlank(p.parts, m)
      BY <3>2 DEF NonBlank
    <3> QED
      BY <3>3
  <2> HIDE DEF Parts
  <2>4. ClausesFor(h) = ClausesFor(g) \cup N
    BY <1>7, <2>1, <2>2 DEF ClausesFor
  <2> QED
    BY <2>3, <2>4
<1> QED
  BY <1>1, <1>6, <1>8, <1>9 DEF n, m, ClausesFor

(* The clauses D are C and those of the parts B of the pair n, which come  *)
(* after C.                                                                *)
ComeAfter(D, C, n, B) ==
    /\ IsFiniteSet(D) /\ Cardinality(C) \in Nat
    /\ Cardinality(D) = Cardinality(C) + Cardinality(B)
    /\ \A c \in C : UpTo(D, c) = UpTo(C, c)
    /\ \A j \in B :
          Cardinality(UpTo(D, <<n, j>>)) = Cardinality(C) + Cardinality({i \in B : i <= j})

(* Clauses added below all others come after them.                         *)
LEMMA ClauseRanks ==
    ASSUME NEW n \in Nat, NEW C, IsFiniteSet(C), \A c \in C : c[1] \in 1..n,
           NEW k \in Nat, NEW B \in SUBSET (1..k),
           NEW D, D = C \cup ({n + 1} \X B)
    PROVE  ComeAfter(D, C, n + 1, B)
<1>1. ASSUME NEW A \in SUBSET B
      PROVE  /\ IsFiniteSet(C \cup ({n + 1} \X A))
             /\ Cardinality(C \cup ({n + 1} \X A)) = Cardinality(C) + Cardinality(A)
  <2>1. IsFiniteSet(1..k) /\ A \in SUBSET (1..k)
    BY FS_Interval
  <2>2. IsFiniteSet(A) /\ Cardinality(A) \in Nat
    BY <2>1, FS_Subset, FS_CardinalityType
  <2> DEFINE one == {n + 1}
  <2>3. IsFiniteSet(one) /\ Cardinality(one) = 1
    BY FS_Singleton
  <2> HIDE DEF one
  <2> DEFINE N == one \X A
  <2>4. IsFiniteSet(N) /\ Cardinality(N) = 1 * Cardinality(A)
    BY <2>2, <2>3, FS_Product
  <2>5. C \cap N = {}
    <3>1. \A c \in N : c[1] = n + 1
      BY DEF one
    <3>2. n + 1 \notin 1..n
      OBVIOUS
    <3> HIDE DEF N
    <3> QED
      BY <3>1, <3>2
  <2> HIDE DEF N
  <2>6. Cardinality(C) \in Nat /\ Cardinality(C \cap N) = 0
    BY <2>5, FS_CardinalityType, FS_EmptySet
  <2>7. /\ IsFiniteSet(C \cup N)
        /\ Cardinality(C \cup N) = Cardinality(C) + Cardinality(N) - Cardinality(C \cap N)
    BY <2>4, FS_Union
  <2>8. Cardinality(C \cup N) = Cardinality(C) + Cardinality(A)
    BY <2>2, <2>4, <2>6, <2>7
  <2> QED
    BY <2>7, <2>8 DEF N, one
<1>2. Cardinality(C) \in Nat
  BY FS_CardinalityType
<1>3. ASSUME NEW c \in C PROVE UpTo(D, c) = UpTo(C, c)
  <2>1. ~(n + 1 < c[1]) /\ n + 1 # c[1]
    <3>1. \A x \in 1..n : ~(n + 1 < x) /\ n + 1 # x
      OBVIOUS
    <3> QED
      BY <3>1
  <2>2. \A e \in {n + 1} \X B : e[1] = n + 1
    OBVIOUS
  <2>3. \A e \in {n + 1} \X B : ~(e[1] < c[1] \/ (e[1] = c[1] /\ e[2] <= c[2]))
    BY <2>1, <2>2
  <2> QED
    BY <2>3 DEF UpTo
<1>4. ASSUME NEW j \in B
      PROVE  Cardinality(UpTo(D, <<n + 1, j>>)) = Cardinality(C) + Cardinality({i \in B : i <= j})
  <2> DEFINE A == {i \in B : i <= j}
  <2>1. UpTo(D, <<n + 1, j>>) = C \cup ({n + 1} \X A)
    <3> DEFINE Before(e) == e[1] < n + 1 \/ (e[1] = n + 1 /\ e[2] <= j)
    <3>1. UpTo(D, <<n + 1, j>>) = {e \in D : Before(e)}
      BY DEF UpTo
    <3>2. \A e \in C : Before(e)
      <4>1. \A x \in 1..n : x < n + 1
        OBVIOUS
      <4> QED
        BY <4>1
    <3>3. \A e \in {n + 1} \X B : Before(e) <=> e \in {n + 1} \X A
      <4> TAKE e \in {n + 1} \X B
      <4>1. e[1] = n + 1 /\ e[2] \in B /\ e = <<e[1], e[2]>> /\ ~(n + 1 < n + 1)
        OBVIOUS
      <4>2. Before(e) <=> e[2] <= j
        BY <4>1
      <4>3. e \in {n + 1} \X A <=> e[2] \in A
        BY <4>1
      <4> QED
        BY <4>1, <4>2, <4>3
    <3>4. {n + 1} \X A \subseteq {n + 1} \X B
      OBVIOUS
    <3> HIDE DEF Before, A
    <3> QED
      BY <3>1, <3>2, <3>3, <3>4
  <2>2. A \in SUBSET B
    OBVIOUS
  <2> HIDE DEF A
  <2>3. Cardinality(C \cup ({n + 1} \X A)) = Cardinality(C) + Cardinality(A)
    BY <1>1, <2>2
  <2> QED
    BY <2>1, <2>3 DEF A
<1>5. IsFiniteSet(D) /\ Cardinality(D) = Cardinality(C) + Cardinality(B)
  BY <1>1
<1> QED
  BY <1>2, <1>3, <1>4, <1>5 DEF ComeAfter

(* The sort s has the clauses of all sort pairs of g, in their order.      *)
SortOf(g, s) ==
    LET C == ClausesFor(g)
    IN  /\ s \in Seq(SortClause)
        /\ IsFiniteSet(C) /\ Len(s) = Cardinality(C)
        /\ \A c \in C :
              /\ Cardinality(UpTo(C, c)) \in 1..Len(s)
              /\ s[Cardinality(UpTo(C, c))] = ClauseOf(g[c[1]].parts[c[2]])

(* The clauses of a sort pair read stand last, in their order.             *)
LEMMA SortRead ==
    ASSUME NEW h, NEW g, NEW p \in Pair, Appends(h, g, p), NEW s, SortOf(g, s)
    PROVE  /\ p.key # "sort" => SortOf(h, s)
           /\ p.key = "sort" => SortOf(h, s \o ParseSortValue(p.parts))
<1> DEFINE C == ClausesFor(g)
<1> DEFINE n == Len(g)
<1>1. n \in Nat /\ h[n + 1] = p /\ \A c \in C : c[1] \in 1..n /\ h[c[1]] = g[c[1]]
  BY ClausesGrow DEF Appends
<1>2. /\ s \in Seq(SortClause) /\ IsFiniteSet(C) /\ Len(s) = Cardinality(C)
      /\ \A c \in C : /\ Cardinality(UpTo(C, c)) \in 1..Len(s)
                      /\ s[Cardinality(UpTo(C, c))] = ClauseOf(g[c[1]].parts[c[2]])
  BY DEF SortOf
<1>3. p.key # "sort" => ClausesFor(h) = C
  BY ClausesGrow
<1>4. p.key = "sort" => ClausesFor(h) = C \cup ({n + 1} \X NonBlank(p.parts, Len(p.parts)))
  BY ClausesGrow
<1> HIDE DEF C, n
<1>5. ASSUME p.key # "sort" PROVE SortOf(h, s)
  BY <1>1, <1>2, <1>3, <1>5 DEF SortOf
<1>6. ASSUME p.key = "sort" PROVE SortOf(h, s \o ParseSortValue(p.parts))
  <2> DEFINE parts == p.parts
  <2> DEFINE t == ParseSortValue(parts)
  <2> DEFINE k == Len(parts)
  <2> DEFINE B == NonBlank(parts, k)
  <2> DEFINE D == C \cup ({n + 1} \X B)
  <2>1. parts \in Seq(SortPart)
    BY <1>6 DEF Pair, SizeKeys, NumberKeys, OffsetKeys, CursorKeys
  <2>2. k \in Nat /\ B \in SUBSET (1..k)
    BY <2>1 DEF NonBlank
  <2> HIDE DEF parts
  <2>3. /\ t \in Seq(SortClause) /\ Len(t) = Cardinality(B)
        /\ \A j \in B : /\ Cardinality(NonBlank(parts, j)) \in 1..Len(t)
                        /\ t[Cardinality(NonBlank(parts, j))] = ClauseOf(parts[j])
    BY <2>1, SortValueParses DEF HasClauses
  <2>4. \A j \in B : {i \in B : i <= j} = NonBlank(parts, j)
    <3> SUFFICES ASSUME NEW j \in B PROVE {i \in B : i <= j} = NonBlank(parts, j)
      OBVIOUS
    <3>1. j \in 1..k
      BY <2>2
    <3>2. \A i : i \in 1..k /\ i <= j <=> i \in 1..j
      BY <2>2, <3>1
    <3> HIDE DEF k
    <3> QED
      BY <3>2 DEF NonBlank
  <2> HIDE DEF B, k, t
  <2>5. D = C \cup ({n + 1} \X B)
    OBVIOUS
  <2> HIDE DEF D
  <2>6. /\ IsFiniteSet(D) /\ Cardinality(C) \in Nat
        /\ Cardinality(D) = Cardinality(C) + Cardinality(B)
        /\ \A c \in C : UpTo(D, c) = UpTo(C, c)
        /\ \A j \in B : Cardinality(UpTo(D, <<n + 1, j>>))
                            = Cardinality(C) + Cardinality({i \in B : i <= j})
    <3>1. /\ n \in Nat /\ IsFiniteSet(C) /\ (\A c \in C : c[1] \in 1..n)
          /\ k \in Nat /\ B \in SUBSET (1..k)
      BY <1>1, <1>2, <2>2
    <3>2. ComeAfter(D, C, n + 1, B)
      BY <2>5, <3>1, ClauseRanks, Zenon
    <3> QED
      BY <3>2 DEF ComeAfter
  <2>7. ClausesFor(h) = D
    BY <1>4, <1>6 DEF D, B, k, parts
  <2> DEFINE e == s \o t
  <2>8. /\ e \in Seq(SortClause) /\ Len(e) = Len(s) + Len(t)
        /\ Len(s) \in Nat /\ Len(t) \in Nat
        /\ \A i \in 1..Len(s) : e[i] = s[i]
        /\ \A i \in 1..Len(t) : e[Len(s) + i] = t[i]
    <3> DEFINE Y == SortClause
    <3>1. s \in Seq(Y) /\ t \in Seq(Y) /\ e = s \o t
      BY <1>2, <2>3
    <3> HIDE DEF Y, e
    <3>2. /\ e \in Seq(Y) /\ Len(e) = Len(s) + Len(t)
          /\ Len(s) \in Nat /\ Len(t) \in Nat
      BY <3>1
    <3>3. \A i \in 1..Len(s) : e[i] = s[i]
      BY <3>1
    <3>4. \A i \in 1..Len(t) : e[Len(s) + i] = t[i]
      BY <3>1
    <3> QED
      BY <3>2, <3>3, <3>4 DEF Y
  <2> HIDE DEF e
  <2>9. \A a, b \in Nat : \A i \in 1..a : i \in 1..(a + b)
    OBVIOUS
  <2>10. \A a, b \in Nat : \A i \in 1..b : a + i \in 1..(a + b)
    OBVIOUS
  <2>11. ASSUME NEW c \in C
         PROVE  /\ Cardinality(UpTo(D, c)) \in 1..Len(e)
                /\ e[Cardinality(UpTo(D, c))] = ClauseOf(h[c[1]].parts[c[2]])
    <3> DEFINE r == Cardinality(UpTo(C, c))
    <3> DEFINE clause == ClauseOf(g[c[1]].parts[c[2]])
    <3>1. /\ r \in 1..Len(s) /\ s[r] = clause /\ Cardinality(UpTo(D, c)) = r
          /\ ClauseOf(h[c[1]].parts[c[2]]) = clause
      BY <1>1, <1>2, <2>6
    <3> HIDE DEF r, clause
    <3>2. r \in 1..Len(e) /\ e[r] = clause
      BY <2>8, <2>9, <3>1
    <3> QED
      BY <3>1, <3>2
  <2>12. ASSUME NEW j \in B
         PROVE  /\ Cardinality(UpTo(D, <<n + 1, j>>)) \in 1..Len(e)
                /\ e[Cardinality(UpTo(D, <<n + 1, j>>))] = ClauseOf(h[n + 1].parts[j])
    <3> DEFINE r == Cardinality(NonBlank(parts, j))
    <3> DEFINE clause == ClauseOf(parts[j])
    <3>1. r \in 1..Len(t) /\ t[r] = clause /\ Cardinality(UpTo(D, <<n + 1, j>>)) = Len(s) + r
      BY <1>2, <2>3, <2>4, <2>6
    <3>2. ClauseOf(h[n + 1].parts[j]) = clause
      BY <1>1 DEF parts
    <3> HIDE DEF r, clause
    <3>3. Len(s) + r \in 1..Len(e) /\ e[Len(s) + r] = clause
      BY <2>8, <2>10, <3>1
    <3> QED
      BY <3>1, <3>2, <3>3
  <2>13. ASSUME NEW c \in D
         PROVE  /\ Cardinality(UpTo(D, c)) \in 1..Len(e)
                /\ e[Cardinality(UpTo(D, c))] = ClauseOf(h[c[1]].parts[c[2]])
    <3>1. CASE c \in C
      BY <2>11, <3>1
    <3>2. CASE c \in {n + 1} \X B
      <4>1. PICK j \in B : c = <<n + 1, j>>
        BY <3>2
      <4>2. c[1] = n + 1 /\ c[2] = j
        BY <4>1
      <4> QED
        BY <2>12, <4>1, <4>2
    <3> QED
      BY <2>5, <3>1, <3>2
  <2>14. Len(e) = Cardinality(D)
    BY <1>2, <2>3, <2>6, <2>8
  <2>15. SortOf(h, e)
    BY <2>6, <2>7, <2>8, <2>13, <2>14 DEF SortOf
  <2> QED
    BY <2>15 DEF e, t, parts
<1> QED
  BY <1>5, <1>6

-----------------------------------------------------------------------------
(* Validation.                                                             *)

(* The least of some numbers is one of them.                               *)
LEMMA MinIn ==
    ASSUME NEW X \in SUBSET Nat, X # {}
    PROVE  Min(X) \in X
<1> DEFINE S == {k \in Nat : \A x \in 0..k : x \notin X}
<1>1. SUFFICES ASSUME \A x \in X : ~(\A y \in X : x =< y) PROVE FALSE
  BY DEF Min
<1>2. 0 \in S
  <2>1. \A x \in 0..0 : x = 0
    OBVIOUS
  <2>2. 0 \in X => FALSE
    BY <1>1
  <2> QED
    BY <2>1, <2>2
<1>3. ASSUME NEW k \in Nat, k \in S PROVE k + 1 \in S
  <2>1. k + 1 \notin X
    <3>1. SUFFICES ASSUME k + 1 \in X PROVE \A y \in X : k + 1 =< y
      BY <1>1
    <3>2. \A y \in Nat : y \notin 0..k => k + 1 =< y
      OBVIOUS
    <3> QED
      BY <1>3, <3>2
  <2>2. \A x \in 0..(k + 1) : x \in 0..k \/ x = k + 1
    OBVIOUS
  <2> QED
    BY <1>3, <2>1, <2>2
<1> HIDE DEF S
<1>4. \A k \in Nat : k \in S
  BY <1>2, <1>3, NatInd, Zenon
<1>5. \A k \in Nat : k \in 0..k
  OBVIOUS
<1>6. \A k \in Nat : k \notin X
  BY <1>4, <1>5 DEF S
<1> QED
  BY <1>6

(* What validation says of a filter.                                       *)
Validity == {"ok", "UnsupportedFilterField", "OperatorNotAllowed"}

(* A filter passes exactly when each of its conditions does, however deep. *)
ValidatesTo(allowed, node, e) ==
    /\ e \in Validity
    /\ e = "ok" <=> \A c \in ConditionsOf[node] : Refusal(allowed, c) = "ok"

(* Validation does what ValidatesTo says, for every filter.                *)
LEMMA FilterValidated ==
    ASSUME NEW allowed, NEW whole \in FilterNode
    PROVE  ValidatesTo(allowed, whole, ValidateFilter(allowed, whole))
<1> DEFINE Wrong(xs) == {i \in DOMAIN xs : xs[i] # "ok"}
<1> DEFINE First(xs) == IF Wrong(xs) = {} THEN "ok" ELSE xs[Min(Wrong(xs))]
<1> DEFINE Value(node, xs) == IF ~IsGroup(node) THEN Refusal(allowed, node) ELSE First(xs)
<1> DEFINE V == Validity
<1> DEFINE G == [x \in FilterNode \X Seq(V) |-> Value(x[1], x[2])]
<1> DEFINE Body(f, node) ==
        IF ~IsGroup(node) THEN Refusal(allowed, node)
        ELSE LET wrong == {i \in DOMAIN node.conditions : f[node.conditions[i]] # "ok"}
             IN  IF wrong = {} THEN "ok" ELSE f[node.conditions[Min(wrong)]]
<1>1. \A c : Refusal(allowed, c) \in V
  BY DEF Refusal, Validity
<1> HIDE DEF V
<1>2. ASSUME NEW xs, DOMAIN xs \subseteq Nat, Wrong(xs) # {}
      PROVE  Min(Wrong(xs)) \in Wrong(xs)
  <2> DEFINE X == Wrong(xs)
  <2>1. X \in SUBSET Nat /\ X # {}
    BY <1>2
  <2> HIDE DEF X
  <2>2. Min(X) \in X
    BY <2>1, MinIn
  <2> QED
    BY <2>2 DEF X
<1>3. \A xs \in Seq(V) : First(xs) \in V
  <2> SUFFICES ASSUME NEW xs \in Seq(V) PROVE First(xs) \in V
    OBVIOUS
  <2>0. DOMAIN xs \subseteq Nat /\ \A i \in DOMAIN xs : xs[i] \in V
    OBVIOUS
  <2>1. CASE Wrong(xs) = {}
    BY <2>1 DEF V, Validity
  <2>2. CASE Wrong(xs) # {}
    <3> DEFINE i == Min(Wrong(xs))
    <3>1. i \in Wrong(xs)
      BY <1>2, <2>0, <2>2
    <3> HIDE DEF i
    <3>2. xs[i] \in V
      BY <2>0, <3>1
    <3> QED
      BY <2>2, <3>2 DEF i
  <2> QED
    BY <2>1, <2>2
<1>4. G \in [FilterNode \X Seq(V) -> V]
  <2>1. ASSUME NEW x \in FilterNode \X Seq(V) PROVE Value(x[1], x[2]) \in V
    <3> HIDE DEF First
    <3> QED
      BY <1>1, <1>3
  <2> HIDE DEF Value
  <2> QED
    BY <2>1
<1>5. PICK f : FoldsFilters(f, V, G)
  <2> HIDE DEF V, G
  <2> QED
    BY <1>4, FilterRecursion
<1>6. ASSUME NEW node \in FilterNode PROVE f[node] = Body(f, node)
  <2>1. Kids(node, f) \in Seq(V)
    BY <1>5, FilterCases DEF FoldsFilters, Kids, FilterGroup
  <2>2. f[node] = G[<<node, Kids(node, f)>>]
    BY <1>5 DEF FoldsFilters
  <2>3. G[<<node, Kids(node, f)>>] = Value(node, Kids(node, f))
    <3> HIDE DEF Value
    <3> QED
      BY <2>1
  <2> HIDE DEF G
  <2>4. CASE ~IsGroup(node)
    BY <2>2, <2>3, <2>4
  <2>5. CASE IsGroup(node)
    <3> DEFINE ks == Kids(node, f)
    <3> DEFINE kids == node.conditions
    <3>1. ks = [i \in DOMAIN kids |-> f[kids[i]]]
      BY <2>5 DEF Kids
    <3>2. f[node] = First(ks)
      <4> HIDE DEF First
      <4> QED
        BY <2>2, <2>3, <2>5
    <3>3. DOMAIN ks \subseteq Nat
      BY <2>1
    <3> HIDE DEF ks
    <3>4. DOMAIN ks = DOMAIN kids /\ \A i \in DOMAIN kids : ks[i] = f[kids[i]]
      BY <3>1
    <3> DEFINE wrong == {i \in DOMAIN kids : f[kids[i]] # "ok"}
    <3>5. Wrong(ks) = wrong
      <4> HIDE DEF kids
      <4> QED
        BY <3>4
    <3>6. wrong # {} => Min(wrong) \in wrong
      BY <1>2, <3>3, <3>5
    <3> DEFINE m == Min(wrong)
    <3>7. wrong # {} => ks[m] = f[kids[m]]
      <4> HIDE DEF m, kids
      <4> QED
        BY <3>4, <3>6 DEF m
    <3>8. First(ks) = IF wrong = {} THEN "ok" ELSE ks[m]
      <4> HIDE DEF wrong
      <4> QED
        BY <3>5
    <3>9. Body(f, node) = IF wrong = {} THEN "ok" ELSE f[kids[m]]
      BY <2>5
    <3> HIDE DEF wrong, m, Body, First
    <3> QED
      BY <3>2, <3>7, <3>8, <3>9
  <2> QED
    BY <2>4, <2>5
<1>7. f = [node \in FilterNode |-> Body(f, node)]
  <2>1. f = [node \in FilterNode |-> f[node]]
    BY <1>5 DEF FoldsFilters
  <2> HIDE DEF Body
  <2> QED
    BY <2>1, <1>6
<1>8. \E g : g = [node \in FilterNode |-> Body(g, node)]
  <2> HIDE DEF Body
  <2> QED
    BY <1>7
<1> DEFINE v == CHOOSE g : g = [node \in FilterNode |-> Body(g, node)]
<1>9. v = [node \in FilterNode |-> Body(v, node)]
  <2> HIDE DEF Body
  <2> QED
    BY <1>8
<1>10. ValidateFilter(allowed, whole) = v[whole]
  BY DEF ValidateFilter
<1> HIDE DEF v
<1>11. \A node \in FilterNode : v[node] = Body(v, node)
  <2> HIDE DEF Body
  <2> QED
    BY <1>9
<1> DEFINE S == {node \in FilterNode : ValidatesTo(allowed, node, v[node])}
<1>12. FilterCondition \subseteq S
  <2> SUFFICES ASSUME NEW node \in FilterCondition PROVE node \in S
    OBVIOUS
  <2>1. node \in FilterNode
    BY FilterNodesDef, FilterNodesGrow, NestingAssumption DEF FilterNode
  <2>2. ~IsGroup(node)
    BY DEF FilterCondition, IsGroup
  <2>3. v[node] = Refusal(allowed, node)
    BY <1>11, <2>1, <2>2
  <2>4. ConditionsOf[node] = {node}
    BY <2>1, <2>2, ConditionsOfDef
  <2>5. Refusal(allowed, node) \in Validity
    BY <1>1 DEF V
  <2> QED
    BY <2>1, <2>3, <2>4, <2>5 DEF ValidatesTo
<1>13. ASSUME NEW node \in FilterNode, IsGroup(node),
              \A i \in DOMAIN node.conditions : node.conditions[i] \in S
       PROVE  node \in S
  <2> DEFINE kids == node.conditions
  <2> DEFINE wrong == {i \in DOMAIN kids : v[kids[i]] # "ok"}
  <2> DEFINE m == Min(wrong)
  <2>1. v[node] = IF wrong = {} THEN "ok" ELSE v[kids[m]]
    BY <1>11, <1>13
  <2>2. DOMAIN kids \subseteq Nat
    BY <1>13, FilterCases DEF FilterGroup
  <2>3. wrong # {} => m \in wrong
    <3>1. wrong \in SUBSET Nat
      BY <2>2
    <3> HIDE DEF wrong
    <3> QED
      BY <3>1, MinIn
  <2>4. ConditionsOf[node] = UNION {ConditionsOf[kids[i]] : i \in DOMAIN kids}
    BY <1>13, ConditionsOfDef
  <2>5. \A i \in DOMAIN kids : ValidatesTo(allowed, kids[i], v[kids[i]])
    BY <1>13
  <2>6. \A i \in DOMAIN kids :
            /\ v[kids[i]] \in Validity
            /\ v[kids[i]] = "ok" <=> \A c \in ConditionsOf[kids[i]] : Refusal(allowed, c) = "ok"
    BY <2>5 DEF ValidatesTo
  <2> HIDE DEF m, kids
  <2>7. CASE wrong = {}
    <3>1. \A i \in DOMAIN kids : v[kids[i]] = "ok"
      BY <2>7
    <3>2. \A c \in ConditionsOf[node] : Refusal(allowed, c) = "ok"
      BY <2>4, <2>6, <3>1
    <3>3. v[node] = "ok"
      BY <2>1, <2>7
    <3> QED
      BY <3>2, <3>3 DEF ValidatesTo, Validity
  <2>8. CASE wrong # {}
    <3>1. m \in DOMAIN kids /\ v[kids[m]] # "ok" /\ v[node] = v[kids[m]]
      BY <2>1, <2>3, <2>8
    <3>2. v[node] \in Validity /\ v[node] # "ok"
      BY <2>6, <3>1
    <3>3. ~(\A c \in ConditionsOf[kids[m]] : Refusal(allowed, c) = "ok")
      BY <2>6, <3>1
    <3>4. ~(\A c \in ConditionsOf[node] : Refusal(allowed, c) = "ok")
      BY <2>4, <3>1, <3>3
    <3> QED
      BY <3>2, <3>4 DEF ValidatesTo
  <2> QED
    BY <2>7, <2>8
<1> HIDE DEF S
<1>14. whole \in S
  BY <1>12, <1>13, FilterInduction
<1> QED
  BY <1>10, <1>14 DEF S

-----------------------------------------------------------------------------
(* Requests.                                                               *)

(* What has been gathered is what the pairs g say.                         *)
GatheredFrom(g) ==
    /\ LatestNumber(g, SizeKeys, pageSize)
    /\ LatestCursor(g, cursor)
    /\ LatestNumber(g, NumberKeys, pageNumber)
    /\ LatestNumber(g, OffsetKeys, offset)
    /\ FiltersOf(g, filters)
    /\ SortOf(g, sort)

(* No error of a pair or of validation is the conflict of two paginations. *)
LQInv ==
    /\ given \in Seq(Pair)
    /\ phase \in {"reading", "accepted", "rejected", "compiled"}
    /\ phase \in {"reading", "accepted"} => error = "ok"
    /\ phase # "rejected" \/ error = "ConflictingPagination" => GatheredFrom(given)
    /\ error = "ConflictingPagination" => Conflicting(cursor, pageNumber, offset)
    /\ phase \in {"accepted", "compiled"} =>
          query = Built /\ ~Conflicting(cursor, pageNumber, offset) /\ Validate(query) = "ok"
    /\ phase = "compiled" =>
          error = "UngroupableField" \/ \E d \in Dialects : error = CompileError(d)

(* The conditions of the group that a query has for its filter.            *)
LEMMA QueryFilter ==
    ASSUME NEW f \in Seq(FilterCondition), NEW node, node = Group("and", f)
    PROVE  /\ node \in FilterNode /\ node.conditions = f
           /\ ConditionsOf[node] = {f[i] : i \in DOMAIN f}
<1>1. IsGroup(node) /\ node.conditions = f /\ node.operator = "and"
  BY DEF Group, IsGroup
<1>2. node \in FilterGroup(FilterCondition)
  BY DEF Group, FilterGroup
<1>3. 1 \in 1..Nesting /\ 1 - 1 = 0 /\ 0 \in 0..Nesting /\ 1 \in 0..Nesting /\ Nesting \in 0..Nesting
  BY NestingAssumption, GroupAssumption
<1>4. FilterNodes[1] = FilterCondition \cup FilterGroup(FilterCondition)
  BY <1>3, FilterNodesDef
<1>5. FilterNodes[1] \subseteq FilterNode
  BY <1>3, FilterNodesGrow DEF FilterNode
<1>6. node \in FilterNode
  BY <1>2, <1>4, <1>5
<1>7. ConditionsOf[node] = UNION {ConditionsOf[f[i]] : i \in DOMAIN f}
  <2>1. ConditionsOf[node] =
            UNION {ConditionsOf[node.conditions[i]] : i \in DOMAIN node.conditions}
    BY <1>1, <1>6, ConditionsOfDef
  <2>2. node.conditions = f
    BY <1>1
  <2> QED
    BY <2>1, <2>2, Zenon
<1>8. ASSUME NEW i \in DOMAIN f PROVE ConditionsOf[f[i]] = {f[i]}
  <2>1. f[i] \in FilterCondition
    OBVIOUS
  <2>2. f[i] \in FilterNode /\ ~IsGroup(f[i])
    BY <1>4, <1>5, <2>1 DEF FilterCondition, IsGroup
  <2> QED
    BY <2>2, ConditionsOfDef
<1>9. ConditionsOf[node] = {f[i] : i \in DOMAIN f}
  BY <1>7, <1>8
<1> QED
  BY <1>1, <1>6, <1>9

(* A condition whose literal does not read as the text that its operator   *)
(* matches.                                                                *)
MistypedAs(c) ==
    c.operator \in PatternOperators \cup WrappedOperators /\ c.value.items[1].type # "string"

(* Only what the compiler alone looks at is left to be wrong with f.       *)
LeftToCompiler(f, e) ==
    \/ e \in {"ok", "ArrayTooLarge", "StringTooLong"}
    \/ e = "ValueShapeMismatch" /\ \E i \in DOMAIN f : MistypedAs(f[i])

(* What validation lets through has no other error.                        *)
LEMMA ValidCompiles ==
    ASSUME NEW f \in Seq(FilterCondition), \A k \in 1..Len(f) : Shaped(f[k]),
           NEW node, node = Group("and", f), ValidateFilter(FilterFields, node) = "ok",
           NEW clauses, \A i \in DOMAIN clauses : clauses[i].field \in SortableFields,
           NEW d \in Dialects, NEW limit,
           NEW q, q = Compile(d, FromSchema, 1, node, clauses, limit)
    PROVE  LeftToCompiler(f, q.error)
<1>1. node \in FilterNode /\ ConditionsOf[node] = {f[i] : i \in DOMAIN f}
  BY QueryFilter
<1>2. IsFieldMap(FromSchema)
  BY SchemaAssumption DEF IsFieldMap, FromSchema
<1>3. CompilesTo(q, d, FromSchema, 1, node, clauses)
  <2>1. 1 \in Nat \ {0}
    OBVIOUS
  <2> QED
    BY <1>1, <1>2, <2>1, CompileResult, Zenon
<1>4. \A i \in DOMAIN clauses : clauses[i].field \in DOMAIN FromSchema
  BY DEF FromSchema
<1>5. q.error # "ok" => Fault(FromSchema, node, q.error)
  BY <1>3, <1>4 DEF CompilesTo
<1>6. \A i \in DOMAIN f : Refusal(FilterFields, f[i]) = "ok"
  <2> DEFINE e == ValidateFilter(FilterFields, node)
  <2>1. ValidatesTo(FilterFields, node, e)
    BY <1>1, FilterValidated
  <2> HIDE DEF e
  <2>2. e = "ok"
    BY DEF e
  <2> QED
    BY <1>1, <2>1, <2>2 DEF ValidatesTo
<1>7. ASSUME q.error # "ok" PROVE LeftToCompiler(f, q.error)
  <2>1. PICK i \in DOMAIN f : q.error = ConditionError(FromSchema, f[i])
    BY <1>1, <1>5, <1>7 DEF Fault
  <2> DEFINE c == f[i]
  <2>2. c \in FilterCondition /\ Shaped(c) /\ Refusal(FilterFields, c) = "ok"
    BY <1>6, <2>1
  <2>3. q.error = ConditionError(FromSchema, c)
    BY <2>1
  <2>e. MistypedAs(c) => \E k \in DOMAIN f : MistypedAs(f[k])
    BY <2>1
  <2> HIDE DEF c
  <2>4. c.field \in DOMAIN FromSchema
    BY <2>2 DEF Refusal, FromSchema
  <2>5. CASE ShapeFits(c.operator, c.value)
    <3>1. q.error = BoundsError(c.operator, c.value)
      BY <2>3, <2>4, <2>5 DEF ConditionError
    <3> QED
      BY <3>1 DEF BoundsError, LeftToCompiler
  <2>6. CASE ~ShapeFits(c.operator, c.value)
    <3>1. q.error = "ValueShapeMismatch"
      BY <2>3, <2>4, <2>6 DEF ConditionError
    <3>2. MistypedAs(c)
      BY <2>2, <2>6 DEF Shaped, ShapeFits, MistypedAs
    <3> QED
      BY <2>e, <3>1, <3>2 DEF LeftToCompiler
  <2> QED
    BY <2>5, <2>6
<1>8. q.error = "ok" => LeftToCompiler(f, q.error)
  BY DEF LeftToCompiler
<1> QED
  BY <1>7, <1>8

(* What a request of no pairs says.                                        *)
LEMMA NothingRead == Init => LQInv
<1> SUFFICES ASSUME Init PROVE LQInv
  OBVIOUS
<1> DEFINE g == <<>>
<1>1. given = g /\ g \in Seq(Pair) /\ DOMAIN g = {}
  BY DEF Init
<1>2. /\ filters = <<>> /\ sort = <<>> /\ pageSize = None /\ cursor = None
      /\ pageNumber = None /\ offset = None /\ phase = "reading" /\ error = "ok"
  BY DEF Init
<1> HIDE DEF g
<1>3. \A keys : PairsFor(g, keys) = {}
  BY <1>1 DEF PairsFor
<1>4. /\ LatestNumber(g, SizeKeys, None) /\ LatestCursor(g, None)
      /\ LatestNumber(g, NumberKeys, None) /\ LatestNumber(g, OffsetKeys, None)
  BY <1>3 DEF LatestNumber, LatestCursor, CursorsFor
<1>5. FiltersOf(g, <<>>)
  <2>1. /\ <<>> \in Seq(FilterCondition) /\ Len(<<>>) = 0 /\ 1..0 = {}
    OBVIOUS
  <2>2. Cardinality({}) = 0
    BY FS_EmptySet
  <2> QED
    BY <1>3, <2>1, <2>2 DEF FiltersOf
<1>6. SortOf(g, <<>>)
  <2> DEFINE s == <<>>
  <2>1. s \in Seq(SortClause) /\ Len(s) = 0
    OBVIOUS
  <2> HIDE DEF s
  <2>2. IsFiniteSet({}) /\ Cardinality({}) = 0
    BY FS_EmptySet
  <2>3. ClausesFor(g) = {}
    BY <1>3 DEF ClausesFor, PartsFor
  <2>4. SortOf(g, s)
    BY <2>1, <2>2, <2>3 DEF SortOf
  <2> QED
    BY <2>4 DEF s
<1>7. GatheredFrom(given)
  BY <1>1, <1>2, <1>4, <1>5, <1>6 DEF GatheredFrom
<1> QED
  BY <1>1, <1>2, <1>7 DEF LQInv

(* The errors of a pair are its own.                                       *)
LEMMA PairErrors ==
    /\ \A parts : FilterKeyError(parts) # "ConflictingPagination"
    /\ \A parts : SortValueError(parts) # "ConflictingPagination"
BY DEF FilterKeyError, SortValueError

(* A pair that is refused ends the request, with an error of its own.      *)
LEMMA PairRefused ==
    ASSUME LQInv, NEW p \in Pair, given' = Append(given, p),
           NEW e, e # "ConflictingPagination", Reject(e)
    PROVE  LQInv'
<1>1. given \in Seq(Pair)
  BY DEF LQInv
<1>2. given' \in Seq(Pair)
  BY <1>1
<1>3. phase' = "rejected" /\ error' = e
  BY DEF Reject
<1> QED
  BY <1>2, <1>3 DEF LQInv

(* A pair that is read goes with the others.                               *)
LEMMA PairGathered ==
    ASSUME LQInv, NEW p \in Pair, given' = Append(given, p),
           phase = "reading", Gathered, GatheredFrom(given)'
    PROVE  LQInv'
<1>1. given \in Seq(Pair)
  BY DEF LQInv
<1>2. given' \in Seq(Pair)
  BY <1>1
<1>3. phase' = "reading" /\ error' = "ok"
  BY DEF Gathered, LQInv
<1> QED
  BY <1>2, <1>3 DEF LQInv

(* What has been gathered stays what the pairs say when one more is read.  *)
LEMMA PairRead ==
    ASSUME LQInv, NEW p \in Pairs, Read(p)
    PROVE  LQInv'
<1> DEFINE g == given
<1> DEFINE h == Append(given, p)
<1>1. p \in Pair /\ g \in Seq(Pair) /\ phase = "reading" /\ given' = h
  BY PairsAssumption DEF LQInv, Read
<1>2. Appends(h, g, p)
  BY <1>1, PairAppended
<1>3. /\ LatestNumber(g, SizeKeys, pageSize) /\ LatestCursor(g, cursor)
      /\ LatestNumber(g, NumberKeys, pageNumber) /\ LatestNumber(g, OffsetKeys, offset)
      /\ FiltersOf(g, filters) /\ SortOf(g, sort)
  BY <1>1 DEF LQInv, GatheredFrom
<1> HIDE DEF g, h
<1>4. IF p.key \in SizeKeys THEN LatestNumber(h, SizeKeys, p.number)
      ELSE LatestNumber(h, SizeKeys, pageSize)
  BY <1>2, <1>3, NumberRead
<1>5. IF p.key \in NumberKeys THEN LatestNumber(h, NumberKeys, p.number)
      ELSE LatestNumber(h, NumberKeys, pageNumber)
  BY <1>2, <1>3, NumberRead
<1>6. IF p.key \in OffsetKeys THEN LatestNumber(h, OffsetKeys, p.number)
      ELSE LatestNumber(h, OffsetKeys, offset)
  BY <1>2, <1>3, NumberRead
<1>7. IF p.key \in CursorKeys /\ p.cursor # "" THEN LatestCursor(h, p.cursor)
      ELSE LatestCursor(h, cursor)
  BY <1>2, <1>3, CursorRead
<1>8. /\ p.key # "filter" => FiltersOf(h, filters)
      /\ p.key = "filter" /\ FilterKeyError(p.brackets) = "ok" =>
            FiltersOf(h, Append(filters, ConditionOf(p)))
  BY <1>1, <1>2, <1>3, FilterRead
<1>9. /\ p.key # "sort" => SortOf(h, sort)
      /\ p.key = "sort" => SortOf(h, sort \o ParseSortValue(p.parts))
  BY <1>1, <1>2, <1>3, SortRead
<1>10. ASSUME NEW e, e # "ConflictingPagination", Reject(e) PROVE LQInv'
  BY <1>1, <1>10, PairRefused DEF h
<1>11. ASSUME Gathered, GatheredFrom(given)' PROVE LQInv'
  BY <1>1, <1>11, PairGathered DEF h
<1>12. ASSUME LatestNumber(h, SizeKeys, pageSize'), LatestCursor(h, cursor'),
              LatestNumber(h, NumberKeys, pageNumber'), LatestNumber(h, OffsetKeys, offset'),
              FiltersOf(h, filters'), SortOf(h, sort')
       PROVE  GatheredFrom(given)'
  BY <1>1, <1>12 DEF GatheredFrom
<1>13. CASE ReadSort(p)
  <2>1. p.key = "sort"
    BY <1>13 DEF ReadSort
  <2>2. p.key \notin SizeKeys \cup NumberKeys \cup OffsetKeys \cup CursorKeys /\ p.key # "filter"
    BY <2>1 DEF SizeKeys, NumberKeys, OffsetKeys, CursorKeys
  <2>3. CASE SortValueError(p.parts) # "ok"
    BY <1>10, <1>13, <2>3, PairErrors DEF ReadSort
  <2>4. CASE SortValueError(p.parts) = "ok"
    <3>1. /\ sort' = sort \o ParseSortValue(p.parts) /\ Gathered
          /\ UNCHANGED <<filters, pageSize, cursor, pageNumber, offset>>
      BY <1>13, <2>4 DEF ReadSort
    <3> QED
      BY <1>4, <1>5, <1>6, <1>7, <1>8, <1>9, <1>11, <1>12, <2>1, <2>2, <3>1
  <2> QED
    BY <2>3, <2>4
<1>14. CASE ReadPageSize(p)
  <2>1. p.key \in SizeKeys
    BY <1>14 DEF ReadPageSize
  <2>2. p.key \notin NumberKeys \cup OffsetKeys \cup CursorKeys /\ p.key # "filter" /\ p.key # "sort"
    BY <2>1 DEF SizeKeys, NumberKeys, OffsetKeys, CursorKeys
  <2>3. CASE p.number <= 0 \/ p.number > MaxSize
    <3>1. Reject("InvalidPageSize") \/ Reject("PageSizeTooLarge")
      BY <1>14, <2>3 DEF ReadPageSize
    <3> QED
      BY <1>10, <3>1
  <2>4. CASE ~(p.number <= 0 \/ p.number > MaxSize)
    <3>1. /\ pageSize' = p.number /\ Gathered
          /\ UNCHANGED <<filters, sort, cursor, pageNumber, offset>>
      BY <1>14, <2>4 DEF ReadPageSize
    <3> QED
      BY <1>4, <1>5, <1>6, <1>7, <1>8, <1>9, <1>11, <1>12, <2>1, <2>2, <3>1
  <2> QED
    BY <2>3, <2>4
<1>15. CASE ReadCursor(p)
  <2>1. /\ p.key \in CursorKeys
        /\ cursor' = IF p.cursor = "" THEN cursor ELSE p.cursor
        /\ Gathered /\ UNCHANGED <<filters, sort, pageSize, pageNumber, offset>>
    BY <1>15 DEF ReadCursor
  <2>2. p.key \notin SizeKeys \cup NumberKeys \cup OffsetKeys /\ p.key # "filter" /\ p.key # "sort"
    BY <2>1 DEF SizeKeys, NumberKeys, OffsetKeys, CursorKeys
  <2>3. LatestCursor(h, cursor')
    BY <1>7, <2>1
  <2> QED
    BY <1>4, <1>5, <1>6, <1>8, <1>9, <1>11, <1>12, <2>1, <2>2, <2>3
<1>16. CASE ReadPageNumber(p)
  <2>1. p.key \in NumberKeys
    BY <1>16 DEF ReadPageNumber
  <2>2. p.key \notin SizeKeys \cup OffsetKeys \cup CursorKeys /\ p.key # "filter" /\ p.key # "sort"
    BY <2>1 DEF SizeKeys, NumberKeys, OffsetKeys, CursorKeys
  <2>3. CASE p.number <= 0
    BY <1>10, <1>16, <2>3 DEF ReadPageNumber
  <2>4. CASE ~(p.number <= 0)
    <3>1. /\ pageNumber' = p.number /\ Gathered
          /\ UNCHANGED <<filters, sort, pageSize, cursor, offset>>
      BY <1>16, <2>4 DEF ReadPageNumber
    <3> QED
      BY <1>4, <1>5, <1>6, <1>7, <1>8, <1>9, <1>11, <1>12, <2>1, <2>2, <3>1
  <2> QED
    BY <2>3, <2>4
<1>17. CASE ReadOffset(p)
  <2>1. p.key \in OffsetKeys
    BY <1>17 DEF ReadOffset
  <2>2. p.key \notin SizeKeys \cup NumberKeys \cup CursorKeys /\ p.key # "filter" /\ p.key # "sort"
    BY <2>1 DEF SizeKeys, NumberKeys, OffsetKeys, CursorKeys
  <2>3. CASE p.number < 0
    BY <1>10, <1>17, <2>3 DEF ReadOffset
  <2>4. CASE ~(p.number < 0)
    <3>1. /\ offset' = p.number /\ Gathered
          /\ UNCHANGED <<filters, sort, pageSize, cursor, pageNumber>>
      BY <1>17, <2>4 DEF ReadOffset
    <3> QED
      BY <1>4, <1>5, <1>6, <1>7, <1>8, <1>9, <1>11, <1>12, <2>1, <2>2, <3>1
  <2> QED
    BY <2>3, <2>4
<1>18. CASE ReadFilter(p)
  <2>1. p.key = "filter"
    BY <1>18 DEF ReadFilter
  <2>2. p.key \notin SizeKeys \cup NumberKeys \cup OffsetKeys \cup CursorKeys /\ p.key # "sort"
    BY <2>1 DEF SizeKeys, NumberKeys, OffsetKeys, CursorKeys
  <2>3. CASE FilterKeyError(p.brackets) # "ok"
    BY <1>10, <1>18, <2>3, PairErrors DEF ReadFilter
  <2>4. CASE FilterKeyError(p.brackets) = "ok"
    <3>1. /\ filters' = Append(filters, ConditionOf(p)) /\ Gathered
          /\ UNCHANGED <<sort, pageSize, cursor, pageNumber, offset>>
      BY <1>18, <2>4 DEF ReadFilter, ConditionOf
    <3> QED
      BY <1>4, <1>5, <1>6, <1>7, <1>8, <1>9, <1>11, <1>12, <2>1, <2>2, <2>4, <3>1
  <2> QED
    BY <2>3, <2>4
<1>19. CASE ReadOther(p)
  <2>1. p.key = "other" /\ Gathered /\ UNCHANGED <<filters, sort, pageSize, cursor, pageNumber, offset>>
    BY <1>19 DEF ReadOther, gathered
  <2>2. /\ p.key \notin SizeKeys \cup NumberKeys \cup OffsetKeys \cup CursorKeys
        /\ p.key # "filter" /\ p.key # "sort"
    BY <2>1 DEF SizeKeys, NumberKeys, OffsetKeys, CursorKeys
  <2> QED
    BY <1>4, <1>5, <1>6, <1>7, <1>8, <1>9, <1>11, <1>12, <2>1, <2>2
<1> QED
  BY <1>13, <1>14, <1>15, <1>16, <1>17, <1>18, <1>19 DEF Read

(* The errors that validation and compilation have for what was gathered.  *)
LEMMA BuiltErrors ==
    ASSUME LQInv, phase # "rejected"
    PROVE  /\ Validate(Built) # "ConflictingPagination"
           /\ phase \in {"accepted", "compiled"} =>
                \A d \in Dialects : LeftToCompiler(filters, CompileError(d))
<1>1. filters \in Seq(FilterCondition) /\ \A k \in 1..Len(filters) : Shaped(filters[k])
  BY DEF LQInv, GatheredFrom, FiltersOf
<1> DEFINE node == Group("and", filters)
<1>2. node \in FilterNode
  BY <1>1, QueryFilter
<1>3. Built.filter = node
  BY DEF Built
<1>4. Validate(Built) # "ConflictingPagination"
  <2> DEFINE e == ValidateFilter(FilterFields, node)
  <2>1. ValidatesTo(FilterFields, node, e)
    <3> HIDE DEF node
    <3> QED
      BY <1>2, FilterValidated
  <2>2. Validate(Built) \in {e, "UnsupportedSortField", "ok"}
    BY <1>3 DEF Validate
  <2> HIDE DEF e
  <2> QED
    BY <2>1, <2>2 DEF ValidatesTo, Validity
<1>5. ASSUME phase \in {"accepted", "compiled"}, NEW d \in Dialects
      PROVE  LeftToCompiler(filters, CompileError(d))
  <2> DEFINE clauses == query.sort
  <2> DEFINE limit == query.page.size
  <2> DEFINE q == Compile(d, FromSchema, 1, node, clauses, limit)
  <2>1. query = Built /\ Validate(query) = "ok"
    BY <1>5 DEF LQInv
  <2>2. query.filter = node
    BY <1>3, <2>1
  <2>3. /\ ValidateFilter(FilterFields, node) = "ok"
        /\ \A i \in DOMAIN clauses : clauses[i].field \in SortableFields
    BY <2>1, <2>2 DEF Validate
  <2>4. CompileError(d) = q.error
    BY <2>2 DEF CompileError
  <2>d. d \in Dialects
    BY <1>5
  <2>n. node = Group("and", filters)
    OBVIOUS
  <2> HIDE DEF node, clauses, limit
  <2>5. q = Compile(d, FromSchema, 1, node, clauses, limit)
    OBVIOUS
  <2> HIDE DEF q
  <2>6. LeftToCompiler(filters, q.error)
    BY <1>1, <2>d, <2>n, <2>3, <2>5, ValidCompiles
  <2> QED
    BY <2>4, <2>6
<1> QED
  BY <1>4, <1>5

(* The end of the pairs.                                                   *)
LEMMA FinishKeeps ==
    ASSUME LQInv, Finish
    PROVE  LQInv'
<1>1. phase = "reading" /\ error = "ok" /\ given \in Seq(Pair) /\ GatheredFrom(given)
  BY DEF LQInv, Finish
<1>2. given' = given
  BY DEF Finish
<1>3. ASSUME UNCHANGED gathered
      PROVE  /\ GatheredFrom(given)' /\ Built' = Built
             /\ Conflicting(cursor, pageNumber, offset)' = Conflicting(cursor, pageNumber, offset)
  <2>1. /\ filters' = filters /\ sort' = sort /\ pageSize' = pageSize /\ cursor' = cursor
        /\ pageNumber' = pageNumber /\ offset' = offset
    BY <1>3 DEF gathered
  <2>2. GatheredFrom(given)'
    BY <1>1, <1>2, <2>1 DEF GatheredFrom
  <2>3. Built' = Built
    BY <2>1 DEF Built
  <2> QED
    BY <2>1, <2>2, <2>3
<1>4. CASE Conflicting(cursor, pageNumber, offset)
  <2>1. phase' = "rejected" /\ UNCHANGED gathered
    BY <1>4 DEF Finish, Reject
  <2> QED
    BY <1>1, <1>2, <1>3, <1>4, <2>1 DEF LQInv
<1>5. CASE ~Conflicting(cursor, pageNumber, offset) /\ Validate(Built) # "ok"
  <2>1. phase' = "rejected" /\ error' = Validate(Built)
    BY <1>5 DEF Finish, Reject
  <2>2. error' # "ConflictingPagination"
    BY <1>1, <2>1, BuiltErrors
  <2> QED
    BY <1>1, <1>2, <2>1, <2>2 DEF LQInv
<1>6. CASE ~Conflicting(cursor, pageNumber, offset) /\ Validate(Built) = "ok"
  <2>1. phase' = "accepted" /\ query' = Built /\ UNCHANGED <<gathered, error>>
    BY <1>6 DEF Finish
  <2>2. /\ GatheredFrom(given)' /\ Built' = Built
        /\ ~Conflicting(cursor, pageNumber, offset)'
    BY <1>3, <1>6, <2>1
  <2>3. Validate(query)' = Validate(Built)
    BY <2>1 DEF Validate
  <2> QED
    BY <1>1, <1>2, <1>6, <2>1, <2>2, <2>3 DEF LQInv
<1> QED
  BY <1>4, <1>5, <1>6

(* Compiling keeps the query.                                              *)
LEMMA CompileKeeps ==
    ASSUME LQInv, phase = "accepted", phase' = "compiled",
           UNCHANGED <<given, gathered, query>>,
           error' = "UngroupableField" \/ \E d \in Dialects : error' = CompileError(d)
    PROVE  LQInv'
<1>1. /\ filters' = filters /\ sort' = sort /\ pageSize' = pageSize /\ cursor' = cursor
      /\ pageNumber' = pageNumber /\ offset' = offset /\ given' = given /\ query' = query
  BY DEF gathered
<1>2. /\ given \in Seq(Pair) /\ GatheredFrom(given) /\ query = Built
      /\ ~Conflicting(cursor, pageNumber, offset) /\ Validate(query) = "ok"
  BY DEF LQInv
<1>3. GatheredFrom(given)'
  BY <1>1, <1>2 DEF GatheredFrom
<1>4. Built' = Built /\ Validate(query)' = Validate(query)
  BY <1>1 DEF Built, Validate
<1>5. \A d : CompileError(d)' = CompileError(d)
  BY <1>1 DEF CompileError
<1>6. error' # "ConflictingPagination"
  <2>1. ASSUME NEW d \in Dialects, error' = CompileError(d) PROVE error' # "ConflictingPagination"
    <3>1. LeftToCompiler(filters, CompileError(d))
      BY BuiltErrors
    <3> QED
      BY <2>1, <3>1 DEF LeftToCompiler
  <2> QED
    BY <2>1
<1> QED
  BY <1>1, <1>2, <1>3, <1>4, <1>5, <1>6 DEF LQInv

(* What has been gathered is what the pairs say, until one is refused.     *)
THEOREM ParsingInvariant == Spec => []LQInv
<1>1. LQInv /\ [Next]_vars => LQInv'
  <2> SUFFICES ASSUME LQInv, [Next]_vars PROVE LQInv'
    OBVIOUS
  <2>1. ASSUME NEW d \in Dialects, CompileQuery(d) PROVE LQInv'
    BY <2>1, CompileKeeps DEF CompileQuery
  <2>2. ASSUME NEW d \in Dialects, NEW g \in SortableFields \cup GroupableFields,
               CompileGrouped(d, g)
        PROVE  LQInv'
    <3>1. g \in GroupableFields => g \in DOMAIN FromSchema
      BY DEF FromSchema
    <3>2. /\ phase = "accepted" /\ phase' = "compiled" /\ UNCHANGED <<given, gathered, query>>
          /\ error' = "UngroupableField" \/ error' = CompileError(d)
      BY <2>2, <3>1 DEF CompileGrouped
    <3> QED
      BY <2>2, <3>2, CompileKeeps
  <2>3. CASE UNCHANGED vars
    <3>1. /\ given' = given /\ UNCHANGED gathered /\ phase' = phase /\ error' = error
          /\ query' = query
      BY <2>3 DEF vars
    <3>2. /\ filters' = filters /\ sort' = sort /\ pageSize' = pageSize /\ cursor' = cursor
          /\ pageNumber' = pageNumber /\ offset' = offset
      BY <3>1 DEF gathered
    <3>3. GatheredFrom(given) => GatheredFrom(given)'
      BY <3>1, <3>2 DEF GatheredFrom
    <3>4. Built' = Built /\ Validate(query)' = Validate(query)
      BY <3>1, <3>2 DEF Built, Validate
    <3>5. \A d : CompileError(d)' = CompileError(d)
      BY <3>1 DEF CompileError
    <3> QED
      BY <3>1, <3>2, <3>3, <3>4, <3>5 DEF LQInv
  <2> QED
    BY <2>1, <2>2, <2>3, PairRead, FinishKeeps DEF Next
<1> QED
  BY <1>1, NothingRead, PTL DEF Spec

(* An accepted query compiles, plain or grouped by an allowed field, but   *)
(* for a value that is too long or of a type its operator does not match:  *)
(* validation and compilation agree, whatever the request.                 *)
THEOREM AcceptedCompile == Spec => []AcceptedQueriesCompile
<1>1. LQInv => AcceptedQueriesCompile
  <2> SUFFICES ASSUME LQInv PROVE AcceptedQueriesCompile
    OBVIOUS
  <2> DEFINE Left(f, e) ==
        \/ e \in {"ok", "ArrayTooLarge", "StringTooLong", "UngroupableField"}
        \/ e = "ValueShapeMismatch" /\ \E i \in DOMAIN f : MistypedAs(f[i])
  <2>1. ASSUME phase = "compiled" PROVE Left(filters, error)
    <3>1. CASE error = "UngroupableField"
      BY <3>1
    <3>2. ASSUME NEW d \in Dialects, error = CompileError(d) PROVE Left(filters, error)
      <4>1. LeftToCompiler(filters, CompileError(d))
        BY <2>1, BuiltErrors
      <4> QED
        BY <3>2, <4>1 DEF LeftToCompiler
    <3> QED
      BY <2>1, <3>1, <3>2 DEF LQInv
  <2>2. phase = "compiled" => query.filter.conditions = filters
    BY DEF LQInv, Built, Group
  <2> QED
    BY <2>1, <2>2 DEF AcceptedQueriesCompile, MistypedAs
<1> QED
  BY <1>1, ParsingInvariant, PTL

(* Nothing a client asked for is dropped, repeated, or taken out of order. *)
THEOREM NothingAskedDropped == Spec => []NothingDropped
<1>1. LQInv => NothingDropped
  <2> SUFFICES ASSUME LQInv, phase = "accepted" PROVE NothingDropped
    BY DEF NothingDropped
  <2>1. given \in Seq(Pair) /\ FiltersOf(given, filters) /\ SortOf(given, sort) /\ query = Built
    BY DEF LQInv, GatheredFrom
  <2>2. /\ query.filter.conditions = filters
        /\ query.sort = IF sort = <<>> THEN DefaultSort ELSE sort
    BY <2>1 DEF Built, Group
  <2> DEFINE asked == GivenFor({"filter"})
  <2>3. asked = PairsFor(given, {"filter"})
    BY DEF GivenFor, PairsFor
  <2>4. /\ Len(filters) = Cardinality(asked)
        /\ \A i \in asked : Asks(filters[Rank(asked, i)], given[i])
    <3> DEFINE keys == {"filter"}
    <3>1. asked = PairsFor(given, keys)
      BY <2>3
    <3>2. FiltersOf(given, filters) => LET A == PairsFor(given, keys) IN
              Len(filters) = Cardinality(A) /\ \A i \in A : Asks(filters[Rank(A, i)], given[i])
      BY DEF FiltersOf
    <3> HIDE DEF keys, asked
    <3> QED
      BY <2>1, <3>1, <3>2
  <2> DEFINE C == ClausesGiven
  <2>5. C = ClausesFor(given) /\ \A c : ClausesUpTo(c) = UpTo(C, c)
    BY DEF ClausesGiven, ClausesFor, PartsFor, GivenFor, PairsFor, SortKeys, Blank,
           ClausesUpTo, UpTo
  <2>6. /\ sort \in Seq(SortClause) /\ IsFiniteSet(C) /\ Len(sort) = Cardinality(C)
        /\ \A c \in C : sort[Cardinality(ClausesUpTo(c))] = ClauseOf(given[c[1]].parts[c[2]])
    BY <2>1, <2>5 DEF SortOf
  <2>7. ASSUME NEW c \in C
        PROVE  /\ sort[Cardinality(ClausesUpTo(c))].field = given[c[1]].parts[c[2]].field
               /\ (sort[Cardinality(ClausesUpTo(c))].direction = "desc")
                        = given[c[1]].parts[c[2]].dash
    <3> DEFINE part == given[c[1]].parts[c[2]]
    <3>1. PICK i \in GivenFor({"sort"}) : c \in {i} \X DOMAIN given[i].parts
      BY DEF ClausesGiven
    <3>2. c[1] = i /\ c[2] \in DOMAIN given[i].parts
      BY <3>1
    <3>3. given[i] \in Pair /\ given[i].key = "sort"
      BY <2>1, <3>1 DEF GivenFor
    <3>4. given[i].parts \in Seq(SortPart)
      BY <3>3 DEF Pair, SizeKeys, NumberKeys, OffsetKeys, CursorKeys
    <3>5. part \in SortPart
      BY <3>2, <3>4
    <3>6. sort[Cardinality(ClausesUpTo(c))] = ClauseOf(part)
      BY <2>6
    <3> HIDE DEF part
    <3>7. ClauseOf(part).field = part.field
      BY DEF ClauseOf
    <3>8. (ClauseOf(part).direction = "desc") = part.dash
      <4>1. part.dash \in BOOLEAN
        BY <3>5 DEF SortPart
      <4>2. ClauseOf(part).direction = IF part.dash THEN "desc" ELSE "asc"
        BY DEF ClauseOf
      <4>3. "asc" # "desc"
        OBVIOUS
      <4> QED
        BY <4>1, <4>2, <4>3, Zenon
    <3> QED
      BY <3>6, <3>7, <3>8 DEF part
  <2>8. C = {} <=> sort = <<>>
    <3>1. C = {} <=> Len(sort) = 0
      BY <2>6, FS_EmptySet
    <3> DEFINE Y == SortClause
    <3>2. sort \in Seq(Y)
      BY <2>6
    <3> HIDE DEF Y
    <3>3. Len(sort) = 0 <=> sort = <<>>
      BY <3>2
    <3> QED
      BY <3>1, <3>3
  <2>9. IF C = {} THEN query.sort = DefaultSort
        ELSE /\ Len(query.sort) = Cardinality(C)
             /\ \A c \in C :
                  /\ query.sort[Cardinality(ClausesUpTo(c))].field = given[c[1]].parts[c[2]].field
                  /\ (query.sort[Cardinality(ClausesUpTo(c))].direction = "desc")
                        = given[c[1]].parts[c[2]].dash
    <3> HIDE DEF C
    <3>1. CASE C = {}
      BY <2>2, <2>8, <3>1
    <3>2. CASE C # {}
      <4>1. query.sort = sort /\ Len(sort) = Cardinality(C)
        BY <2>2, <2>6, <2>8, <3>2
      <4> QED
        BY <2>7, <3>2, <4>1, Zenon
    <3> QED
      BY <3>1, <3>2
  <2>10. /\ Len(query.filter.conditions) = Cardinality(asked)
         /\ \A i \in asked : Asks(query.filter.conditions[Rank(asked, i)], given[i])
    BY <2>2, <2>4
  <2> HIDE DEF asked, C
  <2> QED
    BY <2>9, <2>10, Zenon DEF NothingDropped, Asks, asked, C
<1> QED
  BY <1>1, ParsingInvariant, PTL

(* At most one element.                                                    *)
LEMMA AtMostOne ==
    ASSUME NEW S, IsFiniteSet(S), ~(Cardinality(S) > 1)
    PROVE  Cardinality(S) <= 1 /\ \A x, y \in S : x = y
<1>1. Cardinality(S) \in Nat
  BY FS_CardinalityType
<1>2. ASSUME NEW x \in S, NEW y \in S, x # y PROVE FALSE
  <2> DEFINE X == {x}
  <2>1. IsFiniteSet(X) /\ Cardinality(X) = 1 /\ y \notin X
    BY <1>2, FS_Singleton
  <2>2. X \cup {y} \in SUBSET S
    OBVIOUS
  <2> HIDE DEF X
  <2>3. Cardinality(X \cup {y}) = 2
    <3>1. Cardinality(X \cup {y}) = IF y \in X THEN Cardinality(X) ELSE Cardinality(X) + 1
      BY <2>1, FS_AddElement, Zenon
    <3> QED
      BY <2>1, <3>1
  <2>4. Cardinality(X \cup {y}) <= Cardinality(S)
    BY <2>2, FS_Subset
  <2> QED
    BY <1>1, <2>3, <2>4
<1> QED
  BY <1>1, <1>2

(* The last pair for some keys is one, and says what v is.                 *)
LEMMA LatestValue ==
    ASSUME given \in Seq(Pair), NEW keys \in {SizeKeys, NumberKeys, OffsetKeys},
           NEW v, LatestNumber(given, keys, v)
    PROVE  /\ GivenFor(keys) = {} <=> v = None
           /\ \A i \in LastOf(GivenFor(keys)) : v = given[i].number
<1> DEFINE S == GivenFor(keys)
<1>1. S = PairsFor(given, keys) /\ S \subseteq DOMAIN given
  BY DEF GivenFor, PairsFor
<1>2. \A i \in DOMAIN given : i \in Nat /\ given[i] \in Pair
  OBVIOUS
<1>3. ASSUME NEW i \in S PROVE given[i].number # None
  <2>1. given[i] \in Pair /\ given[i].key \in keys
    BY <1>1, <1>2 DEF GivenFor
  <2>2. given[i].key \in SizeKeys \cup NumberKeys \cup OffsetKeys
    BY <2>1
  <2>3. given[i].number \in Int
    BY <2>1, <2>2 DEF Pair, SizeKeys, NumberKeys, OffsetKeys, CursorKeys
  <2> QED
    BY <2>3, NoneAssumption
<1>4. \A i, j \in LastOf(S) : i = j
  BY <1>1, <1>2 DEF LastOf
<1>5. LastOf(S) \subseteq S
  BY DEF LastOf
<1> HIDE DEF S
<1>6. (S = {} /\ v = None) \/ \E i \in LastOf(S) : v = given[i].number
  BY <1>1 DEF LatestNumber
<1> QED
  BY <1>3, <1>4, <1>5, <1>6 DEF S

(* The same of the cursors that are not blank.                             *)
LEMMA LatestCursorValue ==
    ASSUME given \in Seq(Pair), NEW v, LatestCursor(given, v)
    PROVE  /\ CursorsGiven = {} <=> v = None
           /\ \A i \in LastOf(CursorsGiven) : v = given[i].cursor
<1> DEFINE S == CursorsGiven
<1>1. S = CursorsFor(given) /\ S \subseteq DOMAIN given
  BY DEF CursorsGiven, GivenFor, CursorsFor, PairsFor
<1>2. \A i \in DOMAIN given : i \in Nat /\ given[i] \in Pair
  OBVIOUS
<1>3. ASSUME NEW i \in S PROVE given[i].cursor # None
  <2>1. given[i] \in Pair /\ given[i].key \in CursorKeys
    BY <1>1, <1>2 DEF CursorsGiven, GivenFor
  <2>2. given[i].cursor \in STRING
    BY <2>1 DEF Pair, SizeKeys, NumberKeys, OffsetKeys, CursorKeys
  <2> QED
    BY <2>2, NoneAssumption
<1>4. \A i, j \in LastOf(S) : i = j
  BY <1>1, <1>2 DEF LastOf
<1>5. LastOf(S) \subseteq S
  BY DEF LastOf
<1> HIDE DEF S
<1>6. (S = {} /\ v = None) \/ \E i \in LastOf(S) : v = given[i].cursor
  BY <1>1 DEF LatestCursor
<1> QED
  BY <1>3, <1>4, <1>5, <1>6 DEF S

(* A request gets the one pagination that it asks for, with the last value *)
(* it gave for it, and is refused when it asks for two.                    *)
THEOREM PageAsAsked == Spec => []PageIsWhatWasAsked
<1>1. LQInv => PageIsWhatWasAsked
  <2> SUFFICES ASSUME LQInv PROVE PageIsWhatWasAsked
    OBVIOUS
  <2> DEFINE M == Modes(cursor, pageNumber, offset)
  <2>1. given \in Seq(Pair)
    BY DEF LQInv
  <2>2. IsFiniteSet(M)
    <3> DEFINE A == {"cursor", "page", "offset"}
    <3>1. IsFiniteSet(A)
      <4>1. IsFiniteSet({"cursor"})
        BY FS_Singleton
      <4>2. IsFiniteSet({"cursor"} \cup {"page"})
        BY <4>1, FS_AddElement
      <4>3. IsFiniteSet(({"cursor"} \cup {"page"}) \cup {"offset"})
        BY <4>2, FS_AddElement
      <4>4. A = ({"cursor"} \cup {"page"}) \cup {"offset"}
        OBVIOUS
      <4> QED
        BY <4>3, <4>4
    <3>2. M \in SUBSET A
      BY DEF Modes
    <3> HIDE DEF A, M
    <3> QED
      BY <3>1, <3>2, FS_Subset
  <2>3. ASSUME GatheredFrom(given)
        PROVE  /\ CursorsGiven = {} <=> cursor = None
               /\ \A i \in LastOf(CursorsGiven) : cursor = given[i].cursor
               /\ GivenFor(NumberKeys) = {} <=> pageNumber = None
               /\ \A i \in LastOf(GivenFor(NumberKeys)) : pageNumber = given[i].number
               /\ GivenFor(OffsetKeys) = {} <=> offset = None
               /\ \A i \in LastOf(GivenFor(OffsetKeys)) : offset = given[i].number
               /\ GivenFor(SizeKeys) = {} <=> pageSize = None
               /\ \A i \in LastOf(GivenFor(SizeKeys)) : pageSize = given[i].number
    BY <2>1, <2>3, LatestValue, LatestCursorValue DEF GatheredFrom
  <2>4. ASSUME GatheredFrom(given) PROVE KindsGiven = M
    BY <2>3, <2>4 DEF KindsGiven, Modes
  <2>5. ASSUME error = "ConflictingPagination" PROVE Cardinality(KindsGiven) > 1
    <3>1. GatheredFrom(given) /\ Conflicting(cursor, pageNumber, offset)
      BY <2>5 DEF LQInv
    <3> QED
      BY <2>4, <3>1 DEF Conflicting
  <2> DEFINE Asked ==
        /\ Cardinality(KindsGiven) <= 1
        /\ \A mode \in KindsGiven : query.page.mode = mode
        /\ KindsGiven = {} => query.page.mode = DefaultMode
        /\ \A i \in LastOf(CursorsGiven) : query.page.at = given[i].cursor
        /\ \A i \in LastOf(GivenFor(NumberKeys)) \cup LastOf(GivenFor(OffsetKeys)) :
              query.page.at = given[i].number
        /\ \A i \in LastOf(GivenFor(SizeKeys)) : query.page.size = given[i].number
        /\ GivenFor(SizeKeys) = {} => query.page.size = DefaultSize
  <2>6. ASSUME phase = "accepted" PROVE Asked
    <3>1. /\ GatheredFrom(given) /\ query = Built
          /\ ~Conflicting(cursor, pageNumber, offset)
      BY <2>6 DEF LQInv
    <3> DEFINE size == IF pageSize = None THEN DefaultSize ELSE pageSize
    <3>2. query.page = BuildPagination(size, cursor, pageNumber, offset)
      BY <3>1 DEF Built
    <3>3. Cardinality(M) <= 1 /\ \A x, y \in M : x = y
      <4>1. ~(Cardinality(M) > 1)
        BY <3>1 DEF Conflicting
      <4> HIDE DEF M
      <4> QED
        BY <2>2, <4>1, AtMostOne
    <3>4. KindsGiven = M
      BY <2>4, <3>1
    <3>5. /\ cursor # None <=> "cursor" \in M
          /\ pageNumber # None <=> "page" \in M
          /\ offset # None <=> "offset" \in M
          /\ M \subseteq {"cursor", "page", "offset"}
      BY DEF Modes
    <3> HIDE DEF M
    <3>6. /\ query.page.size = size
          /\ cursor # None => query.page.mode = "cursor" /\ query.page.at = cursor
          /\ pageNumber # None => query.page.mode = "page" /\ query.page.at = pageNumber
          /\ offset # None => query.page.mode = "offset" /\ query.page.at = offset
          /\ M = {} => query.page.mode = DefaultMode
      <4>1. ~(cursor # None /\ pageNumber # None) /\ ~(cursor # None /\ offset # None)
            /\ ~(pageNumber # None /\ offset # None)
        BY <3>3, <3>5
      <4> HIDE DEF size
      <4>2. query.page.size = size
        BY <3>2 DEF BuildPagination, Page
      <4>3. CASE cursor # None
        BY <3>2, <3>5, <4>1, <4>2, <4>3 DEF BuildPagination, Page
      <4>4. CASE cursor = None /\ pageNumber # None
        BY <3>2, <3>5, <4>1, <4>2, <4>4 DEF BuildPagination, Page
      <4>5. CASE cursor = None /\ pageNumber = None /\ offset # None
        BY <3>2, <3>5, <4>1, <4>2, <4>5 DEF BuildPagination, Page
      <4>6. CASE cursor = None /\ pageNumber = None /\ offset = None
        BY <3>2, <3>5, <4>2, <4>6 DEF BuildPagination, Page
      <4> QED
        BY <4>3, <4>4, <4>5, <4>6
    <3>7. \A mode \in M : query.page.mode = mode
      BY <3>5, <3>6
    <3>8. \A i \in LastOf(CursorsGiven) : query.page.at = given[i].cursor
      <4> SUFFICES ASSUME NEW i \in LastOf(CursorsGiven) PROVE query.page.at = given[i].cursor
        OBVIOUS
      <4>1. CursorsGiven # {}
        BY DEF LastOf
      <4> QED
        BY <2>3, <3>1, <3>6, <4>1
    <3>9. \A i \in LastOf(GivenFor(NumberKeys)) : query.page.at = given[i].number
      <4> SUFFICES ASSUME NEW i \in LastOf(GivenFor(NumberKeys))
                   PROVE  query.page.at = given[i].number
        OBVIOUS
      <4>1. GivenFor(NumberKeys) # {}
        BY DEF LastOf
      <4> QED
        BY <2>3, <3>1, <3>6, <4>1
    <3>10. \A i \in LastOf(GivenFor(OffsetKeys)) : query.page.at = given[i].number
      <4> SUFFICES ASSUME NEW i \in LastOf(GivenFor(OffsetKeys))
                   PROVE  query.page.at = given[i].number
        OBVIOUS
      <4>1. GivenFor(OffsetKeys) # {}
        BY DEF LastOf
      <4> QED
        BY <2>3, <3>1, <3>6, <4>1
    <3>11. /\ \A i \in LastOf(GivenFor(SizeKeys)) : query.page.size = given[i].number
           /\ GivenFor(SizeKeys) = {} => query.page.size = DefaultSize
      <4>1. ASSUME NEW i \in LastOf(GivenFor(SizeKeys)) PROVE query.page.size = given[i].number
        <5>1. GivenFor(SizeKeys) # {}
          BY DEF LastOf
        <5> QED
          BY <2>3, <3>1, <3>6, <5>1
      <4> QED
        BY <2>3, <3>1, <3>6, <4>1
    <3> QED
      BY <3>3, <3>4, <3>6, <3>7, <3>8, <3>9, <3>10, <3>11
  <2> HIDE DEF Asked
  <2> QED
    BY <2>5, <2>6 DEF PageIsWhatWasAsked, Asked
<1> QED
  BY <1>1, ParsingInvariant, PTL

=============================================================================
