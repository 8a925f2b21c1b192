-------------------------- MODULE KeysetPagingProofs --------------------------
(***************************************************************************)
(* Keyset paging is gap-free and in order for every table, page size,      *)
(* sort, group and direction, and whatever is inserted, updated or deleted *)
(* between two pages - provided that columns hold no NULL and that numbers *)
(* survive the conversion to a double.  A cursor resumed under another     *)
(* sort starts a walk of its own.                                          *)
(***************************************************************************)
EXTENDS KeysetPaging, TLAPS, WellFoundedInduction, FiniteSetTheorems

ExactValues ==
    /\ Null \notin Stored
    /\ Stored \cup Row \subseteq -ExactUpTo..ExactUpTo

\* A key as a sort sees it: an integer for each of its fields.
IsKey(s, k) == \A f \in SortFields(s) : k[f] \in Int

-----------------------------------------------------------------------------
(* The order of a sort.                                                    *)

\* Every clause of a sort names one of its fields and a direction.
LEMMA Clauses ==
    ASSUME NEW s \in Sorts
    PROVE  /\ Len(s) \in Nat \ {0} /\ DOMAIN s = 1..Len(s)
           /\ \A i \in DOMAIN s : /\ s[i].field \in SortFields(s)
                                  /\ s[i].field \in Field
                                  /\ s[i].direction \in {"asc", "desc"}
           /\ KeyField \in SortFields(s)
           /\ SortFields(s) \subseteq Field
<1>1. s \in Seq([field : Field, direction : {"asc", "desc"}]) /\ s # <<>>
      /\ s[Len(s)].field = KeyField
  BY SortAssumption
<1>2. Len(s) \in Nat /\ DOMAIN s = 1..Len(s) /\ Len(s) # 0
  BY <1>1
<1>3. \A i \in DOMAIN s : s[i] \in [field : Field, direction : {"asc", "desc"}]
  <2> DEFINE Clause == [field : Field, direction : {"asc", "desc"}]
  <2>1. s \in Seq(Clause)
    BY <1>1
  <2> HIDE DEF Clause
  <2>2. \A i \in DOMAIN s : s[i] \in Clause
    BY <2>1
  <2> QED BY <2>2 DEF Clause
<1> QED BY <1>1, <1>2, <1>3 DEF SortFields

\* On integers a column's order is that of the numbers, or its reverse.
LEMMA ColumnOrder ==
    ASSUME NEW x \in Int, NEW y \in Int, NEW d \in {"asc", "desc"}
    PROVE  ColumnBefore(d, x, y) <=> IF d = "asc" THEN x < y ELSE y < x
<1>1. x # Null /\ y # Null
  BY PagingAssumption
<1> QED BY <1>1 DEF ColumnBefore, Lower

\* No key sorts before a key that agrees with it on the sort's fields.
LEMMA SortIrreflexive ==
    ASSUME NEW s \in Sorts, NEW k, NEW l, IsKey(s, k),
           \A f \in SortFields(s) : k[f] = l[f]
    PROVE  ~SortsBefore(s, k, l)
<1> SUFFICES ASSUME NEW i \in DOMAIN s,
                    ColumnBefore(s[i].direction, k[s[i].field], l[s[i].field])
             PROVE  FALSE
  BY DEF SortsBefore
<1>1. k[s[i].field] \in Int /\ l[s[i].field] = k[s[i].field]
  BY Clauses DEF IsKey
<1> QED BY <1>1, ColumnOrder, Clauses

\* Sorting before is transitive: the first clause that tells the outer two
\* apart is the earlier of those that tell the neighbours apart.
LEMMA SortTransitive ==
    ASSUME NEW s \in Sorts, NEW k, NEW l, NEW m,
           IsKey(s, k), IsKey(s, l), IsKey(s, m),
           SortsBefore(s, k, l), SortsBefore(s, l, m)
    PROVE  SortsBefore(s, k, m)
<1>1. PICK i \in DOMAIN s :
        /\ \A j \in 1..(i - 1) : k[s[j].field] = l[s[j].field]
        /\ ColumnBefore(s[i].direction, k[s[i].field], l[s[i].field])
  BY DEF SortsBefore
<1>2. PICK h \in DOMAIN s :
        /\ \A j \in 1..(h - 1) : l[s[j].field] = m[s[j].field]
        /\ ColumnBefore(s[h].direction, l[s[h].field], m[s[h].field])
  BY DEF SortsBefore
<1>3. /\ i \in 1..Len(s) /\ h \in 1..Len(s) /\ Len(s) \in Nat
      /\ s[i].direction \in {"asc", "desc"} /\ s[h].direction \in {"asc", "desc"}
      /\ k[s[i].field] \in Int /\ l[s[i].field] \in Int /\ m[s[i].field] \in Int
      /\ k[s[h].field] \in Int /\ l[s[h].field] \in Int /\ m[s[h].field] \in Int
  BY Clauses DEF IsKey
<1>4. CASE i < h
  <2>1. \A j \in 1..(i - 1) : k[s[j].field] = m[s[j].field]
    BY <1>1, <1>2, <1>3, <1>4
  <2>2. l[s[i].field] = m[s[i].field]
    BY <1>2, <1>3, <1>4
  <2> QED BY <1>1, <2>1, <2>2 DEF SortsBefore
<1>5. CASE i = h
  <2>1. \A j \in 1..(i - 1) : k[s[j].field] = m[s[j].field]
    BY <1>1, <1>2, <1>3, <1>5
  <2>2. ColumnBefore(s[i].direction, k[s[i].field], m[s[i].field])
    BY <1>1, <1>2, <1>3, <1>5, ColumnOrder
  <2> QED BY <2>1, <2>2 DEF SortsBefore
<1>6. CASE i > h
  <2>1. \A j \in 1..(h - 1) : k[s[j].field] = m[s[j].field]
    BY <1>1, <1>2, <1>3, <1>6
  <2>2. k[s[h].field] = l[s[h].field]
    BY <1>1, <1>3, <1>6
  <2> QED BY <1>2, <2>1, <2>2 DEF SortsBefore
<1> QED BY <1>3, <1>4, <1>5, <1>6

\* Keys that differ on a field of the sort are in its order, one way or the
\* other: by the first clause that tells them apart.
LEMMA SortTotal ==
    ASSUME NEW s \in Sorts, NEW k, NEW l, IsKey(s, k), IsKey(s, l),
           NEW f \in SortFields(s), k[f] # l[f]
    PROVE  SortsBefore(s, k, l) \/ SortsBefore(s, l, k)
<1> DEFINE Apart == {i \in DOMAIN s : k[s[i].field] # l[s[i].field]}
<1>1. Apart # {} /\ Apart \subseteq Nat
  BY Clauses DEF SortFields
<1>2. PICK i \in Apart : \A j \in Apart : i <= j
  <2> DEFINE Less == OpToRel(<, Nat)
  <2>1. PICK i \in Apart : \A j \in Apart : ~(<<j, i>> \in Less)
    <3> HIDE DEF Apart, Less
    <3>1. IsWellFoundedOn(Less, Nat)
      BY NatLessThanWellFounded DEF Less
    <3> QED BY <1>1, <3>1, WFMin
  <2>2. \A j \in Apart : ~(j < i)
    BY <1>1, <2>1 DEF OpToRel
  <2> QED BY <1>1, <2>2
<1>3. i \in 1..Len(s) /\ Len(s) \in Nat
  BY Clauses
<1>4. \A j \in 1..(i - 1) : k[s[j].field] = l[s[j].field]
  BY <1>2, <1>3, Clauses
<1>5. \/ ColumnBefore(s[i].direction, k[s[i].field], l[s[i].field])
      \/ ColumnBefore(s[i].direction, l[s[i].field], k[s[i].field])
  BY Clauses, ColumnOrder, <1>3 DEF IsKey
<1> QED BY <1>4, <1>5 DEF SortsBefore

\* Agreement on the sort's fields is all the order looks at.
LEMMA SortCongruent ==
    ASSUME NEW s \in Sorts, NEW k, NEW l, NEW m,
           \A f \in SortFields(s) : k[f] = l[f]
    PROVE  /\ SortsBefore(s, k, m) <=> SortsBefore(s, l, m)
           /\ SortsBefore(s, m, k) <=> SortsBefore(s, m, l)
<1>1. \A i \in DOMAIN s : k[s[i].field] = l[s[i].field]
  BY Clauses
<1>2. \A i \in DOMAIN s : \A j \in 1..(i - 1) : j \in DOMAIN s
  BY Clauses
<1> QED BY <1>1, <1>2 DEF SortsBefore

-----------------------------------------------------------------------------
(* The order of a walk: the sort's, or its reverse.                        *)

\* A walk's order is a strict order, total on keys that a field of the sort
\* tells apart, and looks at the sort's fields only.
LEMMA WalkIrreflexive ==
    ASSUME NEW s \in Sorts, NEW b \in BOOLEAN, NEW k, NEW l, IsKey(s, k), IsKey(s, l),
           WalksBefore(s, b, k, l)
    PROVE  \E f \in SortFields(s) : k[f] # l[f]
BY SortIrreflexive DEF WalksBefore

LEMMA WalkTransitive ==
    ASSUME NEW s \in Sorts, NEW b \in BOOLEAN, NEW k, NEW l, NEW m,
           IsKey(s, k), IsKey(s, l), IsKey(s, m),
           WalksBefore(s, b, k, l), WalksBefore(s, b, l, m)
    PROVE  WalksBefore(s, b, k, m)
BY SortTransitive DEF WalksBefore

LEMMA WalkTotal ==
    ASSUME NEW s \in Sorts, NEW b \in BOOLEAN, NEW k, NEW l, IsKey(s, k), IsKey(s, l),
           NEW f \in SortFields(s), k[f] # l[f]
    PROVE  WalksBefore(s, b, k, l) \/ WalksBefore(s, b, l, k)
BY SortTotal DEF WalksBefore

LEMMA WalkCongruent ==
    ASSUME NEW s \in Sorts, NEW b \in BOOLEAN, NEW k, NEW l, NEW m,
           \A f \in SortFields(s) : k[f] = l[f]
    PROVE  /\ WalksBefore(s, b, k, m) <=> WalksBefore(s, b, l, m)
           /\ WalksBefore(s, b, m, k) <=> WalksBefore(s, b, m, l)
BY SortCongruent DEF WalksBefore

-----------------------------------------------------------------------------
(* What a request returns.                                                 *)

\* The keys of rows hold stored values.
LEMMA RowKeys ==
    ASSUME data \in [Row -> Contents], NEW r \in Row
    PROVE  \A f \in Field : Key(r)[f] \in Stored \cup Row
BY PagingAssumption DEF Key, Field, Contents

\* Without NULLs, keys and cursors are integers where a sort looks.
LEMMA ExactKeys ==
    ASSUME ExactValues, NEW s \in Sorts, NEW k,
           \A f \in SortFields(s) : k[f] \in Stored \cup Row
    PROVE  IsKey(s, k) /\ \A f \in SortFields(s) : JsonToParam(k[f]) = k[f]
<1>1. \A v \in Stored \cup Row :
         v \in Int /\ v # Null /\ v \in -ExactUpTo..ExactUpTo
  BY PagingAssumption DEF ExactValues
<1> QED BY <1>1 DEF IsKey, JsonToParam, AsDouble

\* The keyset condition holds exactly of the rows beyond the cursor.
LEMMA ConditionIsOrder ==
    ASSUME ExactValues, NEW s \in Sorts, NEW b \in BOOLEAN, NEW c, NEW k,
           \A f \in SortFields(s) : c[f] \in Stored \cup Row,
           \A f \in SortFields(s) : k[f] \in Stored \cup Row
    PROVE  KeysetCondition(s, c, b, k) <=> WalksBefore(s, b, c, k)
<1>1. /\ IsKey(s, c) /\ IsKey(s, k)
      /\ \A f \in SortFields(s) : JsonToParam(c[f]) = c[f]
  BY ExactKeys
<1>2. \A i \in DOMAIN s :
        /\ s[i].field \in SortFields(s) /\ s[i].direction \in {"asc", "desc"}
        /\ k[s[i].field] \in Int /\ c[s[i].field] \in Int
        /\ k[s[i].field] # Null /\ c[s[i].field] # Null
        /\ \A j \in 1..(i - 1) : j \in DOMAIN s
  BY <1>1, Clauses, PagingAssumption DEF IsKey
<1>3. \A i \in DOMAIN s :
        SqlEqual(k[s[i].field], JsonToParam(c[s[i].field])) <=> k[s[i].field] = c[s[i].field]
  BY <1>1, <1>2 DEF SqlEqual
<1>4. \A i \in DOMAIN s :
        SqlCompare(ComparisonOp(s[i].direction, b), k[s[i].field], JsonToParam(c[s[i].field]))
        <=> IF b THEN ColumnBefore(s[i].direction, k[s[i].field], c[s[i].field])
            ELSE ColumnBefore(s[i].direction, c[s[i].field], k[s[i].field])
  <2> SUFFICES ASSUME NEW i \in DOMAIN s
               PROVE  SqlCompare(ComparisonOp(s[i].direction, b), k[s[i].field],
                                 JsonToParam(c[s[i].field]))
                      <=> IF b THEN ColumnBefore(s[i].direction, k[s[i].field], c[s[i].field])
                          ELSE ColumnBefore(s[i].direction, c[s[i].field], k[s[i].field])
    OBVIOUS
  <2>1. JsonToParam(c[s[i].field]) = c[s[i].field]
    BY <1>1, <1>2
  <2>2. CASE s[i].direction = "asc"
    BY <1>2, <2>1, <2>2, ColumnOrder DEF SqlCompare, ComparisonOp
  <2>3. CASE s[i].direction = "desc"
    BY <1>2, <2>1, <2>3, ColumnOrder DEF SqlCompare, ComparisonOp
  <2> QED BY <1>2, <2>2, <2>3
<1> QED BY <1>2, <1>3, <1>4 DEF KeysetCondition, WalksBefore, SortsBefore

\* A page is an initial segment of what was found.
LEMMA PageFirst ==
    ASSUME ExactValues, data \in [Row -> Contents],
           NEW s \in Sorts, NEW b \in BOOLEAN, NEW found, found \subseteq Row,
           NEW q \in FirstRows(s, b, found), NEW r \in found \ FirstRows(s, b, found)
    PROVE  WalksBefore(s, b, Key(q), Key(r))
<1> DEFINE Ahead(x) == {p \in found : WalksBefore(s, b, Key(p), Key(x))}
<1>1. /\ q \in found /\ r \in found /\ q # r
      /\ Cardinality(Ahead(q)) < Size /\ ~(Cardinality(Ahead(r)) < Size)
  BY DEF FirstRows
<1>2. \A p \in found : IsKey(s, Key(p)) /\ Key(p)[KeyField] = p
  BY RowKeys, ExactKeys, Clauses DEF Key, Field
<1>3. SUFFICES ASSUME WalksBefore(s, b, Key(r), Key(q)) PROVE FALSE
  <2>1. Key(q)[KeyField] # Key(r)[KeyField] /\ KeyField \in SortFields(s)
    BY <1>1, <1>2, Clauses
  <2> QED BY <1>1, <1>2, <2>1, WalkTotal
<1>4. Ahead(r) \subseteq Ahead(q)
  BY <1>1, <1>2, <1>3, WalkTransitive
<1>5. IsFiniteSet(Ahead(q))
  BY PagingAssumption, FS_Subset
<1>6. /\ Cardinality(Ahead(r)) <= Cardinality(Ahead(q))
      /\ Cardinality(Ahead(q)) \in Nat /\ Cardinality(Ahead(r)) \in Nat
  <2> HIDE DEF Ahead
  <2>1. IsFiniteSet(Ahead(r)) /\ Cardinality(Ahead(r)) <= Cardinality(Ahead(q))
    BY <1>4, <1>5, FS_Subset
  <2> QED BY <2>1, <1>5, FS_CardinalityType
<1> QED BY <1>1, <1>6, PagingAssumption

-----------------------------------------------------------------------------
(* Type correctness.                                                       *)

\* Serving a page keeps the types of what it assigns.
LEMMA ServeTypes ==
    ASSUME TypeOK, NEW s \in Sorts, NEW b, NEW g, NEW c, Serve(s, b, g, c)
    PROVE  /\ page' \subseteq present /\ cursor' \in Cursors
           /\ phase' \in {"more", "end"}
           /\ phase' = "more" => cursor' # None
<1>1. page' \subseteq present
  BY DEF Serve, FirstRows, Found
<1>2. CASE phase' = "end" /\ cursor' = None
  BY <1>1, <1>2 DEF Cursors
<1>3. CASE phase' = "more" /\ \E last \in page' : cursor' = CursorAt(s, Key(last))
  <2>1. PICK last \in page' : cursor' = CursorAt(s, Key(last))
    BY <1>3
  <2>2. last \in Row
    BY <1>1, <2>1 DEF TypeOK
  <2>3. \A f \in Field : Key(last)[f] \in Stored \cup Row
    BY <2>2, RowKeys DEF TypeOK
  <2>4. cursor' \in [SortFields(s) -> Stored \cup Row]
    BY <2>1, <2>3, Clauses DEF CursorAt
  <2>5. cursor' \in Cursors
    BY <2>4 DEF Cursors
  <2>6. cursor' # None
    BY NoneIsNoCursor, <2>4
  <2> QED BY <1>1, <1>3, <2>5, <2>6
<1> QED BY <1>2, <1>3 DEF Serve

\* The type invariant is inductive.
LEMMA TypeStep == TypeOK /\ [Next]_vars => TypeOK'
<1> SUFFICES ASSUME TypeOK, [Next]_vars PROVE TypeOK'
  OBVIOUS
<1> USE DEF table, request
<1>1. ASSUME NEW s \in Sorts, NEW b \in BOOLEAN, NEW g \in Stored \cup {None},
             NEW c \in Cursors, Walk(s, b, g, c)
      PROVE  TypeOK'
  <2>1. Serve(s, b, g, c)
    BY <1>1 DEF Walk
  <2>2. /\ page' \subseteq present /\ cursor' \in Cursors
        /\ phase' \in {"more", "end"}
        /\ phase' = "more" => cursor' # None
    BY <2>1, ServeTypes
  <2> QED BY <1>1, <2>2 DEF TypeOK, Walk
<1>2. ASSUME NEW s \in Sorts, NEW g \in Stored \cup {None}, Open(s, g)
      PROVE  TypeOK'
  BY <1>1, <1>2 DEF Open, Cursors
<1>3. ASSUME NEW s \in Sorts, Continue(s) PROVE TypeOK'
  <2>1. CASE CursorRejected(s, cursor)
    BY <1>3, <2>1 DEF TypeOK, Continue
  <2>2. CASE ~CursorRejected(s, cursor) /\ s = sort
    <3>1. Serve(s, backward, scope, cursor)
      BY <1>3, <2>2 DEF Continue
    <3>2. /\ page' \subseteq present /\ cursor' \in Cursors
          /\ phase' \in {"more", "end"}
          /\ phase' = "more" => cursor' # None
      BY <3>1, ServeTypes
    <3> QED BY <1>3, <2>2, <3>2 DEF TypeOK, Continue
  <2>3. CASE ~CursorRejected(s, cursor) /\ s # sort
    <3>1. Walk(s, backward, scope, CursorAt(s, cursor))
      BY <1>3, <2>3 DEF Continue
    <3>2. PICK u \in Sorts : cursor \in [SortFields(u) -> Stored \cup Row]
      BY <1>3 DEF TypeOK, Cursors, Continue
    <3>3. CursorAt(s, cursor) \in [SortFields(s) -> Stored \cup Row]
      BY <2>3, <3>2 DEF CursorAt, CursorRejected
    <3>4. CursorAt(s, cursor) \in Cursors
      BY <3>3 DEF Cursors
    <3> QED BY <1>1, <3>1, <3>4 DEF TypeOK
  <2> QED BY <2>1, <2>2, <2>3
<1>4. CASE Turn
  BY <1>1, <1>4 DEF Turn, TypeOK
<1>5. ASSUME NEW r \in Row, NEW v \in Contents, Insert(r, v) \/ Update(r, v)
      PROVE  TypeOK'
  BY <1>5 DEF TypeOK, Insert, Update, Unread
<1>6. ASSUME NEW r \in Row, Delete(r) PROVE TypeOK'
  BY <1>6 DEF TypeOK, Delete, Unread
<1>7. CASE UNCHANGED vars
  BY <1>7 DEF TypeOK, vars
<1> QED BY <1>2, <1>3, <1>4, <1>5, <1>6, <1>7 DEF Next

\* Every variable of a walk keeps its type, with or without NULLs, and under
\* whatever sorts a client resumes.
THEOREM TypeCorrect == Spec => []TypeOK
<1>1. Init => TypeOK
  BY DEF Init, TypeOK, Cursors
<1> QED BY <1>1, TypeStep, PTL DEF Spec


-----------------------------------------------------------------------------
(* Safety.  While a walk has more pages, its cursor separates the untouched *)
(* rows it has shown from the sought ones it still owes.                    *)

\* A key agrees with another where the sort looks, or comes before it.
UpTo(s, b, k, l) ==
    WalksBefore(s, b, k, l) \/ \A f \in SortFields(s) : k[f] = l[f]

IsCursor(s, c) == c \in [SortFields(s) -> Stored \cup Row]

CursorSeparates ==
    phase = "more" =>
        /\ IsCursor(sort, cursor)
        /\ \A r \in (before \cup page) \cap stable : UpTo(sort, backward, Key(r), cursor)
        /\ \A r \in stable :
              Sought(r) => r \in before \cup page \/ WalksBefore(sort, backward, cursor, Key(r))

Inv ==
    /\ TypeOK
    /\ origin = None \/ IsCursor(sort, origin)
    /\ CursorSeparates
    /\ NothingSkipped
    /\ PagesAscend

\* Rows beyond a cursor, for walks with and without one.
Beyond(s, b, c, k) == c = None \/ WalksBefore(s, b, c, k)

\* A served page holds only rows asked for; it holds all of them and ends the
\* walk, or its cursor separates those it holds from those it does not.
LEMMA ServeStep ==
    ASSUME ExactValues, TypeOK, NEW s \in Sorts, NEW b \in BOOLEAN, NEW g, NEW c,
           c = None \/ IsCursor(s, c), Serve(s, b, g, c)
    PROVE  /\ page' \subseteq present
           /\ \A r \in page' : InScope(g, r) /\ Beyond(s, b, c, Key(r))
           /\ \/ /\ phase' = "end"
                 /\ \A r \in present : InScope(g, r) /\ Beyond(s, b, c, Key(r)) => r \in page'
              \/ /\ phase' = "more" /\ IsCursor(s, cursor')
                 /\ Beyond(s, b, c, cursor')
                 /\ \A r \in page' : UpTo(s, b, Key(r), cursor')
                 /\ \A r \in present : InScope(g, r) /\ Beyond(s, b, c, Key(r))
                        => r \in page' \/ WalksBefore(s, b, cursor', Key(r))
<1> DEFINE found == Found(s, b, g, c)
<1>1. found \subseteq present /\ present \subseteq Row
  BY DEF Found, TypeOK
<1>2. \A r \in Row : IsKey(s, Key(r)) /\ \A f \in SortFields(s) : Key(r)[f] \in Stored \cup Row
  BY RowKeys, ExactKeys, Clauses DEF TypeOK
<1>3. \A r \in present : r \in found <=> InScope(g, r) /\ Beyond(s, b, c, Key(r))
  <2>1. CASE c = None
    BY <2>1 DEF Found, Beyond
  <2>2. CASE c # None
    <3>1. \A f \in SortFields(s) : c[f] \in Stored \cup Row
      BY <2>2 DEF IsCursor
    <3>2. \A r \in present : KeysetCondition(s, c, b, Key(r)) <=> WalksBefore(s, b, c, Key(r))
      BY <1>1, <1>2, <3>1, ConditionIsOrder
    <3> QED BY <2>2, <3>2 DEF Found, Beyond
  <2> QED BY <2>1, <2>2
<1>4. page' = FirstRows(s, b, found) /\ page' \subseteq found
  BY DEF Serve, FirstRows
<1>5. \A q \in page', r \in found \ page' : WalksBefore(s, b, Key(q), Key(r))
  <2> HIDE DEF found
  <2> QED BY <1>1, <1>4, PageFirst DEF TypeOK
<1>6. /\ page' \subseteq present
      /\ \A r \in page' : InScope(g, r) /\ Beyond(s, b, c, Key(r))
  BY <1>1, <1>3, <1>4
<1>7. CASE found = page' /\ phase' = "end"
  BY <1>3, <1>6, <1>7
<1>8. CASE /\ phase' = "more"
           /\ \E last \in page' :
                 /\ \A r \in page' \ {last} : WalksBefore(s, b, Key(r), Key(last))
                 /\ cursor' = CursorAt(s, Key(last))
  <2> HIDE DEF found
  <2>1. PICK last \in page' :
          /\ \A r \in page' \ {last} : WalksBefore(s, b, Key(r), Key(last))
          /\ cursor' = CursorAt(s, Key(last))
    BY <1>8
  <2>2. last \in Row /\ Beyond(s, b, c, Key(last))
    BY <1>1, <1>6
  <2>3. PICK z : z = cursor'
    OBVIOUS
  <2>4. IsCursor(s, z) /\ \A f \in SortFields(s) : Key(last)[f] = z[f]
    BY <1>2, <2>1, <2>2, <2>3 DEF IsCursor, CursorAt
  <2>5. \A r \in present :
          /\ WalksBefore(s, b, Key(r), Key(last)) <=> WalksBefore(s, b, Key(r), z)
          /\ WalksBefore(s, b, Key(last), Key(r)) <=> WalksBefore(s, b, z, Key(r))
    BY <2>4, WalkCongruent
  <2>6. Beyond(s, b, c, z)
    <3>1. WalksBefore(s, b, c, Key(last)) <=> WalksBefore(s, b, c, z)
      BY <2>4, WalkCongruent
    <3> QED BY <2>2, <3>1 DEF Beyond
  <2>7. \A r \in page' : UpTo(s, b, Key(r), z)
    BY <1>6, <2>1, <2>4, <2>5 DEF UpTo
  <2>8. \A r \in present : InScope(g, r) /\ Beyond(s, b, c, Key(r))
            => r \in page' \/ WalksBefore(s, b, z, Key(r))
    BY <1>3, <1>5, <2>1, <2>5
  <2> QED BY <1>6, <1>8, <2>3, <2>4, <2>6, <2>7, <2>8
<1> QED BY <1>7, <1>8 DEF Serve

\* Starting a walk, from the first page or back from a cursor.
LEMMA WalkStep ==
    ASSUME ExactValues, TypeOK, TypeOK', NEW s \in Sorts, NEW b \in BOOLEAN, NEW g, NEW c,
           c = None \/ IsCursor(s, c), Walk(s, b, g, c)
    PROVE  Inv'
<1>1. /\ sort' = s /\ backward' = b /\ scope' = g /\ origin' = c
      /\ before' = {} /\ stable' = present /\ Serve(s, b, g, c)
      /\ present' = present /\ data' = data
  BY DEF Walk, table
<1>2. \A r : Key(r)' = Key(r) /\ InScope(g, r)' = InScope(g, r)
  BY <1>1 DEF Key, InScope
<1>3. \A r : Sought(r)' <=> InScope(g, r) /\ Beyond(s, b, c, Key(r))
  BY <1>1, <1>2 DEF Sought, Beyond, InScope
<1>4. PagesAscend'
  BY <1>1 DEF PagesAscend
<1>5. CASE phase' = "end"
  BY <1>1, <1>3, <1>4, <1>5, ServeStep DEF Inv, NothingSkipped, CursorSeparates
<1>6. CASE phase' = "more"
  <2>1. /\ IsCursor(s, cursor')
        /\ \A r \in page' : UpTo(s, b, Key(r), cursor')
        /\ \A r \in present : InScope(g, r) /\ Beyond(s, b, c, Key(r))
               => r \in page' \/ WalksBefore(s, b, cursor', Key(r))
    BY <1>1, <1>6, ServeStep
  <2>2. CursorSeparates'
    BY <1>1, <1>2, <1>3, <2>1 DEF CursorSeparates
  <2> QED BY <1>1, <1>4, <1>6, <2>2 DEF Inv, NothingSkipped
<1> QED BY <1>1, <1>5, <1>6, ServeStep

\* Resuming from the cursor: what was shown is up to it and what follows is
\* beyond it.
LEMMA ContinueStep ==
    ASSUME ExactValues, Inv, TypeOK', NEW s \in Sorts, Continue(s), s = sort
    PROVE  /\ Inv'
           /\ phase' = "more" => WalksBefore(s, backward, cursor, cursor')
<1>1. /\ s = sort /\ phase = "more" /\ TypeOK /\ IsCursor(sort, cursor)
      /\ backward \in BOOLEAN /\ cursor # None
      /\ stable \subseteq present /\ present \subseteq Row /\ before \cup page \subseteq Row
  BY DEF Continue, Inv, TypeOK, CursorSeparates, ExactValues
<1>2. ~CursorRejected(s, cursor)
  BY <1>1, SortAssumption DEF CursorRejected, IsCursor
<1>3. /\ sort' = sort /\ backward' = backward /\ scope' = scope /\ origin' = origin
      /\ before' = before \cup page /\ stable' = stable /\ present' = present /\ data' = data
      /\ Serve(sort, backward, scope, cursor)
  BY <1>1, <1>2 DEF Continue, table, request
<1>4. \A r : Key(r)' = Key(r) /\ Sought(r)' = Sought(r)
  BY <1>3 DEF Key, InScope, Sought
<1>5. /\ \A r \in Row : IsKey(sort, Key(r)) /\ Key(r)[KeyField] = r
      /\ IsKey(sort, cursor)
  BY <1>1, RowKeys, ExactKeys, Clauses DEF TypeOK, IsCursor, Key, Field
<1>6. /\ page' \subseteq present
      /\ \A r \in page' : InScope(scope, r) /\ WalksBefore(sort, backward, cursor, Key(r))
  BY <1>1, <1>3, ServeStep DEF Beyond
<1>7. \A q \in (before \cup page) \cap stable :
        \A k : IsKey(sort, k) /\ WalksBefore(sort, backward, cursor, k)
                 => WalksBefore(sort, backward, Key(q), k)
  <2> SUFFICES ASSUME NEW q \in (before \cup page) \cap stable, NEW k, IsKey(sort, k),
                      WalksBefore(sort, backward, cursor, k)
               PROVE  WalksBefore(sort, backward, Key(q), k)
    OBVIOUS
  <2>1. UpTo(sort, backward, Key(q), cursor) /\ IsKey(sort, Key(q)) /\ sort \in Sorts
    BY <1>1, <1>5 DEF Inv, CursorSeparates
  <2>2. CASE WalksBefore(sort, backward, Key(q), cursor)
    BY <1>1, <1>5, <2>1, <2>2, WalkTransitive
  <2>3. CASE \A f \in SortFields(sort) : Key(q)[f] = cursor[f]
    BY <1>1, <2>1, <2>3, WalkCongruent
  <2> QED BY <2>1, <2>2, <2>3 DEF UpTo
<1>8. PagesAscend'
  <2> SUFFICES ASSUME NEW q \in (before \cup page) \cap stable, NEW r \in page' \cap stable
               PROVE  q # r /\ WalksBefore(sort, backward, Key(q), Key(r))
    BY <1>3, <1>4 DEF PagesAscend
  <2>1. WalksBefore(sort, backward, Key(q), Key(r))
    BY <1>1, <1>5, <1>6, <1>7
  <2>2. IsKey(sort, Key(q)) /\ IsKey(sort, Key(r)) /\ sort \in Sorts
    BY <1>1, <1>5
  <2> QED BY <1>1, <2>1, <2>2, WalkIrreflexive
<1>9. \A r \in stable : Sought(r) =>
        \/ r \in before \cup page
        \/ InScope(scope, r) /\ WalksBefore(sort, backward, cursor, Key(r))
  BY <1>1 DEF Inv, CursorSeparates, Sought
<1>10. CASE phase' = "end"
  <2>1. NothingSkipped'
    BY <1>1, <1>3, <1>4, <1>9, <1>10, ServeStep DEF NothingSkipped, Beyond
  <2> QED BY <1>3, <1>8, <1>10, <2>1 DEF Inv, CursorSeparates
<1>11. CASE phase' = "more"
  <2>1. PICK z : z = cursor'
    OBVIOUS
  <2>2. /\ IsCursor(sort, z) /\ WalksBefore(sort, backward, cursor, z)
        /\ \A r \in page' : UpTo(sort, backward, Key(r), z)
        /\ \A r \in present : InScope(scope, r) /\ WalksBefore(sort, backward, cursor, Key(r))
               => r \in page' \/ WalksBefore(sort, backward, z, Key(r))
    BY <1>1, <1>3, <1>11, <2>1, ServeStep DEF Beyond
  <2>3. IsKey(sort, z)
    BY <1>1, <2>2, ExactKeys DEF IsCursor
  <2>4. \A q \in (before \cup page) \cap stable : UpTo(sort, backward, Key(q), z)
    BY <1>7, <2>2, <2>3 DEF UpTo
  <2>5. CursorSeparates'
    <3>1. IsCursor(sort', cursor')
      BY <1>3, <2>1, <2>2
    <3>2. \A r \in (before' \cup page') \cap stable' : UpTo(sort', backward', Key(r)', cursor')
      BY <1>3, <1>4, <2>1, <2>2, <2>4
    <3>3. \A r \in stable' : Sought(r)' =>
             r \in before' \cup page' \/ WalksBefore(sort', backward', cursor', Key(r)')
      BY <1>1, <1>3, <1>4, <1>9, <2>1, <2>2
    <3> QED BY <3>1, <3>2, <3>3 DEF CursorSeparates
  <2> QED BY <1>1, <1>3, <1>8, <1>11, <2>1, <2>2, <2>5 DEF Inv, NothingSkipped
<1> QED BY <1>1, <1>3, <1>10, <1>11, ServeStep

\* Resuming under another sort is refused, or starts a walk from the cursor.
LEMMA ResumeStep ==
    ASSUME ExactValues, Inv, TypeOK', NEW s \in Sorts, Continue(s), s # sort
    PROVE  /\ Inv'
           /\ phase' = "more" => WalksBefore(s, backward, cursor, cursor')
<1>1. /\ TypeOK /\ phase = "more" /\ IsCursor(sort, cursor)
      /\ backward \in BOOLEAN
  BY DEF Continue, Inv, TypeOK, CursorSeparates
<1>2. CASE CursorRejected(s, cursor)
  <2>1. /\ phase' = "rejected" /\ UNCHANGED <<table, request, page, cursor, before, stable>>
    BY <1>2 DEF Continue
  <2>2. \A r : Key(r)' = Key(r)
    BY <2>1 DEF Key, table
  <2>3. PagesAscend' /\ NothingSkipped' /\ CursorSeparates'
    BY <2>1, <2>2 DEF PagesAscend, NothingSkipped, CursorSeparates, Inv, request
  <2> QED BY <2>1, <2>3 DEF Inv, request
<1>3. CASE ~CursorRejected(s, cursor)
  <2>1. Walk(s, backward, scope, CursorAt(s, cursor))
    BY <1>3 DEF Continue
  <2>2. IsCursor(s, CursorAt(s, cursor))
    BY <1>1, <1>3 DEF IsCursor, CursorAt, CursorRejected
  <2>3. Inv'
    BY <1>1, <2>1, <2>2, WalkStep
  <2>4. Serve(s, backward, scope, CursorAt(s, cursor)) /\ CursorAt(s, cursor) # None
    BY <2>1, <2>2, NoneIsNoCursor DEF Walk, IsCursor
  <2>5. phase' = "more" => WalksBefore(s, backward, CursorAt(s, cursor), cursor')
    BY <1>1, <2>2, <2>4, ServeStep DEF Beyond
  <2>6. \A f \in SortFields(s) : CursorAt(s, cursor)[f] = cursor[f]
    BY DEF CursorAt
  <2> QED BY <1>1, <2>3, <2>5, <2>6, WalkCongruent
<1> QED BY <1>2, <1>3

\* What others do to rows cannot break a walk: rows they touch are no longer
\* stable, and the others keep their keys.
LEMMA WriterStep ==
    ASSUME Inv, TypeOK', Unread, stable' \subseteq stable,
           \A r \in stable' : data'[r] = data[r]
    PROVE  Inv'
<1>1. /\ sort' = sort /\ backward' = backward /\ scope' = scope /\ origin' = origin
      /\ phase' = phase /\ page' = page /\ cursor' = cursor /\ before' = before
  BY DEF Unread, request
<1>2. \A r \in stable' : Key(r)' = Key(r) /\ Sought(r)' = Sought(r)
  BY <1>1 DEF Key, InScope, Sought
<1>3. CursorSeparates'
  BY <1>1, <1>2 DEF Inv, CursorSeparates
<1>4. NothingSkipped'
  BY <1>1, <1>2 DEF Inv, NothingSkipped
<1>5. PagesAscend'
  BY <1>1, <1>2 DEF Inv, PagesAscend
<1> QED BY <1>1, <1>3, <1>4, <1>5 DEF Inv

\* The invariant is inductive.
LEMMA SafetyStep ==
    ASSUME ExactValues
    PROVE  Inv /\ [Next]_vars => Inv'
<1> SUFFICES ASSUME Inv, [Next]_vars PROVE Inv'
  OBVIOUS
<1>0. TypeOK /\ TypeOK'
  BY TypeStep DEF Inv
<1>1. ASSUME NEW s \in Sorts, NEW g \in Stored \cup {None}, Open(s, g) PROVE Inv'
  BY <1>0, <1>1, WalkStep DEF Open
<1>2. ASSUME NEW s \in Sorts, Continue(s) PROVE Inv'
  BY <1>0, <1>2, ContinueStep, ResumeStep
<1>3. CASE Turn
  <2>1. sort \in Sorts /\ (~backward) \in BOOLEAN /\ IsCursor(sort, cursor)
    BY <1>0, <1>3 DEF TypeOK, Turn, Inv, CursorSeparates
  <2> QED BY <1>0, <1>3, <2>1, WalkStep DEF Turn
<1>4. ASSUME NEW r \in Row, NEW v \in Contents, Insert(r, v) PROVE Inv'
  <2>1. /\ Unread /\ stable' = stable /\ r \notin stable
        /\ data \in [Row -> Contents] /\ stable \subseteq Row
        /\ data' = [data EXCEPT ![r] = v]
    BY <1>0, <1>4 DEF Insert, TypeOK
  <2> QED BY <1>0, <2>1, WriterStep
<1>5. ASSUME NEW r \in Row, NEW v \in Contents, Update(r, v) PROVE Inv'
  <2>1. /\ Unread /\ stable' = stable \ {r}
        /\ data \in [Row -> Contents] /\ stable \subseteq Row
        /\ data' = [data EXCEPT ![r] = v]
    BY <1>0, <1>5 DEF Update, TypeOK
  <2> QED BY <1>0, <2>1, WriterStep
<1>6. ASSUME NEW r \in Row, Delete(r) PROVE Inv'
  BY <1>0, <1>6, WriterStep DEF Delete
<1>7. CASE UNCHANGED vars
  BY <1>0, <1>7, WriterStep DEF vars, table, Unread
<1> QED BY <1>1, <1>2, <1>3, <1>4, <1>5, <1>6, <1>7 DEF Next

\* A walk starts with nothing shown.
LEMMA SafetyInit == Init => Inv
BY DEF Init, Inv, TypeOK, Cursors, CursorSeparates, NothingSkipped, PagesAscend

\* When a walk ends it has shown every row it is about that nobody touched:
\* keyset_condition leaves no gap between pages.
THEOREM NothingIsSkipped ==
    ASSUME ExactValues
    PROVE  Spec => []NothingSkipped
<1>1. Inv => NothingSkipped
  BY DEF Inv
<1> QED BY <1>1, SafetyInit, SafetyStep, PTL DEF Spec

\* Untouched rows are shown in order and once.
THEOREM PagesAreInOrder ==
    ASSUME ExactValues
    PROVE  Spec => []PagesAscend
<1>1. Inv => PagesAscend
  BY DEF Inv
<1> QED BY <1>1, SafetyInit, SafetyStep, PTL DEF Spec

\* Following cursors always moves on.
THEOREM CursorsAdvance ==
    ASSUME ExactValues
    PROVE  Spec => CursorAdvances
<1> DEFINE Advance ==
      \A s \in Sorts :
          (Continue(s) /\ phase' = "more") => WalksBefore(s, backward, cursor, cursor')
<1>1. Inv /\ [Next]_vars => [Advance]_vars
  <2> SUFFICES ASSUME Inv, [Next]_vars PROVE Advance
    OBVIOUS
  <2> QED BY TypeStep, ContinueStep, ResumeStep DEF Inv
<1> QED BY <1>1, SafetyInit, SafetyStep, PTL DEF Spec, CursorAdvances

=============================================================================
