---------------------------- MODULE KeysetPaging ----------------------------
(***************************************************************************)
(* KeysetPaging: a client walks a list page by page with opaque cursors    *)
(* while others change the table.  awaken-query supplies the ORDER BY body *)
(* and the keyset condition of each request; the consumer of the crate     *)
(* runs the query with LIMIT Size and puts into the cursor the sort values *)
(* of the last row of a page that is not the last one.  A grouped list is  *)
(* the same walk within the rows of one group, whose rows of number at     *)
(* most Size make its page.                                                *)
(*                                                                         *)
(* A row is identified by the value of its unique column, KeyField; the    *)
(* other columns hold integers or NULL, which stand for the values of any  *)
(* ordered SQL type.                                                       *)
(***************************************************************************)
EXTENDS Integers, Sequences, FiniteSets

CONSTANTS
    Row,                \* the values of the unique column
    Column,             \* the other columns
    Stored,             \* the values a column may hold
    Null,               \* SQL's NULL
    None,               \* no cursor, no group
    KeyField,           \* the unique column
    GroupColumn,        \* the column a grouped list is grouped by
    Size,               \* rows in a page
    Sorts,              \* the sort specifications clients use
    ExactUpTo,          \* the largest n such that a double holds -n..n
    NullsLowest         \* SQLite orders NULL below, PostgreSQL above the rest

Field == Column \cup {KeyField}
SortFields(s) == {s[i].field : i \in DOMAIN s}

ASSUME PagingAssumption ==
    /\ Row \subseteq Int /\ IsFiniteSet(Row)
    /\ Stored \subseteq Int \cup {Null}
    /\ Null \notin Int
    /\ KeyField \notin Column /\ GroupColumn \in Column
    /\ Size \in Nat \ {0}
    /\ NullsLowest \in BOOLEAN
    /\ ExactUpTo \in Nat

\* "The sort must be a total order (its trailing clause a unique key) ... this
\* is the caller's responsibility": the callers considered take it.
ASSUME SortAssumption ==
    /\ Sorts \subseteq Seq([field : Field, direction : {"asc", "desc"}])
    /\ \A s \in Sorts : s # <<>> /\ s[Len(s)].field = KeyField

Cursors == {None} \cup UNION {[SortFields(s) -> Stored \cup Row] : s \in Sorts}

\* None is told apart from every cursor.
ASSUME NoneIsNoCursor ==
    \A s \in Sorts : None \notin [SortFields(s) -> Stored \cup Row]

VARIABLES
    present, data,      \* the table: the rows it has and their columns
    sort, backward,     \* the walk: its sort and direction,
    scope,              \* the group it stays in, or None,
    origin,             \* and the cursor it started from, or None
    phase,              \* "idle", "more", "end" or "rejected"
    page, cursor,       \* the page shown last, and its cursor
    before,             \* rows shown on earlier pages of the walk
    stable              \* rows untouched since the walk started

table == <<present, data>>
request == <<sort, backward, scope, origin>>
vars == <<table, request, phase, page, cursor, before, stable>>

-----------------------------------------------------------------------------
(* What the database compares.                                             *)

Key(r) == [f \in Field |-> IF f = KeyField THEN r ELSE data[r][f]]

\* A comparison with NULL is unknown, which no row passes.
SqlEqual(x, y) == x # Null /\ y # Null /\ x = y
SqlCompare(op, x, y) ==
    x # Null /\ y # Null /\ IF op = "<" THEN x < y ELSE x > y

Lower(x, y) ==
    IF x = Null THEN NullsLowest /\ y # Null
    ELSE IF y = Null THEN ~NullsLowest ELSE x < y

\* ORDER BY: the rows in the order of the rendered sort.
ColumnBefore(direction, x, y) ==
    IF direction = "asc" THEN Lower(x, y) ELSE Lower(y, x)

SortsBefore(s, k, l) ==
    \E i \in DOMAIN s :
        /\ \A j \in 1..(i - 1) : k[s[j].field] = l[s[j].field]
        /\ ColumnBefore(s[i].direction, k[s[i].field], l[s[i].field])

\* The order of a walk; a consumer that pages backward reverses ORDER BY.
WalksBefore(s, b, k, l) == IF b THEN SortsBefore(s, l, k) ELSE SortsBefore(s, k, l)

-----------------------------------------------------------------------------
(* The keyset condition.                                                   *)

\* json_to_param turns every number into a double.  Between once and
\* twice ExactUpTo, on either side of zero, the odd ones are rounded to the
\* neighbour with the even mantissa.
AsDouble(n) ==
    IF n \in -ExactUpTo..ExactUpTo \/ n % 2 = 0 THEN n
    ELSE IF n % 4 = 1 THEN n - 1 ELSE n + 1

JsonToParam(v) == IF v = Null THEN Null ELSE AsDouble(v)

\* Forgetting that a backward page compares the other way.
ForwardOp(direction, b) == IF direction = "asc" THEN ">" ELSE "<"

ComparisonOp(direction, b) == IF (direction = "asc") = b THEN "<" ELSE ">"

\* Dropping the equalities, or all clauses but the last.
AnyColumnBeyond(s, c, b, k) ==
    \E i \in DOMAIN s :
        SqlCompare(ComparisonOp(s[i].direction, b),
                   k[s[i].field], JsonToParam(c[s[i].field]))

LastClauseOnly(s, c, b, k) ==
    /\ \A j \in 1..(Len(s) - 1) : SqlEqual(k[s[j].field], JsonToParam(c[s[j].field]))
    /\ SqlCompare(ComparisonOp(s[Len(s)].direction, b),
                  k[s[Len(s)].field], JsonToParam(c[s[Len(s)].field]))

KeysetCondition(s, c, b, k) ==
    \E i \in DOMAIN s :
        /\ \A j \in 1..(i - 1) :
              SqlEqual(k[s[j].field], JsonToParam(c[s[j].field]))
        /\ SqlCompare(ComparisonOp(s[i].direction, b),
                      k[s[i].field], JsonToParam(c[s[i].field]))

\* The condition is not built for an empty sort, or when the cursor lacks a
\* value for one of the sort's fields.
CursorRejected(s, c) == s = <<>> \/ ~(SortFields(s) \subseteq DOMAIN c)

\* A cursor without the unique column.
CursorOfFirstClause(s, k) == [f \in {s[1].field} |-> k[f]]

\* The values of a key that a sort looks at: those that CursorState::set puts
\* into the cursor of a row, and those that are read from a cursor.
CursorAt(s, k) == [f \in SortFields(s) |-> k[f]]

-----------------------------------------------------------------------------
(* A page.                                                                 *)

InScope(g, r) == g = None \/ data[r][GroupColumn] = g

Found(s, b, g, c) ==
    {r \in present : InScope(g, r) /\ (c = None \/ KeysetCondition(s, c, b, Key(r)))}

\* LIMIT Size of the ordered rows, or ROW_NUMBER() <= Size within the group.
FirstRows(s, b, found) ==
    {r \in found :
        Cardinality({q \in found : WalksBefore(s, b, Key(q), Key(r))}) < Size}

Serve(s, b, g, c) ==
    LET found == Found(s, b, g, c) IN
    /\ page' = FirstRows(s, b, found)
    /\ \/ /\ found = page'
          /\ phase' = "end" /\ cursor' = None
       \/ /\ found # page'
          /\ phase' = "more"
          /\ \E last \in page' :
                /\ \A r \in page' \ {last} : WalksBefore(s, b, Key(r), Key(last))
                /\ cursor' = CursorAt(s, Key(last))

Walk(s, b, g, c) ==
    /\ sort' = s /\ backward' = b /\ scope' = g /\ origin' = c
    /\ before' = {} /\ stable' = present
    /\ Serve(s, b, g, c)
    /\ UNCHANGED table

\* A first page has no cursor.
Open(s, g) == Walk(s, FALSE, g, None)

\* Going back from the cursor: the same condition with backward set.
Turn == phase = "more" /\ Walk(sort, ~backward, scope, cursor)

\* The next page, with the client's sort beside the cursor.  Under another sort
\* than the one it was issued for, the cursor's values for the fields both have
\* start another walk.
Continue(s) ==
    /\ phase = "more"
    /\ \/ /\ CursorRejected(s, cursor)
          /\ phase' = "rejected"
          /\ UNCHANGED <<table, request, page, cursor, before, stable>>
       \/ /\ ~CursorRejected(s, cursor) /\ s = sort
          /\ before' = before \cup page
          /\ Serve(s, backward, scope, cursor)
          /\ UNCHANGED <<table, request, stable>>
       \/ /\ ~CursorRejected(s, cursor) /\ s # sort
          /\ Walk(s, backward, scope, CursorAt(s, cursor))

-----------------------------------------------------------------------------
(* Others change the table between two pages.                              *)

Unread == UNCHANGED <<request, phase, page, cursor, before>>

Insert(r, v) ==
    /\ r \in Row \ present
    /\ present' = present \cup {r}
    /\ data' = [data EXCEPT ![r] = v]
    /\ Unread /\ UNCHANGED stable

Update(r, v) ==
    /\ r \in present /\ data[r] # v
    /\ data' = [data EXCEPT ![r] = v]
    /\ stable' = stable \ {r}
    /\ Unread /\ UNCHANGED present

Delete(r) ==
    /\ r \in present
    /\ present' = present \ {r}
    /\ stable' = stable \ {r}
    /\ Unread /\ UNCHANGED data

Contents == [Column -> Stored]

Init ==
    /\ present \in SUBSET Row
    /\ data \in [Row -> Contents]
    /\ sort \in Sorts /\ backward = FALSE /\ scope = None /\ origin = None
    /\ phase = "idle"
    /\ page = {} /\ cursor = None /\ before = {} /\ stable = {}

Next ==
    \/ \E s \in Sorts, g \in Stored \cup {None} : Open(s, g)
    \/ \E s \in Sorts : Continue(s)
    \/ Turn
    \/ \E r \in Row, v \in Contents : Insert(r, v) \/ Update(r, v)
    \/ \E r \in Row : Delete(r)

Spec == Init /\ [][Next]_vars

-----------------------------------------------------------------------------
\* Every variable has its type, rows called stable are present, and a page
\* with a successor has a cursor.
TypeOK ==
    /\ present \subseteq Row
    /\ data \in [Row -> Contents]
    /\ sort \in Sorts /\ backward \in BOOLEAN /\ scope \in Stored \cup {None}
    /\ origin \in Cursors /\ cursor \in Cursors
    /\ phase \in {"idle", "more", "end", "rejected"}
    /\ page \subseteq Row /\ before \subseteq Row
    /\ stable \subseteq present
    /\ phase = "more" => cursor # None

\* The rows a walk is about: those of its group on its side of its origin.
Sought(r) ==
    InScope(scope, r) /\ (origin = None \/ WalksBefore(sort, backward, origin, Key(r)))

\* Pagination is gap-free: when a walk ends, every sought row that nobody
\* touched while it ran has been shown, whatever was inserted, updated or
\* deleted around it between two pages.
NothingSkipped ==
    phase = "end" => \A r \in stable : Sought(r) => r \in before \cup page

\* A cursor resumes strictly after its row: untouched rows of earlier pages
\* come before those of the present page in the order asked for, so none is
\* shown twice.
PagesAscend ==
    \A q \in before \cap stable, r \in page \cap stable :
        q # r /\ WalksBefore(sort, backward, Key(q), Key(r))

\* A page resumed from a cursor has a cursor strictly further on, so that a
\* client following cursors cannot be kept on one page or sent back.
CursorAdvances ==
    [][\A s \in Sorts :
          (Continue(s) /\ phase' = "more") => WalksBefore(s, backward, cursor, cursor')]_vars

=============================================================================
