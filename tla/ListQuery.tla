------------------------------ MODULE ListQuery ------------------------------
(***************************************************************************)
(* ListQuery: parse_list_query of awaken-api-contract reads the decoded    *)
(* pairs of a request one by one, then builds the pagination, validates    *)
(* against the surface's QuerySchema, and the query accepted is compiled   *)
(* by awaken-query over the field map made from that schema.               *)
(*                                                                         *)
(* A literal is a value without a comma, told apart by what parse_scalar   *)
(* makes of it; a filter value is a sequence of literals, its comma-split. *)
(* A sort value is its comma-split too: each part has a field, "" when the *)
(* part is blank or a lone dash, and may start with a dash.                *)
(***************************************************************************)
EXTENDS SqlFragments, FiniteSets

CONSTANTS
    FilterFields,       \* QuerySchema: filter field -> operators
    SortableFields,
    GroupableFields,
    DefaultSort,
    DefaultSize, MaxSize, DefaultMode,  \* its PaginationConfig
    Pairs,              \* the pairs requests are made of
    MaxPairs,           \* how many a request has at most
    Numerals,           \* literal -> number, for those parse_scalar takes so
    None

SizeKeys == {"page[size]", "limit"}
CursorKeys == {"page[cursor]", "cursor"}
NumberKeys == {"page[number]", "page"}
OffsetKeys == {"page[offset]", "offset"}

\* A decoded pair, by its key.  A number that is no u32, or u64, is negative.
SortPart == [dash : BOOLEAN, field : STRING]
Pair ==
    [key : {"sort"}, parts : Seq(SortPart)]
        \cup [key : {"filter"}, brackets : Seq(STRING), literals : Seq(STRING) \ {<<>>}]
        \cup [key : SizeKeys \cup NumberKeys \cup OffsetKeys, number : Int]
        \cup [key : CursorKeys, cursor : STRING]
        \cup [key : {"other"}]

ASSUME PairsAssumption == Pairs \subseteq Pair
ASSUME NumeralsAssumption == \A literal \in DOMAIN Numerals : Numerals[literal] \in Int
ASSUME SchemaAssumption ==
    /\ DOMAIN FilterFields \cup SortableFields \cup GroupableFields \subseteq STRING
    /\ DefaultMode \in {"cursor", "page", "offset"}
ASSUME NoneAssumption == None \notin STRING /\ None \notin Int
\* The filter of a query is one group of conditions.
ASSUME GroupAssumption == Nesting >= 1

VARIABLES
    given,              \* the pairs read so far
    filters, sort,      \* what parse_list_query has gathered from them
    pageSize, cursor, pageNumber, offset,
    phase,              \* "reading", "accepted", "rejected" or "compiled"
    error,              \* why it was rejected, or could not be compiled
    query               \* the ListQuery accepted

gathered == <<filters, sort, pageSize, cursor, pageNumber, offset>>
vars == <<given, gathered, phase, error, query>>

-----------------------------------------------------------------------------
(* Values and filter keys.                                                 *)

ParseScalar(literal) ==
    IF literal = "true" THEN Bool(TRUE)
    ELSE IF literal = "false" THEN Bool(FALSE)
    ELSE IF literal = "null" THEN NullScalar
    ELSE IF literal \in DOMAIN Numerals THEN Number(Numerals[literal])
    ELSE Text(<<literal>>)

\* A comma in the value of another operator stays in its text.
ParseFilterValue(literals, op) ==
    IF op \in SetOperators THEN List([i \in DOMAIN literals |-> ParseScalar(literals[i])])
    ELSE Scalar(IF Len(literals) = 1 THEN ParseScalar(literals[1]) ELSE Text(literals))

\* The bracketed parts of "filter[field]" or "filter[field][operator]"; a key
\* that is not a sequence of brackets has none.
FilterKeyError(parts) ==
    IF Len(parts) \notin {1, 2} \/ \E i \in DOMAIN parts : parts[i] = ""
    THEN "InvalidFilterKey"
    ELSE IF Len(parts) = 2 /\ parts[2] \notin FilterOperator
    THEN "UnsupportedFilterOperator" ELSE "ok"

KeyOperator(parts) == IF Len(parts) = 1 THEN "eq" ELSE parts[2]

SortValueError(parts) ==
    IF \E i \in DOMAIN parts : parts[i].dash /\ parts[i].field = ""
    THEN "InvalidSortClause" ELSE "ok"

\* The clauses of the parts that are not blank.
ParseSortValue(parts) ==
    LET Clauses[i \in 0..Len(parts)] ==
            IF i = 0 THEN <<>>
            ELSE IF parts[i].field = "" THEN Clauses[i - 1]
            ELSE Append(Clauses[i - 1],
                        [field |-> parts[i].field,
                         direction |-> IF parts[i].dash THEN "desc" ELSE "asc"])
    IN  Clauses[Len(parts)]

-----------------------------------------------------------------------------
(* The schema: validation, and the field map made from it.                 *)

Validate(q) ==
    IF ValidateFilter(FilterFields, q.filter) # "ok"
    THEN ValidateFilter(FilterFields, q.filter)
    ELSE IF \E i \in DOMAIN q.sort : q.sort[i].field \notin SortableFields
    THEN "UnsupportedSortField" ELSE "ok"

\* Mutant of FromSchema: fields that can only be sorted by are forgotten.
FromFilterFields == [f \in DOMAIN FilterFields \cup GroupableFields |-> f]

FromSchema == [f \in DOMAIN FilterFields \cup SortableFields \cup GroupableFields |-> f]

-----------------------------------------------------------------------------
(* One page request.                                                       *)

Page(mode, size, at) == [mode |-> mode, size |-> size, at |-> at]

Modes(c, n, o) ==
    (IF c # None THEN {"cursor"} ELSE {}) \cup (IF n # None THEN {"page"} ELSE {})
        \cup (IF o # None THEN {"offset"} ELSE {})

\* Mutant of Conflicting: only page numbers and offsets exclude one another.
ConflictingNumbers(c, n, o) == n # None /\ o # None

Conflicting(c, n, o) == Cardinality(Modes(c, n, o)) > 1

BuildPagination(size, c, n, o) ==
    IF c # None THEN Page("cursor", size, c)
    ELSE IF n # None THEN Page("page", size, n)
    ELSE IF o # None THEN Page("offset", size, o)
    ELSE Page(DefaultMode, size,
              CASE DefaultMode = "cursor" -> None
                [] DefaultMode = "page" -> 1 [] DefaultMode = "offset" -> 0)

-----------------------------------------------------------------------------
(* parse_list_query.                                                       *)

Init ==
    /\ given = <<>> /\ filters = <<>> /\ sort = <<>>
    /\ pageSize = None /\ cursor = None /\ pageNumber = None /\ offset = None
    /\ phase = "reading" /\ error = "ok" /\ query = None

Reject(why) == phase' = "rejected" /\ error' = why /\ UNCHANGED <<gathered, query>>
Gathered == UNCHANGED <<phase, error, query>>

\* Mutant of ReadSort: the last sort wins, as the last page size does.
ReadLastSort(p) ==
    /\ p.key = "sort"
    /\ IF SortValueError(p.parts) # "ok" THEN Reject(SortValueError(p.parts))
       ELSE /\ sort' = ParseSortValue(p.parts)
            /\ Gathered
            /\ UNCHANGED <<filters, pageSize, cursor, pageNumber, offset>>

ReadSort(p) ==
    /\ p.key = "sort"
    /\ IF SortValueError(p.parts) # "ok" THEN Reject(SortValueError(p.parts))
       ELSE /\ sort' = sort \o ParseSortValue(p.parts)
            /\ Gathered
            /\ UNCHANGED <<filters, pageSize, cursor, pageNumber, offset>>

ReadPageSize(p) ==
    /\ p.key \in SizeKeys
    /\ IF p.number <= 0 THEN Reject("InvalidPageSize")
       ELSE IF p.number > MaxSize THEN Reject("PageSizeTooLarge")
       ELSE /\ pageSize' = p.number
            /\ Gathered /\ UNCHANGED <<filters, sort, cursor, pageNumber, offset>>

\* A blank cursor is no cursor.
ReadCursor(p) ==
    /\ p.key \in CursorKeys
    /\ cursor' = IF p.cursor = "" THEN cursor ELSE p.cursor
    /\ Gathered /\ UNCHANGED <<filters, sort, pageSize, pageNumber, offset>>

ReadPageNumber(p) ==
    /\ p.key \in NumberKeys
    /\ IF p.number <= 0 THEN Reject("InvalidPageNumber")
       ELSE /\ pageNumber' = p.number
            /\ Gathered /\ UNCHANGED <<filters, sort, pageSize, cursor, offset>>

ReadOffset(p) ==
    /\ p.key \in OffsetKeys
    /\ IF p.number < 0 THEN Reject("InvalidPageOffset")
       ELSE /\ offset' = p.number
            /\ Gathered /\ UNCHANGED <<filters, sort, pageSize, cursor, pageNumber>>

ReadFilter(p) ==
    /\ p.key = "filter"
    /\ IF FilterKeyError(p.brackets) # "ok" THEN Reject(FilterKeyError(p.brackets))
       ELSE /\ filters' = Append(filters,
                  Condition(p.brackets[1], KeyOperator(p.brackets),
                            ParseFilterValue(p.literals, KeyOperator(p.brackets))))
            /\ Gathered /\ UNCHANGED <<sort, pageSize, cursor, pageNumber, offset>>

\* Any other key is passed over.
ReadOther(p) == p.key = "other" /\ Gathered /\ UNCHANGED gathered

Read(p) ==
    /\ phase = "reading" /\ Len(given) < MaxPairs
    /\ given' = Append(given, p)
    /\ \/ ReadSort(p) \/ ReadPageSize(p) \/ ReadCursor(p) \/ ReadPageNumber(p)
       \/ ReadOffset(p) \/ ReadFilter(p) \/ ReadOther(p)

\* The query that the pairs make.
Built ==
    [filter |-> Group("and", filters),
     sort |-> IF sort = <<>> THEN DefaultSort ELSE sort,
     page |-> BuildPagination(IF pageSize = None THEN DefaultSize ELSE pageSize,
                              cursor, pageNumber, offset)]

\* The end of the pairs.
Finish ==
    /\ phase = "reading"
    /\ IF Conflicting(cursor, pageNumber, offset) THEN Reject("ConflictingPagination")
       ELSE IF Validate(Built) # "ok" THEN Reject(Validate(Built))
       ELSE phase' = "accepted" /\ query' = Built /\ UNCHANGED <<gathered, error>>
    /\ UNCHANGED given

-----------------------------------------------------------------------------
(* compile() and compile_grouped() of the query accepted.                  *)

CompileError(d) ==
    Compile(d, FromSchema, 1, query.filter, query.sort, query.page.size).error

CompileQuery(d) ==
    /\ phase = "accepted"
    /\ phase' = "compiled" /\ error' = CompileError(d)
    /\ UNCHANGED <<given, gathered, query>>

CompileGrouped(d, g) ==
    /\ phase = "accepted"
    /\ phase' = "compiled"
    /\ error' = IF g \notin GroupableFields THEN "UngroupableField"
                ELSE IF g \notin DOMAIN FromSchema THEN "UnmappedField"
                ELSE CompileError(d)
    /\ UNCHANGED <<given, gathered, query>>

Next ==
    \/ \E p \in Pairs : Read(p)
    \/ Finish
    \/ \E d \in Dialects : CompileQuery(d)
    \/ \E d \in Dialects, g \in SortableFields \cup GroupableFields :
           CompileGrouped(d, g)

Spec == Init /\ [][Next]_vars

-----------------------------------------------------------------------------
\* The pairs given for some keys, the last of them, and how many come up to one.
GivenFor(keys) == {i \in DOMAIN given : given[i].key \in keys}
LastOf(pairs) == {i \in pairs : \A k \in pairs : k <= i}
CursorsGiven == {i \in GivenFor(CursorKeys) : given[i].cursor # ""}
Rank(pairs, i) == Cardinality({k \in pairs : k <= i})

\* The kinds of pagination a request asks for.
KindsGiven ==
    (IF CursorsGiven # {} THEN {"cursor"} ELSE {})
        \cup (IF GivenFor(NumberKeys) # {} THEN {"page"} ELSE {})
        \cup (IF GivenFor(OffsetKeys) # {} THEN {"offset"} ELSE {})

\* "A request must not mix cursor, page-number, and offset parameters", under
\* whatever aliases and in whatever order: a request that is not refused asks
\* for at most one of them, and gets the last value it gave for it and for
\* the size, or the surface's defaults.
PageIsWhatWasAsked ==
    /\ phase = "accepted" =>
          /\ Cardinality(KindsGiven) <= 1
          /\ \A mode \in KindsGiven : query.page.mode = mode
          /\ KindsGiven = {} => query.page.mode = DefaultMode
          /\ \A i \in LastOf(CursorsGiven) : query.page.at = given[i].cursor
          /\ \A i \in LastOf(GivenFor(NumberKeys)) \cup LastOf(GivenFor(OffsetKeys)) :
                query.page.at = given[i].number
          /\ \A i \in LastOf(GivenFor(SizeKeys)) : query.page.size = given[i].number
          /\ GivenFor(SizeKeys) = {} => query.page.size = DefaultSize
    /\ error = "ConflictingPagination" => Cardinality(KindsGiven) > 1

\* The clauses of all sort pairs, and those up to one of them.
ClausesGiven ==
    {c \in UNION {{i} \X DOMAIN given[i].parts : i \in GivenFor({"sort"})} :
        given[c[1]].parts[c[2]].field # ""}
ClausesUpTo(c) ==
    {e \in ClausesGiven : e[1] < c[1] \/ (e[1] = c[1] /\ e[2] <= c[2])}

\* Nothing a client asked for is dropped: the conditions of an accepted query
\* are those of its filter pairs, repeated fields included, in their order,
\* and its sort is the clauses of all its sort pairs, or the default.
NothingDropped ==
    phase = "accepted" =>
        LET asked == GivenFor({"filter"})
            conditions == query.filter.conditions
        IN  /\ Len(conditions) = Cardinality(asked)
            /\ \A i \in asked :
                  LET c == conditions[Rank(asked, i)]
                  IN  /\ c.field = given[i].brackets[1]
                      /\ Len(given[i].brackets) = 2 => c.operator = given[i].brackets[2]
                      /\ c.operator \in SetOperators =>
                            Len(c.value.items) = Len(given[i].literals)
            /\ IF ClausesGiven = {} THEN query.sort = DefaultSort
               ELSE /\ Len(query.sort) = Cardinality(ClausesGiven)
                    /\ \A c \in ClausesGiven :
                          LET clause == query.sort[Cardinality(ClausesUpTo(c))]
                              part == given[c[1]].parts[c[2]]
                          IN  /\ clause.field = part.field
                              /\ (clause.direction = "desc") = part.dash

\* An accepted query compiles, plain or grouped by an allowed field, as far as
\* its values have the size and the type that only the compiler looks at: every
\* field that the allowlist lets through has a column, and every operator the
\* value it expects.  A literal that reads as a number, a boolean or null is no
\* text to the operators that match one.
AcceptedQueriesCompile ==
    LET Mistyped(c) == c.operator \in PatternOperators \cup WrappedOperators
                          /\ c.value.items[1].type # "string"
    IN  phase = "compiled" =>
            \/ error \in {"ok", "ArrayTooLarge", "StringTooLong", "UngroupableField"}
            \/ /\ error = "ValueShapeMismatch"
               /\ \E i \in DOMAIN query.filter.conditions : Mistyped(query.filter.conditions[i])

=============================================================================
