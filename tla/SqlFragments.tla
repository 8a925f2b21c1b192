---------------------------- MODULE SqlFragments ----------------------------
(***************************************************************************)
(* SqlFragments: what awaken-query renders.  A WHERE body is a sequence of *)
(* tokens: tests of one column, AND, OR and parentheses.  A test carries   *)
(* its placeholders, numbers for PostgreSQL and 0 for each "?" of SQLite.  *)
(* An empty sequence is an absent clause.  A field map takes the mapped    *)
(* logical fields to their columns.                                        *)
(***************************************************************************)
EXTENDS FilterAst

CONSTANTS MaxArraySize, MaxStringLen    \* CompileOptions

ASSUME OptionsAssumption == MaxArraySize \in Nat /\ MaxStringLen \in Nat

Dialects == {"postgres", "sqlite"}

Token(kind) == [kind |-> kind, column |-> "", op |-> "", args |-> <<>>]
Test(column, op, args) == [kind |-> "test", column |-> column, op |-> op, args |-> args]
Parenthesized(sql) == <<Token("(")>> \o sql \o <<Token(")")>>

\* Parts joined by AND or OR, absent ones left out.
Join(sql, joiner, part) ==
    IF part = <<>> THEN sql ELSE IF sql = <<>> THEN part
    ELSE sql \o <<Token(joiner)>> \o part

-----------------------------------------------------------------------------
(* Dialects and ParamBuilder.                                              *)

Placeholder(d, n) == IF d = "postgres" THEN n ELSE 0
IlikeKeyword(d) == IF d = "postgres" THEN "ILIKE" ELSE "LIKE"
BindsSetAsArray(d) == d = "postgres"

\* A parameter binds one scalar, or an array of scalars.
One(x) == [array |-> FALSE, items |-> <<x>>]
Array(xs) == [array |-> TRUE, items |-> xs]

\* Mutant of Bind: the second parameter gets the number of the first.
BindWithoutCounting(b, p) == [next |-> b.next, params |-> Append(b.params, p)]

Builder ==
    [next : Nat \ {0}, params : Seq([array : BOOLEAN, items : Seq(FilterScalar)])]

Params(start) == [next |-> IF start < 1 THEN 1 ELSE start, params |-> <<>>]
Bind(b, p) == [next |-> b.next + 1, params |-> Append(b.params, p)]
BindEach(b, xs) ==
    [next |-> b.next + Len(xs), params |-> b.params \o [i \in DOMAIN xs |-> One(xs[i])]]

Rendered(sql, b) == [error |-> "ok", sql |-> sql, builder |-> b]
Failed(error, b) == [error |-> error, sql |-> <<>>, builder |-> b]

\* One test of a column against one bound value.
BoundTest(d, b, column, op, x) ==
    Rendered(<<Test(column, op, <<Placeholder(d, b.next)>>)>>, Bind(b, One(x)))

-----------------------------------------------------------------------------
(* One condition.                                                          *)

\* Mutant of EscapeLike: the escape character is not itself escaped, nor "_".
EscapePercentOnly(s) ==
    FlattenSeq([i \in DOMAIN s |-> IF s[i] = "%" THEN <<"\\", s[i]>> ELSE <<s[i]>>])

EscapeLike(s) ==
    FlattenSeq([i \in DOMAIN s |->
        IF s[i] \in Special THEN <<"\\", s[i]>> ELSE <<s[i]>>])

LikePattern(op, s) ==
    (IF op = "starts_with" THEN <<>> ELSE <<"%">>) \o EscapeLike(s)
        \o (IF op = "ends_with" THEN <<>> ELSE <<"%">>)

\* The shape an operator expects of its value.
ShapeFits(op, value) ==
    IF op \in SetOperators THEN value.shape = "list"
    ELSE /\ value.shape = "scalar"
         /\ op \in PatternOperators \cup WrappedOperators => value.items[1].type = "string"

\* Mutant of BoundsError: the elements of a set are not measured.
BoundsOfSetOnly(op, value) ==
    IF op \in SetOperators THEN
        IF Len(value.items) > MaxArraySize THEN "ArrayTooLarge" ELSE "ok"
    ELSE IF value.items[1].type = "string" /\ Len(value.items[1].text) > MaxStringLen
    THEN "StringTooLong" ELSE "ok"

BoundsError(op, value) ==
    IF op \in SetOperators /\ Len(value.items) > MaxArraySize THEN "ArrayTooLarge"
    ELSE IF \E i \in DOMAIN value.items :
                value.items[i].type = "string" /\ Len(value.items[i].text) > MaxStringLen
    THEN "StringTooLong" ELSE "ok"

RenderSet(d, b, column, negated, xs) ==
    IF BindsSetAsArray(d)
    THEN Rendered(<<Test(column, IF negated THEN "!= ALL" ELSE "= ANY",
                         <<Placeholder(d, b.next)>>)>>,
                  Bind(b, Array(xs)))
    ELSE IF xs = <<>>
    THEN Rendered(<<Test(column, IF negated THEN "1 = 1" ELSE "1 = 0", <<>>)>>, b)
    ELSE Rendered(<<Test(column, IF negated THEN "NOT IN" ELSE "IN",
                         [i \in DOMAIN xs |-> Placeholder(d, b.next + i - 1)])>>,
                  BindEach(b, xs))

SqlOperator ==
    [eq |-> "=", ne |-> "<>", gt |-> ">", gte |-> ">=", lt |-> "<", lte |-> "<="]

RenderTest(d, b, column, op, items) ==
    IF op \in SetOperators THEN RenderSet(d, b, column, op = "not_in", items)
    ELSE IF op = "like" THEN BoundTest(d, b, column, "LIKE", items[1])
    ELSE IF op = "ilike" THEN BoundTest(d, b, column, IlikeKeyword(d), items[1])
    ELSE IF op \in WrappedOperators
    THEN BoundTest(d, b, column, IlikeKeyword(d) \o " ESCAPE",
                   Text(LikePattern(op, items[1].text)))
    ELSE IF op \in EqualityOperators /\ items[1].type = "null"
    THEN Rendered(<<Test(column, IF op = "eq" THEN "IS NULL" ELSE "IS NOT NULL", <<>>)>>, b)
    ELSE BoundTest(d, b, column, SqlOperator[op], items[1])

\* What is wrong with a condition, looked for in this order.
ConditionError(map, c) ==
    IF c.field \notin DOMAIN map THEN "UnmappedField"
    ELSE IF ~ShapeFits(c.operator, c.value) THEN "ValueShapeMismatch"
    ELSE BoundsError(c.operator, c.value)

RenderCondition(d, map, b, c) ==
    IF ConditionError(map, c) # "ok" THEN Failed(ConditionError(map, c), b)
    ELSE RenderTest(d, b, map[c.field], c.operator, c.value.items)

-----------------------------------------------------------------------------
(* The filter, the keyset condition and the fragments made of them.        *)

Joiner(op) == IF op = "and" THEN "AND" ELSE "OR"

\* Mutant of Nested: nested groups are not parenthesized.
NestedBare(child, sql) == sql

Nested(child, sql) ==
    IF IsGroup(child) /\ sql # <<>> THEN Parenthesized(sql) ELSE sql

\* The children of a group, each as it renders from a given ParamBuilder on;
\* the first error ends it.
RenderGroup(node, children) ==
    [b \in Builder |->
        LET Done[i \in 0..Len(children)] ==
                IF i = 0 THEN Rendered(<<>>, b)
                ELSE LET before == Done[i - 1]
                         r == children[i][before.builder]
                     IN  IF before.error # "ok" THEN before
                         ELSE [r EXCEPT !.sql = Join(before.sql, Joiner(node.operator),
                                                     Nested(node.conditions[i], r.sql))]
        IN  Done[Len(children)]]

RenderNode(d, map, filter) ==
    LET Render[node \in FilterNode] ==
            IF IsGroup(node)
            THEN RenderGroup(node, [i \in DOMAIN node.conditions |-> Render[node.conditions[i]]])
            ELSE [b \in Builder |-> RenderCondition(d, map, b, node)]
    IN  Render[filter]

\* The conjuncts of one clause: its prefix equal, its own column beyond.
Conjuncts(d, map, b, sort, cursor, i, op) ==
    FoldLeft(LAMBDA done, j :
                 LET r == BoundTest(d, done.builder, map[sort[j].field],
                                    IF j < i THEN "=" ELSE op, cursor[sort[j].field])
                 IN  [r EXCEPT !.sql = Join(done.sql, "AND", r.sql)],
             Rendered(<<>>, b), [j \in 1..i |-> j])

\* keyset_condition, for a cursor that has a value for every sort field.
RenderKeyset(d, map, start, sort, cursor, backward) ==
    LET Clause(done, i) ==
            LET op == IF (sort[i].direction = "asc") = backward THEN "<" ELSE ">"
                r == Conjuncts(d, map, done.builder, sort, cursor, i, op)
            IN  [r EXCEPT !.sql =
                    Join(done.sql, "OR", IF i = 1 THEN r.sql ELSE Parenthesized(r.sql))]
        all == FoldLeft(Clause, Rendered(<<>>, Params(start)), [i \in 1..Len(sort) |-> i])
    IN  [all EXCEPT !.sql = Parenthesized(all.sql)]

RenderOrderBy(map, sort) ==
    IF \E i \in DOMAIN sort : sort[i].field \notin DOMAIN map
    THEN [error |-> "UnmappedField", columns |-> <<>>]
    ELSE [error |-> "ok",
          columns |-> [i \in DOMAIN sort |-> <<map[sort[i].field], sort[i].direction>>]]

\* compile(): the WHERE body and its parameters, the ORDER BY body, the limit.
Compile(d, map, start, filter, sort, limit) ==
    LET where == RenderNode(d, map, filter)[Params(start)]
        order == RenderOrderBy(map, sort)
    IN  [error |-> IF where.error # "ok" THEN where.error ELSE order.error,
         where |-> where.sql, params |-> where.builder.params,
         orderBy |-> order.columns, limit |-> limit]

-----------------------------------------------------------------------------
(* What can be said of a text and of a condition without rendering it.     *)

\* The placeholders of a text, from left to right.
Placeholders(sql) == FlattenSeq([i \in DOMAIN sql |-> sql[i].args])

\* A condition that can be rendered: its field has a column, its value the shape
\* that its operator expects, and no list and no text in it is too long.
WellFormed(map, c) ==
    /\ c.field \in DOMAIN map
    /\ ShapeFits(c.operator, c.value)
    /\ c.operator \in SetOperators => Len(c.value.items) <= MaxArraySize
    /\ \A i \in DOMAIN c.value.items : Len(c.value.items[i].text) <= MaxStringLen

=============================================================================
