--------------------------- MODULE QuerySemantics ---------------------------
(***************************************************************************)
(* QuerySemantics: the databases read the text that QueryCompile made,     *)
(* alone or between a predicate of the consumer and a keyset condition.    *)
(* The rows that the text selects are those the filter asks for.           *)
(*                                                                         *)
(* The filter language has no negation, so SQL's third truth value needs   *)
(* no room of its own: a test holds or it does not, and one that is        *)
(* unknown does not.  Columns and values compared have the same type.      *)
(***************************************************************************)
EXTENDS QueryCompile

CONSTANTS
    Rows,               \* rows of the table: column -> scalar
    Cursor,             \* where the keyset condition resumes
    Owner               \* the consumer's own predicate: owner = Owner

-----------------------------------------------------------------------------
(* The statement the consumer runs.                                        *)

Statement(d) ==
    LET f == Fragment(d)
        keyset == RenderKeyset(d, FieldMap, StartParam + Len(f.params), Sort, Cursor, FALSE)
        own == <<Test("owner", "=", <<Placeholder(d, 1)>>)>>
    IN  IF ~composed THEN [sql |-> f.where, params |-> f.params]
        ELSE [sql |-> Join(Join(own, "AND", f.where), "AND", keyset.sql),
              params |-> <<One(Owner)>> \o f.params \o keyset.builder.params]

-----------------------------------------------------------------------------
(* The database: parameters by number or in the order of the text, AND     *)
(* before OR, and the operators the fragments use.                         *)

ArgsBefore(sql, i) == FoldLeft(LAMBDA n, t : n + Len(t.args), 0, SubSeq(sql, 1, i - 1))

BoundArgs(d, statement) ==
    [i \in DOMAIN statement.sql |->
        LET args == statement.sql[i].args
            Number_(k) == IF d = "postgres" THEN args[k]
                          ELSE ArgsBefore(statement.sql, i) + k
        IN  [statement.sql[i] EXCEPT !.args =
                FlattenSeq([k \in DOMAIN args |->
                    IF Number_(k) \in DOMAIN statement.params
                    THEN statement.params[Number_(k)].items ELSE <<NullScalar>>])]]

Same(x, y) == x.type = y.type /\ x.type # "null" /\ x = y
Differ(x, y) == x.type # "null" /\ y.type # "null" /\ x # y
Ordered(op, x, y) ==
    /\ x.type = "number" /\ y.type = "number"
    /\ CASE op = "<" -> x.number < y.number [] op = "<=" -> x.number <= y.number
         [] op = ">" -> x.number > y.number [] op = ">=" -> x.number >= y.number

\* The two cases of a letter.
FoldCase(s) == [i \in DOMAIN s |-> IF s[i] = "A" THEN "a" ELSE s[i]]

\* A pattern as literals and wildcards; after an escape character the next
\* one is literal, and there must be one.
LexPattern(p, escapes) ==
    FoldLeft(LAMBDA done, c :
                 IF done.escaping
                 THEN [escaping |-> FALSE, out |-> Append(done.out, <<"char", c>>)]
                 ELSE IF escapes /\ c = "\\" THEN [done EXCEPT !.escaping = TRUE]
                 ELSE [done EXCEPT !.out =
                          Append(@, <<IF c \in {"%", "_"} THEN c ELSE "char", c>>)],
             [escaping |-> FALSE, out |-> <<>>], p)

RECURSIVE Globs(_, _)
Globs(p, s) ==
    IF p = <<>> THEN s = <<>>
    ELSE IF Head(p)[1] = "%"
    THEN \E i \in 0..Len(s) : Globs(Tail(p), SubSeq(s, i + 1, Len(s)))
    ELSE /\ s # <<>>
         /\ Head(p)[1] = "_" \/ Head(p)[2] = Head(s)
         /\ Globs(Tail(p), Tail(s))

PatternMatches(p, s, escapes, folds) ==
    LET lexed == LexPattern(IF folds THEN FoldCase(p) ELSE p, escapes)
    IN  ~lexed.escaping /\ Globs(lexed.out, IF folds THEN FoldCase(s) ELSE s)

\* PostgreSQL's LIKE escapes with a backslash unless told otherwise, SQLite's
\* only when told; SQLite's ignores case.
LikeHolds(d, op, v, p) ==
    /\ v.type = "string"
    /\ PatternMatches(p.text, v.text,
                      d = "postgres" \/ op \in {"LIKE ESCAPE", "ILIKE ESCAPE"},
                      d = "sqlite" \/ op \in {"ILIKE", "ILIKE ESCAPE"})

TestHolds(d, t, row) ==
    LET v == row[t.column]
        All(P(_)) == \A i \in DOMAIN t.args : P(t.args[i])
        Some(P(_)) == \E i \in DOMAIN t.args : P(t.args[i])
    IN  CASE t.op \in {"=", "= ANY", "IN"} -> Some(LAMBDA x : Same(v, x))
          [] t.op \in {"<>", "!= ALL", "NOT IN"} -> All(LAMBDA x : Differ(v, x))
          [] t.op \in {"<", "<=", ">", ">="} -> All(LAMBDA x : Ordered(t.op, v, x))
          [] t.op = "IS NULL" -> v.type = "null"
          [] t.op = "IS NOT NULL" -> v.type # "null"
          [] t.op \in {"1 = 1", "1 = 0"} -> t.op = "1 = 1"
          [] OTHER -> LikeHolds(d, t.op, v, t.args[1])

Depth(sql, i) ==
    Cardinality({j \in 1..(i - 1) : sql[j].kind = "("})
        - Cardinality({j \in 1..(i - 1) : sql[j].kind = ")"})
TopLevel(sql, kind) == {i \in DOMAIN sql : sql[i].kind = kind /\ Depth(sql, i) = 0}

\* The WHERE clause holds of a row; an absent one of every row.
RECURSIVE SqlHolds(_, _, _)
SqlHolds(d, sql, row) ==
    LET Either(i) == <<SubSeq(sql, 1, i - 1), SubSeq(sql, i + 1, Len(sql))>>
        Split(kind) == Either(CHOOSE i \in TopLevel(sql, kind) : TRUE)
    IN  IF sql = <<>> THEN TRUE
        ELSE IF TopLevel(sql, "OR") # {}
        THEN SqlHolds(d, Split("OR")[1], row) \/ SqlHolds(d, Split("OR")[2], row)
        ELSE IF TopLevel(sql, "AND") # {}
        THEN SqlHolds(d, Split("AND")[1], row) /\ SqlHolds(d, Split("AND")[2], row)
        ELSE IF sql[1].kind = "(" THEN SqlHolds(d, SubSeq(sql, 2, Len(sql) - 1), row)
        ELSE TestHolds(d, sql[1], row)

Selected(d) ==
    {row \in Rows : SqlHolds(d, BoundArgs(d, Statement(d)), row)}

-----------------------------------------------------------------------------
(* What the filter asks for.                                               *)

Within(s, v, starts, ends) ==
    \E i \in 0..(Len(s) - Len(v)) :
        /\ starts => i = 0
        /\ ends => i = Len(s) - Len(v)
        /\ SubSeq(s, i + 1, i + Len(v)) = v

Meets(v, op, items) ==
    LET x == items[1]
        Holds(folds) == v.type = "string" /\ PatternMatches(x.text, v.text, FALSE, folds)
    IN  CASE op = "eq" -> x = v
          [] op = "ne" -> x # v /\ (x.type = "null" \/ v.type # "null")
          [] op = "in" -> \E i \in DOMAIN items : Same(v, items[i])
          [] op = "not_in" -> \A i \in DOMAIN items : Differ(v, items[i])
          [] op \in OrderOperators -> Ordered(SqlOperator[op], v, x)
          [] op = "like" -> Holds(FALSE)
          [] op = "ilike" -> Holds(TRUE)
          [] OTHER -> /\ v.type = "string"
                      /\ Within(FoldCase(v.text), FoldCase(x.text),
                                op = "starts_with", op = "ends_with")

\* A group without a condition anywhere below it asks for nothing.
RECURSIVE Asks(_, _)
Asks(node, row) ==
    IF ~IsGroup(node) THEN Meets(row[node.field], node.operator, node.value.items)
    ELSE LET telling == {i \in DOMAIN node.conditions :
                            ConditionsOf[node.conditions[i]] # {}}
         IN  IF node.operator = "and"
             THEN \A i \in telling : Asks(node.conditions[i], row)
             ELSE telling = {} \/ \E i \in telling : Asks(node.conditions[i], row)

BeyondCursor(row) ==
    \E i \in DOMAIN Sort :
        /\ \A j \in 1..(i - 1) : Same(row[Sort[j].field], Cursor[Sort[j].field])
        /\ Ordered(IF Sort[i].direction = "asc" THEN ">" ELSE "<",
                   row[Sort[i].field], Cursor[Sort[i].field])

AskedFor ==
    {row \in Rows :
        /\ Asks(filter, row)
        /\ composed => Same(row["owner"], Owner) /\ BeyondCursor(row)}

-----------------------------------------------------------------------------
\* The statement selects the rows the filter asks for, of those the consumer
\* allows and the cursor has not passed: grouping survives the flat text,
\* every value is compared as itself and at its own place, sets expand, and
\* wrapped patterns match literally, on both dialects.
StatementSelects == \A d \in Compiled : Selected(d) = AskedFor

=============================================================================
