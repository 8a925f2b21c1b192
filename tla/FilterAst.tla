------------------------------ MODULE FilterAst ------------------------------
(***************************************************************************)
(* FilterAst: the filter of a list query, the form every front end of      *)
(* awaken-api-contract parses into and awaken-query compiles, and the      *)
(* allowlist a filter must pass.                                           *)
(*                                                                         *)
(* A text is a sequence of characters.  Scalars are records of one shape,  *)
(* so that TLC can compare any two: text holds a string, number a number,  *)
(* or 1 and 0 for true and false.                                          *)
(***************************************************************************)
EXTENDS Integers, Sequences, SequencesExt

CONSTANT Nesting        \* how deep the groups of an instance's filters nest

ASSUME NestingAssumption == Nesting \in Nat

\* Characters are strings, those that mean something in a pattern included.
Special == {"\\", "%", "_"}

ASSUME CharactersAssumption == Special \subseteq STRING

Text(s) == [type |-> "string", text |-> s, number |-> 0]
Number(n) == [type |-> "number", text |-> <<>>, number |-> n]
Bool(b) == [type |-> "bool", text |-> <<>>, number |-> IF b THEN 1 ELSE 0]
NullScalar == [type |-> "null", text |-> <<>>, number |-> 0]

\* A filter value: one scalar, or the elements of a list.
Scalar(x) == [shape |-> "scalar", items |-> <<x>>]
List(xs) == [shape |-> "list", items |-> xs]

SetOperators == {"in", "not_in"}
PatternOperators == {"like", "ilike"}
WrappedOperators == {"contains", "starts_with", "ends_with"}
EqualityOperators == {"eq", "ne"}
OrderOperators == {"gt", "gte", "lt", "lte"}
FilterOperator == SetOperators \cup PatternOperators \cup WrappedOperators
                    \cup EqualityOperators \cup OrderOperators

Condition(field, op, value) ==
    [kind |-> "condition", field |-> field, operator |-> op, value |-> value]
Group(op, conditions) ==
    [kind |-> "group", operator |-> op, conditions |-> conditions]

IsGroup(node) == node.kind = "group"

-----------------------------------------------------------------------------
(* All filters: conditions, and groups of filters, nested up to Nesting.   *)

FilterScalar ==
    [type : {"string"}, text : Seq(STRING), number : {0}]
        \cup [type : {"number"}, text : {<<>>}, number : Int]
        \cup {Bool(b) : b \in BOOLEAN} \cup {NullScalar}
FilterValue ==
    [shape : {"scalar"}, items : [1..1 -> FilterScalar]]
        \cup [shape : {"list"}, items : Seq(FilterScalar)]
FilterCondition ==
    [kind : {"condition"}, field : STRING, operator : FilterOperator, value : FilterValue]
FilterGroup(nodes) ==
    [kind : {"group"}, operator : {"and", "or"}, conditions : Seq(nodes)]

FilterNodes[n \in 0..Nesting] ==
    IF n = 0 THEN FilterCondition
    ELSE FilterNodes[n - 1] \cup FilterGroup(FilterNodes[n - 1])
FilterNode == FilterNodes[Nesting]

ConditionsOf[node \in FilterNode] ==
    IF IsGroup(node)
    THEN UNION {ConditionsOf[node.conditions[i]] : i \in DOMAIN node.conditions}
    ELSE {node}

-----------------------------------------------------------------------------
(* QuerySchema::validate_filter, for an allowlist that maps each filter    *)
(* field to its operators: the first condition that it refuses, or "ok".   *)

Refusal(allowed, c) ==
    IF c.field \notin DOMAIN allowed THEN "UnsupportedFilterField"
    ELSE IF c.operator \notin allowed[c.field] THEN "OperatorNotAllowed" ELSE "ok"

ValidateFilter(allowed, filter) ==
    LET Validated[node \in FilterNode] ==
            IF ~IsGroup(node) THEN Refusal(allowed, node)
            ELSE LET wrong == {i \in DOMAIN node.conditions :
                                  Validated[node.conditions[i]] # "ok"}
                 IN  IF wrong = {} THEN "ok" ELSE Validated[node.conditions[Min(wrong)]]
    IN  Validated[filter]

=============================================================================
