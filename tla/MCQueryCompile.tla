--------------------------- MODULE MCQueryCompile ---------------------------
(***************************************************************************)
(* Filters and rows for instances of QuerySemantics.                       *)
(***************************************************************************)
EXTENDS QuerySemantics

Columns == [name |-> "name", size |-> "size", id |-> "id"]
Row(name, size, id, owner) ==
    [name |-> name, size |-> Number(size), id |-> Number(id), owner |-> Number(owner)]

Strings(chars, n) == UNION {[1..k -> chars] : k \in 0..n}
Texts(chars, n) == {Text(s) : s \in Strings(chars, n)}
Plain == {"a", "b", "%", "_"}
All == Plain \cup {"\\"}

\* Every text of two characters, NULL, and every mix of the other columns.
NameRows == {Row(t, 1, 1, 1) : t \in Texts(All, 2) \cup {NullScalar}}
SizeRows == {Row(Text(<<x>>), n, i, o) : x \in {"a", "b"}, n \in 1..2, i \in 1..2, o \in 1..2}
NullRows == {[r EXCEPT !.size = NullScalar] : r \in SizeRows}
TableRows == NameRows \cup SizeRows \cup NullRows

On(field, ops, values) ==
    {Condition(field, op, v) : op \in ops, v \in values}
Scalars(xs) == {Scalar(x) : x \in xs}
Lists(xs, n) == {List(l) : l \in UNION {[1..k -> xs] : k \in 0..n}}
Names == {Text(<<"a">>), Text(<<"b", "%">>), NullScalar}

\* One condition of every operator, over every value of up to two characters
\* or elements, and some that break a rule.
Predicates ==
    On("name", EqualityOperators, Scalars(Texts(All, 2) \cup {NullScalar}))
        \cup On("name", {"like"}, Scalars(Texts(Plain, 2)))
        \cup On("name", {"ilike"}, Scalars(Texts(Plain \cup {"A"}, 2)))
        \cup On("name", WrappedOperators, Scalars(Texts(All \cup {"A"}, 2)))
        \cup On("name", SetOperators, Lists(Names, 2))
        \cup On("size", OrderOperators, Scalars({Number(1), Number(2), NullScalar}))
Broken ==
    On("secret", {"eq"}, Scalars(Names))
        \cup On("name", {"contains", "like"}, Scalars({Number(1), NullScalar}))
        \cup On("name", {"eq", "contains"}, Scalars({Text(<<"a", "b", "a">>)}))
        \cup On("name", {"in"}, Scalars(Names) \cup Lists({Text(<<"a", "b", "a">>)}, 2))
        \cup On("name", {"not_in"}, {List(<<NullScalar, NullScalar, NullScalar>>)})
        \cup On("name", {"ne", "gt"}, Lists(Names, 1))

\* Groups of groups of conditions with no, one and two parameters.
Leaves == {Condition("name", "in", List(<<Text(<<"a">>), Text(<<"b">>)>>)),
           Condition("size", "eq", Scalar(NullScalar)),
           Condition("size", "gt", Scalar(Number(1)))}
Groups(nodes) ==
    {Group(op, l) : op \in {"and", "or"}, l \in UNION {[1..k -> nodes] : k \in 0..2}}
Trees == Groups(Leaves \cup Groups(Leaves))
Fine == Condition("size", "eq", Scalar(NullScalar))
OneBroken ==
    {Group(op, <<Fine, Group(inner, <<b, Fine>>)>>) :
        op \in {"and", "or"}, inner \in {"and", "or"}, b \in Broken}

AllFilters == Predicates \cup Broken \cup Trees \cup OneBroken
AndTrees == {t \in Trees : t.operator = "and"}

SizeThenId == <<[field |-> "size", direction |-> "desc"], [field |-> "id", direction |-> "asc"]>>
AfterFirst == [size |-> Number(2), id |-> Number(1)]
One_ == Number(1)

=============================================================================
