----------------------------- MODULE MCListQuery -----------------------------
(***************************************************************************)
(* A surface and requests for instances of ListQuery: name can be filtered,*)
(* created only sorted by, team only grouped by.                           *)
(***************************************************************************)
EXTENDS ListQuery

Allowed == [name |-> {"eq", "contains", "in"}]
Sortable == {"created"}
Groupable == {"team"}
CreatedFirst == <<[field |-> "created", direction |-> "desc"]>>
Digits == [x \in {"1", "007"} |-> IF x = "1" THEN 1 ELSE 7]

Part(dash, field) == [dash |-> dash, field |-> field]
SortBy(parts) == [key |-> "sort", parts |-> parts]
Filter(brackets, literals) == [key |-> "filter", brackets |-> brackets, literals |-> literals]
Numbered(key, n) == [key |-> key, number |-> n]
After(key, c) == [key |-> key, cursor |-> c]

PagePairs ==
    {Numbered(k, n) : k \in SizeKeys, n \in {0, 2, 3, 4}}
        \cup {Numbered(k, n) : k \in NumberKeys, n \in {0, 1, 2}}
        \cup {Numbered(k, n) : k \in OffsetKeys, n \in {-1, 0, 1}}
        \cup {After(k, c) : k \in CursorKeys, c \in {"", "k1", "k2"}}
        \cup {[key |-> "other"]}

QueryPairs ==
    {SortBy(<<Part(FALSE, "created"), Part(TRUE, "")>>),
     SortBy(<<Part(TRUE, "created"), Part(FALSE, "")>>),
     SortBy(<<Part(FALSE, "created"), Part(TRUE, "created")>>),
     SortBy(<<Part(FALSE, "name")>>),
     Filter(<<"name">>, <<"true", "a">>), Filter(<<"name">>, <<"null">>),
     Filter(<<"name", "contains">>, <<"a">>), Filter(<<"name", "contains">>, <<"007">>), Filter(<<"name", "in">>, <<"a", "1">>),
     Filter(<<"name", "in">>, <<"">>), Filter(<<"name", "gt">>, <<"1">>),
     Filter(<<"name", "like it">>, <<"a">>), Filter(<<"team">>, <<"a">>),
     Filter(<<>>, <<"a">>), Filter(<<"name", "eq", "ne">>, <<"a">>),
     [key |-> "other"], Numbered("limit", 2)}

AllPairs == PagePairs \cup QueryPairs

=============================================================================
