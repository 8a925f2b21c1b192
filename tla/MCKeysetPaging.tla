--------------------------- MODULE MCKeysetPaging ---------------------------
(***************************************************************************)
(* Sort specifications for instances of KeysetPaging.                      *)
(***************************************************************************)
EXTENDS KeysetPaging

Asc(f) == [field |-> f, direction |-> "asc"]
Desc(f) == [field |-> f, direction |-> "desc"]

\* Ties of one column broken by the unique column, in mixed directions, and the
\* unique column alone, whose cursors lack the other one.
MixedSorts == {<<Asc("a"), Desc("id")>>, <<Desc("id")>>}

=============================================================================
