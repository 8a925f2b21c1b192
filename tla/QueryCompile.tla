---------------------------- MODULE QueryCompile ----------------------------
(***************************************************************************)
(* QueryCompile: a filter is compiled for each dialect, alone or to follow *)
(* a predicate of the consumer, whose parameter then comes first.  Its     *)
(* state machine is QCSpec, so that it can be used beside another one.     *)
(***************************************************************************)
EXTENDS SqlFragments, FiniteSets

CONSTANTS
    FieldMap,           \* logical field -> column
    Filters,            \* filters compiled alone
    ComposedFilters,    \* filters compiled into a larger statement
    Sort, Limit         \* the rest of the query

ASSUME FiltersAssumption == Filters \cup ComposedFilters \subseteq FilterNode
ASSUME ColumnsAssumption == \A f \in DOMAIN FieldMap : FieldMap[f] \in STRING

VARIABLES
    filter,             \* the filter of the query
    composed,           \* whether it becomes part of a larger statement
    fragments           \* what has been compiled, by dialect

qcVars == <<filter, composed, fragments>>

StartParam == IF composed THEN 2 ELSE 1

QCInit ==
    /\ \/ composed = FALSE /\ filter \in Filters
       \/ composed = TRUE /\ filter \in ComposedFilters
    /\ fragments = <<>>

CompileFor(d) ==
    /\ d \notin DOMAIN fragments
    /\ fragments' = [e \in DOMAIN fragments \cup {d} |->
           IF e = d THEN Compile(d, FieldMap, StartParam, filter, Sort, Limit) ELSE fragments[e]]
    /\ UNCHANGED <<filter, composed>>

QCNext == \E d \in Dialects : CompileFor(d)
QCSpec == QCInit /\ [][QCNext]_qcVars

Fragment(d) == fragments[d]
Compiled == {d \in DOMAIN fragments : fragments[d].error = "ok"}

-----------------------------------------------------------------------------
\* "Ordered parameters": every placeholder of a fragment has its parameter and
\* every parameter its placeholder, numbered on from where the caller said, so
\* that fragments can follow one another in a statement.
PlaceholdersMatchParams ==
    \A d \in Compiled :
        Placeholders(Fragment(d).where) =
            [k \in DOMAIN Fragment(d).params |-> Placeholder(d, StartParam + k - 1)]

\* A query compiles exactly when all conditions of its filter do and its sort
\* fields have columns: no condition is dropped or let past the bounds because
\* of where it stands, and both dialects refuse the same queries.
CompilesWhenWellFormed ==
    \A d \in DOMAIN fragments :
        d \in Compiled <=>
            /\ \A c \in ConditionsOf[filter] : WellFormed(FieldMap, c)
            /\ \A i \in DOMAIN Sort : Sort[i].field \in DOMAIN FieldMap

=============================================================================
