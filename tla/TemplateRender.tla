--------------------------- MODULE TemplateRender ---------------------------
(***************************************************************************)
(* TemplateRender: the text a runner executes for a migration.  Every      *)
(* runner renders every body, portable or not, for its dialect: tokens are *)
(* replaced by one textual substitution after the other, and on PostgreSQL *)
(* a last one widens INTEGER.                                              *)
(*                                                                         *)
(* A body is a sequence of the pieces of text that rendering tells apart;  *)
(* a token is three of them, "{", its name and "}".  Of the vocabulary,    *)
(* "json" stands for the tokens that render to one word.                   *)
(***************************************************************************)
EXTENDS Integers, Sequences, SequencesExt, FiniteSets

CONSTANTS
    Pieces,             \* what bodies are written with
    MaxLength,          \* the longest body
    Prefix              \* the table prefix of the runner

VARIABLES
    body,               \* the template
    rendered            \* what each dialect's runner executes for it

vars == <<body, rendered>>

Dialect == {"postgres", "sqlite"}

-----------------------------------------------------------------------------
Occurs(pattern, s, i) ==
    i + Len(pattern) - 1 <= Len(s) /\ SubSeq(s, i, i + Len(pattern) - 1) = pattern

\* str::replace: the occurrences that do not overlap, from the left.
Replace(s, pattern, by) ==
    LET Step(at, i) ==
            IF i < at.next THEN at
            ELSE IF Occurs(pattern, s, i)
            THEN [out |-> at.out \o by, next |-> i + Len(pattern)]
            ELSE [out |-> Append(at.out, s[i]), next |-> i + 1]
    IN  FoldLeft(Step, [out |-> <<>>, next |-> 1], [i \in DOMAIN s |-> i]).out

Vocabulary == {"prefix", "json", "pk_autoinc"}
Token(name) == <<"{", name, "}">>

\* Dialect::json, Dialect::pk_autoinc and the others.
Resolve(name, d) ==
    IF name = "prefix" THEN <<Prefix>>
    ELSE IF name = "json" THEN IF d = "postgres" THEN <<"JSONB">> ELSE <<"TEXT">>
    ELSE IF d = "postgres" THEN <<"BIGSERIAL", " ", "PRIMARY KEY">>
    ELSE <<"INTEGER", " ", "PRIMARY KEY AUTOINCREMENT">>

RenderTokens(s, d) ==
    FoldLeft(LAMBDA text, name : Replace(text, Token(name), Resolve(name, d)),
             s, <<"prefix", "json", "pk_autoinc">>)

Widen(s) == Replace(s, <<" ", "INTEGER">>, <<" ", "BIGINT">>)

\* Mutant of Render: the widening forgets the dialect.
RenderWideningBoth(s, d) == Widen(RenderTokens(s, d))

Render(s, d) ==
    IF d = "postgres" THEN Widen(RenderTokens(s, d)) ELSE RenderTokens(s, d)

-----------------------------------------------------------------------------
Init == body = <<>> /\ rendered = [d \in Dialect |-> <<>>]

Write(piece) ==
    /\ Len(body) < MaxLength
    /\ body' = Append(body, piece)
    /\ rendered' = [d \in Dialect |-> Render(body', d)]

Next == \E piece \in Pieces : Write(piece)
Spec == Init /\ [][Next]_vars

-----------------------------------------------------------------------------
(* The documented rendering, in one reading of the body.                   *)

\* Where a column's type is declared as INTEGER: the word itself, outside
\* string literals, and not the beginning of a longer name.
Declares(s, i) ==
    /\ Occurs(<<" ", "INTEGER">>, s, i)
    /\ i + 2 \in DOMAIN s => s[i + 2] # "_name"
    /\ Cardinality({j \in 1..(i - 1) : s[j] = "'"}) % 2 = 0

Documented(s, d) ==
    LET Named(i) == {n \in Vocabulary : Occurs(Token(n), s, i)}
        Step(at, i) ==
            IF i < at.next THEN at
            ELSE IF Named(i) # {}
            THEN [out |-> at.out \o Resolve(CHOOSE n \in Named(i) : TRUE, d), next |-> i + 3]
            ELSE IF d = "postgres" /\ Declares(s, i)
            THEN [out |-> at.out \o <<" ", "BIGINT">>, next |-> i + 2]
            ELSE [out |-> Append(at.out, s[i]), next |-> i + 1]
    IN  FoldLeft(Step, [out |-> <<>>, next |-> 1], [i \in DOMAIN s |-> i]).out

\* A rendered body differs from its template in its tokens and, on PostgreSQL,
\* in the columns declared INTEGER, and nowhere else: no substitution sees the
\* text of another, what looks like a token but is none passes untouched, and
\* the key a token declares keeps the INTEGER that SQLite requires.
RenderedAsDocumented == \A d \in Dialect : rendered[d] = Documented(body, d)

=============================================================================
