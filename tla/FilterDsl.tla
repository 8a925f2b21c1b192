------------------------------ MODULE FilterDsl ------------------------------
(***************************************************************************)
(* FilterDsl: the string filter grammar of awaken-query, while a user      *)
(* types.  Each character typed is parsed again by the code's nested       *)
(* splitting, and compared with a one-pass reading of the grammar.         *)
(*                                                                         *)
(* The characters are those the parser tells apart: parentheses, the two   *)
(* connectives, the quote, the comma, and two that stand for longer        *)
(* pieces, "=" for a field of the schema followed by a scalar operator and *)
(* "@" for one followed by a set operator.  Spaces are left out.  Another  *)
(* text before an operator is a field that no schema has.                  *)
(***************************************************************************)
EXTENDS FilterAst, FiniteSets

CONSTANTS
    Chars,              \* the characters typed
    MaxLength           \* the longest input

VARIABLES
    input,              \* what has been typed
    parsed              \* what parse_filter_dsl makes of it

vars == <<input, parsed>>

Field == "f"
Err(why) == [kind |-> "error", why |-> why]
IsErr(r) == r.kind = "error"

-----------------------------------------------------------------------------
(* Splitting.                                                              *)

\* Mutant of Scan: delimiters and parentheses count inside quotes too.
ScanUnquoted(s, delimiter) ==
    LET Step(at, i) ==
            IF s[i] = "'" THEN [at EXCEPT !.quoted = ~@]
            ELSE IF s[i] = "(" THEN [at EXCEPT !.depth = @ + 1]
            ELSE IF s[i] = ")"
            THEN [at EXCEPT !.depth = @ - 1, !.broken = @ \/ at.depth = 0]
            ELSE IF s[i] = delimiter /\ at.depth = 0
            THEN [at EXCEPT !.cuts = Append(@, i)]
            ELSE at
    IN  FoldLeft(Step, [quoted |-> FALSE, depth |-> 0, broken |-> FALSE, cuts |-> <<>>],
                 [i \in DOMAIN s |-> i])

\* One pass over the characters: where it splits, how deep it is, whether it
\* is inside quotes, and whether a parenthesis was closed that was not open.
Scan(s, delimiter) ==
    LET Step(at, i) ==
            IF s[i] = "'" THEN [at EXCEPT !.quoted = ~@]
            ELSE IF at.quoted THEN at
            ELSE IF s[i] = "(" THEN [at EXCEPT !.depth = @ + 1]
            ELSE IF s[i] = ")"
            THEN [at EXCEPT !.depth = @ - 1, !.broken = @ \/ at.depth = 0]
            ELSE IF s[i] = delimiter /\ at.depth = 0
            THEN [at EXCEPT !.cuts = Append(@, i)]
            ELSE at
    IN  FoldLeft(Step, [quoted |-> FALSE, depth |-> 0, broken |-> FALSE, cuts |-> <<>>],
                 [i \in DOMAIN s |-> i])

Unbalanced(s, delimiter) ==
    LET end == Scan(s, delimiter) IN end.broken \/ end.quoted \/ end.depth # 0

SplitTopLevel(s, delimiter) ==
    LET cuts == <<0>> \o Scan(s, delimiter).cuts \o <<Len(s) + 1>>
    IN  [k \in 1..(Len(cuts) - 1) |-> SubSeq(s, cuts[k] + 1, cuts[k + 1] - 1)]

Stripped(s) == SubSeq(s, 2, Len(s) - 1)
Encloses(s, open, close) == Len(s) >= 2 /\ s[1] = open /\ s[Len(s)] = close

-----------------------------------------------------------------------------
(* Conditions.                                                             *)

Operators == {"=", "@"}

\* The first operator outside quotes, 0 when there is none.
FindOperator(s) ==
    LET QuotesBefore(i) == Cardinality({j \in 1..(i - 1) : s[j] = "'"})
        found == {i \in DOMAIN s : s[i] \in Operators /\ QuotesBefore(i) % 2 = 0}
    IN  IF found = {} THEN 0 ELSE CHOOSE i \in found : \A j \in found : i <= j

\* What stands between two quotes, or a bare word; the words that mean a
\* number, a truth value or null are bare words here.
ParseScalar(s) == IF Encloses(s, "'", "'") THEN Text(Stripped(s)) ELSE Text(s)

ParseSet(s) ==
    IF ~Encloses(s, "(", ")") THEN Err("Syntax")
    ELSE IF Stripped(s) = <<>> THEN List(<<>>) @@ [kind |-> "value"]
    ELSE IF Unbalanced(Stripped(s), ",") THEN Err("UnbalancedParentheses")
    ELSE LET items == SplitTopLevel(Stripped(s), ",")
         IN  List([k \in DOMAIN items |-> ParseScalar(items[k])]) @@ [kind |-> "value"]

ParseCondition(s) ==
    LET at == FindOperator(s)
        rest == SubSeq(s, at + 1, Len(s))
        field == IF at = 1 THEN Field ELSE "unknown"
    IN  IF at = 0 THEN Err("Syntax")
        ELSE IF s[at] = "=" THEN Condition(field, "eq", Scalar(ParseScalar(rest)))
        ELSE IF IsErr(ParseSet(rest)) THEN ParseSet(rest)
        ELSE Condition(field, "in", List(ParseSet(rest).items))

-----------------------------------------------------------------------------
(* The recursive descent.                                                  *)

FirstError(nodes) ==
    nodes[CHOOSE i \in DOMAIN nodes :
              IsErr(nodes[i]) /\ \A j \in 1..(i - 1) : ~IsErr(nodes[j])]

\* The parts of one connective: one alone is not a group, and the first error
\* ends it.
Joined(op, nodes) ==
    IF \E k \in DOMAIN nodes : IsErr(nodes[k]) THEN FirstError(nodes)
    ELSE IF Len(nodes) = 1 THEN nodes[1] ELSE Group(op, nodes)

RECURSIVE ParseOr(_)
ParsePrimary(s) ==
    IF s = <<>> THEN Err("Syntax")
    ELSE IF Encloses(s, "(", ")") THEN ParseOr(Stripped(s))
    ELSE ParseCondition(s)

ParseAnd(s) ==
    LET parts == SplitTopLevel(s, "&")
    IN  IF Unbalanced(s, "&") THEN Err("UnbalancedParentheses")
        ELSE Joined("and", [k \in DOMAIN parts |-> ParsePrimary(parts[k])])

ParseOr(s) ==
    LET parts == SplitTopLevel(s, "|")
    IN  IF Unbalanced(s, "|") THEN Err("UnbalancedParentheses")
        ELSE Joined("or", [k \in DOMAIN parts |-> ParseAnd(parts[k])])

Allowed == [f \in {Field} |-> {"eq", "in"}]

ParseFilterDsl(s) ==
    LET node == ParseOr(s)
    IN  IF IsErr(node) THEN node
        ELSE IF ValidateFilter(Allowed, node) # "ok" THEN Err(ValidateFilter(Allowed, node))
        ELSE node

-----------------------------------------------------------------------------
Init == input = <<>> /\ parsed = ParseFilterDsl(<<>>)

Type(c) ==
    /\ Len(input) < MaxLength
    /\ input' = Append(input, c)
    /\ parsed' = ParseFilterDsl(input')

Next == \E c \in Chars : Type(c)
Spec == Init /\ [][Next]_vars

-----------------------------------------------------------------------------
(* The grammar read in one pass: a stack of open groups, each with its     *)
(* alternatives so far and the conjuncts of the one being read, and the    *)
(* value being read, in which balanced parentheses and anything quoted are *)
(* text.                                                                   *)

Open == [ors |-> <<>>, ands |-> <<>>]
Single(op, nodes) == IF Len(nodes) = 1 THEN nodes[1] ELSE Group(op, nodes)
EndAnd(frame) == [ors |-> Append(frame.ors, Single("and", frame.ands)), ands |-> <<>>]
EndOr(frame) == Single("or", EndAnd(frame).ors)

\* The elements of a set: commas between them at depth one, nothing after the
\* closing parenthesis.
ReadSet(s) ==
    LET Step(at, c) ==
            IF at.quoted \/ c = "'"
            THEN [at EXCEPT !.quoted = IF c = "'" THEN ~@ ELSE @,
                            !.item = Append(@, c), !.ok = @ /\ at.depth > 0]
            ELSE IF c = "(" /\ at.depth = 0 THEN [at EXCEPT !.depth = 1, !.ok = @ /\ ~at.done]
            ELSE IF c = ")" /\ at.depth = 1
            THEN [at EXCEPT !.depth = 0, !.done = TRUE, !.item = <<>>,
                            !.items = IF at.items = <<>> /\ at.item = <<>> THEN @
                                      ELSE Append(@, at.item)]
            ELSE IF c = "," /\ at.depth = 1
            THEN [at EXCEPT !.items = Append(@, at.item), !.item = <<>>]
            ELSE [at EXCEPT !.depth = IF c = "(" THEN @ + 1 ELSE IF c = ")" THEN @ - 1 ELSE @,
                            !.item = Append(@, c), !.ok = @ /\ at.depth > 0]
        end == FoldLeft(Step, [ok |-> TRUE, done |-> FALSE, quoted |-> FALSE, depth |-> 0,
                               item |-> <<>>, items |-> <<>>], s)
    IN  [ok |-> end.ok /\ end.done /\ end.depth = 0, items |-> end.items]

ReadValue(op, s) ==
    IF op = "=" THEN Condition(Field, "eq", Scalar(ParseScalar(s)))
    ELSE Condition(Field, "in", List([k \in DOMAIN ReadSet(s).items |->
                                         ParseScalar(ReadSet(s).items[k])]))

Top(at) == at.stack[Len(at.stack)]
SetTop(at, frame) == [at EXCEPT !.stack[Len(at.stack)] = frame]
Fail(at) == [at EXCEPT !.ok = FALSE]

\* The value being read ends: its condition is a conjunct of the open group.
EndValue(at) ==
    IF at.mode # "value" THEN at
    ELSE IF at.op = "@" /\ ~ReadSet(at.value).ok THEN Fail(at)
    ELSE SetTop([at EXCEPT !.mode = "after"],
                [Top(at) EXCEPT !.ands = Append(@, ReadValue(at.op, at.value))])

CloseGroup(at) ==
    IF Len(at.stack) = 1 THEN Fail(at)
    ELSE LET outer == [at EXCEPT !.stack = Front(@)]
         IN  SetTop(outer, [Top(outer) EXCEPT !.ands = Append(@, EndOr(Top(at)))])

\* A character that is not part of a value.
Structure(at, c) ==
    IF at.mode = "start" THEN
        CASE c = "(" -> [at EXCEPT !.stack = Append(@, Open)]
          [] c \in Operators -> [at EXCEPT !.mode = "value", !.op = c, !.value = <<>>]
          [] OTHER -> Fail(at)
    ELSE CASE c = ")" -> CloseGroup(at)
           [] c = "&" -> [at EXCEPT !.mode = "start"]
           [] c = "|" -> SetTop([at EXCEPT !.mode = "start"], EndAnd(Top(at)))
           [] OTHER -> Fail(at)

ReadChar(at, c) ==
    IF ~at.ok THEN at
    ELSE IF at.mode = "value" /\ (at.quoted \/ at.depth > 0 \/ c \notin {")", "&", "|"})
    THEN [at EXCEPT !.value = Append(@, c),
                    !.quoted = IF c = "'" THEN ~@ ELSE @,
                    !.depth = IF at.quoted THEN @ ELSE IF c = "(" THEN @ + 1
                              ELSE IF c = ")" THEN @ - 1 ELSE @]
    ELSE LET ended == EndValue(at) IN IF ended.ok THEN Structure(ended, c) ELSE ended

Reading(s) ==
    LET start == [ok |-> TRUE, mode |-> "start", op |-> "=", value |-> <<>>,
                  quoted |-> FALSE, depth |-> 0, stack |-> <<Open>>]
        end == EndValue(FoldLeft(ReadChar, start, s))
    IN  IF end.ok /\ end.mode = "after" /\ ~end.quoted /\ end.depth = 0 /\ Len(end.stack) = 1
        THEN EndOr(Top(end)) ELSE Err("refused")

-----------------------------------------------------------------------------
\* The nested splitting reads the documented grammar: "or" below "and",
\* parentheses grouping at any depth, anything quoted taken as text, and an
\* input refused when it is unbalanced or incomplete anywhere.
ParsesGrammar ==
    IF IsErr(parsed) THEN IsErr(Reading(input)) ELSE parsed = Reading(input)

=============================================================================
