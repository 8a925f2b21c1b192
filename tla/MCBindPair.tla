----------------------------- MODULE MCBindPair -----------------------------
(***************************************************************************)
(* Callers and errors for instances of BindPair: two callers are enough    *)
(* for each to take the other's connection, and two kinds of error tell    *)
(* which half an answer comes from.                                        *)
(***************************************************************************)
EXTENDS BindPair

TwoCallers == {"first", "second"}
TwoErrors == {"Setup", "Io"}

=============================================================================
