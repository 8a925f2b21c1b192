-------------------------- MODULE MCBundleAuthoring --------------------------
(***************************************************************************)
(* Statements and migrations for instances of BundleAuthoring.             *)
(***************************************************************************)
EXTENDS BundleAuthoring

Words(kind, ws) == [i \in DOMAIN ws |-> [kind |-> kind, word |-> ws[i]]]
Sql(ws) == Words("word", ws)

StatementLexemes ==
    [create_t |-> Sql(<<"CREATE", "TABLE">>) \o Words("quoted", <<"t">>),
     create_if_t |-> Sql(<<"CREATE", "TABLE", "IF", "NOT", "EXISTS", "t">>),
     create_u |-> Sql(<<"CREATE", "TABLE", "u">>) \o Words("punct", <<"(">>)
                     \o Sql(<<"id", "REFERENCES", "t">>) \o Words("punct", <<")">>),
     create_s |-> Sql(<<"CREATE", "TABLE", "s">>) \o Words("comment", <<"FROM", "u">>)
                     \o Sql(<<"DEFAULT">>) \o Words("string", <<"IF", "EXISTS">>),
     alter_t |-> Sql(<<"ALTER", "TABLE", "ONLY", "T">>),
     alter_if_t |-> Sql(<<"ALTER", "TABLE", "IF", "EXISTS", "t">>),
     replace |-> Sql(<<"CREATE", "OR", "REPLACE", "VIEW", "v">>),
     join |-> Sql(<<"SELECT", "FROM", "u", "JOIN", "t">>)]


StatementCreates ==
    [s \in DOMAIN StatementLexemes |->
        CASE s \in {"create_t", "create_if_t"} -> {"t"}
          [] s = "create_u" -> {"u"} [] s = "create_s" -> {"s"} [] OTHER -> {}]
StatementUses ==
    [s \in DOMAIN StatementLexemes |->
        CASE s \in {"create_u", "alter_t", "alter_if_t"} -> {"t"}
          [] s = "join" -> {"u", "t"} [] OTHER -> {}]
ConditionalStatements == {"create_if_t", "alter_if_t", "replace"}

Lower == [T |-> "t"]

OnBoth(x) == [d \in Dialect |-> x]
New(kind, v, sql) ==
    [kind |-> kind, version |-> v, blank |-> FALSE, sql |-> sql,
     expected |-> OnBoth(Malformed), aliases |-> OnBoth(<<>>)]
Portable(v, body) == New("portable", v, OnBoth(body))
PerDialect(v, postgres, sqlite) ==
    New("per_dialect", v, [d \in Dialect |-> IF d = "postgres" THEN postgres ELSE sqlite])
Pinned(m, aliases) ==
    [m EXCEPT !.kind = IF m.kind = "portable" THEN "published_legacy"
                       ELSE "published_legacy_per_dialect",
              !.expected = [d \in Dialect |-> <<m.version, m.sql[d]>>],
              !.aliases = OnBoth(aliases)]

T == <<"create_t">>
IfT == <<"create_if_t">>

NewOnes ==
    {Portable(1, T), Portable(2, T), Portable(2, <<"create_s", "alter_t">>),
     PerDialect(1, T, <<"create_s">>)}
Refused ==
    {Portable(0, T), Portable(1, <<>>), PerDialect(1, T, <<>>),
     [Portable(1, T) EXCEPT !.blank = TRUE],
     Portable(1, IfT), PerDialect(2, <<"create_s">>, <<"alter_if_t">>), Portable(1, <<"replace">>)}
Published ==
    {Pinned(Portable(1, IfT), <<>>), Pinned(Portable(2, T), <<<<3, IfT>>, <<4, T>>>>),
     Pinned(Portable(1, T), <<<<1, T>>>>), Pinned(Portable(1, T), <<Malformed>>),
     Pinned(Portable(1, T), <<<<1, IfT>>, <<1, IfT>>>>),
     Pinned(PerDialect(1, T, IfT), <<<<1, T>>>>),
     [Pinned(Portable(1, IfT), <<>>) EXCEPT !.sql = OnBoth(T)]}

\* Bundles that stand alone and bundles that lean on others.
ToLint ==
    {Portable(1, T), Portable(1, <<"create_t", "create_u", "join">>),
     Portable(1, <<"create_s">>), Portable(2, <<"create_u">>), Portable(2, <<"alter_t">>),
     PerDialect(2, <<"create_s">>, <<"alter_t">>)}

AllCandidates == NewOnes \cup Refused \cup Published \cup ToLint
Bodies == {m.sql[d] : m \in AllCandidates, d \in Dialect}

\* What the theorem about the lint supposes is so for these statements.
ASSUME StatementsAssumption == ScansExactly

Ids == [a |-> TRUE, b |-> TRUE, bad |-> FALSE]

=============================================================================
