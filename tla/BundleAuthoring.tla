--------------------------- MODULE BundleAuthoring ---------------------------
(***************************************************************************)
(* BundleAuthoring: how migrations come to be.  A service constructs its   *)
(* migrations, gathers them into a bundle, and a build-time test lints the *)
(* bundles of all services together.  The runners assume what is checked   *)
(* here.                                                                   *)
(*                                                                         *)
(* A SQL body is a sequence of statements.  Each has its lexemes, as the   *)
(* crate's word scan sees them, and what it really does: the tables it     *)
(* creates and uses, and whether it has a conditional clause.              *)
(***************************************************************************)
EXTENDS MigrationPlan, Integers, SequencesExt

CONSTANTS
    Lexemes,            \* statement -> its lexemes [kind, word]
    Creates,            \* statement -> the tables it creates
    Uses,               \* and those it names after FROM, JOIN, REFERENCES, ALTER
    Conditional,        \* the statements with a conditional clause
    LowerCase,          \* word -> the word in lower case, where it differs
    Candidates,         \* the migrations services try to construct
    BundleIds,          \* id -> whether validate_bundle_id takes it
    MaxMigrations, MaxBundles

\* A well-formed digest is a checksum; anything else recorded as an alias.
Malformed == <<0, <<>>>>

Legacy == {"published_legacy", "published_legacy_per_dialect"}

\* Any of Migration's constructors makes one of these; a blank body is <<>>,
\* and only published migrations have other checksums than their own.
Constructible ==
    [kind : {"portable", "per_dialect"} \cup Legacy, version : Int, blank : BOOLEAN,
     sql : [Dialect -> Body], expected : [Dialect -> Checksum \cup {Malformed}],
     aliases : [Dialect -> Seq(Checksum \cup {Malformed})]]

ASSUME CandidatesAssumption ==
    /\ Candidates \subseteq Constructible
    /\ \A m \in Candidates : \A d \in Dialect : m.kind \notin Legacy => m.aliases[d] = <<>>

VARIABLES
    draft,              \* the migrations of the bundle being written
    bundles,            \* the bundles built: [id, migrations]
    answer              \* what the latest call returned

baVars == <<draft, bundles, answer>>

-----------------------------------------------------------------------------
(* tokenize_words and the scans made of it.                                *)

\* Comments, string literals and punctuation are no words; quoted identifiers
\* are, without their quotes.
TokenizeWords(body) ==
    LET all == FlattenSeq([i \in DOMAIN body |-> Lexemes[body[i]]])
        words == SelectSeq(all, LAMBDA l : l.kind \in {"word", "quoted"})
    IN  [i \in DOMAIN words |-> words[i].word]

HasRun(words, run) ==
    \E i \in 1..(Len(words) - Len(run) + 1) : SubSeq(words, i, i + Len(run) - 1) = run

\* Mutant of RejectsSql: replacing an object is let through.
RejectsIfOnly(body) ==
    \E run \in {<<"IF", "NOT", "EXISTS">>, <<"IF", "EXISTS">>} :
        HasRun(TokenizeWords(body), run)

RejectsSql(body) ==
    \E run \in {<<"IF", "NOT", "EXISTS">>, <<"CREATE", "OR", "REPLACE">>, <<"IF", "EXISTS">>} :
        HasRun(TokenizeWords(body), run)

NormalizeTable(w) == IF w \in DOMAIN LowerCase THEN LowerCase[w] ELSE w

LeadingCount(words, i, keywords) ==
    CHOOSE n \in 0..Len(words) :
        /\ \A j \in i..(i + n - 1) : j \in DOMAIN words /\ words[j] \in keywords
        /\ i + n \in DOMAIN words => words[i + n] \notin keywords

\* The tables named by the word at position i, none past the end.
NameAt(words, i) == IF i \in DOMAIN words THEN {NormalizeTable(words[i])} ELSE {}

ScanTables(body) ==
    LET words == TokenizeWords(body)
        Follows(i, keyword) == i + 1 \in DOMAIN words /\ words[i + 1] = keyword
        After(i, keywords) == i + 2 + LeadingCount(words, i + 2, keywords)
        With(created, referenced, rest) ==
            [created |-> created \cup rest.created,
             referenced |-> referenced \cup rest.referenced]
        From[i \in Nat] ==
            IF i > Len(words) THEN [created |-> {}, referenced |-> {}]
            ELSE IF words[i] = "CREATE" /\ Follows(i, "TABLE")
            THEN LET name == After(i, {"IF", "NOT", "EXISTS"})
                 IN  With(NameAt(words, name), {}, From[name + 1])
            ELSE IF words[i] = "ALTER" /\ Follows(i, "TABLE")
            THEN LET name == After(i, {"IF", "EXISTS", "ONLY"})
                 IN  With({}, NameAt(words, name), From[name + 1])
            ELSE IF words[i] \in {"FROM", "JOIN", "REFERENCES"}
            THEN With({}, NameAt(words, i + 1), From[i + 2])
            ELSE From[i + 1]
    IN  From[1]

-----------------------------------------------------------------------------
(* Construction.                                                           *)

\* Mutant of AliasesFit: an alias may repeat the canonical checksum.
AliasesUnique(canonical, aliases) ==
    \A i \in DOMAIN aliases :
        /\ aliases[i] # Malformed
        /\ \A j \in 1..(i - 1) : aliases[j] # aliases[i]

AliasesFit(canonical, aliases) ==
    \A i \in DOMAIN aliases :
        /\ aliases[i] \notin {Malformed, canonical}
        /\ \A j \in 1..(i - 1) : aliases[j] # aliases[i]

\* Migration::validate.
Validate(m) ==
    IF m.version <= 0 \/ m.blank \/ \E d \in Dialect : m.sql[d] = <<>>
    THEN "InvalidMigration"
    ELSE IF m.kind \notin Legacy
    THEN IF \E d \in Dialect : RejectsSql(m.sql[d]) THEN "ConditionalSql" ELSE "ok"
    ELSE IF \E d \in Dialect : m.expected[d] # ChecksumFor(m.version, m, d)
    THEN "PublishedLegacyChecksumMismatch"
    ELSE IF \E d \in Dialect : ~AliasesFit(m.expected[d], m.aliases[d])
    THEN "InvalidMigration" ELSE "ok"

Versions(migrations) == {migrations[i].version : i \in DOMAIN migrations}

\* MigrationBundle::validate, of migrations each constructed before: the first
\* version that repeats an earlier one or does not follow its predecessor.
ValidateBundle(id, migrations) ==
    LET Repeats(i) == \E j \in 1..(i - 1) : migrations[j].version = migrations[i].version
        Falls(i) == i > 1 /\ migrations[i].version <= migrations[i - 1].version
        wrong == {i \in DOMAIN migrations : Repeats(i) \/ Falls(i)}
        first == CHOOSE i \in wrong : \A j \in wrong : i <= j
    IN  IF ~BundleIds[id] THEN "InvalidBundleId"
        ELSE IF wrong = {} THEN "ok"
        ELSE IF Repeats(first) THEN "DuplicateMigrationVersion" ELSE "InvalidMigrationOrder"

-----------------------------------------------------------------------------
(* lint.                                                                   *)

\* Mutant of Scans: only the PostgreSQL body of a migration is read.
ScansOfPostgres(m) == {ScanTables(m.sql["postgres"])}

Scans(m) == {ScanTables(m.sql[d]) : d \in Dialect}

CheckBundleIndependence(migrations) ==
    LET scans == UNION {Scans(migrations[i]) : i \in DOMAIN migrations}
        created == UNION {s.created : s \in scans}
    IN  IF \E s \in scans : ~(s.referenced \subseteq created)
        THEN "CrossBundleReference" ELSE "ok"

\* A built bundle is validated once more; each id may be there once.
LintFault(built, i) ==
    IF ValidateBundle(built[i].id, built[i].migrations) # "ok"
    THEN ValidateBundle(built[i].id, built[i].migrations)
    ELSE IF \E j \in 1..(i - 1) : built[j].id = built[i].id THEN "DuplicateBundle"
    ELSE CheckBundleIndependence(built[i].migrations)

\* The fault of the first bundle that has one.
LintError(built) ==
    LET wrong == {i \in DOMAIN built : LintFault(built, i) # "ok"}
        first == CHOOSE i \in wrong : \A j \in wrong : i <= j
    IN  IF wrong = {} THEN "ok" ELSE LintFault(built, first)

-----------------------------------------------------------------------------
BAInit == draft = <<>> /\ bundles = <<>> /\ answer = "ok"

\* Any of Migration's constructors; a migration refused does not exist.
Construct(m) ==
    /\ Len(draft) < MaxMigrations /\ Len(bundles) < MaxBundles
    /\ answer' = Validate(m)
    /\ draft' = IF Validate(m) = "ok" THEN Append(draft, m) ELSE draft
    /\ UNCHANGED bundles

NewBundle(id) ==
    /\ draft # <<>> /\ Len(bundles) < MaxBundles
    /\ answer' = ValidateBundle(id, draft)
    /\ bundles' = IF ValidateBundle(id, draft) = "ok"
                  THEN Append(bundles, [id |-> id, migrations |-> draft]) ELSE bundles
    /\ draft' = <<>>

Lint ==
    /\ bundles # <<>> /\ answer # "linted"
    /\ answer' = IF LintError(bundles) = "ok" THEN "linted" ELSE LintError(bundles)
    /\ UNCHANGED <<draft, bundles>>

BANext ==
    \/ \E m \in Candidates : Construct(m)
    \/ \E id \in DOMAIN BundleIds : NewBundle(id)
    \/ Lint

BASpec == BAInit /\ [][BANext]_baVars

-----------------------------------------------------------------------------
Statements(body) == {body[i] : i \in DOMAIN body}
Used(body) == UNION {Uses[s] : s \in Statements(body)}
Created(body) == UNION {Creates[s] : s \in Statements(body)}

\* The scan of a body finds the tables that its statements create and use.
ScansExactly ==
    \A m \in Candidates : \A d \in Dialect :
        ScanTables(m.sql[d]) = [created |-> Created(m.sql[d]), referenced |-> Used(m.sql[d])]

AsPlanned(migrations) ==
    [v \in Versions(migrations) |->
        LET m == CHOOSE n \in {migrations[i] : i \in DOMAIN migrations} : n.version = v
        IN  [sql |-> m.sql, aliases |-> [d \in Dialect |-> {m.aliases[d][i] :
                                                               i \in DOMAIN m.aliases[d]}]]]

\* What the runners take for granted of a bundle is true of every bundle that
\* can be built: its list is its migrations in the order of their distinct
\* versions, and no alias makes a recorded checksum ambiguous.
BuiltAreBundles ==
    \A b \in DOMAIN bundles :
        LET migrations == bundles[b].migrations
        IN  /\ IsBundle(AsPlanned(migrations))
            /\ \A i, j \in DOMAIN migrations :
                  i < j => migrations[i].version < migrations[j].version

\* A constructor refuses a new migration for a conditional clause exactly when
\* a statement of either dialect has one, so that success never depends on what
\* is there already, whatever comments and string literals say.
ConditionalSqlExactly ==
    [][\A m \in Candidates :
          (Construct(m) /\ m.kind \notin Legacy /\ answer' \in {"ok", "ConditionalSql"}) =>
              (answer' = "ConditionalSql" <=>
                  \E d \in Dialect : Statements(m.sql[d]) \cap Conditional # {})]_baVars

UsedBy(migrations, d) == UNION {Used(migrations[i].sql[d]) : i \in DOMAIN migrations}
CreatedBy(migrations, d) == UNION {Created(migrations[i].sql[d]) : i \in DOMAIN migrations}

\* The lint passes exactly the sets of bundles of distinct ids in which each
\* uses only tables that it creates itself, a use being one of the four that
\* the rule names.
LintExact ==
    LET Independent(b) ==
            UNION {UsedBy(bundles[b].migrations, d) : d \in Dialect}
                \subseteq UNION {CreatedBy(bundles[b].migrations, d) : d \in Dialect}
    IN  /\ answer = "linted" => \A b \in DOMAIN bundles : Independent(b)
        /\ answer = "CrossBundleReference" => \E b \in DOMAIN bundles : ~Independent(b)
        /\ answer = "linted" =>
              \A b, c \in DOMAIN bundles : b # c => bundles[b].id # bundles[c].id

=============================================================================
