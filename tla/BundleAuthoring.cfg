SPECIFICATION BASpec
CONSTANTS
    Body <- Bodies
    Lexemes <- StatementLexemes
    Creates <- StatementCreates
    Uses <- StatementUses
    Conditional <- ConditionalStatements
    LowerCase <- Lower
    Candidates <- AllCandidates
    BundleIds <- Ids
    MaxMigrations = 2
    MaxBundles = 2
INVARIANTS LintExact BuiltAreBundles
PROPERTY ConditionalSqlExactly
CHECK_DEADLOCK FALSE
