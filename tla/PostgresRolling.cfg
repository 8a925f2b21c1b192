CONSTANTS
    p1 = p1
    p2 = p2
    installer = installer
    none = none
    Proc = {p1, p2}
    Installer = installer
    NoProc = none
    Body <- MCBody
    Bundle <- MCBundle
    Release <- MCRelease
    Declared <- MCDeclared
    DIALECT = "postgres"
    InitialDatabases <- AllDatabases
    Key <- MCKey
    HashText <- CollidingHash
    Calls <- EitherOrderCalls
    MaxCalls = 2
    FaultsOn = TRUE
SPECIFICATION Spec
INVARIANTS TypeOK SuccessMeansComplete LedgerMatchesSchema PlanStaysFresh NoRunnerConflict AppliedInOrder
PROPERTY ImplementsLedger
