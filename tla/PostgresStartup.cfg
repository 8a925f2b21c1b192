CONSTANTS
    p1 = p1
    p2 = p2
    installer = installer
    none = none
    Proc = {p1, p2}
    Installer = installer
    NoProc = none
    Body <- MCBody
    Bundle <- MCBundle
    Release <- MCRelease
    Declared <- MCDeclared
    DIALECT = "postgres"
    InitialDatabases <- Runnable
    Key <- MCKey
    HashText <- CollidingHash
    Calls <- DeployCalls
    MaxCalls = 2
    FaultsOn = TRUE
SPECIFICATION FairSpec
PROPERTY EveryStartSucceeds
