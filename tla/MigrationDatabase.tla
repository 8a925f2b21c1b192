-------------------------- MODULE MigrationDatabase --------------------------
(***************************************************************************)
(* The committed state of one database as one migration namespace (one     *)
(* prefix, hence one ledger) sees it, and the releases of the program that *)
(* migrate it.  A release declares one bundle per bundle id; different     *)
(* processes may run different releases against the same database.         *)
(*                                                                         *)
(*   tables    which of the ledger's two tables exist                      *)
(*   stamps    the rows of the meta table                                  *)
(*   rows      the receipts in the ledger table, keyed by (bundle, version)*)
(*   effects   the migration bodies executed so far.  An effect carries    *)
(*             the versions of its bundle executed before it, so that a    *)
(*             body executed twice, or out of order, is visible            *)
(***************************************************************************)
EXTENDS MigrationPlan

CONSTANTS
    Proc,                \* the runner processes
    Installer,           \* applied_by of the receipts present at the start
    Bundle,              \* bundle ids
    Release,             \* program releases
    Declared,            \* Declared[r][b]: bundle b as release r declares it
    DIALECT,             \* the dialect of this backend shell
    InitialDatabases     \* the databases a deployment may find

VARIABLES tables, stamps, rows, effects

db == <<tables, stamps, rows, effects>>

Writer == Proc \cup {Installer}
Receipt == [bundle : Bundle, version : Version, checksum : Checksum, by : Writer]
Effect == [bundle : Bundle, version : Version, body : Body, by : Writer,
           after : SUBSET Version]

(* The receipt a body's execution must leave behind, and the other way.    *)
ReceiptOf(e) == [bundle |-> e.bundle, version |-> e.version,
                 checksum |-> <<e.version, e.body>>, by |-> e.by]

(* SELECT version, checksum FROM ledger WHERE bundle_id = b                *)
AppliedVersions(visible, b) == {row \in visible : row.bundle = b}

SqlFor(r, b, v) == Declared[r][b][v].sql[DIALECT]

(* Every receipt records exactly one execution of the body its checksum    *)
(* names, by the same process, and no body ran without its receipt.        *)
Matches(receipts, executed) ==
    /\ receipts = {ReceiptOf(e) : e \in executed}
    /\ \A e, f \in executed :
          e.bundle = f.bundle /\ e.version = f.version => e = f

(* A database a deployment can find: an earlier release, an operator or a  *)
(* later generation of the migrator left it, but its receipts are honest.  *)
IsDatabase(d) ==
    /\ d.tables \in SUBSET LedgerTables
    /\ d.stamps \in Seq(Nat)
    /\ d.rows \in SUBSET Receipt
    /\ d.effects \in SUBSET Effect
    /\ LedgerTable \notin d.tables => d.rows = {}
    /\ MetaTable \notin d.tables => d.stamps = <<>>
    /\ \A row \in d.rows : row.by = Installer
    /\ Matches(d.rows, d.effects)

InitDatabase ==
    \E d \in InitialDatabases :
        /\ tables = d.tables
        /\ stamps = d.stamps
        /\ rows = d.rows
        /\ effects = d.effects

DatabaseTypeOK ==
    /\ tables \in SUBSET LedgerTables
    /\ stamps \in Seq(Nat)
    /\ rows \in SUBSET Receipt
    /\ effects \in SUBSET Effect

ASSUME DatabaseAssumption ==
    /\ Installer \notin Proc
    /\ DIALECT \in Dialect
    /\ \A r \in Release, b \in Bundle : IsBundle(Declared[r][b])
    /\ \A d \in InitialDatabases : IsDatabase(d)
=============================================================================
