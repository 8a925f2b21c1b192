---------------------------- MODULE MigrationPlan ----------------------------
(***************************************************************************)
(* The pure decision core of awaken-scoped-migration: migrations, their    *)
(* recorded identity, the ledger bootstrap decision and plan().  Nothing   *)
(* here reads or changes a database; the runner modules supply what they   *)
(* have read and act on the answer.                                        *)
(*                                                                         *)
(* A SQL body is an element of Body, told apart from the others only by    *)
(* equality.  SHA-256(label || 0 || body) is the pair <<version, body>>:   *)
(* labels are injective in the version and the hash is taken as            *)
(* collision-free.  A bundle that MigrationBundle::new has accepted is a   *)
(* function from its finite set of versions to migrations, its strictly    *)
(* increasing list being that function in the order of its domain.         *)
(***************************************************************************)
EXTENDS Naturals, FiniteSets, Sequences

CONSTANT Body                  \* the SQL templates of the program's bundles

Dialect == {"postgres", "sqlite"}
Version == Nat \ {0}
Checksum == Version \X Body
Migration == [sql : [Dialect -> Body], aliases : [Dialect -> SUBSET Checksum]]

ChecksumFor(version, migration, dialect) == <<version, migration.sql[dialect]>>

(* Aliases of a published migration never repeat its canonical checksum.   *)
IsMigration(version, migration) ==
    /\ migration \in Migration
    /\ \A d \in Dialect :
          ChecksumFor(version, migration, d) \notin migration.aliases[d]

IsBundle(bundle) ==
    /\ DOMAIN bundle \in SUBSET Version
    /\ IsFiniteSet(DOMAIN bundle)
    /\ \A v \in DOMAIN bundle : IsMigration(v, bundle[v])

AcceptsChecksum(version, migration, dialect, recorded) ==
    \/ recorded = ChecksumFor(version, migration, dialect)
    \/ recorded \in migration.aliases[dialect]

-----------------------------------------------------------------------------
(* plan(): "applied" is the set of ledger rows of this bundle.             *)

Recorded(applied) == {row.version : row \in applied}

UnknownVersions(bundle, applied) == Recorded(applied) \ DOMAIN bundle

Drifted(bundle, applied, dialect) ==
    {row \in applied :
        /\ row.version \in DOMAIN bundle
        /\ ~ AcceptsChecksum(row.version, bundle[row.version], dialect, row.checksum)}

Pending(bundle, applied) == DOMAIN bundle \ Recorded(applied)

(* Mutant of PlanError: a drifted checksum is not reported.                *)
PlanIgnoringDrift(bundle, applied, dialect) ==
    IF UnknownVersions(bundle, applied) # {} THEN "UnknownAppliedVersion" ELSE "ok"

PlanError(bundle, applied, dialect) ==
    IF UnknownVersions(bundle, applied) # {} THEN "UnknownAppliedVersion"
    ELSE IF Drifted(bundle, applied, dialect) # {} THEN "ChecksumMismatch" ELSE "ok"

(* The runner applies what is pending in the declared order: the next one  *)
(* is the only element of this set.                                        *)
(* Mutant of Earliest: the plan is worked through from its end.            *)
Latest(versions) == {v \in versions : \A u \in versions : u <= v}

Earliest(versions) == {v \in versions : \A u \in versions : v <= u}

-----------------------------------------------------------------------------
(* The ledger's own bookkeeping: which of its two tables exist, and the    *)
(* rows of the meta table.                                                 *)

LedgerTable == "schema_migrations"
MetaTable == "schema_migrations_meta"
LedgerTables == {LedgerTable, MetaTable}
LEDGER_VERSION == 1

BootstrapAction(tables) ==
    IF tables = {} THEN "Create"
    ELSE IF tables = LedgerTables THEN "Validate" ELSE "IncompleteLedger"

VerifyPresence(tables) ==
    IF tables = LedgerTables THEN "ok"
    ELSE IF tables = {} THEN "MissingLedger" ELSE "IncompleteLedger"

CheckLedgerVersion(found) ==
    IF found = LEDGER_VERSION THEN "ok" ELSE "LedgerVersionMismatch"

(* Mutant of AssertLedgerVersion: any single stamp will do.                *)
AcceptAnyGeneration(stamps) == IF Len(stamps) # 1 THEN "LedgerMetadataRowCount" ELSE "ok"

(* The generation assertion over the rows read from the meta table.        *)
AssertLedgerVersion(stamps) ==
    IF Len(stamps) # 1 THEN "LedgerMetadataRowCount" ELSE CheckLedgerVersion(stamps[1])
=============================================================================
