-------------------------- MODULE MigrationSession --------------------------
(***************************************************************************)
(* What the runner shells share: processes that make calls (run_bundles or *)
(* verify_bundles), one await at a time, each with at most one open        *)
(* transaction whose writes nobody else sees until it commits.             *)
(*                                                                         *)
(* The database engine is modelled by what the shells rely on: COMMIT      *)
(* publishes a transaction's writes in one step; a transaction that is     *)
(* dropped leaves nothing; a unique name or key held by an open            *)
(* transaction makes a second writer wait, and a committed one makes it    *)
(* fail.  Any statement may fail and a process may die at any await: both  *)
(* drop the transaction, and its rollback reaches the engine later.        *)
(***************************************************************************)
EXTENDS MigrationDatabase

CONSTANTS
    Calls,          \* the calls a process may make
    MaxCalls,       \* bound on the calls one process makes
    FaultsOn        \* whether statements may fail and processes die

Call == [kind : {"run", "verify"}, release : Release, bundles : Seq(Bundle)]

ASSUME SessionAssumption ==
    /\ Calls \subseteq Call
    /\ Calls # {}
    /\ MaxCalls \in Nat
    /\ FaultsOn \in BOOLEAN

VARIABLES
    pc,         \* the await each process is at; "idle" between calls
    call,       \* the current (or last) call
    at,         \* index in call.bundles of the bundle being processed
    pending,    \* versions of the plan not applied yet
    tx,         \* writes of the open transaction
    applied,    \* the Vec<AppliedMigration> under construction, or returned
    result,     \* outcome of the last call, "running" while it lasts
    calls       \* calls started so far

session == <<pc, call, at, pending, tx, applied, result, calls>>

NoWrites == [tables |-> {}, stamps |-> <<>>, rows |-> {}, effects |-> {}]

Current(p) == call[p].bundles[at[p]]
Bundled(p) == Declared[call[p].release][Current(p)]

InitSession ==
    /\ InitDatabase
    /\ pc = [p \in Proc |-> "idle"]
    /\ call = [p \in Proc |-> CHOOSE c \in Calls : TRUE]
    /\ at = [p \in Proc |-> 1]
    /\ pending = [p \in Proc |-> {}]
    /\ tx = [p \in Proc |-> NoWrites]
    /\ applied = [p \in Proc |-> {}]
    /\ result = [p \in Proc |-> "none"]
    /\ calls = [p \in Proc |-> 0]

-----------------------------------------------------------------------------
(* Moving between awaits.  A call that fails has returned its error while  *)
(* its transaction still waits to be rolled back ("unwind").               *)

Goto(p, await) ==
    /\ pc' = [pc EXCEPT ![p] = await]
    /\ result' = [result EXCEPT ![p] = "running"]

Return(p, outcome) ==
    /\ pc' = [pc EXCEPT ![p] = "idle"]
    /\ result' = [result EXCEPT ![p] = outcome]

Fail(p, error) ==
    /\ pc' = [pc EXCEPT ![p] = "unwind"]
    /\ result' = [result EXCEPT ![p] = error]
    /\ applied' = [applied EXCEPT ![p] = {}]

(* A check whose verdict lets the call go on, or ends it.                  *)
Check(p, verdict, await) ==
    \/ verdict = "ok" /\ Goto(p, await) /\ UNCHANGED applied
    \/ verdict # "ok" /\ Fail(p, verdict)

Repeats(bundles, i) == \E j \in 1..(i - 1) : bundles[j] = bundles[i]
HasDuplicates(bundles) == \E i \in DOMAIN bundles : Repeats(bundles, i)

(* COMMIT publishes the transaction's writes and ends it.                  *)
Publish(p) ==
    /\ tables' = tables \cup tx[p].tables
    /\ stamps' = stamps \o tx[p].stamps
    /\ rows' = rows \cup tx[p].rows
    /\ effects' = effects \cup tx[p].effects
    /\ tx' = [tx EXCEPT ![p] = NoWrites]

(* The commit took effect, but the connection or the process was lost      *)
(* before the caller could learn it.                                       *)
AcknowledgementLost(p) ==
    /\ FaultsOn
    /\ Return(p, "Backend")
    /\ applied' = [applied EXCEPT ![p] = {}]

-----------------------------------------------------------------------------
(* The statements the shells have in common.                               *)

CreateTable(p, table) ==
    /\ \A q \in Proc \ {p} : table \notin tx[q].tables
    /\ \/ /\ table \notin tables
          /\ tx' = [tx EXCEPT ![p].tables = @ \cup {table}]
          /\ UNCHANGED <<pc, applied, result>>
       \/ /\ table \in tables
          /\ Fail(p, "AlreadyExists")
          /\ UNCHANGED tx

(* The three create_statements, one await each.                            *)
CreateStatement(p) ==
    /\ pc[p] = "create"
    /\ \/ LedgerTable \notin tx[p].tables /\ CreateTable(p, LedgerTable)
       \/ /\ LedgerTable \in tx[p].tables /\ MetaTable \notin tx[p].tables
          /\ CreateTable(p, MetaTable)
       \/ /\ tx[p].tables = LedgerTables
          /\ tx' = [tx EXCEPT ![p].stamps = Append(@, LEDGER_VERSION)]
          /\ Goto(p, "stamp")
          /\ UNCHANGED applied
    /\ UNCHANGED <<db, call, at, pending, calls>>

(* applied_versions, then plan().                                          *)
ReadLedger(p) ==
    /\ pc[p] = "read_ledger"
    /\ LET recorded == AppliedVersions(rows \cup tx[p].rows, Current(p))
           verdict == PlanError(Bundled(p), recorded, DIALECT)
       IN  /\ Check(p, verdict, "apply")
           /\ pending' = [pending EXCEPT ![p] =
                             IF verdict = "ok" THEN Pending(Bundled(p), recorded) ELSE {}]
    /\ UNCHANGED <<db, call, at, tx, calls>>

Executed(p) ==
    {e.version : e \in {f \in effects \cup tx[p].effects : f.bundle = Current(p)}}

Execution(p, v) ==
    [bundle |-> Current(p), version |-> v,
     body |-> SqlFor(call[p].release, Current(p), v), by |-> p, after |-> Executed(p)]

(* Mutant of ApplyMigration: the body runs outside the transaction.        *)
ApplyOutsideTransaction(p) ==
    /\ pc[p] = "apply"
    /\ \E v \in Earliest(pending[p]) : effects' = effects \cup {Execution(p, v)}
    /\ Goto(p, "record")
    /\ UNCHANGED <<tables, stamps, rows, call, at, pending, tx, applied, calls>>

(* The body of the earliest pending migration runs.                        *)
ApplyMigration(p) ==
    /\ pc[p] = "apply"
    /\ \E v \in Earliest(pending[p]) :
          tx' = [tx EXCEPT ![p].effects = @ \cup {Execution(p, v)}]
    /\ Goto(p, "record")
    /\ UNCHANGED <<db, call, at, pending, applied, calls>>

SameKey(x, y) == x.bundle = y.bundle /\ x.version = y.version

NewReceipt(p, v) ==
    [bundle |-> Current(p), version |-> v,
     checksum |-> ChecksumFor(v, Bundled(p)[v], DIALECT), by |-> p]

(* Its receipt is inserted and reported as applied.                        *)
RecordReceipt(p) ==
    /\ pc[p] = "record"
    /\ \E v \in Earliest(pending[p]) :
          LET row == NewReceipt(p, v)
              taken == rows \cup tx[p].rows
          IN  /\ \A q \in Proc \ {p} : \A x \in tx[q].rows : ~ SameKey(x, row)
              /\ \/ /\ \A x \in taken : ~ SameKey(x, row)
                    /\ tx' = [tx EXCEPT ![p].rows = @ \cup {row}]
                    /\ pending' = [pending EXCEPT ![p] = @ \ {v}]
                    /\ applied' = [applied EXCEPT ![p] = @ \cup {row}]
                    /\ Goto(p, "apply")
                 \/ /\ \E x \in taken : SameKey(x, row)
                    /\ Fail(p, "DuplicateKey")
                    /\ UNCHANGED <<tx, pending>>
    /\ UNCHANGED <<db, call, at, calls>>

(* A statement fails, or the process dies, at any await of a call.         *)
BackendError(p) ==
    /\ FaultsOn
    /\ pc[p] \notin {"idle", "unwind"}
    /\ Fail(p, "Backend")
    /\ UNCHANGED <<db, call, at, pending, tx, calls>>

(* Mutant of Rollback: the connection is reused, its transaction open.     *)
ReuseOpenTransaction(p) ==
    /\ pc[p] = "unwind"
    /\ pc' = [pc EXCEPT ![p] = "idle"]
    /\ pending' = [pending EXCEPT ![p] = {}]
    /\ UNCHANGED <<db, call, at, tx, applied, result, calls>>

(* The dropped transaction is rolled back.                                 *)
Rollback(p) ==
    /\ pc[p] = "unwind"
    /\ pc' = [pc EXCEPT ![p] = "idle"]
    /\ tx' = [tx EXCEPT ![p] = NoWrites]
    /\ pending' = [pending EXCEPT ![p] = {}]
    /\ UNCHANGED <<db, call, at, applied, result, calls>>

(* Every process has made its calls.                                       *)
Quiescent ==
    /\ \A p \in Proc : pc[p] = "idle" /\ calls[p] = MaxCalls
    /\ UNCHANGED <<db, session>>

-----------------------------------------------------------------------------
(* Properties every shell must have.                                       *)

Outcome == {"none", "running", "ok", "Backend", "DuplicateBundle", "IncompleteLedger",
            "MissingLedger", "LedgerMetadataRowCount", "LedgerVersionMismatch",
            "UnknownAppliedVersion", "ChecksumMismatch", "PendingMigration",
            "AlreadyExists", "DuplicateKey"}

Writes == [tables : SUBSET LedgerTables, stamps : Seq(Nat),
           rows : SUBSET Receipt, effects : SUBSET Effect]

SessionTypeOK ==
    /\ DatabaseTypeOK
    /\ call \in [Proc -> Calls]
    /\ at \in [Proc -> Version]
    /\ pending \in [Proc -> SUBSET Version]
    /\ tx \in [Proc -> Writes]
    /\ applied \in [Proc -> SUBSET Receipt]
    /\ result \in [Proc -> Outcome]
    /\ calls \in [Proc -> 0..MaxCalls]
    /\ \A p \in Proc : pc[p] \in {"apply", "record"} => pending[p] \subseteq DOMAIN Bundled(p)

(* The ledger never lies about the schema: in every committed state each   *)
(* receipt stands for exactly one execution of the body its checksum       *)
(* names, and no body took effect without a receipt, whatever crashes,     *)
(* lost acknowledgements, retries and concurrent runners happened          *)
(* (run_bundle: body and receipt share one transaction).                   *)
LedgerMatchesSchema == Matches(rows, effects)

(* No check-then-apply race (P6): from the ledger read until the commit,   *)
(* what the process has applied and what it still plans to apply is        *)
(* exactly what the committed ledger says is pending, so no other process  *)
(* has changed this bundle's receipts under the plan.                      *)
PlanStaysFresh ==
    \A p \in Proc : pc[p] \in {"apply", "record"} =>
        Pending(Bundled(p), AppliedVersions(rows, Current(p)))
            = pending[p] \cup Recorded(tx[p].rows)

(* Concurrent startup is invisible to the callers: no run fails because    *)
(* another run created the ledger or recorded the same migration           *)
(* (acquire_applier_guard: "the others wait, then verify").                *)
NoRunnerConflict ==
    \A p \in Proc : result[p] \notin {"AlreadyExists", "DuplicateKey"}

AcceptedReceipt(r, b, v) ==
    \E row \in rows :
        /\ row.bundle = b
        /\ row.version = v
        /\ AcceptsChecksum(v, Declared[r][b][v], DIALECT, row.checksum)

(* A caller told "ok", by run_bundles or by verify_bundles, may rely on    *)
(* every migration its release declares being recorded with a checksum     *)
(* the release accepts, then and at any later time.                        *)
SuccessMeansComplete ==
    \A p \in Proc : result[p] = "ok" =>
        \A i \in DOMAIN call[p].bundles :
            LET r == call[p].release
                b == call[p].bundles[i]
            IN  \A v \in DOMAIN Declared[r][b] : AcceptedReceipt(r, b, v)

(* The runner implements the abstract ledger: atomic stamped bootstrap,    *)
(* whole bundles in declared order, fail closed on everything else         *)
(* (ensure_ledger and run_bundle, with their guards).                      *)
Ledger == INSTANCE MigrationLedger
ImplementsLedger == Ledger!Spec

(* Every call returns and its connection's transaction ends, so no failed, *)
(* crashed or finished run strands the guard others wait for ("released on *)
(* every exit path").                                                      *)
CallsReturn == \A p \in Proc : pc[p] # "idle" ~> pc[p] = "idle"

(* With one release and a database the release accepts, every run of every *)
(* concurrently starting process ends, and succeeds unless its own backend *)
(* failed it: neither another run nor the crash of one makes it fail.      *)
EveryStartSucceeds ==
    \A p \in Proc : pc[p] # "idle" ~> pc[p] = "idle" /\ result[p] \in {"ok", "Backend"}

(* Releases only append to a bundle: two releases that declare it agree on *)
(* the versions below any version either of them declares.                 *)
ReleasesAppend ==
    \A r, s \in Release, b \in Bundle :
        \A v \in DOMAIN Declared[r][b], u \in DOMAIN Declared[s][b] :
            u < v => u \in DOMAIN Declared[r][b]

(* A database is found as appending releases leave it: each body ran after *)
(* smaller versions only, and no version below a recorded one is missing.  *)
FoundInOrder ==
    \A d \in InitialDatabases :
        /\ \A e \in d.effects : \A u \in e.after : u < e.version
        /\ \A b \in Bundle, s \in Release :
              \A u \in Recorded(AppliedVersions(d.rows, b)), v \in DOMAIN Declared[s][b] :
                 v < u => v \in Recorded(AppliedVersions(d.rows, b))

(* While releases only append (docs/design/scoped-migration.md, best       *)
(* practice 1), no body of a bundle ever runs after one of a greater       *)
(* version, whoever runs it and whatever failed before: the plan is worked *)
(* through in order and a ledger ahead of the release is refused.          *)
AppliedInOrder == \A e \in effects : \A u \in e.after : u < e.version
=============================================================================
