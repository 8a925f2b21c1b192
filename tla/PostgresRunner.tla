--------------------------- MODULE PostgresRunner ---------------------------
(***************************************************************************)
(* PostgresMigrationRunner.  run_bundle uses three transactions in a row:  *)
(* one that bootstraps the ledger under a namespace lock, one that reads   *)
(* its stamp, and the apply transaction under the bundle's lock.  A        *)
(* statement reads what is committed when it starts plus the writes of its *)
(* own transaction (READ COMMITTED); an advisory transaction lock has one  *)
(* holder and is released when the transaction ends.                       *)
(***************************************************************************)
EXTENDS MigrationSession

CONSTANTS
    Key,            \* values of hashtext
    HashText,       \* HashText[name]: lock key of a bundle id or BootstrapName
    NoProc          \* holder of a free advisory lock

BootstrapName == "ledger-bootstrap-v1"

ASSUME RunnerAssumption ==
    /\ NoProc \notin Proc
    /\ HashText \in [Bundle \cup {BootstrapName} -> Key]

VARIABLE lock       \* holder of each advisory lock key

vars == <<db, session, lock>>

Init == InitSession /\ lock = [k \in Key |-> NoProc]

(* Mutant of Acquire: the lock is taken whoever holds it.                  *)
AcquireWithoutWaiting(p, name) == lock' = [lock EXCEPT ![HashText[name]] = p]

(* pg_advisory_xact_lock waits until the key is free.                      *)
Acquire(p, name) ==
    /\ lock[HashText[name]] = NoProc
    /\ lock' = [lock EXCEPT ![HashText[name]] = p]

(* Mutant of FreeLocks: a session lock outlives the transaction.           *)
KeepLocks(p) == UNCHANGED lock

(* The end of a transaction gives its locks back.                          *)
FreeLocks(p) == lock' = [k \in Key |-> IF lock[k] = p THEN NoProc ELSE lock[k]]

(* Mutant of Enter: the loop goes one past the last bundle.                *)
EnterPastEnd(p, c, i) ==
    /\ at' = [at EXCEPT ![p] = i]
    /\ \/ i > Len(c.bundles) + 1 /\ Return(p, "ok")
       \/ i <= Len(c.bundles) + 1 /\ c.kind = "run" /\ Goto(p, "bootstrap_lock")
       \/ i <= Len(c.bundles) + 1 /\ c.kind = "verify" /\ Goto(p, "verify_presence")

(* The loops of run_bundles and verify_bundles reach index i.  Only        *)
(* verify_bundles looks for a repeated id inside its loop.                 *)
Enter(p, c, i) ==
    /\ at' = [at EXCEPT ![p] = i]
    /\ \/ i > Len(c.bundles) /\ Return(p, "ok")
       \/ i <= Len(c.bundles) /\ c.kind = "run" /\ Goto(p, "bootstrap_lock")
       \/ /\ i <= Len(c.bundles) /\ c.kind = "verify"
          /\ \/ ~ Repeats(c.bundles, i) /\ Goto(p, "verify_presence")
             \/ Repeats(c.bundles, i) /\ Return(p, "DuplicateBundle")

(* run_bundles rejects a repeated id before it touches the database.       *)
Start(p, c) ==
    /\ pc[p] = "idle"
    /\ calls[p] < MaxCalls
    /\ calls' = [calls EXCEPT ![p] = @ + 1]
    /\ call' = [call EXCEPT ![p] = c]
    /\ applied' = [applied EXCEPT ![p] = {}]
    /\ \/ c.kind = "run" /\ HasDuplicates(c.bundles)
          /\ Return(p, "DuplicateBundle")
          /\ at' = [at EXCEPT ![p] = 1]
       \/ ~ (c.kind = "run" /\ HasDuplicates(c.bundles)) /\ Enter(p, c, 1)
    /\ UNCHANGED <<db, pending, tx, lock>>

-----------------------------------------------------------------------------
(* ensure_ledger: its own transaction under the bootstrap lock.            *)

(* Mutant of AcquireBootstrapLock: the bundle's lock guards the bootstrap. *)
BootstrapUnderBundleLock(p) ==
    /\ pc[p] = "bootstrap_lock"
    /\ Acquire(p, Current(p))
    /\ Goto(p, "probe")
    /\ UNCHANGED <<db, call, at, pending, tx, applied, calls>>

AcquireBootstrapLock(p) ==
    /\ pc[p] = "bootstrap_lock"
    /\ Acquire(p, BootstrapName)
    /\ Goto(p, "probe")
    /\ UNCHANGED <<db, call, at, pending, tx, applied, calls>>

ProbeLedger(p) ==
    /\ pc[p] = "probe"
    /\ LET action == BootstrapAction(tables \cup tx[p].tables)
       IN  \/ action = "Create" /\ Goto(p, "create") /\ UNCHANGED applied
           \/ action = "Validate" /\ Goto(p, "stamp") /\ UNCHANGED applied
           \/ action = "IncompleteLedger" /\ Fail(p, action)
    /\ UNCHANGED <<db, call, at, pending, tx, lock, calls>>

CreateLedger(p) == CreateStatement(p) /\ UNCHANGED lock

AssertLedgerVersionIn(p) ==
    /\ pc[p] = "stamp"
    /\ Check(p, AssertLedgerVersion(stamps \o tx[p].stamps), "bootstrap_commit")
    /\ UNCHANGED <<db, call, at, pending, tx, lock, calls>>

CommitBootstrap(p) ==
    /\ pc[p] = "bootstrap_commit"
    /\ Publish(p)
    /\ FreeLocks(p)
    /\ \/ Goto(p, "assert_version") /\ UNCHANGED applied
       \/ AcknowledgementLost(p)
    /\ UNCHANGED <<call, at, pending, calls>>

-----------------------------------------------------------------------------
(* run_bundle after ensure_ledger.                                         *)

AssertVersion(p) ==
    /\ pc[p] = "assert_version"
    /\ Check(p, AssertLedgerVersion(stamps), "applier_guard")
    /\ UNCHANGED <<db, call, at, pending, tx, lock, calls>>

AcquireApplierGuard(p) ==
    /\ pc[p] = "applier_guard"
    /\ Acquire(p, Current(p))
    /\ Goto(p, "read_ledger")
    /\ UNCHANGED <<db, call, at, pending, tx, applied, calls>>

ApplyPlan(p) ==
    /\ ReadLedger(p) \/ ApplyMigration(p) \/ RecordReceipt(p)
    /\ UNCHANGED lock

CommitBundle(p) ==
    /\ pc[p] = "apply"
    /\ pending[p] = {}
    /\ Publish(p)
    /\ FreeLocks(p)
    /\ \/ Enter(p, call[p], at[p] + 1) /\ UNCHANGED applied
       \/ AcknowledgementLost(p) /\ UNCHANGED at
    /\ UNCHANGED <<call, pending, calls>>

-----------------------------------------------------------------------------
(* verify_bundle: three reads, each of what is committed at that moment.   *)

AssertLedgerPresence(p) ==
    /\ pc[p] = "verify_presence"
    /\ Check(p, VerifyPresence(tables), "verify_version")
    /\ UNCHANGED <<db, call, at, pending, tx, lock, calls>>

VerifyVersion(p) ==
    /\ pc[p] = "verify_version"
    /\ Check(p, AssertLedgerVersion(stamps), "verify_plan")
    /\ UNCHANGED <<db, call, at, pending, tx, lock, calls>>

VerifyPlan(p) ==
    /\ pc[p] = "verify_plan"
    /\ LET recorded == AppliedVersions(rows, Current(p))
           verdict == PlanError(Bundled(p), recorded, DIALECT)
           missing == Pending(Bundled(p), recorded)
       IN  \/ verdict # "ok" /\ Fail(p, verdict) /\ UNCHANGED at
           \/ verdict = "ok" /\ missing # {} /\ Fail(p, "PendingMigration") /\ UNCHANGED at
           \/ /\ verdict = "ok" /\ missing = {}
              /\ Enter(p, call[p], at[p] + 1)
              /\ UNCHANGED applied
    /\ UNCHANGED <<db, call, pending, tx, lock, calls>>

-----------------------------------------------------------------------------
LoseBackend(p) == BackendError(p) /\ UNCHANGED lock

Unwind(p) == Rollback(p) /\ FreeLocks(p)

EnsureLedger(p) ==
    AcquireBootstrapLock(p) \/ ProbeLedger(p) \/ CreateLedger(p)
        \/ AssertLedgerVersionIn(p) \/ CommitBootstrap(p)

RunBundle(p) ==
    EnsureLedger(p) \/ AssertVersion(p) \/ AcquireApplierGuard(p)
        \/ ApplyPlan(p) \/ CommitBundle(p)

VerifyBundle(p) == AssertLedgerPresence(p) \/ VerifyVersion(p) \/ VerifyPlan(p)

Step(p) == RunBundle(p) \/ VerifyBundle(p) \/ Unwind(p)

Next ==
    \/ \E p \in Proc : (\E c \in Calls : Start(p, c)) \/ Step(p) \/ LoseBackend(p)
    \/ Quiescent /\ UNCHANGED lock

Spec == Init /\ [][Next]_vars

(* The server answers every statement and the executor polls every task; a *)
(* process need not start a call.                                          *)
FairSpec == Spec /\ \A p \in Proc : WF_vars(Step(p))

-----------------------------------------------------------------------------
Bootstrapping == {"probe", "create", "stamp", "bootstrap_commit"}
Applying == {"read_ledger", "apply", "record"}
Await == {"idle", "unwind", "bootstrap_lock", "assert_version", "applier_guard",
          "verify_presence", "verify_version", "verify_plan"}
            \cup Bootstrapping \cup Applying

(* Type invariant: what each variable may hold, including that a process   *)
(* inside run_bundle or verify_bundle is at a bundle of its call.          *)
TypeOK ==
    /\ SessionTypeOK
    /\ pc \in [Proc -> Await]
    /\ lock \in [Key -> Proc \cup {NoProc}]
    /\ \A p \in Proc :
          pc[p] \notin {"idle", "unwind"} => at[p] <= Len(call[p].bundles)
=============================================================================
