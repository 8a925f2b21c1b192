---------------------------- MODULE SqliteRunner ----------------------------
(***************************************************************************)
(* The two SQLite runners, the sqlx one of awaken-scoped-migration and the *)
(* rusqlite one of awaken-scoped-migration-sqlite.  run_bundle is a single *)
(* BEGIN IMMEDIATE transaction: it takes the database's write lock before  *)
(* it probes the ledger, and bootstrap, plan and apply all commit with it. *)
(* verify_bundle (sqlx only) is one deferred read transaction: every read  *)
(* after the first sees the snapshot the first one took.                   *)
(*                                                                         *)
(* A second BEGIN IMMEDIATE waits for the write lock and fails when the    *)
(* busy timeout expires first.                                             *)
(***************************************************************************)
EXTENDS MigrationSession

CONSTANT NoProc             \* holder of a free write lock

ASSUME NoProcAssumption == NoProc \notin Proc

VARIABLES
    writer,                 \* holder of the database's write lock
    snapshot                \* what a verifying process's transaction sees

vars == <<db, session, writer, snapshot>>

NoSnapshot == [tables |-> {}, stamps |-> <<>>, rows |-> {}]

Init ==
    /\ InitSession
    /\ writer = NoProc
    /\ snapshot = [p \in Proc |-> NoSnapshot]

(* Mutant of FreeWriter: the write lock outlives its transaction.          *)
KeepWriter(p) == UNCHANGED writer

FreeWriter(p) == writer' = IF writer = p THEN NoProc ELSE writer

(* Mutant of Enter: the loop goes one past the last bundle.                *)
EnterPastEnd(p, c, i) ==
    /\ at' = [at EXCEPT ![p] = i]
    /\ \/ i > Len(c.bundles) + 1 /\ Return(p, "ok")
       \/ i <= Len(c.bundles) + 1 /\ c.kind = "run" /\ Goto(p, "begin")
       \/ i <= Len(c.bundles) + 1 /\ c.kind = "verify" /\ Goto(p, "verify_presence")

(* run_bundles and verify_bundles both reject a repeated id up front.      *)
Enter(p, c, i) ==
    /\ at' = [at EXCEPT ![p] = i]
    /\ \/ i > Len(c.bundles) /\ Return(p, "ok")
       \/ i <= Len(c.bundles) /\ c.kind = "run" /\ Goto(p, "begin")
       \/ i <= Len(c.bundles) /\ c.kind = "verify" /\ Goto(p, "verify_presence")

Start(p, c) ==
    /\ pc[p] = "idle"
    /\ calls[p] < MaxCalls
    /\ calls' = [calls EXCEPT ![p] = @ + 1]
    /\ call' = [call EXCEPT ![p] = c]
    /\ applied' = [applied EXCEPT ![p] = {}]
    /\ \/ HasDuplicates(c.bundles)
          /\ Return(p, "DuplicateBundle")
          /\ at' = [at EXCEPT ![p] = 1]
       \/ ~ HasDuplicates(c.bundles) /\ Enter(p, c, 1)
    /\ UNCHANGED <<db, pending, tx, writer, snapshot>>

-----------------------------------------------------------------------------
(* run_bundle.                                                             *)

(* Mutant of BeginImmediate: BEGIN DEFERRED takes no lock.                 *)
BeginDeferred(p) ==
    /\ pc[p] = "begin"
    /\ Goto(p, "probe")
    /\ UNCHANGED <<db, call, at, pending, tx, applied, calls, writer, snapshot>>

BeginImmediate(p) ==
    /\ pc[p] = "begin"
    /\ writer = NoProc
    /\ writer' = p
    /\ Goto(p, "probe")
    /\ UNCHANGED <<db, call, at, pending, tx, applied, calls, snapshot>>

BusyTimeout(p) ==
    /\ FaultsOn
    /\ pc[p] = "begin"
    /\ writer # NoProc
    /\ Return(p, "Backend")
    /\ applied' = [applied EXCEPT ![p] = {}]
    /\ UNCHANGED <<db, call, at, pending, tx, calls, writer, snapshot>>

ProbeLedger(p) ==
    /\ pc[p] = "probe"
    /\ LET action == BootstrapAction(tables \cup tx[p].tables)
       IN  \/ action = "Create" /\ Goto(p, "create") /\ UNCHANGED applied
           \/ action = "Validate" /\ Goto(p, "stamp") /\ UNCHANGED applied
           \/ action = "IncompleteLedger" /\ Fail(p, action)
    /\ UNCHANGED <<db, call, at, pending, tx, calls, writer, snapshot>>

AssertLedgerVersionIn(p) ==
    /\ pc[p] = "stamp"
    /\ Check(p, AssertLedgerVersion(stamps \o tx[p].stamps), "read_ledger")
    /\ UNCHANGED <<db, call, at, pending, tx, calls, writer, snapshot>>

ApplyPlan(p) ==
    /\ CreateStatement(p) \/ ReadLedger(p) \/ ApplyMigration(p) \/ RecordReceipt(p)
    /\ UNCHANGED <<writer, snapshot>>

CommitBundle(p) ==
    /\ pc[p] = "apply"
    /\ pending[p] = {}
    /\ Publish(p)
    /\ FreeWriter(p)
    /\ \/ Enter(p, call[p], at[p] + 1) /\ UNCHANGED applied
       \/ AcknowledgementLost(p) /\ UNCHANGED at
    /\ UNCHANGED <<call, pending, calls, snapshot>>

-----------------------------------------------------------------------------
(* verify_bundle.                                                          *)

VerifyPresenceIn(p) ==
    /\ pc[p] = "verify_presence"
    /\ snapshot' = [snapshot EXCEPT ![p] =
                       [tables |-> tables, stamps |-> stamps, rows |-> rows]]
    /\ Check(p, VerifyPresence(tables), "verify_version")
    /\ UNCHANGED <<db, call, at, pending, tx, calls, writer>>

VerifyVersion(p) ==
    /\ pc[p] = "verify_version"
    /\ Check(p, AssertLedgerVersion(snapshot[p].stamps), "verify_plan")
    /\ UNCHANGED <<db, call, at, pending, tx, calls, writer, snapshot>>

VerifyPlan(p) ==
    /\ pc[p] = "verify_plan"
    /\ LET recorded == AppliedVersions(snapshot[p].rows, Current(p))
           verdict == PlanError(Bundled(p), recorded, DIALECT)
           missing == Pending(Bundled(p), recorded)
       IN  \/ verdict # "ok" /\ Fail(p, verdict) /\ UNCHANGED at
           \/ verdict = "ok" /\ missing # {} /\ Fail(p, "PendingMigration") /\ UNCHANGED at
           \/ /\ verdict = "ok" /\ missing = {}
              /\ Enter(p, call[p], at[p] + 1)
              /\ UNCHANGED applied
    /\ snapshot' = [snapshot EXCEPT ![p] = NoSnapshot]
    /\ UNCHANGED <<db, call, pending, tx, calls, writer>>

-----------------------------------------------------------------------------
LoseBackend(p) == BackendError(p) /\ UNCHANGED <<writer, snapshot>>

Unwind(p) ==
    /\ Rollback(p)
    /\ FreeWriter(p)
    /\ snapshot' = [snapshot EXCEPT ![p] = NoSnapshot]

RunBundle(p) ==
    BeginImmediate(p) \/ ProbeLedger(p) \/ AssertLedgerVersionIn(p)
        \/ ApplyPlan(p) \/ CommitBundle(p)

VerifyBundle(p) == VerifyPresenceIn(p) \/ VerifyVersion(p) \/ VerifyPlan(p)

Step(p) == RunBundle(p) \/ VerifyBundle(p) \/ Unwind(p)

Next ==
    \/ \E p \in Proc : (\E c \in Calls : Start(p, c)) \/ Step(p)
                          \/ LoseBackend(p) \/ BusyTimeout(p)
    \/ Quiescent /\ UNCHANGED <<writer, snapshot>>

Spec == Init /\ [][Next]_vars

(* SQLite runs every statement it is given, and a waiting BEGIN is retried *)
(* by the busy handler.                                                    *)
FairSpec == Spec /\ \A p \in Proc : WF_vars(Step(p))

-----------------------------------------------------------------------------
Writing == {"probe", "create", "stamp", "read_ledger", "apply", "record"}
Verifying == {"verify_presence", "verify_version", "verify_plan"}
Await == {"idle", "unwind", "begin"} \cup Writing \cup Verifying

(* Type invariant: what each variable may hold, including that a process   *)
(* inside run_bundle or verify_bundle is at a bundle of its call.          *)
TypeOK ==
    /\ SessionTypeOK
    /\ pc \in [Proc -> Await]
    /\ writer \in Proc \cup {NoProc}
    /\ snapshot \in [Proc -> [tables : SUBSET LedgerTables, stamps : Seq(Nat),
                              rows : SUBSET Receipt]]
    /\ \A p \in Proc :
          pc[p] \notin {"idle", "unwind"} => at[p] <= Len(call[p].bundles)
=============================================================================
