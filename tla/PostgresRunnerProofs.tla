------------------------ MODULE PostgresRunnerProofs ------------------------
(***************************************************************************)
(* Theorems of PostgresRunner: its invariants, that it implements          *)
(* MigrationLedger, and that it keeps its promise to the callers it tells  *)
(* "ok".                                                                   *)
(***************************************************************************)
EXTENDS PostgresRunner, MigrationSessionProofs

(* Initial states are well typed.                                          *)
LEMMA InitTypeOK == Init => TypeOK
<1> SUFFICES ASSUME Init PROVE TypeOK
  OBVIOUS
<1>1. DatabaseTypeOK
  BY DatabaseAssumption DEF Init, InitSession, InitDatabase, IsDatabase, DatabaseTypeOK
<1>2. (CHOOSE c \in Calls : TRUE) \in Calls
  BY SessionAssumption
<1> QED
  BY <1>1, <1>2, NoWritesType, SessionAssumption
     DEF Init, InitSession, TypeOK, SessionTypeOK, Version, Outcome, Await

(* Where a step that handles no plan may lead.                             *)
Places == Await \ {"apply", "record"}

(* The type invariant after a step that leaves the plan alone.             *)
LEMMA ControlStep ==
    ASSUME TypeOK, NEW p \in Proc, NEW places \in SUBSET Places, Moves(p, places),
           pc[p] \notin {"idle", "unwind"} \/ places = {"idle"},
           UNCHANGED <<call, at, calls, pending>>,
           tx' \in [Proc -> Writes],
           UNCHANGED db \/ DatabaseTypeOK',
           lock' \in [Key -> Proc \cup {NoProc}]
    PROVE  TypeOK'
<1>1. pc' \in [Proc -> Await]
  BY DEF Moves, Places, TypeOK
<1>2. \A q \in Proc : pc'[q] \in {"apply", "record"} => pending'[q] \subseteq DOMAIN Bundled(q)'
  BY DEF Moves, Places, TypeOK, SessionTypeOK, Bundled, Current
<1>3. \A q \in Proc : pc'[q] \notin {"idle", "unwind"} => at'[q] <= Len(call'[q].bundles)
  BY DEF Moves, TypeOK
<1>4. DatabaseTypeOK'
  BY DEF TypeOK, SessionTypeOK, DatabaseTypeOK, db
<1>5. SessionTypeOK'
  BY <1>2, <1>4 DEF Moves, TypeOK, SessionTypeOK
<1> QED
  BY <1>1, <1>3, <1>5 DEF TypeOK

(* The type invariant after a step that enters the loop body, or ends it.  *)
LEMMA EnterStep ==
    ASSUME TypeOK, NEW p \in Proc, NEW c \in Calls, NEW i \in Version, Enter(p, c, i),
           call' = [call EXCEPT ![p] = c],
           applied' \in [Proc -> SUBSET Receipt],
           calls' \in [Proc -> 0..MaxCalls],
           tx' \in [Proc -> Writes],
           UNCHANGED pending,
           DatabaseTypeOK',
           lock' \in [Key -> Proc \cup {NoProc}]
    PROVE  TypeOK'
<1>1. /\ Moves(p, {"idle", "bootstrap_lock", "verify_presence"})
      /\ pc'[p] # "idle" => i <= Len(c.bundles)
      /\ at' = [at EXCEPT ![p] = i]
  BY DEF Enter, Moves, Goto, Return, TypeOK, SessionTypeOK, Outcome
<1>2. pc' \in [Proc -> Await]
  BY <1>1 DEF Moves, Await, TypeOK
<1>3. \A q \in Proc : pc'[q] \in {"apply", "record"} => pending'[q] \subseteq DOMAIN Bundled(q)'
  BY <1>1 DEF Moves, TypeOK, SessionTypeOK, Bundled, Current
<1>4. \A q \in Proc : pc'[q] \notin {"idle", "unwind"} => at'[q] <= Len(call'[q].bundles)
  BY <1>1 DEF Moves, TypeOK, SessionTypeOK
<1>5. SessionTypeOK'
  BY <1>1, <1>3 DEF Moves, TypeOK, SessionTypeOK
<1> QED
  BY <1>2, <1>4, <1>5 DEF TypeOK

(* Taking and giving back locks.                                           *)
LEMMA LockTypes ==
    ASSUME TypeOK, NEW p \in Proc
    PROVE  /\ \A name \in Bundle \cup {BootstrapName} :
                 Acquire(p, name) => lock' \in [Key -> Proc \cup {NoProc}]
           /\ FreeLocks(p) => lock' \in [Key -> Proc \cup {NoProc}]
           /\ UNCHANGED lock => lock' \in [Key -> Proc \cup {NoProc}]
BY DEF Acquire, FreeLocks, TypeOK

(* Inside a call the process is at one of its bundles.                     *)
LEMMA CurrentBundle ==
    ASSUME TypeOK, NEW p \in Proc, pc[p] \notin {"idle", "unwind"}
    PROVE  Current(p) \in Bundle /\ call[p].release \in Release
<1>1. call[p] \in Call /\ at[p] \in Version /\ at[p] <= Len(call[p].bundles)
  BY SessionAssumption DEF TypeOK, SessionTypeOK
<1>2. call[p].bundles \in Seq(Bundle) /\ at[p] \in 1..Len(call[p].bundles)
  BY <1>1 DEF Call, Version
<1> QED
  BY <1>1, <1>2 DEF Call, Current

(* The loop goes on to the next bundle of the same call.                   *)
LEMMA NextBundle ==
    ASSUME TypeOK, NEW p \in Proc, Enter(p, call[p], at[p] + 1),
           UNCHANGED <<call, calls, pending, applied>>,
           tx' \in [Proc -> Writes],
           UNCHANGED db \/ DatabaseTypeOK',
           lock' \in [Key -> Proc \cup {NoProc}]
    PROVE  TypeOK'
<1>1. call[p] \in Calls /\ at[p] + 1 \in Version
  BY DEF TypeOK, SessionTypeOK, Version
<1>2. call' = [call EXCEPT ![p] = call[p]]
  BY DEF TypeOK, SessionTypeOK
<1>3. applied' \in [Proc -> SUBSET Receipt] /\ calls' \in [Proc -> 0..MaxCalls]
  BY DEF TypeOK, SessionTypeOK
<1>4. DatabaseTypeOK'
  BY DEF TypeOK, SessionTypeOK, DatabaseTypeOK, db
<1> QED
  BY <1>1, <1>2, <1>3, <1>4, EnterStep

(* Starting a call keeps the types.                                        *)
LEMMA StartTypeOK ==
    ASSUME TypeOK, NEW p \in Proc, NEW c \in Calls, Start(p, c)
    PROVE  TypeOK'
<1>1. calls' \in [Proc -> 0..MaxCalls]
  BY SessionAssumption DEF Start, TypeOK, SessionTypeOK
<1>2. /\ applied' \in [Proc -> SUBSET Receipt]
      /\ DatabaseTypeOK' /\ tx' \in [Proc -> Writes] /\ UNCHANGED <<pending, lock>>
      /\ call' = [call EXCEPT ![p] = c]
  BY DEF Start, TypeOK, SessionTypeOK, DatabaseTypeOK, db
<1>3. CASE Enter(p, c, 1)
  <2>1. 1 \in Version
    BY DEF Version
  <2> QED
    BY <1>1, <1>2, <1>3, <2>1, EnterStep, LockTypes
<1>4. CASE Return(p, "DuplicateBundle") /\ at' = [at EXCEPT ![p] = 1]
  <2>1. Moves(p, {"idle"})
    BY <1>2, <1>4, ReturnMoves DEF TypeOK, Outcome
  <2>2. pc' \in [Proc -> Await]
    BY <2>1 DEF Moves, Await, TypeOK
  <2>3. \A q \in Proc :
           pc'[q] \in {"apply", "record"} => pending'[q] \subseteq DOMAIN Bundled(q)'
    BY <1>2, <1>4, <2>1 DEF Moves, TypeOK, SessionTypeOK, Bundled, Current
  <2>4. \A q \in Proc : pc'[q] \notin {"idle", "unwind"} => at'[q] <= Len(call'[q].bundles)
    BY <1>2, <1>4, <2>1 DEF Moves, TypeOK, SessionTypeOK
  <2>5. at' \in [Proc -> Version] /\ call' \in [Proc -> Calls]
          /\ pending' \in [Proc -> SUBSET Version]
    BY <1>2, <1>4 DEF TypeOK, SessionTypeOK, Version
  <2>6. SessionTypeOK'
    BY <1>1, <1>2, <2>1, <2>3, <2>5 DEF Moves, SessionTypeOK
  <2> QED
    BY <1>2, <2>2, <2>4, <2>6, LockTypes DEF TypeOK
<1> QED
  BY <1>3, <1>4 DEF Start

(* Steps of the session's own operators that handle a plan.                *)
LEMMA PlanStepTypeOK ==
    ASSUME TypeOK, NEW p \in Proc, ReadLedger(p) \/ ApplyMigration(p) \/ RecordReceipt(p),
           UNCHANGED lock
    PROVE  TypeOK'
<1>1. Current(p) \in Bundle /\ call[p].release \in Release
  BY CurrentBundle DEF ReadLedger, ApplyMigration, RecordReceipt
<1>2. /\ UNCHANGED <<db, call, at, calls>>
      /\ UNCHANGED <<tables, stamps, rows, effects>>
  BY DEF ReadLedger, ApplyMigration, RecordReceipt, db
<1>3. DatabaseTypeOK'
  BY <1>2 DEF TypeOK, SessionTypeOK, DatabaseTypeOK
<1>4. DOMAIN Bundled(p) \subseteq Version
  BY <1>1, DeclaredBundles DEF Bundled
<1>5. pc[p] \notin {"idle", "unwind"}
  BY DEF ReadLedger, ApplyMigration, RecordReceipt
<1>6. \A q \in Proc : Bundled(q)' = Bundled(q)
  BY <1>2 DEF Bundled, Current
<1>0. /\ pc \in [Proc -> Await] /\ pending \in [Proc -> SUBSET Version] /\ tx \in [Proc -> Writes]
      /\ \A q \in Proc : pc[q] \in {"apply", "record"} => pending[q] \subseteq DOMAIN Bundled(q)
  BY DEF TypeOK, SessionTypeOK
<1>7. /\ Moves(p, {"apply", "record", "unwind"})
      /\ pending' \in [Proc -> SUBSET Version]
      /\ tx' \in [Proc -> Writes]
      /\ \A q \in Proc : pc'[q] \in {"apply", "record"} => pending'[q] \subseteq DOMAIN Bundled(q)
  <2>1. CASE ReadLedger(p)
    <3>1. /\ Moves(p, {"apply", "unwind"})
          /\ \E planned \in SUBSET DOMAIN Bundled(p) :
                pending' = [pending EXCEPT ![p] = planned]
          /\ UNCHANGED tx
      BY <2>1, ReadLedgerType DEF TypeOK, ReadLedger
    <3> QED
      BY <1>0, <1>4, <3>1 DEF Moves
  <2>2. CASE ApplyMigration(p)
    <3>1. pc[p] = "apply" /\ Moves(p, {"record"}) /\ tx' \in [Proc -> Writes] /\ pending' = pending
      BY <1>1, <2>2, ApplyMigrationType DEF TypeOK, ApplyMigration
    <3> QED
      BY <1>0, <3>1 DEF Moves
  <2>3. CASE RecordReceipt(p)
    <3>1. /\ pc[p] = "record" /\ Moves(p, {"apply", "unwind"}) /\ tx' \in [Proc -> Writes]
          /\ \E planned \in SUBSET pending[p] : pending' = [pending EXCEPT ![p] = planned]
      BY <1>1, <2>3, RecordReceiptType DEF TypeOK, RecordReceipt
    <3> QED
      BY <1>0, <3>1 DEF Moves
  <2> QED
    BY <2>1, <2>2, <2>3
<1>8. pc' \in [Proc -> Await]
  BY <1>7 DEF Moves, TypeOK, Await, Applying
<1>9. \A q \in Proc : pc'[q] \notin {"idle", "unwind"} => at'[q] <= Len(call'[q].bundles)
  BY <1>2, <1>5, <1>7 DEF Moves, TypeOK
<1>10. SessionTypeOK'
  BY <1>2, <1>3, <1>6, <1>7 DEF Moves, TypeOK, SessionTypeOK
<1> QED
  BY <1>8, <1>9, <1>10 DEF TypeOK

(* So does each step of ensure_ledger.                                     *)
LEMMA EnsureLedgerTypeOK ==
    ASSUME TypeOK, NEW p \in Proc, EnsureLedger(p)
    PROVE  TypeOK'
<1> SessionTypeOK /\ tx \in [Proc -> Writes] /\ pc \in [Proc -> Await]
  BY DEF TypeOK, SessionTypeOK
<1> {"probe", "create", "stamp", "bootstrap_commit", "assert_version", "unwind", "idle"}
       \subseteq Places
  BY DEF Places, Await, Bootstrapping
<1>1. CASE AcquireBootstrapLock(p)
  <2>1. Moves(p, {"probe"})
    BY <1>1, GotoMoves DEF AcquireBootstrapLock
  <2> QED
    BY <1>1, <2>1, ControlStep, LockTypes DEF AcquireBootstrapLock
<1>2. CASE ProbeLedger(p)
  <2>1. Moves(p, {"create", "stamp", "unwind"})
    BY <1>2, GotoMoves, FailMoves DEF ProbeLedger, Moves, Outcome
  <2> QED
    BY <1>2, <2>1, ControlStep, LockTypes DEF ProbeLedger
<1>3. CASE CreateLedger(p)
  <2>1. Moves(p, {"create", "stamp", "unwind"}) /\ tx' \in [Proc -> Writes]
    BY <1>3, CreateStatementType DEF CreateLedger
  <2> QED
    BY <1>3, <2>1, ControlStep, LockTypes DEF CreateLedger, CreateStatement
<1>4. CASE AssertLedgerVersionIn(p)
  <2>1. Moves(p, {"bootstrap_commit", "unwind"})
    <3>1. AssertLedgerVersion(stamps \o tx[p].stamps) \in Outcome
      BY AssertLedgerVersionType DEF Outcome
    <3> QED
      BY <1>4, <3>1, CheckMoves DEF AssertLedgerVersionIn
  <2> QED
    BY <1>4, <2>1, ControlStep, LockTypes DEF AssertLedgerVersionIn
<1>5. CASE CommitBootstrap(p)
  <2>1. Moves(p, {"assert_version", "idle"})
    BY <1>5, GotoMoves, LostMoves DEF CommitBootstrap, Moves
  <2>2. DatabaseTypeOK' /\ tx' \in [Proc -> Writes]
    BY <1>5, PublishType DEF CommitBootstrap
  <2> QED
    BY <1>5, <2>1, <2>2, ControlStep, LockTypes DEF CommitBootstrap
<1> QED
  BY <1>1, <1>2, <1>3, <1>4, <1>5 DEF EnsureLedger

(* So does the rollback of a dropped transaction.                          *)
LEMMA UnwindTypeOK ==
    ASSUME TypeOK, NEW p \in Proc, Unwind(p)
    PROVE  TypeOK'
<1>1. /\ pc' = [pc EXCEPT ![p] = "idle"]
      /\ tx' = [tx EXCEPT ![p] = NoWrites]
      /\ pending' = [pending EXCEPT ![p] = {}]
      /\ UNCHANGED <<tables, stamps, rows, effects, call, at, applied, result, calls>>
  BY DEF Unwind, Rollback, db
<1>2. lock' \in [Key -> Proc \cup {NoProc}]
  BY LockTypes DEF Unwind
<1>3. \A q \in Proc : pc'[q] \in {"apply", "record"} => pending'[q] \subseteq DOMAIN Bundled(q)'
  BY <1>1 DEF TypeOK, SessionTypeOK, Bundled, Current
<1>4. SessionTypeOK'
  BY <1>1, <1>3, NoWritesType DEF TypeOK, SessionTypeOK, DatabaseTypeOK
<1> QED
  BY <1>1, <1>2, <1>4 DEF TypeOK, Await

(* So does each read of verify_bundle.                                     *)
LEMMA VerifyBundleTypeOK ==
    ASSUME TypeOK, NEW p \in Proc, VerifyBundle(p)
    PROVE  TypeOK'
<1> SessionTypeOK /\ tx \in [Proc -> Writes]
  BY DEF TypeOK, SessionTypeOK
<1> {"verify_version", "verify_plan", "unwind"} \subseteq Places
  BY DEF Places, Await
<1>1. CASE AssertLedgerPresence(p)
  <2>1. VerifyPresence(tables) \in Outcome
    BY DEF VerifyPresence, Outcome
  <2>2. Moves(p, {"verify_version", "unwind"})
    BY <1>1, <2>1, CheckMoves DEF AssertLedgerPresence
  <2> QED
    BY <1>1, <2>2, ControlStep, LockTypes DEF AssertLedgerPresence
<1>2. CASE VerifyVersion(p)
  <2>1. AssertLedgerVersion(stamps) \in Outcome
    BY AssertLedgerVersionType DEF Outcome
  <2>2. Moves(p, {"verify_plan", "unwind"})
    BY <1>2, <2>1, CheckMoves DEF VerifyVersion
  <2> QED
    BY <1>2, <2>2, ControlStep, LockTypes DEF VerifyVersion
<1>3. CASE VerifyPlan(p)
  <2> DEFINE recorded == AppliedVersions(rows, Current(p))
             verdict == PlanError(Bundled(p), recorded, DIALECT)
  <2>1. verdict \in Outcome /\ "PendingMigration" \in Outcome
    BY PlanErrorType DEF Outcome
  <2>2. \/ Fail(p, verdict) /\ UNCHANGED at
        \/ Fail(p, "PendingMigration") /\ UNCHANGED at
        \/ Enter(p, call[p], at[p] + 1) /\ UNCHANGED applied
    BY <1>3 DEF VerifyPlan
  <2>3. CASE (Fail(p, verdict) \/ Fail(p, "PendingMigration")) /\ UNCHANGED at
    <3>1. Moves(p, {"unwind"})
      BY <2>1, <2>3, FailMoves
    <3> QED
      BY <1>3, <2>3, <3>1, ControlStep, LockTypes DEF VerifyPlan
  <2>4. CASE Enter(p, call[p], at[p] + 1) /\ UNCHANGED applied
    BY <1>3, <2>4, NextBundle, LockTypes DEF VerifyPlan
  <2> QED
    BY <2>2, <2>3, <2>4
<1> QED
  BY <1>1, <1>2, <1>3 DEF VerifyBundle

(* Every step keeps the types.                                             *)
LEMMA StepTypeOK == TypeOK /\ [Next]_vars => TypeOK'
<1> SUFFICES ASSUME TypeOK, [Next]_vars PROVE TypeOK'
  OBVIOUS
<1> SessionTypeOK /\ tx \in [Proc -> Writes]
  BY DEF TypeOK, SessionTypeOK
<1> {"applier_guard", "read_ledger", "idle", "unwind"} \subseteq Places
  BY DEF Places, Await, Applying
<1>1. CASE UNCHANGED vars
  BY <1>1 DEF vars, db, session, TypeOK, SessionTypeOK, DatabaseTypeOK, Bundled, Current
<1>2. ASSUME NEW p \in Proc, NEW c \in Calls, Start(p, c) PROVE TypeOK'
  BY <1>2, StartTypeOK
<1>3. ASSUME NEW p \in Proc, EnsureLedger(p) PROVE TypeOK'
  BY <1>3, EnsureLedgerTypeOK
<1>4. ASSUME NEW p \in Proc, AssertVersion(p) PROVE TypeOK'
  <2>1. AssertLedgerVersion(stamps) \in Outcome
    BY AssertLedgerVersionType DEF Outcome
  <2>2. Moves(p, {"applier_guard", "unwind"})
    BY <1>4, <2>1, CheckMoves DEF AssertVersion
  <2> QED
    BY <1>4, <2>2, ControlStep, LockTypes DEF AssertVersion
<1>5. ASSUME NEW p \in Proc, AcquireApplierGuard(p) PROVE TypeOK'
  <2>1. Moves(p, {"read_ledger"})
    BY <1>5, GotoMoves DEF AcquireApplierGuard
  <2>2. Current(p) \in Bundle
    BY <1>5, CurrentBundle DEF AcquireApplierGuard
  <2> QED
    BY <1>5, <2>1, <2>2, ControlStep, LockTypes DEF AcquireApplierGuard
<1>6. ASSUME NEW p \in Proc, ApplyPlan(p) PROVE TypeOK'
  BY <1>6, PlanStepTypeOK DEF ApplyPlan
<1>7. ASSUME NEW p \in Proc, CommitBundle(p) PROVE TypeOK'
  <2>1. DatabaseTypeOK' /\ tx' \in [Proc -> Writes]
    BY <1>7, PublishType DEF CommitBundle
  <2>2. CASE Enter(p, call[p], at[p] + 1) /\ UNCHANGED applied
    BY <1>7, <2>1, <2>2, NextBundle, LockTypes DEF CommitBundle
  <2>3. CASE AcknowledgementLost(p) /\ UNCHANGED at
    <3>1. Moves(p, {"idle"})
      BY <2>3, LostMoves
    <3> QED
      BY <1>7, <2>1, <2>3, <3>1, ControlStep, LockTypes DEF CommitBundle
  <2> QED
    BY <1>7, <2>2, <2>3 DEF CommitBundle
<1>8. ASSUME NEW p \in Proc, VerifyBundle(p) PROVE TypeOK'
  BY <1>8, VerifyBundleTypeOK
<1>9. ASSUME NEW p \in Proc, Unwind(p) PROVE TypeOK'
  BY <1>9, UnwindTypeOK
<1>10. ASSUME NEW p \in Proc, LoseBackend(p) PROVE TypeOK'
  <2>1. Moves(p, {"unwind"})
    BY <1>10, FailMoves DEF LoseBackend, BackendError, Outcome
  <2> QED
    BY <1>10, <2>1, ControlStep, LockTypes DEF LoseBackend, BackendError
<1> QED
  BY <1>1, <1>2, <1>3, <1>4, <1>5, <1>6, <1>7, <1>8, <1>9, <1>10
     DEF Next, Step, RunBundle, Quiescent, vars

(* Every reachable state is well typed: in particular a process inside     *)
(* run_bundle or verify_bundle is at a bundle of its call, and its plan    *)
(* holds only versions its release declares.                               *)
THEOREM TypeCorrect == Spec => []TypeOK
BY InitTypeOK, StepTypeOK, PTL DEF Spec

-----------------------------------------------------------------------------
(* The inductive invariant behind the ledger's safety properties.          *)

(* Inside a transaction that took a lock, the process holds it.            *)
HoldsLock(p) ==
    /\ pc[p] \in Bootstrapping => lock[HashText[BootstrapName]] = p
    /\ pc[p] \in Applying => lock[HashText[Current(p)]] = p

(* Whoever is creating the ledger does so on a database without one.       *)
CreatesOnEmpty(p) ==
    /\ pc[p] = "create" => tables = {}
    /\ pc[p] \in Bootstrapping /\ tx[p].tables # {} => tables = {}
    /\ pc[p] \notin Bootstrapping \cup {"unwind"} => tx[p].tables = {}

Inv ==
    /\ TypeOK
    /\ LedgerInv
    /\ \A p \in Proc : HoldsLock(p) /\ CreatesOnEmpty(p)
    /\ NoRunnerConflict

(* The inductive invariant holds initially: nobody holds a lock or writes. *)
LEMMA InitInv == Init => Inv
<1> SUFFICES ASSUME Init PROVE Inv
  OBVIOUS
<1>1. LedgerMatchesSchema
  BY DatabaseAssumption DEF Init, InitSession, InitDatabase, IsDatabase, LedgerMatchesSchema
<1>2. \A p \in Proc : PlanSound(p) /\ HoldsLock(p) /\ CreatesOnEmpty(p)
  BY DEF Init, InitSession, PlanSound, Planning, HoldsLock, CreatesOnEmpty, NoWrites,
         Bootstrapping, Applying
<1>3. NoRunnerConflict
  BY DEF Init, InitSession, NoRunnerConflict
<1> QED
  BY <1>1, <1>2, <1>3, InitTypeOK DEF Inv, LedgerInv

(* Two processes are never inside the bootstrap, nor inside the apply      *)
(* transaction of one bundle, together.                                    *)
LEMMA Exclusion ==
    ASSUME Inv, NEW p \in Proc, NEW q \in Proc \ {p}
    PROVE  /\ ~ (pc[p] \in Bootstrapping /\ pc[q] \in Bootstrapping)
           /\ pc[p] \in Applying /\ pc[q] \in Applying => Current(q) # Current(p)
BY DEF Inv, HoldsLock

StillOutside(p) == \A q \in Proc \ {p} : Still(q) /\ result'[q] = result[q]

(* What p does to the locks takes nobody else's away.                      *)
LEMMA OthersKeepLocks ==
    ASSUME Inv, NEW p \in Proc, StillOutside(p),
           \/ UNCHANGED lock
           \/ FreeLocks(p)
           \/ \E name \in Bundle \cup {BootstrapName} : Acquire(p, name)
    PROVE  \A q \in Proc \ {p} : HoldsLock(q)'
<1> SUFFICES ASSUME NEW q \in Proc \ {p} PROVE HoldsLock(q)'
  OBVIOUS
<1>1. HoldsLock(q) /\ pc'[q] = pc[q] /\ Current(q)' = Current(q)
  BY DEF Inv, StillOutside, Still, Current
<1>2. ASSUME NEW k, lock[k] = q, k \in Key PROVE lock'[k] = q
  BY <1>2, RunnerAssumption DEF FreeLocks, Acquire, Inv, TypeOK
<1>3. HashText[BootstrapName] \in Key
  BY RunnerAssumption
<1>4. pc[q] \in Applying => HashText[Current(q)] \in Key
  BY RunnerAssumption, CurrentBundle DEF Inv, Applying
<1> QED
  BY <1>1, <1>2, <1>3, <1>4 DEF HoldsLock

(* A step that neither publishes nor handles a plan.                       *)
LEMMA QuietStep ==
    ASSUME Inv, TypeOK', NEW p \in Proc, StillOutside(p),
           UNCHANGED <<tables, rows, effects>>,
           \/ UNCHANGED lock
           \/ FreeLocks(p)
           \/ \E name \in Bundle \cup {BootstrapName} : Acquire(p, name),
           ~ Planning(p)',
           pc'[p] = "unwind" \/ (tx'[p].rows = {} /\ tx'[p].effects = {}),
           result'[p] \notin {"AlreadyExists", "DuplicateKey"},
           HoldsLock(p)', CreatesOnEmpty(p)'
    PROVE  Inv'
<1>1. LedgerInv'
  BY LedgerInvFrame DEF Inv, StillOutside
<1>2. \A q \in Proc : HoldsLock(q)'
  BY OthersKeepLocks
<1>3. \A q \in Proc : CreatesOnEmpty(q)'
  BY DEF Inv, CreatesOnEmpty, StillOutside, Still
<1>4. NoRunnerConflict'
  BY DEF Inv, NoRunnerConflict, StillOutside
<1> QED
  BY <1>1, <1>2, <1>3, <1>4 DEF Inv

(* Starting a call preserves it.                                           *)
LEMMA StartInv ==
    ASSUME Inv, TypeOK', NEW p \in Proc, NEW c \in Calls, Start(p, c)
    PROVE  Inv'
<1>1. /\ pc[p] = "idle" /\ UNCHANGED <<tables, rows, effects, pending, tx, lock>>
      /\ tx[p].rows = {} /\ tx[p].effects = {} /\ tx[p].tables = {}
  BY DEF Start, db, Inv, LedgerInv, PlanSound, CreatesOnEmpty, Bootstrapping
<1>2. /\ pc'[p] \in {"idle", "bootstrap_lock", "verify_presence"}
      /\ result'[p] \in {"ok", "running", "DuplicateBundle"}
      /\ StillOutside(p)
  BY DEF Start, Enter, Return, Goto, StillOutside, Still, Inv, TypeOK, SessionTypeOK
<1>3. HoldsLock(p)' /\ CreatesOnEmpty(p)' /\ ~ Planning(p)'
  BY <1>1, <1>2 DEF HoldsLock, CreatesOnEmpty, Planning, Bootstrapping, Applying
<1> QED
  BY <1>1, <1>2, <1>3, QuietStep

(* Each step of ensure_ledger preserves it: the holder of the bootstrap    *)
(* lock is alone between its probe and its commit.                         *)
LEMMA EnsureLedgerInv ==
    ASSUME Inv, TypeOK', NEW p \in Proc, EnsureLedger(p)
    PROVE  Inv'
<1>1. /\ pc \in [Proc -> Await] /\ tx \in [Proc -> Writes] /\ result \in [Proc -> Outcome]
      /\ tx[p] \in Writes
  BY DEF Inv, TypeOK, SessionTypeOK
<1>2. pc[p] \in {"bootstrap_lock", "probe", "create", "stamp", "bootstrap_commit"}
        => tx[p].rows = {} /\ tx[p].effects = {}
  BY DEF Inv, LedgerInv, PlanSound
<1>3. HoldsLock(p) /\ CreatesOnEmpty(p)
  BY DEF Inv
<1>4. CASE AcquireBootstrapLock(p)
  <2>1. /\ pc[p] = "bootstrap_lock" /\ pc'[p] = "probe" /\ result'[p] = "running"
        /\ UNCHANGED <<tables, rows, effects, tx>>
        /\ StillOutside(p)
    BY <1>1, <1>4 DEF AcquireBootstrapLock, Goto, db, StillOutside, Still
  <2>2. lock'[HashText[BootstrapName]] = p
    BY <1>4, RunnerAssumption DEF AcquireBootstrapLock, Acquire, Inv, TypeOK
  <2>3. HoldsLock(p)' /\ CreatesOnEmpty(p)' /\ ~ Planning(p)'
    BY <1>3, <2>1, <2>2 DEF HoldsLock, CreatesOnEmpty, Planning, Bootstrapping, Applying
  <2> QED
    BY <1>2, <1>4, <2>1, <2>3, QuietStep DEF AcquireBootstrapLock
<1>5. CASE ProbeLedger(p)
  <2>1. /\ pc[p] = "probe" /\ pc'[p] \in {"create", "stamp", "unwind"}
        /\ pc'[p] = "create" => tables \cup tx[p].tables = {}
        /\ result'[p] \in {"running", "IncompleteLedger"}
        /\ UNCHANGED <<tables, rows, effects, tx, lock>>
        /\ StillOutside(p)
    BY <1>1, <1>5 DEF ProbeLedger, BootstrapAction, Goto, Fail, db, StillOutside, Still
  <2>2. HoldsLock(p)' /\ CreatesOnEmpty(p)' /\ ~ Planning(p)'
    BY <1>3, <2>1 DEF HoldsLock, CreatesOnEmpty, Planning, Bootstrapping, Applying
  <2> QED
    BY <1>2, <2>1, <2>2, QuietStep
<1>6. CASE CreateLedger(p)
  <2>1. pc[p] = "create" /\ tables = {} /\ UNCHANGED <<tables, rows, effects, call, at, pending, lock>>
    BY <1>3, <1>6 DEF CreateLedger, CreateStatement, CreatesOnEmpty, db
  <2>2. \/ /\ \E t \in LedgerTables : tx' = [tx EXCEPT ![p].tables = @ \cup {t}]
           /\ UNCHANGED <<pc, result>>
        \/ /\ tx' = [tx EXCEPT ![p].stamps = Append(@, LEDGER_VERSION)]
           /\ Goto(p, "stamp")
    BY <1>6, <2>1 DEF CreateLedger, CreateStatement, CreateTable, LedgerTables
  <2>3. /\ pc'[p] \in {"create", "stamp"} /\ result'[p] \in {"running", result[p]}
        /\ tx'[p].rows = tx[p].rows /\ tx'[p].effects = tx[p].effects
        /\ StillOutside(p)
    BY <1>1, <2>1, <2>2 DEF Goto, StillOutside, Still, Writes
  <2>4. HoldsLock(p)' /\ CreatesOnEmpty(p)' /\ ~ Planning(p)'
    BY <1>3, <2>1, <2>3 DEF HoldsLock, CreatesOnEmpty, Planning, Bootstrapping, Applying
  <2>5. result'[p] \notin {"AlreadyExists", "DuplicateKey"}
    BY <2>3 DEF Inv, NoRunnerConflict
  <2> QED
    BY <1>2, <2>1, <2>3, <2>4, <2>5, QuietStep
<1>7. CASE AssertLedgerVersionIn(p)
  <2>1. /\ pc[p] = "stamp" /\ pc'[p] \in {"bootstrap_commit", "unwind"}
        /\ result'[p] \in {"running", "LedgerMetadataRowCount", "LedgerVersionMismatch"}
        /\ UNCHANGED <<tables, rows, effects, tx, lock>>
        /\ StillOutside(p)
    BY <1>1, <1>7, AssertLedgerVersionType
       DEF AssertLedgerVersionIn, Check, Goto, Fail, db, StillOutside, Still
  <2>2. HoldsLock(p)' /\ CreatesOnEmpty(p)' /\ ~ Planning(p)'
    BY <1>3, <2>1 DEF HoldsLock, CreatesOnEmpty, Planning, Bootstrapping, Applying
  <2> QED
    BY <1>2, <2>1, <2>2, QuietStep
<1>8. CASE CommitBootstrap(p)
  <2>1. /\ pc[p] = "bootstrap_commit" /\ pc'[p] \in {"assert_version", "idle"}
        /\ result'[p] \in {"running", "Backend"}
        /\ FreeLocks(p)
        /\ tx' = [tx EXCEPT ![p] = NoWrites]
        /\ rows' = rows \cup tx[p].rows /\ effects' = effects \cup tx[p].effects
        /\ StillOutside(p)
    BY <1>1, <1>8
       DEF CommitBootstrap, Publish, AcknowledgementLost, Goto, Return, StillOutside, Still
  <2>2. UNCHANGED <<rows, effects>> /\ tx'[p] = NoWrites
    BY <1>1, <1>2, <2>1
  <2>3. LedgerInv'
    BY <2>1, <2>2, LedgerInvFrame DEF Inv, StillOutside, Planning, NoWrites
  <2>4. \A q \in Proc : HoldsLock(q)'
    <3>1. HoldsLock(p)'
      BY <2>1 DEF HoldsLock, Bootstrapping, Applying
    <3> QED
      BY <2>1, <3>1, OthersKeepLocks
  <2>5. \A q \in Proc : CreatesOnEmpty(q)'
    <3>1. CreatesOnEmpty(p)'
      BY <2>1, <2>2 DEF CreatesOnEmpty, Bootstrapping, NoWrites
    <3>2. ASSUME NEW q \in Proc \ {p} PROVE CreatesOnEmpty(q)'
      <4>1. pc[q] \notin Bootstrapping
        BY <2>1, Exclusion DEF Bootstrapping
      <4> QED
        BY <2>1, <4>1 DEF Inv, CreatesOnEmpty, StillOutside, Still, Bootstrapping
    <3> QED
      BY <3>1, <3>2
  <2>6. NoRunnerConflict'
    BY <2>1 DEF Inv, NoRunnerConflict, StillOutside
  <2> QED
    BY <2>3, <2>4, <2>5, <2>6 DEF Inv
<1> QED
  BY <1>4, <1>5, <1>6, <1>7, <1>8 DEF EnsureLedger

(* Reading, applying and recording preserve it: only the holder of the     *)
(* bundle's lock touches that bundle's receipts.                           *)
LEMMA ApplyPlanInv ==
    ASSUME Inv, TypeOK', NEW p \in Proc, ApplyPlan(p)
    PROVE  Inv'
<1>1. /\ pc \in [Proc -> Await] /\ tx \in [Proc -> Writes] /\ result \in [Proc -> Outcome]
      /\ tx[p] \in Writes /\ pending \in [Proc -> SUBSET Version] /\ SessionTypeOK /\ LedgerInv
      /\ TypeOK
  BY DEF Inv, TypeOK, SessionTypeOK
<1>2. pc[p] \in {"read_ledger", "apply", "record"}
        /\ UNCHANGED <<tables, call, at, lock>>
  BY DEF ApplyPlan, ReadLedger, ApplyMigration, RecordReceipt, db
<1>3. Current(p) \in Bundle /\ call[p].release \in Release /\ Current(p)' = Current(p)
  BY <1>1, <1>2, CurrentBundle DEF Current
<1>4. HoldsLock(p) /\ CreatesOnEmpty(p)
  BY DEF Inv
<1>5. /\ LedgerInv'
      /\ pc'[p] \in {"apply", "record", "unwind"}
      /\ result'[p] \notin {"AlreadyExists", "DuplicateKey"}
      /\ tx'[p].tables = tx[p].tables
      /\ StillOutside(p)
  <2>1. CASE ReadLedger(p)
    <3>1. LedgerInv'
      BY <1>1, <2>1, ReadLedgerInv
    <3>2. /\ pc'[p] \in {"apply", "unwind"}
          /\ result'[p] \in {"running", "UnknownAppliedVersion", "ChecksumMismatch"}
          /\ UNCHANGED tx
      BY <1>1, <2>1, PlanErrorType DEF ReadLedger, Check, Goto, Fail
    <3>3. StillOutside(p)
      BY <1>1, <1>2, <2>1 DEF ReadLedger, Check, Goto, Fail, StillOutside, Still
    <3> QED
      BY <3>1, <3>2, <3>3
  <2>2. CASE ApplyMigration(p)
    <3>1. LedgerInv'
      BY <1>1, <1>3, <2>2, ApplyMigrationInv
    <3>2. PICK v \in Earliest(pending[p]) :
             /\ tx' = [tx EXCEPT ![p].effects = @ \cup {Execution(p, v)}]
             /\ Goto(p, "record")
             /\ UNCHANGED pending
      BY <2>2 DEF ApplyMigration
    <3> QED
      BY <1>1, <1>2, <3>1, <3>2 DEF Goto, Writes, StillOutside, Still
  <2>3. CASE RecordReceipt(p)
    <3>1. LedgerInv' /\ Goto(p, "apply")
      BY <1>1, <1>3, <2>3, RecordReceiptInv
    <3>2. \E v \in Earliest(pending[p]) :
             \/ /\ tx' = [tx EXCEPT ![p].rows = @ \cup {NewReceipt(p, v)}]
                /\ pending' = [pending EXCEPT ![p] = @ \ {v}]
             \/ UNCHANGED <<tx, pending>>
      BY <2>3 DEF RecordReceipt
    <3> QED
      BY <1>1, <1>2, <3>1, <3>2 DEF Goto, Writes, StillOutside, Still
  <2> QED
    BY <2>1, <2>2, <2>3 DEF ApplyPlan
<1>6. HoldsLock(p)' /\ CreatesOnEmpty(p)'
  BY <1>2, <1>3, <1>4, <1>5 DEF HoldsLock, CreatesOnEmpty, Bootstrapping, Applying
<1>7. ASSUME NEW q \in Proc \ {p} PROVE HoldsLock(q)' /\ CreatesOnEmpty(q)'
  <2>1. HoldsLock(q)'
    BY <1>2, <1>5, OthersKeepLocks
  <2>2. CreatesOnEmpty(q)'
    BY <1>2, <1>5 DEF Inv, CreatesOnEmpty, StillOutside, Still
  <2> QED
    BY <2>1, <2>2
<1>8. NoRunnerConflict'
  BY <1>5 DEF Inv, NoRunnerConflict, StillOutside
<1> QED
  BY <1>5, <1>6, <1>7, <1>8 DEF Inv

(* The commit of run_bundle preserves it.                                  *)
LEMMA CommitBundleInv ==
    ASSUME Inv, TypeOK', NEW p \in Proc, CommitBundle(p)
    PROVE  Inv'
<1>1. /\ pc \in [Proc -> Await] /\ tx \in [Proc -> Writes] /\ result \in [Proc -> Outcome]
      /\ call \in [Proc -> Calls] /\ at \in [Proc -> Version]
  BY DEF Inv, TypeOK, SessionTypeOK
<1>2. /\ pc[p] = "apply" /\ Publish(p) /\ FreeLocks(p) /\ UNCHANGED <<call, pending>>
      /\ \/ Enter(p, call[p], at[p] + 1)
         \/ AcknowledgementLost(p) /\ UNCHANGED at
  BY DEF CommitBundle
<1>3. /\ pc'[p] \in {"idle", "bootstrap_lock", "verify_presence"}
      /\ result'[p] \in {"ok", "running", "DuplicateBundle", "Backend"}
      /\ tx'[p] = NoWrites
  BY <1>1, <1>2 DEF Enter, AcknowledgementLost, Goto, Return, Publish
<1>4. StillOutside(p)
  BY <1>1, <1>2 DEF Enter, AcknowledgementLost, Goto, Return, Publish, StillOutside, Still
<1>5. LedgerInv'
  <2>1. \A q \in Proc \ {p} : Planning(q) => Current(q) # Current(p)
    BY <1>2, Exclusion DEF Planning, Applying
  <2>2. ~ Planning(p)' /\ \A q \in Proc \ {p} : Still(q)
    BY <1>3, <1>4 DEF Planning, StillOutside
  <2> QED
    BY <1>2, <1>3, <2>1, <2>2, CommitInv DEF Inv, TypeOK
<1>6. UNCHANGED tables
  BY <1>2 DEF Inv, CreatesOnEmpty, Bootstrapping, Publish
<1>7. \A q \in Proc : HoldsLock(q)'
  <2>1. HoldsLock(p)'
    BY <1>3 DEF HoldsLock, Bootstrapping, Applying
  <2> QED
    BY <1>2, <1>4, <2>1, OthersKeepLocks
<1>8. \A q \in Proc : CreatesOnEmpty(q)'
  BY <1>3, <1>4, <1>6 DEF Inv, CreatesOnEmpty, StillOutside, Still, NoWrites, Bootstrapping
<1>9. NoRunnerConflict'
  BY <1>3, <1>4 DEF Inv, NoRunnerConflict, StillOutside
<1> QED
  BY <1>5, <1>7, <1>8, <1>9 DEF Inv

(* verify_bundle writes nothing and preserves it.                          *)
LEMMA VerifyBundleInv ==
    ASSUME Inv, TypeOK', NEW p \in Proc, VerifyBundle(p)
    PROVE  Inv'
<1>1. /\ pc \in [Proc -> Await] /\ result \in [Proc -> Outcome]
      /\ call \in [Proc -> Calls] /\ at \in [Proc -> Version]
  BY DEF Inv, TypeOK, SessionTypeOK
<1>2. /\ pc[p] \in {"verify_presence", "verify_version", "verify_plan"}
      /\ UNCHANGED <<tables, rows, effects, tx, pending, call, lock>>
  BY DEF VerifyBundle, AssertLedgerPresence, VerifyVersion, VerifyPlan, db
<1>3. tx[p].rows = {} /\ tx[p].effects = {} /\ tx[p].tables = {}
  BY <1>2 DEF Inv, LedgerInv, PlanSound, CreatesOnEmpty, Bootstrapping
<1>4. /\ pc'[p] \in {"verify_version", "verify_plan", "unwind", "idle",
                     "bootstrap_lock", "verify_presence"}
      /\ result'[p] \notin {"AlreadyExists", "DuplicateKey"}
      /\ StillOutside(p)
  <2>1. CASE AssertLedgerPresence(p)
    BY <1>1, <1>2, <2>1
       DEF AssertLedgerPresence, VerifyPresence, Check, Goto, Fail, StillOutside, Still
  <2>2. CASE VerifyVersion(p)
    BY <1>1, <1>2, <2>2, AssertLedgerVersionType
       DEF VerifyVersion, Check, Goto, Fail, StillOutside, Still
  <2>3. CASE VerifyPlan(p)
    <3> DEFINE verdict == PlanError(Bundled(p), AppliedVersions(rows, Current(p)), DIALECT)
    <3>1. /\ verdict \notin {"AlreadyExists", "DuplicateKey"}
          /\ \/ Fail(p, verdict) /\ UNCHANGED at
             \/ Fail(p, "PendingMigration") /\ UNCHANGED at
             \/ Enter(p, call[p], at[p] + 1)
      BY <2>3, PlanErrorType DEF VerifyPlan
    <3> QED
      BY <1>1, <1>2, <3>1 DEF Fail, Enter, Goto, Return, StillOutside, Still
  <2> QED
    BY <2>1, <2>2, <2>3 DEF VerifyBundle
<1>5. HoldsLock(p)' /\ CreatesOnEmpty(p)' /\ ~ Planning(p)'
  BY <1>2, <1>3, <1>4 DEF HoldsLock, CreatesOnEmpty, Planning, Bootstrapping, Applying
<1> QED
  BY <1>2, <1>3, <1>4, <1>5, QuietStep

(* Every step preserves the inductive invariant.                           *)
LEMMA StepInv == Inv /\ [Next]_vars => Inv'
<1> SUFFICES ASSUME Inv, [Next]_vars PROVE Inv'
  OBVIOUS
<1>1. TypeOK'
  BY StepTypeOK DEF Inv
<1>2. /\ pc \in [Proc -> Await] /\ result \in [Proc -> Outcome]
      /\ tx \in [Proc -> Writes] /\ pending \in [Proc -> SUBSET Version]
  BY DEF Inv, TypeOK, SessionTypeOK
<1>3. CASE UNCHANGED vars
  BY <1>1, <1>3
     DEF vars, db, session, Inv, LedgerInv, LedgerMatchesSchema, PlanSound, Planning, Bundled,
         Current, NewReceipt, HoldsLock, CreatesOnEmpty, NoRunnerConflict
<1>4. ASSUME NEW p \in Proc, NEW c \in Calls, Start(p, c) PROVE Inv'
  BY <1>1, <1>4, StartInv
<1>5. ASSUME NEW p \in Proc, EnsureLedger(p) PROVE Inv'
  BY <1>1, <1>5, EnsureLedgerInv
<1>6. ASSUME NEW p \in Proc, AssertVersion(p) PROVE Inv'
  <2>1. /\ pc[p] = "assert_version" /\ pc'[p] \in {"applier_guard", "unwind"}
        /\ result'[p] \in {"running", "LedgerMetadataRowCount", "LedgerVersionMismatch"}
        /\ UNCHANGED <<tables, rows, effects, tx, lock>>
        /\ StillOutside(p)
    BY <1>2, <1>6, AssertLedgerVersionType
       DEF AssertVersion, Check, Goto, Fail, db, StillOutside, Still
  <2>2. tx[p].rows = {} /\ tx[p].effects = {} /\ tx[p].tables = {}
    BY <2>1 DEF Inv, LedgerInv, PlanSound, CreatesOnEmpty, Bootstrapping
  <2>3. HoldsLock(p)' /\ CreatesOnEmpty(p)' /\ ~ Planning(p)'
    BY <2>1, <2>2 DEF HoldsLock, CreatesOnEmpty, Planning, Bootstrapping, Applying
  <2> QED
    BY <1>1, <2>1, <2>2, <2>3, QuietStep
<1>7. ASSUME NEW p \in Proc, AcquireApplierGuard(p) PROVE Inv'
  <2>1. /\ pc[p] = "applier_guard" /\ pc'[p] = "read_ledger" /\ result'[p] = "running"
        /\ UNCHANGED <<tables, rows, effects, tx, call, at>>
        /\ Acquire(p, Current(p)) /\ StillOutside(p)
    BY <1>2, <1>7 DEF AcquireApplierGuard, Goto, db, StillOutside, Still
  <2>2. tx[p].rows = {} /\ tx[p].effects = {} /\ tx[p].tables = {}
    BY <2>1 DEF Inv, LedgerInv, PlanSound, CreatesOnEmpty, Bootstrapping
  <2>3. Current(p) \in Bundle /\ Current(p)' = Current(p)
    BY <2>1, CurrentBundle DEF Inv, Current
  <2>4. lock'[HashText[Current(p)]] = p
    BY <2>1, <2>3, RunnerAssumption DEF Acquire, Inv, TypeOK
  <2>5. HoldsLock(p)' /\ CreatesOnEmpty(p)' /\ ~ Planning(p)'
    BY <2>1, <2>2, <2>3, <2>4 DEF HoldsLock, CreatesOnEmpty, Planning, Bootstrapping, Applying
  <2> QED
    BY <1>1, <2>1, <2>2, <2>3, <2>5, QuietStep
<1>8. ASSUME NEW p \in Proc, ApplyPlan(p) PROVE Inv'
  BY <1>1, <1>8, ApplyPlanInv
<1>9. ASSUME NEW p \in Proc, CommitBundle(p) PROVE Inv'
  BY <1>1, <1>9, CommitBundleInv
<1>10. ASSUME NEW p \in Proc, VerifyBundle(p) PROVE Inv'
  BY <1>1, <1>10, VerifyBundleInv
<1>11. ASSUME NEW p \in Proc, Unwind(p) PROVE Inv'
  <2>1. /\ pc[p] = "unwind" /\ pc'[p] = "idle" /\ result' = result
        /\ UNCHANGED <<tables, rows, effects>> /\ tx'[p] = NoWrites
        /\ FreeLocks(p) /\ StillOutside(p)
    BY <1>2, <1>11 DEF Unwind, Rollback, db, StillOutside, Still
  <2>2. HoldsLock(p)' /\ CreatesOnEmpty(p)' /\ ~ Planning(p)'
    BY <2>1 DEF HoldsLock, CreatesOnEmpty, Planning, Bootstrapping, Applying, NoWrites
  <2>3. result'[p] \notin {"AlreadyExists", "DuplicateKey"}
    BY <2>1 DEF Inv, NoRunnerConflict
  <2> QED
    BY <1>1, <2>1, <2>2, <2>3, QuietStep DEF NoWrites
<1>12. ASSUME NEW p \in Proc, LoseBackend(p) PROVE Inv'
  <2>1. /\ pc'[p] = "unwind" /\ result'[p] = "Backend"
        /\ UNCHANGED <<tables, rows, effects, lock>>
        /\ StillOutside(p)
    BY <1>2, <1>12 DEF LoseBackend, BackendError, Fail, db, StillOutside, Still
  <2>2. HoldsLock(p)' /\ ~ Planning(p)'
    BY <2>1 DEF HoldsLock, Planning, Bootstrapping, Applying
  <2>3. CreatesOnEmpty(p)'
    BY <2>1 DEF CreatesOnEmpty, Bootstrapping
  <2> QED
    BY <1>1, <2>1, <2>2, <2>3, QuietStep
<1> QED
  BY <1>3, <1>4, <1>5, <1>6, <1>7, <1>8, <1>9, <1>10, <1>11, <1>12
     DEF Next, Step, RunBundle, Quiescent, vars

(* The inductive invariant holds in every reachable state.                 *)
LEMMA Invariance == Spec => []Inv
BY InitInv, StepInv, PTL DEF Spec

(* For every number of processes, releases, bundles and calls, and         *)
(* whatever fails: the committed receipts and the executed bodies are the  *)
(* same thing, each exactly once (run_bundle's apply transaction).         *)
THEOREM LedgerMatches == Spec => []LedgerMatchesSchema
<1>1. Inv => LedgerMatchesSchema
  BY DEF Inv, LedgerInv
<1> QED
  BY <1>1, Invariance, PTL

(* The plan a process applies is at all times what the committed ledger    *)
(* says is pending for its bundle, so there is no check-then-apply race    *)
(* (acquire_applier_guard before applied_versions).                        *)
THEOREM PlansAreFresh == Spec => []PlanStaysFresh
<1>1. Inv => PlanStaysFresh
  BY LedgerInvImpliesFresh DEF Inv
<1> QED
  BY <1>1, Invariance, PTL

(* No call ever fails on a table or a receipt another runner got in first: *)
(* hashtext collisions included, the two advisory locks serialise all      *)
(* writers that could meet.                                                *)
THEOREM RunnersNeverConflict == Spec => []NoRunnerConflict
<1>1. Inv => NoRunnerConflict
  BY DEF Inv
<1> QED
  BY <1>1, Invariance, PTL

-----------------------------------------------------------------------------
(* PostgresRunner implements MigrationLedger.                              *)

(* What ensure_ledger establishes, and run_bundle relies on until it       *)
(* commits: the ledger is complete and stamped with this generation.  The  *)
(* stamp is written with the tables and by nobody else.                    *)
BootstrapSound(p) ==
    /\ pc[p] = "probe" => tx[p].tables = {}
    /\ pc[p] \in {"stamp", "bootstrap_commit"} =>
          /\ tx[p].tables \in {{}, LedgerTables}
          /\ tables \cup tx[p].tables = LedgerTables
    /\ \/ pc[p] = "unwind"
       \/ pc[p] \in {"stamp", "bootstrap_commit"} /\ tx[p].tables # {}
       \/ tx[p].stamps = <<>>
    /\ pc[p] = "bootstrap_commit" => stamps \o tx[p].stamps = <<LEDGER_VERSION>>
    /\ pc[p] \in {"assert_version", "applier_guard"} \cup Applying => tables = LedgerTables
    /\ pc[p] \in {"applier_guard"} \cup Applying => stamps = <<LEDGER_VERSION>>

ImplInv ==
    /\ Inv
    /\ \A p \in Proc : FollowsPlan(p) /\ BootstrapSound(p) /\ KeepsPromise(p)

(* It holds initially: nobody is in a call.                                *)
LEMMA InitImplInv == Init => ImplInv
<1> SUFFICES ASSUME Init PROVE ImplInv
  OBVIOUS
<1>1. \A p \in Proc : FollowsPlan(p) /\ BootstrapSound(p) /\ KeepsPromise(p)
  BY DEF Init, InitSession, NoWrites, FollowsPlan, Planning, BootstrapSound, Applying, KeepsPromise
<1> QED
  BY <1>1, InitInv DEF ImplInv

-----------------------------------------------------------------------------
(* The shape of each step, for the lemmas of the session.                  *)

Quiet(p) == OutsidePlan(p) /\ StillOutside(p) /\ UNCHANGED <<tables, stamps>>

(* The steps of run_bundle before its apply transaction, those of          *)
(* verify_bundle, and the ways a call begins and breaks off, handle no     *)
(* plan and leave the database alone.                                      *)
LEMMA QuietSteps ==
    ASSUME Inv, NEW p \in Proc,
           \/ \E c \in Calls : Start(p, c)
           \/ AcquireBootstrapLock(p) \/ ProbeLedger(p) \/ CreateLedger(p)
           \/ AssertLedgerVersionIn(p) \/ AssertVersion(p) \/ AcquireApplierGuard(p)
           \/ VerifyBundle(p) \/ Unwind(p) \/ LoseBackend(p)
    PROVE  Quiet(p)
<1>1. /\ pc \in [Proc -> Await] /\ result \in [Proc -> Outcome] /\ tx \in [Proc -> Writes]
      /\ call \in [Proc -> Calls] /\ at \in [Proc -> Version] /\ pending \in [Proc -> SUBSET Version]
  BY DEF Inv, TypeOK, SessionTypeOK
<1> USE DEF Quiet, OutsidePlan, StillOutside, Still, Planning, db, Check, Goto, Fail, Return
<1>2. ASSUME NEW c \in Calls, Start(p, c) PROVE Quiet(p)
  BY <1>1, <1>2 DEF Start, Enter
<1>3. CASE AcquireBootstrapLock(p)
  BY <1>1, <1>3 DEF AcquireBootstrapLock
<1>4. CASE ProbeLedger(p)
  BY <1>1, <1>4 DEF ProbeLedger
<1>5. CASE CreateLedger(p)
  <2>1. pc[p] = "create" /\ UNCHANGED <<tables, stamps, rows, effects, call, at, pending>>
    BY <1>5 DEF CreateLedger, CreateStatement
  <2>2. /\ \/ pc' = pc
           \/ pc' = [pc EXCEPT ![p] = "stamp"]
           \/ pc' = [pc EXCEPT ![p] = "unwind"]
        /\ \E a : result' = [result EXCEPT ![p] = a]
        /\ \E w : tx' = [tx EXCEPT ![p] = w]
    <3>1. ASSUME NEW t, CreateTable(p, t)
          PROVE  /\ pc' = pc \/ pc' = [pc EXCEPT ![p] = "unwind"]
                 /\ \E a : result' = [result EXCEPT ![p] = a]
                 /\ \E w : tx' = [tx EXCEPT ![p] = w]
      BY <1>1, <3>1 DEF CreateTable
    <3> QED
      BY <1>1, <1>5, <3>1 DEF CreateLedger, CreateStatement
  <2> QED
    BY <1>1, <2>1, <2>2
<1>6. CASE AssertLedgerVersionIn(p)
  BY <1>1, <1>6 DEF AssertLedgerVersionIn
<1>7. CASE AssertVersion(p)
  BY <1>1, <1>7 DEF AssertVersion
<1>8. CASE AcquireApplierGuard(p)
  BY <1>1, <1>8 DEF AcquireApplierGuard
<1>9. CASE VerifyBundle(p)
  BY <1>1, <1>9 DEF VerifyBundle, AssertLedgerPresence, VerifyVersion, VerifyPlan, Enter
<1>10. CASE Unwind(p)
  BY <1>1, <1>10 DEF Unwind, Rollback
<1>11. CASE LoseBackend(p)
  BY <1>1, <1>11 DEF LoseBackend, BackendError
<1> QED
  BY <1>2, <1>3, <1>4, <1>5, <1>6, <1>7, <1>8, <1>9, <1>10, <1>11

(* Neither commit happens on a ledger that is not ready, and the one of    *)
(* run_bundle finds it ready without any help of its own transaction.      *)
LEMMA ReadyToCommit ==
    ASSUME Inv, NEW p \in Proc, BootstrapSound(p)
    PROVE  /\ pc[p] = "bootstrap_commit" => LedgerReady(p)
           /\ pc[p] = "apply" => LedgerReady(p) /\ tx[p].tables = {} /\ tx[p].stamps = <<>>
<1>1. stamps \in Seq(Nat) /\ CreatesOnEmpty(p)
  BY DEF Inv, TypeOK, SessionTypeOK, DatabaseTypeOK
<1>2. stamps \o <<>> = stamps
  BY <1>1
<1> QED
  BY <1>1, <1>2 DEF BootstrapSound, CreatesOnEmpty, LedgerReady, Bootstrapping, Applying

(* The commit of the bootstrap handles no plan.                            *)
LEMMA CommitBootstrapShape ==
    ASSUME Inv, NEW p \in Proc, BootstrapSound(p), CommitBootstrap(p)
    PROVE  /\ OutsidePlan(p) /\ StillOutside(p) /\ LedgerReady(p)
           /\ tx[p].rows = {} /\ tx[p].effects = {}
<1>1. /\ pc \in [Proc -> Await] /\ result \in [Proc -> Outcome] /\ tx \in [Proc -> Writes]
  BY DEF Inv, TypeOK, SessionTypeOK
<1>2. pc[p] = "bootstrap_commit" /\ Publish(p)
  BY DEF CommitBootstrap
<1>3. tx[p].rows = {} /\ tx[p].effects = {}
  BY <1>2 DEF Inv, LedgerInv, PlanSound
<1>4. OutsidePlan(p) /\ StillOutside(p)
  BY <1>1, <1>2, <1>3
     DEF CommitBootstrap, OutsidePlan, StillOutside, Still, Planning, Publish, Goto, Return,
         AcknowledgementLost
<1> QED
  BY <1>2, <1>3, <1>4, ReadyToCommit

(* The commit of run_bundle is its plan's.                                 *)
LEMMA CommitBundleShape ==
    ASSUME Inv, NEW p \in Proc, BootstrapSound(p), CommitBundle(p)
    PROVE  /\ CommitsPlan(p) /\ StillOutside(p) /\ LedgerReady(p)
           /\ UNCHANGED <<tables, stamps>> /\ tx'[p] = NoWrites
           /\ Current(p) \in Bundle /\ call[p].release \in Release
<1>1. /\ pc \in [Proc -> Await] /\ result \in [Proc -> Outcome] /\ tx \in [Proc -> Writes]
      /\ call \in [Proc -> Calls] /\ at \in [Proc -> Version] /\ stamps \in Seq(Nat)
  BY DEF Inv, TypeOK, SessionTypeOK, DatabaseTypeOK
<1>2. pc[p] = "apply" /\ pending[p] = {} /\ Publish(p)
  BY DEF CommitBundle
<1>3. StillOutside(p) /\ ~ Planning(p)' /\ tx'[p] = NoWrites
  BY <1>1, <1>2
     DEF CommitBundle, Enter, StillOutside, Still, Planning, Publish, Goto, Return,
         AcknowledgementLost
<1>4. \A q \in Proc \ {p} : Planning(q) => Current(q) # Current(p)
  BY <1>2, Exclusion DEF Planning, Applying
<1>5. UNCHANGED <<tables, stamps>>
  <2>1. stamps \o <<>> = stamps
    BY <1>1
  <2> QED
    BY <1>2, <2>1, ReadyToCommit DEF Publish
<1>6. Current(p) \in Bundle /\ call[p].release \in Release
  BY <1>2, CurrentBundle DEF Inv
<1> QED
  BY <1>2, <1>3, <1>4, <1>5, <1>6, ReadyToCommit DEF CommitsPlan, StillOutside

(* Reading, applying and recording leave the database to the commit.       *)
LEMMA ApplyPlanShape ==
    ASSUME Inv, NEW p \in Proc, ApplyPlan(p)
    PROVE  /\ CarriesOut(p) /\ StillOutside(p) /\ UNCHANGED db
           /\ Current(p) \in Bundle /\ call[p].release \in Release
           /\ pc[p] \in Applying /\ pc'[p] \in {"apply", "record", "unwind"}
           /\ tx'[p].tables = tx[p].tables /\ tx'[p].stamps = tx[p].stamps
           /\ call'[p] = call[p] /\ at'[p] = at[p] /\ result'[p] # "ok"
<1>1. /\ pc \in [Proc -> Await] /\ result \in [Proc -> Outcome] /\ tx \in [Proc -> Writes]
      /\ pending \in [Proc -> SUBSET Version] /\ tx[p] \in Writes
  BY DEF Inv, TypeOK, SessionTypeOK
<1>2. /\ pc[p] \in Applying /\ UNCHANGED <<call, at>> /\ UNCHANGED db /\ CarriesOut(p)
  BY DEF ApplyPlan, ReadLedger, ApplyMigration, RecordReceipt, Applying, CarriesOut
<1>3. Current(p) \in Bundle /\ call[p].release \in Release
  BY <1>2, CurrentBundle DEF Inv, Applying
<1>4. /\ StillOutside(p)
      /\ pc'[p] \in {"apply", "record", "unwind"}
      /\ tx'[p].tables = tx[p].tables /\ tx'[p].stamps = tx[p].stamps
      /\ result'[p] # "ok"
  <2>1. CASE ReadLedger(p)
    BY <1>1, <1>2, <2>1 DEF ReadLedger, Check, Goto, Fail, StillOutside, Still
  <2>2. CASE ApplyMigration(p)
    BY <1>1, <1>2, <2>2 DEF ApplyMigration, Goto, StillOutside, Still, Writes
  <2>3. CASE RecordReceipt(p)
    BY <1>1, <1>2, <2>3 DEF RecordReceipt, Goto, Fail, StillOutside, Still, Writes
  <2> QED
    BY <2>1, <2>2, <2>3 DEF ApplyPlan
<1> QED
  BY <1>2, <1>3, <1>4

-----------------------------------------------------------------------------
(* The bootstrap.                                                          *)

(* A process that stands still keeps what it knows of the ledger when      *)
(* nobody touches its tables and stamp.                                    *)
LEMMA SoundStill ==
    ASSUME NEW q \in Proc, BootstrapSound(q), Still(q), UNCHANGED <<tables, stamps>>
    PROVE  BootstrapSound(q)'
BY DEF BootstrapSound, Still

(* Each step that leaves the ledger alone keeps what its process knows.    *)
LEMMA SoundOwn ==
    ASSUME Inv, NEW p \in Proc, BootstrapSound(p),
           \/ \E c \in Calls : Start(p, c)
           \/ AcquireBootstrapLock(p) \/ ProbeLedger(p) \/ CreateLedger(p)
           \/ AssertLedgerVersionIn(p) \/ AssertVersion(p) \/ AcquireApplierGuard(p)
           \/ VerifyBundle(p) \/ Unwind(p) \/ LoseBackend(p)
    PROVE  BootstrapSound(p)'
<1>1. /\ pc \in [Proc -> Await] /\ tx \in [Proc -> Writes] /\ tx[p] \in Writes
      /\ stamps \in Seq(Nat) /\ CreatesOnEmpty(p) /\ UNCHANGED <<tables, stamps>>
  BY QuietSteps DEF Inv, TypeOK, SessionTypeOK, DatabaseTypeOK, Quiet
<1> USE DEF BootstrapSound, CreatesOnEmpty, Bootstrapping, Applying, Check, Goto, Fail, Return
<1>2. ASSUME NEW c \in Calls, Start(p, c) PROVE BootstrapSound(p)'
  BY <1>1, <1>2 DEF Start, Enter
<1>3. CASE AcquireBootstrapLock(p)
  BY <1>1, <1>3 DEF AcquireBootstrapLock
<1>4. CASE ProbeLedger(p)
  BY <1>1, <1>4 DEF ProbeLedger, BootstrapAction
<1>5. CASE CreateLedger(p)
  <2>1. pc[p] = "create" /\ tables = {}
    BY <1>1, <1>5 DEF CreateLedger, CreateStatement
  <2>2. CASE tx[p].tables = LedgerTables /\ tx'[p].tables = LedgerTables /\ pc'[p] = "stamp"
    BY <1>1, <2>1, <2>2 DEF LedgerTables
  <2>3. CASE pc'[p] = "create" /\ tx'[p].stamps = tx[p].stamps
    BY <1>1, <2>1, <2>3
  <2>4. CASE pc'[p] = "unwind"
    BY <2>4
  <2>5. ASSUME NEW t, CreateTable(p, t)
        PROVE  \/ pc'[p] = "create" /\ tx'[p].stamps = tx[p].stamps
               \/ pc'[p] = "unwind"
    BY <1>1, <2>1, <2>5 DEF CreateTable, Writes
  <2> QED
    BY <1>1, <1>5, <2>1, <2>2, <2>3, <2>4, <2>5 DEF CreateLedger, CreateStatement, Writes
<1>6. CASE AssertLedgerVersionIn(p)
  <2>1. stamps \o tx[p].stamps \in Seq(Nat)
    BY <1>1 DEF Writes
  <2> QED
    BY <1>1, <1>6, <2>1, OneStamp DEF AssertLedgerVersionIn
<1>7. CASE AssertVersion(p)
  BY <1>1, <1>7, OneStamp DEF AssertVersion
<1>8. CASE AcquireApplierGuard(p)
  BY <1>1, <1>8 DEF AcquireApplierGuard
<1>9. CASE VerifyBundle(p)
  BY <1>1, <1>9 DEF VerifyBundle, AssertLedgerPresence, VerifyVersion, VerifyPlan, Enter
<1>10. CASE Unwind(p)
  BY <1>1, <1>10 DEF Unwind, Rollback, NoWrites
<1>11. CASE LoseBackend(p)
  BY <1>1, <1>11 DEF LoseBackend, BackendError
<1> QED
  BY <1>2, <1>3, <1>4, <1>5, <1>6, <1>7, <1>8, <1>9, <1>10, <1>11

(* The commit of the bootstrap leaves a ready ledger behind, and the       *)
(* processes that rely on one have it already.                             *)
LEMMA SoundCommitBootstrap ==
    ASSUME Inv, \A q \in Proc : BootstrapSound(q), NEW p \in Proc, CommitBootstrap(p)
    PROVE  \A q \in Proc : BootstrapSound(q)'
<1>1. /\ pc \in [Proc -> Await] /\ tx \in [Proc -> Writes] /\ stamps \in Seq(Nat)
      /\ LedgerReady(p) /\ StillOutside(p)
      /\ pc[p] = "bootstrap_commit" /\ pc'[p] \in {"assert_version", "idle"}
      /\ tables' = tables \cup tx[p].tables /\ stamps' = stamps \o tx[p].stamps
      /\ tx'[p] = NoWrites
  BY CommitBootstrapShape
     DEF Inv, TypeOK, SessionTypeOK, DatabaseTypeOK, CommitBootstrap, Publish, Goto, Return,
         AcknowledgementLost
<1>2. tables' = LedgerTables
  BY <1>1 DEF LedgerReady
<1>3. BootstrapSound(p)'
  BY <1>1, <1>2 DEF BootstrapSound, Applying, NoWrites
<1>4. ASSUME NEW q \in Proc \ {p} PROVE BootstrapSound(q)'
  <2>1. pc[q] \notin Bootstrapping
    BY <1>1, Exclusion DEF Bootstrapping
  <2>2. Still(q) /\ BootstrapSound(q)
    BY <1>1 DEF StillOutside
  <2>3. tables = LedgerTables => stamps' = stamps
    <3>1. stamps \o <<>> = stamps
      BY <1>1
    <3>2. LedgerTables # {}
      BY DEF LedgerTables
    <3> QED
      BY <1>1, <3>1, <3>2 DEF LedgerReady
  <2> QED
    BY <1>2, <2>1, <2>2, <2>3 DEF BootstrapSound, Still, Bootstrapping
<1> QED
  BY <1>3, <1>4

-----------------------------------------------------------------------------
(* The promise to the caller.                                              *)

(* A quiet step that does not move the loop on reports no success, except  *)
(* for a call without bundles.                                             *)
LEMMA PromiseOwn ==
    ASSUME Inv, NEW p \in Proc, KeepsPromise(p),
           \/ \E c \in Calls : Start(p, c)
           \/ AcquireBootstrapLock(p) \/ ProbeLedger(p) \/ CreateLedger(p)
           \/ AssertLedgerVersionIn(p) \/ AssertVersion(p) \/ AcquireApplierGuard(p)
           \/ VerifyBundle(p) \/ Unwind(p) \/ LoseBackend(p)
    PROVE  KeepsPromise(p)'
<1>1. /\ pc \in [Proc -> Await] /\ result \in [Proc -> Outcome]
      /\ call \in [Proc -> Calls] /\ at \in [Proc -> Version]
      /\ rows \subseteq rows'
  BY QuietSteps DEF Inv, TypeOK, SessionTypeOK, Quiet, OutsidePlan
<1> USE DEF Check, Goto, Fail, Return
<1>2. ASSUME NEW c \in Calls, Start(p, c) PROVE KeepsPromise(p)'
  <2>1. at'[p] = 1 /\ call'[p] = c
    BY <1>1, <1>2 DEF Start, Enter
  <2>2. result'[p] = "ok" => 1 > Len(c.bundles)
    BY <1>1, <1>2 DEF Start, Enter
  <2>3. \A j \in DOMAIN c.bundles : ~ (j < 1)
    <3>1. c.bundles \in Seq(Bundle)
      BY SessionAssumption DEF Call
    <3> QED
      BY <3>1
  <2>4. 1 \in Version
    BY DEF Version
  <2> QED
    BY <2>1, <2>2, <2>3, <2>4, PromiseEnter
<1>3. CASE AcquireBootstrapLock(p)
  BY <1>1, <1>3, PromiseFrame DEF AcquireBootstrapLock
<1>4. CASE ProbeLedger(p)
  BY <1>1, <1>4, PromiseFrame DEF ProbeLedger
<1>5. CASE CreateLedger(p)
  <2>1. pc[p] = "create" /\ call'[p] = call[p] /\ at'[p] = at[p]
    BY <1>5 DEF CreateLedger, CreateStatement
  <2>2. result'[p] = result[p] \/ result'[p] # "ok"
    BY <1>1, <1>5 DEF CreateLedger, CreateStatement, CreateTable
  <2> QED
    BY <1>1, <2>1, <2>2, PromiseFrame
<1>6. CASE AssertLedgerVersionIn(p)
  BY <1>1, <1>6, PromiseFrame DEF AssertLedgerVersionIn
<1>7. CASE AssertVersion(p)
  BY <1>1, <1>7, PromiseFrame DEF AssertVersion
<1>8. CASE AcquireApplierGuard(p)
  BY <1>1, <1>8, PromiseFrame DEF AcquireApplierGuard
<1>9. CASE AssertLedgerPresence(p) \/ VerifyVersion(p)
  BY <1>1, <1>9, PromiseFrame DEF AssertLedgerPresence, VerifyVersion
<1>10. CASE VerifyPlan(p)
  <2>1. pc[p] = "verify_plan" /\ call'[p] = call[p]
    BY <1>10 DEF VerifyPlan
  <2>2. CASE result'[p] # "ok" /\ at'[p] = at[p]
    BY <1>1, <2>1, <2>2, PromiseFrame
  <2>3. CASE /\ PlanError(Bundled(p), AppliedVersions(rows, Current(p)), DIALECT) = "ok"
             /\ Pending(Bundled(p), AppliedVersions(rows, Current(p))) = {}
             /\ Enter(p, call[p], at[p] + 1)
    <3>1. Current(p) \in Bundle /\ call[p].release \in Release
      BY <2>1, CurrentBundle DEF Inv
    <3>2. PICK r \in Release, b \in Bundle : r = call[p].release /\ b = Current(p)
      BY <3>1
    <3>3. Complete(r, b)
      BY <2>3, <3>2, VerifiedIsComplete DEF Bundled
    <3>4. Complete(r, b)'
      BY <1>1, <3>3, StaysComplete
    <3>5. at'[p] = at[p] + 1 /\ (result'[p] = "ok" => at[p] + 1 > Len(call[p].bundles))
      BY <1>1, <2>3 DEF Enter
    <3> QED
      BY <1>1, <2>1, <3>2, <3>4, <3>5, PromiseNext
  <2> QED
    BY <1>1, <1>10, <2>2, <2>3 DEF VerifyPlan
<1>11. CASE Unwind(p)
  BY <1>1, <1>11, PromiseFrame DEF Unwind, Rollback
<1>12. CASE LoseBackend(p)
  BY <1>1, <1>12, PromiseFrame DEF LoseBackend, BackendError
<1> QED
  BY <1>2, <1>3, <1>4, <1>5, <1>6, <1>7, <1>8, <1>9, <1>10, <1>11, <1>12 DEF VerifyBundle

(* Committing a bundle completes it, whether or not the caller learns of   *)
(* the commit.                                                             *)
LEMMA PromiseCommit ==
    ASSUME Inv, NEW p \in Proc, FollowsPlan(p), BootstrapSound(p), KeepsPromise(p),
           CommitBundle(p)
    PROVE  KeepsPromise(p)'
<1>1. /\ pc \in [Proc -> Await] /\ result \in [Proc -> Outcome]
      /\ call \in [Proc -> Calls] /\ at \in [Proc -> Version]
  BY DEF Inv, TypeOK, SessionTypeOK
<1>2. /\ pc[p] = "apply" /\ pending[p] = {} /\ Publish(p) /\ rows \subseteq rows'
      /\ call'[p] = call[p]
  BY DEF CommitBundle, Publish
<1>3. PICK r \in Release, b \in Bundle : r = call[p].release /\ b = Current(p)
  BY CommitBundleShape
<1>4. Complete(r, b)'
  BY <1>2, <1>3, CommitCompletes DEF Inv
<1>5. CASE Enter(p, call[p], at[p] + 1)
  <2>1. at'[p] = at[p] + 1 /\ (result'[p] = "ok" => at[p] + 1 > Len(call[p].bundles))
    BY <1>1, <1>5 DEF Enter, Goto, Return
  <2> QED
    BY <1>1, <1>2, <1>3, <1>4, <2>1, PromiseNext
<1>6. CASE AcknowledgementLost(p) /\ UNCHANGED at
  BY <1>1, <1>2, <1>6, PromiseFrame DEF AcknowledgementLost, Return
<1> QED
  BY <1>5, <1>6 DEF CommitBundle

-----------------------------------------------------------------------------
(* The induction, and the refinement.                                      *)

(* What each kind of step does to the strengthened invariant and to the    *)
(* database, seen as the abstract ledger.                                  *)
LEMMA StepImpl == ImplInv /\ [Next]_vars => ImplInv' /\ [Ledger!Next]_Ledger!db
<1> SUFFICES ASSUME ImplInv, [Next]_vars PROVE ImplInv' /\ (Ledger!Next \/ UNCHANGED db)
  BY DEF db, Ledger!db
<1>1. /\ Inv /\ Inv' /\ SessionTypeOK /\ LedgerInv /\ pc \in [Proc -> Await]
      /\ \A q \in Proc : FollowsPlan(q) /\ BootstrapSound(q) /\ KeepsPromise(q)
  BY StepInv DEF ImplInv, Inv, TypeOK
<1>3. ASSUME UNCHANGED vars PROVE ImplInv' /\ UNCHANGED db
  <2>1. \A q \in Proc : Still(q) /\ result'[q] = result[q]
    BY <1>3 DEF vars, session, Still
  <2>2. UNCHANGED <<tables, stamps, rows>> /\ UNCHANGED db
    BY <1>3 DEF vars, db
  <2>3. \A q \in Proc : FollowsPlan(q)'
    BY <1>1, <2>1, <2>2, StillFollows
  <2>4. \A q \in Proc : BootstrapSound(q)'
    BY <1>1, <2>1, <2>2, SoundStill
  <2>5. \A q \in Proc : KeepsPromise(q)'
    BY <1>1, <2>1, <2>2, PromiseStill
  <2> QED
    BY <1>1, <2>2, <2>3, <2>4, <2>5 DEF ImplInv
<1>4. ASSUME NEW p \in Proc,
             \/ \E c \in Calls : Start(p, c)
             \/ AcquireBootstrapLock(p) \/ ProbeLedger(p) \/ CreateLedger(p)
             \/ AssertLedgerVersionIn(p) \/ AssertVersion(p) \/ AcquireApplierGuard(p)
             \/ VerifyBundle(p) \/ Unwind(p) \/ LoseBackend(p)
      PROVE  ImplInv' /\ UNCHANGED db
  <2>1. Quiet(p)
    BY <1>1, <1>4, QuietSteps
  <2>2. UNCHANGED <<tables, stamps, rows, effects>> /\ OutsidePlan(p) /\ StillOutside(p)
    BY <2>1 DEF Quiet, OutsidePlan
  <2>3. \A q \in Proc : FollowsPlan(q)'
    BY <1>1, <2>2, PlansFollowed
  <2>4. BootstrapSound(p)' /\ KeepsPromise(p)'
    BY <1>1, <1>4, SoundOwn, PromiseOwn
  <2>5. \A q \in Proc \ {p} : BootstrapSound(q)' /\ KeepsPromise(q)'
    BY <1>1, <2>2, SoundStill, PromiseStill DEF StillOutside
  <2> QED
    BY <1>1, <2>2, <2>3, <2>4, <2>5 DEF ImplInv, db
<1>5. ASSUME NEW p \in Proc, CommitBootstrap(p)
      PROVE  ImplInv' /\ (Ledger!Next \/ UNCHANGED db)
  <2>1. OutsidePlan(p) /\ StillOutside(p)
    BY <1>1, <1>5, CommitBootstrapShape
  <2>2. \A q \in Proc : FollowsPlan(q)'
    BY <1>1, <2>1, PlansFollowed
  <2>3. \A q \in Proc : BootstrapSound(q)'
    BY <1>1, <1>5, SoundCommitBootstrap
  <2>4. KeepsPromise(p)'
    BY <1>1, <1>5, <2>1, PromiseFrame
       DEF CommitBootstrap, Goto, AcknowledgementLost, Return, OutsidePlan, Inv, TypeOK,
           SessionTypeOK
  <2>5. \A q \in Proc \ {p} : KeepsPromise(q)'
    BY <1>1, <2>1, PromiseStill DEF StillOutside, OutsidePlan
  <2>6. Ledger!Next \/ UNCHANGED db
    BY <1>1, <1>5, CommitBootstrapShape, CommitBootstraps DEF CommitBootstrap, Ledger!Next
  <2> QED
    BY <1>1, <2>2, <2>3, <2>4, <2>5, <2>6 DEF ImplInv
<1>6. ASSUME NEW p \in Proc, ApplyPlan(p)
      PROVE  ImplInv' /\ UNCHANGED db
  <2>1. /\ CarriesOut(p) /\ StillOutside(p) /\ UNCHANGED db
        /\ Current(p) \in Bundle /\ call[p].release \in Release
        /\ pc[p] \in Applying /\ pc'[p] \in {"apply", "record", "unwind"}
        /\ tx'[p].tables = tx[p].tables /\ tx'[p].stamps = tx[p].stamps
        /\ call'[p] = call[p] /\ at'[p] = at[p] /\ result'[p] # "ok"
    BY <1>1, <1>6, ApplyPlanShape
  <2>2. UNCHANGED <<tables, stamps, rows, effects>>
    BY <2>1 DEF db
  <2>3. \A q \in Proc : FollowsPlan(q)'
    BY <1>1, <2>1, PlansFollowed
  <2>4. BootstrapSound(p)'
    BY <1>1, <2>1, <2>2 DEF BootstrapSound, Applying
  <2>5. KeepsPromise(p)'
    BY <1>1, <2>1, <2>2, PromiseFrame DEF Applying
  <2>6. \A q \in Proc \ {p} : BootstrapSound(q)' /\ KeepsPromise(q)'
    BY <1>1, <2>1, <2>2, SoundStill, PromiseStill DEF StillOutside
  <2> QED
    BY <1>1, <2>1, <2>3, <2>4, <2>5, <2>6 DEF ImplInv
<1>7. ASSUME NEW p \in Proc, CommitBundle(p)
      PROVE  ImplInv' /\ Ledger!Next
  <2>1. /\ CommitsPlan(p) /\ StillOutside(p) /\ LedgerReady(p)
        /\ UNCHANGED <<tables, stamps>> /\ tx'[p] = NoWrites
        /\ Current(p) \in Bundle /\ call[p].release \in Release
    BY <1>1, <1>7, CommitBundleShape
  <2>2. pc[p] = "apply" /\ pending[p] = {} /\ Publish(p) /\ rows \subseteq rows'
    BY <2>1 DEF CommitsPlan, Publish
  <2>3. \A q \in Proc : FollowsPlan(q)'
    BY <1>1, <2>1, PlansFollowed
  <2>4. BootstrapSound(p)'
    <3>1. pc'[p] \in {"idle", "bootstrap_lock", "verify_presence"}
      BY <1>1, <1>7 DEF CommitBundle, Enter, Goto, Return, AcknowledgementLost
    <3> QED
      BY <2>1, <3>1 DEF BootstrapSound, NoWrites, Applying
  <2>5. KeepsPromise(p)'
    BY <1>1, <1>7, PromiseCommit
  <2>6. \A q \in Proc \ {p} : BootstrapSound(q)' /\ KeepsPromise(q)'
    BY <1>1, <2>1, <2>2, SoundStill, PromiseStill DEF StillOutside
  <2>7. Ledger!Next
    BY <1>1, <2>1, <2>2, CommitApplies DEF Ledger!Next
  <2> QED
    BY <1>1, <2>1, <2>3, <2>4, <2>5, <2>6, <2>7 DEF ImplInv
<1>8. [Next]_vars =>
        \/ UNCHANGED vars
        \/ \E p \in Proc :
              \/ \/ \E c \in Calls : Start(p, c)
                 \/ AcquireBootstrapLock(p) \/ ProbeLedger(p) \/ CreateLedger(p)
                 \/ AssertLedgerVersionIn(p) \/ AssertVersion(p) \/ AcquireApplierGuard(p)
                 \/ VerifyBundle(p) \/ Unwind(p) \/ LoseBackend(p)
              \/ CommitBootstrap(p)
              \/ ApplyPlan(p)
              \/ CommitBundle(p)
  BY DEF Next, Step, RunBundle, EnsureLedger, Quiescent, vars
<1> QED
  BY <1>3, <1>4, <1>5, <1>6, <1>7, <1>8

(* The strengthened invariant holds in every reachable state.              *)
LEMMA ImplInvariance == Spec => []ImplInv
<1>1. ImplInv /\ [Next]_vars => ImplInv'
  BY StepImpl
<1> QED
  BY <1>1, InitImplInv, PTL DEF Spec

(* Whatever the interleaving, the collisions of lock keys, the failures    *)
(* and the releases: a caller that was told "ok" may rely on every         *)
(* migration its release declares being recorded with an accepted checksum,*)
(* then and later (run_bundles and verify_bundles).                        *)
THEOREM SuccessIsComplete == Spec => []SuccessMeansComplete
<1>1. ImplInv => SuccessMeansComplete
  BY PromiseMeansComplete DEF ImplInv
<1> QED
  BY <1>1, ImplInvariance, PTL

(* ensure_ledger, run_bundle and verify_bundle implement the abstract      *)
(* ledger: the commit of a bootstrap that creates is Bootstrap, that of    *)
(* run_bundle is ApplyBundle for its bundle, and no other step touches the *)
(* database.                                                               *)
THEOREM RunnerImplementsLedger == Spec => ImplementsLedger
<1>1. Init => Ledger!InitDatabase
  BY InitLedger DEF Init
<1>2. ImplInv /\ [Next]_vars => [Ledger!Next]_Ledger!db
  BY StepImpl
<1> QED
  BY <1>1, <1>2, ImplInvariance, PTL DEF Spec, ImplementsLedger, Ledger!Spec

(* While releases only append, and the database was left by such releases, *)
(* no body of a bundle runs after one of a greater version: run_bundle     *)
(* works its plan through in order, and a ledger ahead of a release is     *)
(* refused.                                                                *)
THEOREM BodiesRunInOrder ==
    ASSUME ReleasesAppend, FoundInOrder
    PROVE  Spec => []AppliedInOrder
BY RunnerImplementsLedger, LedgerKeepsOrder, PTL DEF ImplementsLedger

=============================================================================
