-------------------------- MODULE SqliteRunnerProofs --------------------------
(***************************************************************************)
(* Theorems of SqliteRunner: run_bundle's one BEGIN IMMEDIATE transaction  *)
(* implements MigrationLedger, and a runner keeps its promise to the       *)
(* callers it tells "ok".                                                  *)
(***************************************************************************)
EXTENDS SqliteRunner, MigrationSessionProofs

(* What a verifying process's transaction may see.                         *)
Views == [tables : SUBSET LedgerTables, stamps : Seq(Nat), rows : SUBSET Receipt]

(* The write lock and the snapshots stay well typed.                       *)
EngineTypeOK ==
    /\ writer \in Proc \cup {NoProc}
    /\ snapshot \in [Proc -> Views]

(* Nothing seen is a well-typed view, and so is the committed database.    *)
LEMMA ViewTypes ==
    /\ NoSnapshot \in Views
    /\ DatabaseTypeOK => [tables |-> tables, stamps |-> stamps, rows |-> rows] \in Views
BY DEF NoSnapshot, Views, DatabaseTypeOK

(* TypeOK, in the parts the lemmas below handle.                           *)
LEMMA TypeParts ==
    TypeOK <=> /\ SessionTypeOK /\ EngineTypeOK
               /\ pc \in [Proc -> Await]
               /\ \A p \in Proc :
                     pc[p] \notin {"idle", "unwind"} => at[p] <= Len(call[p].bundles)
BY DEF TypeOK, EngineTypeOK, Views

(* Initial states are well typed.                                          *)
LEMMA InitTypeOK == Init => TypeOK
<1> SUFFICES ASSUME Init PROVE TypeOK
  OBVIOUS
<1>1. DatabaseTypeOK
  BY DatabaseAssumption DEF Init, InitSession, InitDatabase, IsDatabase, DatabaseTypeOK
<1>2. (CHOOSE c \in Calls : TRUE) \in Calls
  BY SessionAssumption
<1>3. SessionTypeOK
  BY <1>1, <1>2, NoWritesType, SessionAssumption
     DEF Init, InitSession, SessionTypeOK, Version, Outcome
<1> QED
  BY <1>3, ViewTypes, TypeParts DEF Init, InitSession, EngineTypeOK, Await

(* Where a step that handles no plan may lead.                             *)
Places == Await \ {"apply", "record"}

(* The type invariant after a step that leaves the plan alone.             *)
LEMMA ControlStep ==
    ASSUME TypeOK, NEW p \in Proc, NEW places \in SUBSET Places, Moves(p, places),
           pc[p] \notin {"idle", "unwind"} \/ places = {"idle"},
           UNCHANGED <<call, at, calls, pending>>,
           tx' \in [Proc -> Writes],
           UNCHANGED db \/ DatabaseTypeOK',
           EngineTypeOK'
    PROVE  TypeOK'
<1> USE TypeParts
<1>1. pc' \in [Proc -> Await]
  BY DEF Moves, Places
<1>2. \A q \in Proc : pc'[q] \in {"apply", "record"} => pending'[q] \subseteq DOMAIN Bundled(q)'
  BY DEF Moves, Places, SessionTypeOK, Bundled, Current
<1>3. \A q \in Proc : pc'[q] \notin {"idle", "unwind"} => at'[q] <= Len(call'[q].bundles)
  BY DEF Moves
<1>4. DatabaseTypeOK'
  BY DEF SessionTypeOK, DatabaseTypeOK, db
<1>5. SessionTypeOK'
  BY <1>2, <1>4 DEF Moves, SessionTypeOK
<1> QED
  BY <1>1, <1>3, <1>5 DEF TypeOK, EngineTypeOK, Views

(* The type invariant after a step that enters the loop body, or ends it.  *)
LEMMA EnterStep ==
    ASSUME TypeOK, NEW p \in Proc, NEW c \in Calls, NEW i \in Version, Enter(p, c, i),
           call' = [call EXCEPT ![p] = c],
           applied' \in [Proc -> SUBSET Receipt],
           calls' \in [Proc -> 0..MaxCalls],
           tx' \in [Proc -> Writes],
           UNCHANGED pending,
           DatabaseTypeOK',
           EngineTypeOK'
    PROVE  TypeOK'
<1> USE TypeParts
<1>1. /\ Moves(p, {"idle", "begin", "verify_presence"})
      /\ pc'[p] # "idle" => i <= Len(c.bundles)
      /\ at' = [at EXCEPT ![p] = i]
  BY DEF Enter, Moves, Goto, Return, SessionTypeOK, Outcome
<1>2. pc' \in [Proc -> Await]
  BY <1>1 DEF Moves, Await, Verifying
<1>3. \A q \in Proc : pc'[q] \in {"apply", "record"} => pending'[q] \subseteq DOMAIN Bundled(q)'
  BY <1>1 DEF Moves, SessionTypeOK, Bundled, Current
<1>4. \A q \in Proc : pc'[q] \notin {"idle", "unwind"} => at'[q] <= Len(call'[q].bundles)
  BY <1>1 DEF Moves, SessionTypeOK
<1>5. SessionTypeOK'
  BY <1>1, <1>3 DEF Moves, SessionTypeOK
<1> QED
  BY <1>2, <1>4, <1>5 DEF TypeOK, EngineTypeOK, Views

(* Inside a call the process is at one of its bundles.                     *)
LEMMA CurrentBundle ==
    ASSUME TypeOK, NEW p \in Proc, pc[p] \notin {"idle", "unwind"}
    PROVE  Current(p) \in Bundle /\ call[p].release \in Release
<1>1. call[p] \in Call /\ at[p] \in Version /\ at[p] <= Len(call[p].bundles)
  BY SessionAssumption DEF TypeOK, SessionTypeOK
<1>2. call[p].bundles \in Seq(Bundle) /\ at[p] \in 1..Len(call[p].bundles)
  BY <1>1 DEF Call, Version
<1> QED
  BY <1>1, <1>2 DEF Call, Current

(* The loop goes on to the next bundle of the same call.                   *)
LEMMA NextBundle ==
    ASSUME TypeOK, NEW p \in Proc, Enter(p, call[p], at[p] + 1),
           UNCHANGED <<call, calls, pending, applied>>,
           tx' \in [Proc -> Writes],
           UNCHANGED db \/ DatabaseTypeOK',
           EngineTypeOK'
    PROVE  TypeOK'
<1>1. call[p] \in Calls /\ at[p] + 1 \in Version
  BY DEF TypeOK, SessionTypeOK, Version
<1>2. call' = [call EXCEPT ![p] = call[p]]
  BY DEF TypeOK, SessionTypeOK
<1>3. applied' \in [Proc -> SUBSET Receipt] /\ calls' \in [Proc -> 0..MaxCalls]
  BY DEF TypeOK, SessionTypeOK
<1>4. DatabaseTypeOK'
  BY DEF TypeOK, SessionTypeOK, DatabaseTypeOK, db
<1> QED
  BY <1>1, <1>2, <1>3, <1>4, EnterStep

(* Starting a call keeps the types.                                        *)
LEMMA StartTypeOK ==
    ASSUME TypeOK, NEW p \in Proc, NEW c \in Calls, Start(p, c)
    PROVE  TypeOK'
<1> USE TypeParts
<1>1. calls' \in [Proc -> 0..MaxCalls]
  BY SessionAssumption DEF Start, SessionTypeOK
<1>2. /\ applied' \in [Proc -> SUBSET Receipt]
      /\ DatabaseTypeOK' /\ tx' \in [Proc -> Writes] /\ UNCHANGED pending
      /\ EngineTypeOK'
      /\ call' = [call EXCEPT ![p] = c]
  BY DEF Start, SessionTypeOK, DatabaseTypeOK, EngineTypeOK, db
<1>3. CASE Enter(p, c, 1)
  <2>1. 1 \in Version
    BY DEF Version
  <2> QED
    BY <1>1, <1>2, <1>3, <2>1, EnterStep
<1>4. CASE Return(p, "DuplicateBundle") /\ at' = [at EXCEPT ![p] = 1]
  <2>1. Moves(p, {"idle"})
    BY <1>2, <1>4, ReturnMoves DEF Outcome
  <2>2. pc' \in [Proc -> Await]
    BY <2>1 DEF Moves, Await
  <2>3. \A q \in Proc :
           pc'[q] \in {"apply", "record"} => pending'[q] \subseteq DOMAIN Bundled(q)'
    BY <1>2, <1>4, <2>1 DEF Moves, SessionTypeOK, Bundled, Current
  <2>4. \A q \in Proc : pc'[q] \notin {"idle", "unwind"} => at'[q] <= Len(call'[q].bundles)
    BY <1>2, <1>4, <2>1 DEF Moves, SessionTypeOK
  <2>5. at' \in [Proc -> Version] /\ call' \in [Proc -> Calls]
          /\ pending' \in [Proc -> SUBSET Version]
    BY <1>2, <1>4 DEF SessionTypeOK, Version
  <2>6. SessionTypeOK'
    BY <1>1, <1>2, <2>1, <2>3, <2>5 DEF Moves, SessionTypeOK
  <2> QED
    BY <1>2, <2>2, <2>4, <2>6 DEF TypeOK, EngineTypeOK, Views
<1> QED
  BY <1>3, <1>4 DEF Start

(* Reading, applying and recording keep the types.                         *)
LEMMA PlanTypeOK ==
    ASSUME TypeOK, NEW p \in Proc, ReadLedger(p) \/ ApplyMigration(p) \/ RecordReceipt(p),
           UNCHANGED <<writer, snapshot>>
    PROVE  TypeOK'
<1>1. Current(p) \in Bundle /\ call[p].release \in Release
  BY CurrentBundle DEF ReadLedger, ApplyMigration, RecordReceipt
<1>2. /\ UNCHANGED <<db, call, at, calls>>
      /\ UNCHANGED <<tables, stamps, rows, effects>>
      /\ pc[p] \notin {"idle", "unwind"}
  BY DEF ReadLedger, ApplyMigration, RecordReceipt, db
<1>3. DatabaseTypeOK' /\ EngineTypeOK'
  BY <1>2, TypeParts DEF SessionTypeOK, DatabaseTypeOK, EngineTypeOK
<1>4. DOMAIN Bundled(p) \subseteq Version
  BY <1>1, DeclaredBundles DEF Bundled
<1>5. \A q \in Proc : Bundled(q)' = Bundled(q)
  BY <1>2 DEF Bundled, Current
<1>6. /\ SessionTypeOK
      /\ pc \in [Proc -> Await] /\ pending \in [Proc -> SUBSET Version] /\ tx \in [Proc -> Writes]
      /\ \A q \in Proc : pc[q] \in {"apply", "record"} => pending[q] \subseteq DOMAIN Bundled(q)
  BY DEF TypeOK, SessionTypeOK
<1>7. /\ Moves(p, {"apply", "record", "unwind"})
      /\ pending' \in [Proc -> SUBSET Version]
      /\ tx' \in [Proc -> Writes]
      /\ \A q \in Proc : pc'[q] \in {"apply", "record"} => pending'[q] \subseteq DOMAIN Bundled(q)
  <2>1. CASE ReadLedger(p)
    <3>1. /\ Moves(p, {"apply", "unwind"})
          /\ \E planned \in SUBSET DOMAIN Bundled(p) :
                pending' = [pending EXCEPT ![p] = planned]
          /\ UNCHANGED tx
      BY <1>6, <2>1, ReadLedgerType DEF ReadLedger
    <3> QED
      BY <1>4, <1>6, <3>1 DEF Moves
  <2>2. CASE ApplyMigration(p)
    <3>1. pc[p] = "apply" /\ Moves(p, {"record"}) /\ tx' \in [Proc -> Writes] /\ pending' = pending
      BY <1>1, <1>6, <2>2, ApplyMigrationType DEF ApplyMigration
    <3> QED
      BY <1>6, <3>1 DEF Moves
  <2>3. CASE RecordReceipt(p)
    <3>1. /\ pc[p] = "record" /\ Moves(p, {"apply", "unwind"}) /\ tx' \in [Proc -> Writes]
          /\ \E planned \in SUBSET pending[p] : pending' = [pending EXCEPT ![p] = planned]
      BY <1>1, <1>6, <2>3, RecordReceiptType DEF RecordReceipt
    <3> QED
      BY <1>6, <3>1 DEF Moves
  <2> QED
    BY <2>1, <2>2, <2>3
<1>8. pc' \in [Proc -> Await]
  BY <1>6, <1>7 DEF Moves, Await, Writing
<1>9. \A q \in Proc : pc'[q] \notin {"idle", "unwind"} => at'[q] <= Len(call'[q].bundles)
  BY <1>2, <1>6, <1>7 DEF Moves, TypeOK
<1>10. SessionTypeOK'
  BY <1>2, <1>3, <1>5, <1>6, <1>7 DEF Moves, SessionTypeOK
<1> QED
  BY <1>3, <1>8, <1>9, <1>10 DEF TypeOK, EngineTypeOK, Views

(* So does a read of verify_bundle.                                        *)
LEMMA VerifyBundleTypeOK ==
    ASSUME TypeOK, NEW p \in Proc, VerifyBundle(p)
    PROVE  TypeOK'
<1> SessionTypeOK /\ tx \in [Proc -> Writes] /\ DatabaseTypeOK /\ EngineTypeOK
  BY TypeParts DEF SessionTypeOK
<1> {"verify_version", "verify_plan", "unwind"} \subseteq Places
  BY DEF Places, Await, Verifying
<1>0. EngineTypeOK'
  BY ViewTypes DEF VerifyBundle, VerifyPresenceIn, VerifyVersion, VerifyPlan, EngineTypeOK
<1>1. CASE VerifyPresenceIn(p)
  <2>1. VerifyPresence(tables) \in Outcome
    BY DEF VerifyPresence, Outcome
  <2>2. Moves(p, {"verify_version", "unwind"})
    BY <1>1, <2>1, CheckMoves DEF VerifyPresenceIn
  <2> QED
    BY <1>0, <1>1, <2>2, ControlStep DEF VerifyPresenceIn
<1>2. CASE VerifyVersion(p)
  <2>1. AssertLedgerVersion(snapshot[p].stamps) \in Outcome
    BY AssertLedgerVersionType DEF Outcome
  <2>2. Moves(p, {"verify_plan", "unwind"})
    BY <1>2, <2>1, CheckMoves DEF VerifyVersion
  <2> QED
    BY <1>0, <1>2, <2>2, ControlStep DEF VerifyVersion
<1>3. CASE VerifyPlan(p)
  <2> DEFINE recorded == AppliedVersions(snapshot[p].rows, Current(p))
             verdict == PlanError(Bundled(p), recorded, DIALECT)
  <2>1. verdict \in Outcome /\ "PendingMigration" \in Outcome
    BY PlanErrorType DEF Outcome
  <2>2. \/ Fail(p, verdict) /\ UNCHANGED at
        \/ Fail(p, "PendingMigration") /\ UNCHANGED at
        \/ Enter(p, call[p], at[p] + 1) /\ UNCHANGED applied
    BY <1>3 DEF VerifyPlan
  <2>3. CASE (Fail(p, verdict) \/ Fail(p, "PendingMigration")) /\ UNCHANGED at
    <3>1. Moves(p, {"unwind"})
      BY <2>1, <2>3, FailMoves
    <3> QED
      BY <1>0, <1>3, <2>3, <3>1, ControlStep DEF VerifyPlan
  <2>4. CASE Enter(p, call[p], at[p] + 1) /\ UNCHANGED applied
    BY <1>0, <1>3, <2>4, NextBundle DEF VerifyPlan
  <2> QED
    BY <2>2, <2>3, <2>4
<1> QED
  BY <1>1, <1>2, <1>3 DEF VerifyBundle

(* Every step keeps the types.                                             *)
LEMMA StepTypeOK == TypeOK /\ [Next]_vars => TypeOK'
<1> SUFFICES ASSUME TypeOK, [Next]_vars PROVE TypeOK'
  OBVIOUS
<1> SessionTypeOK /\ EngineTypeOK /\ tx \in [Proc -> Writes] /\ pc \in [Proc -> Await]
  BY TypeParts DEF SessionTypeOK
<1> {"probe", "create", "stamp", "read_ledger", "idle", "unwind"} \subseteq Places
  BY DEF Places, Await, Writing
<1> USE DEF EngineTypeOK
<1>1. CASE UNCHANGED vars
  BY <1>1 DEF vars, db, session, TypeOK, SessionTypeOK, DatabaseTypeOK, Bundled, Current
<1>2. ASSUME NEW p \in Proc, NEW c \in Calls, Start(p, c) PROVE TypeOK'
  BY <1>2, StartTypeOK
<1>3. ASSUME NEW p \in Proc, BeginImmediate(p) PROVE TypeOK'
  <2>1. Moves(p, {"probe"})
    BY <1>3, GotoMoves DEF BeginImmediate
  <2> QED
    BY <1>3, <2>1, ControlStep DEF BeginImmediate
<1>4. ASSUME NEW p \in Proc, BusyTimeout(p) PROVE TypeOK'
  <2>1. applied' \in [Proc -> SUBSET Receipt]
    BY <1>4 DEF BusyTimeout, SessionTypeOK
  <2>2. Moves(p, {"idle"})
    BY <1>4, <2>1, ReturnMoves DEF BusyTimeout, Outcome
  <2> QED
    BY <1>4, <2>2, ControlStep DEF BusyTimeout
<1>5. ASSUME NEW p \in Proc, ProbeLedger(p) PROVE TypeOK'
  <2>1. Moves(p, {"create", "stamp", "unwind"})
    BY <1>5, GotoMoves, FailMoves DEF ProbeLedger, Moves, Outcome
  <2> QED
    BY <1>5, <2>1, ControlStep DEF ProbeLedger
<1>6. ASSUME NEW p \in Proc, AssertLedgerVersionIn(p) PROVE TypeOK'
  <2>1. AssertLedgerVersion(stamps \o tx[p].stamps) \in Outcome
    BY AssertLedgerVersionType DEF Outcome
  <2>2. Moves(p, {"read_ledger", "unwind"})
    BY <1>6, <2>1, CheckMoves DEF AssertLedgerVersionIn
  <2> QED
    BY <1>6, <2>2, ControlStep DEF AssertLedgerVersionIn
<1>7. ASSUME NEW p \in Proc, CreateStatement(p), UNCHANGED <<writer, snapshot>> PROVE TypeOK'
  <2>1. Moves(p, {"create", "stamp", "unwind"}) /\ tx' \in [Proc -> Writes]
    BY <1>7, CreateStatementType
  <2> QED
    BY <1>7, <2>1, ControlStep DEF CreateStatement
<1>8. ASSUME NEW p \in Proc, CommitBundle(p) PROVE TypeOK'
  <2>1. DatabaseTypeOK' /\ tx' \in [Proc -> Writes] /\ EngineTypeOK'
    BY <1>8, PublishType DEF CommitBundle, FreeWriter
  <2>2. CASE Enter(p, call[p], at[p] + 1) /\ UNCHANGED applied
    BY <1>8, <2>1, <2>2, NextBundle DEF CommitBundle
  <2>3. CASE AcknowledgementLost(p) /\ UNCHANGED at
    <3>1. Moves(p, {"idle"})
      BY <2>3, LostMoves
    <3> QED
      BY <1>8, <2>1, <2>3, <3>1, ControlStep DEF CommitBundle
  <2> QED
    BY <1>8, <2>2, <2>3 DEF CommitBundle
<1>9. ASSUME NEW p \in Proc, VerifyBundle(p) PROVE TypeOK'
  BY <1>9, VerifyBundleTypeOK
<1>10. ASSUME NEW p \in Proc, Unwind(p) PROVE TypeOK'
  <2>1. /\ pc' = [pc EXCEPT ![p] = "idle"]
        /\ tx' = [tx EXCEPT ![p] = NoWrites]
        /\ pending' = [pending EXCEPT ![p] = {}]
        /\ UNCHANGED <<tables, stamps, rows, effects, call, at, applied, result, calls>>
    BY <1>10 DEF Unwind, Rollback, db
  <2>2. \A q \in Proc :
           pc'[q] \in {"apply", "record"} => pending'[q] \subseteq DOMAIN Bundled(q)'
    BY <2>1 DEF SessionTypeOK, Bundled, Current
  <2>3. SessionTypeOK'
    BY <2>1, <2>2, NoWritesType DEF SessionTypeOK, DatabaseTypeOK
  <2>4. EngineTypeOK'
    BY <1>10, ViewTypes DEF Unwind, FreeWriter
  <2> QED
    BY <2>1, <2>3, <2>4 DEF TypeOK, Await, Views
<1>11. ASSUME NEW p \in Proc, LoseBackend(p) PROVE TypeOK'
  <2>1. Moves(p, {"unwind"})
    BY <1>11, FailMoves DEF LoseBackend, BackendError, Outcome
  <2> QED
    BY <1>11, <2>1, ControlStep DEF LoseBackend, BackendError
<1>12. ASSUME NEW p \in Proc, ReadLedger(p) \/ ApplyMigration(p) \/ RecordReceipt(p),
              UNCHANGED <<writer, snapshot>>
       PROVE  TypeOK'
  BY <1>12, PlanTypeOK
<1> QED
  BY <1>1, <1>2, <1>3, <1>4, <1>5, <1>6, <1>7, <1>8, <1>9, <1>10, <1>11, <1>12
     DEF Next, Step, RunBundle, ApplyPlan, Quiescent, vars

(* Every reachable state is well typed: in particular a process inside     *)
(* run_bundle or verify_bundle is at a bundle of its call, and its plan    *)
(* holds only versions its release declares.                               *)
THEOREM TypeCorrect == Spec => []TypeOK
BY InitTypeOK, StepTypeOK, PTL DEF Spec

-----------------------------------------------------------------------------
(* The inductive invariant.                                                *)

(* BEGIN IMMEDIATE comes first: from the probe to the commit, the process  *)
(* holds the write lock.                                                   *)
HoldsWriter(p) == pc[p] \in Writing => writer = p

(* What the bootstrap has established by the time the plan is read: the    *)
(* ledger is complete and stamped with this generation, all of it found or *)
(* all of it created.  Nothing is written outside the transaction.         *)
BootstrapSound(p) ==
    /\ pc[p] \notin (Writing \ {"probe"}) \cup {"unwind"} =>
          tx[p].tables = {} /\ tx[p].stamps = <<>>
    /\ pc[p] = "create" => tables = {} /\ tx[p].stamps = <<>>
    /\ pc[p] = "stamp" =>
          /\ tables \cup tx[p].tables = LedgerTables
          /\ tx[p].tables # {} => tables = {}
          /\ tx[p].tables = {} => tx[p].stamps = <<>>
    /\ pc[p] \in {"read_ledger", "apply", "record"} => LedgerReady(p)

(* What a snapshot shows was committed, and receipts are never removed.    *)
SeesThePast(p) ==
    pc[p] \in {"verify_version", "verify_plan"} => snapshot[p].rows \subseteq rows

Inv ==
    /\ TypeOK
    /\ LedgerInv
    /\ \A p \in Proc : /\ HoldsWriter(p) /\ BootstrapSound(p) /\ FollowsPlan(p)
                       /\ SeesThePast(p) /\ KeepsPromise(p)
    /\ NoRunnerConflict

(* It holds initially: nobody is in a call.                                *)
LEMMA InitInv == Init => Inv
<1> SUFFICES ASSUME Init PROVE Inv
  OBVIOUS
<1>1. LedgerMatchesSchema
  BY DatabaseAssumption DEF Init, InitSession, InitDatabase, IsDatabase, LedgerMatchesSchema
<1>2. \A p \in Proc : pc[p] = "idle" /\ tx[p] = NoWrites /\ result[p] = "none"
  BY DEF Init, InitSession
<1>3. \A p \in Proc : PlanSound(p) /\ HoldsWriter(p) /\ BootstrapSound(p)
  BY <1>2 DEF PlanSound, Planning, HoldsWriter, BootstrapSound, NoWrites, Writing
<1>4. \A p \in Proc : FollowsPlan(p) /\ SeesThePast(p) /\ KeepsPromise(p)
  BY <1>2 DEF FollowsPlan, Planning, SeesThePast, KeepsPromise
<1> QED
  BY <1>1, <1>2, <1>3, <1>4, InitTypeOK DEF Inv, LedgerInv, NoRunnerConflict

(* Two processes are never in their write transactions together.           *)
LEMMA Exclusion ==
    ASSUME Inv, NEW p \in Proc, NEW q \in Proc \ {p}, pc[p] \in Writing
    PROVE  pc[q] \notin Writing
BY DEF Inv, HoldsWriter

-----------------------------------------------------------------------------
(* The shape of each step, for the lemmas of the session.                  *)

(* The steps that handle no plan, and those that carry one out.            *)
Controls(p) ==
    \/ \E c \in Calls : Start(p, c)
    \/ BeginImmediate(p) \/ BusyTimeout(p) \/ ProbeLedger(p)
    \/ CreateStatement(p) /\ UNCHANGED <<writer, snapshot>>
    \/ AssertLedgerVersionIn(p) \/ VerifyBundle(p) \/ Unwind(p) \/ LoseBackend(p)

Plans(p) == CarriesOut(p) /\ UNCHANGED <<writer, snapshot>>

(* Nothing happens to anybody else.                                        *)
Elsewhere(p) ==
    \A q \in Proc \ {p} :
        /\ Still(q) /\ result'[q] = result[q] /\ snapshot'[q] = snapshot[q]
        /\ writer = q => writer' = q

(* Every step is one of these, a commit, or a stutter.                     *)
LEMMA StepKinds ==
    [Next]_vars => \/ UNCHANGED vars
                   \/ \E p \in Proc : Controls(p) \/ Plans(p) \/ CommitBundle(p)
BY DEF Next, Step, RunBundle, ApplyPlan, Quiescent, vars, Controls, Plans, CarriesOut

(* Controls, as what it does.                                              *)
LEMMA ControlsQuietly ==
    ASSUME Inv, NEW p \in Proc, Controls(p)
    PROVE  OutsidePlan(p) /\ Elsewhere(p) /\ UNCHANGED <<tables, stamps>>
<1>1. /\ pc \in [Proc -> Await] /\ result \in [Proc -> Outcome] /\ tx \in [Proc -> Writes]
      /\ call \in [Proc -> Calls] /\ at \in [Proc -> Version] /\ pending \in [Proc -> SUBSET Version]
      /\ snapshot \in [Proc -> Views]
  BY DEF Inv, TypeOK, SessionTypeOK, Views
<1> USE DEF OutsidePlan, Elsewhere, Still, Planning, db, Check, Goto, Fail, Return
<1> DEFINE Q == OutsidePlan(p) /\ Elsewhere(p) /\ UNCHANGED <<tables, stamps>>
<1>2. ASSUME NEW c \in Calls, Start(p, c) PROVE Q
  BY <1>1, <1>2 DEF Start, Enter
<1>3. CASE BeginImmediate(p)
  BY <1>1, <1>3, NoProcAssumption DEF BeginImmediate
<1>4. CASE BusyTimeout(p)
  BY <1>1, <1>4 DEF BusyTimeout
<1>5. CASE ProbeLedger(p)
  BY <1>1, <1>5 DEF ProbeLedger
<1>6. CASE CreateStatement(p) /\ UNCHANGED <<writer, snapshot>>
  <2>1. pc[p] = "create" /\ UNCHANGED <<tables, stamps, rows, effects, call, at, pending>>
    BY <1>6 DEF CreateStatement
  <2>2. /\ \/ pc' = pc
           \/ pc' = [pc EXCEPT ![p] = "stamp"]
           \/ pc' = [pc EXCEPT ![p] = "unwind"]
        /\ \E a : result' = [result EXCEPT ![p] = a]
        /\ \E w : tx' = [tx EXCEPT ![p] = w]
    <3>1. ASSUME NEW t, CreateTable(p, t)
          PROVE  /\ pc' = pc \/ pc' = [pc EXCEPT ![p] = "unwind"]
                 /\ \E a : result' = [result EXCEPT ![p] = a]
                 /\ \E w : tx' = [tx EXCEPT ![p] = w]
      BY <1>1, <3>1 DEF CreateTable
    <3> QED
      BY <1>1, <1>6, <3>1 DEF CreateStatement
  <2> QED
    BY <1>1, <1>6, <2>1, <2>2
<1>7. CASE AssertLedgerVersionIn(p)
  BY <1>1, <1>7 DEF AssertLedgerVersionIn
<1>8. CASE VerifyBundle(p)
  BY <1>1, <1>8 DEF VerifyBundle, VerifyPresenceIn, VerifyVersion, VerifyPlan, Enter
<1>9. CASE Unwind(p)
  BY <1>1, <1>9 DEF Unwind, Rollback, FreeWriter
<1>10. CASE LoseBackend(p)
  BY <1>1, <1>10 DEF LoseBackend, BackendError
<1> QED
  BY <1>2, <1>3, <1>4, <1>5, <1>6, <1>7, <1>8, <1>9, <1>10 DEF Controls

(* run_bundle's bootstrap: what the process knows of the ledger is true,   *)
(* its own transaction included, and CREATE TABLE is never refused.        *)
LEMMA ControlsSoundly ==
    ASSUME Inv, NEW p \in Proc, Controls(p)
    PROVE  /\ HoldsWriter(p)' /\ BootstrapSound(p)' /\ SeesThePast(p)'
           /\ pc'[p] = "unwind" \/ (tx'[p].rows = {} /\ tx'[p].effects = {})
           /\ result'[p] \notin {"AlreadyExists", "DuplicateKey"}
<1>1. /\ pc \in [Proc -> Await] /\ result \in [Proc -> Outcome] /\ tx \in [Proc -> Writes]
      /\ tx[p] \in Writes /\ stamps \in Seq(Nat) /\ snapshot \in [Proc -> Views]
      /\ HoldsWriter(p) /\ BootstrapSound(p) /\ SeesThePast(p) /\ PlanSound(p)
      /\ result[p] \notin {"AlreadyExists", "DuplicateKey"}
  BY DEF Inv, TypeOK, SessionTypeOK, DatabaseTypeOK, Views, LedgerInv, NoRunnerConflict
<1>2. UNCHANGED <<tables, stamps, rows>>
  BY ControlsQuietly DEF OutsidePlan
<1>3. tx[p].stamps = <<>> => stamps \o tx[p].stamps = stamps
  BY <1>1
<1> DEFINE S == /\ HoldsWriter(p)' /\ BootstrapSound(p)' /\ SeesThePast(p)'
                /\ pc'[p] = "unwind" \/ (tx'[p].rows = {} /\ tx'[p].effects = {})
                /\ result'[p] \notin {"AlreadyExists", "DuplicateKey"}
<1> USE DEF HoldsWriter, BootstrapSound, SeesThePast, PlanSound, Writing, Check, Goto, Fail, Return
<1>4. ASSUME NEW c \in Calls, Start(p, c) PROVE S
  BY <1>1, <1>2, <1>4 DEF Start, Enter
<1>5. CASE BeginImmediate(p)
  BY <1>1, <1>2, <1>5 DEF BeginImmediate
<1>6. CASE BusyTimeout(p)
  BY <1>1, <1>2, <1>6 DEF BusyTimeout
<1>7. CASE ProbeLedger(p)
  BY <1>1, <1>2, <1>7 DEF ProbeLedger, BootstrapAction
<1>8. CASE CreateStatement(p) /\ UNCHANGED <<writer, snapshot>>
  <2>1. pc[p] = "create" /\ tables = {} /\ tx[p].rows = {} /\ tx[p].effects = {}
    BY <1>1, <1>8 DEF CreateStatement
  <2>2. ASSUME NEW t, CreateTable(p, t) PROVE S
    <3>1. /\ tx' = [tx EXCEPT ![p].tables = @ \cup {t}]
          /\ UNCHANGED <<pc, result>>
      BY <2>1, <2>2 DEF CreateTable
    <3> QED
      BY <1>1, <1>2, <1>8, <2>1, <3>1 DEF Writes
  <2>3. CASE /\ tx[p].tables = LedgerTables
             /\ tx' = [tx EXCEPT ![p].stamps = Append(@, LEDGER_VERSION)]
             /\ Goto(p, "stamp")
    BY <1>1, <1>2, <1>8, <2>1, <2>3 DEF Writes, LedgerTables
  <2> QED
    BY <1>8, <2>2, <2>3 DEF CreateStatement
<1>9. CASE AssertLedgerVersionIn(p)
  <2>1. stamps \o tx[p].stamps \in Seq(Nat)
    BY <1>1 DEF Writes
  <2>2. AssertLedgerVersion(stamps \o tx[p].stamps) \notin {"AlreadyExists", "DuplicateKey"}
    BY AssertLedgerVersionType
  <2> QED
    BY <1>1, <1>2, <1>9, <2>1, <2>2, OneStamp DEF AssertLedgerVersionIn, LedgerReady
<1>10. CASE VerifyBundle(p)
  <2>1. /\ VerifyPresence(tables) \notin {"AlreadyExists", "DuplicateKey"}
        /\ AssertLedgerVersion(snapshot[p].stamps) \notin {"AlreadyExists", "DuplicateKey"}
        /\ \A known : PlanError(Bundled(p), known, DIALECT) \notin {"AlreadyExists", "DuplicateKey"}
    BY AssertLedgerVersionType, PlanErrorType DEF VerifyPresence
  <2>2. CASE VerifyPresenceIn(p)
    BY <1>1, <1>2, <2>1, <2>2 DEF VerifyPresenceIn
  <2>3. CASE VerifyVersion(p)
    BY <1>1, <1>2, <2>1, <2>3 DEF VerifyVersion
  <2>4. CASE VerifyPlan(p)
    BY <1>1, <1>2, <2>1, <2>4 DEF VerifyPlan, Enter
  <2> QED
    BY <1>10, <2>2, <2>3, <2>4 DEF VerifyBundle
<1>11. CASE Unwind(p)
  BY <1>1, <1>2, <1>11 DEF Unwind, Rollback, NoWrites
<1>12. CASE LoseBackend(p)
  BY <1>1, <1>2, <1>12 DEF LoseBackend, BackendError
<1> QED
  BY <1>4, <1>5, <1>6, <1>7, <1>8, <1>9, <1>10, <1>11, <1>12 DEF Controls

(* A step that handles no plan reports no success, except when             *)
(* verify_bundle found the last bundle complete and for a call without     *)
(* bundles.                                                                *)
LEMMA ControlsPromise ==
    ASSUME Inv, NEW p \in Proc, Controls(p)
    PROVE  KeepsPromise(p)'
<1>1. /\ pc \in [Proc -> Await] /\ result \in [Proc -> Outcome] /\ KeepsPromise(p)
      /\ call \in [Proc -> Calls] /\ at \in [Proc -> Version]
      /\ rows \subseteq rows'
  BY ControlsQuietly DEF Inv, TypeOK, SessionTypeOK, OutsidePlan
<1> USE DEF Check, Goto, Fail, Return
<1>2. ASSUME NEW c \in Calls, Start(p, c) PROVE KeepsPromise(p)'
  <2>1. at'[p] = 1 /\ call'[p] = c
    BY <1>1, <1>2 DEF Start, Enter
  <2>2. result'[p] = "ok" => 1 > Len(c.bundles)
    BY <1>1, <1>2 DEF Start, Enter
  <2>3. \A j \in DOMAIN c.bundles : ~ (j < 1)
    <3>1. c.bundles \in Seq(Bundle)
      BY SessionAssumption DEF Call
    <3> QED
      BY <3>1
  <2>4. 1 \in Version
    BY DEF Version
  <2> QED
    BY <2>1, <2>2, <2>3, <2>4, PromiseEnter
<1>3. CASE BeginImmediate(p)
  BY <1>1, <1>3, PromiseFrame DEF BeginImmediate
<1>4. CASE BusyTimeout(p)
  BY <1>1, <1>4, PromiseFrame DEF BusyTimeout
<1>5. CASE ProbeLedger(p)
  BY <1>1, <1>5, PromiseFrame DEF ProbeLedger
<1>6. CASE CreateStatement(p) /\ UNCHANGED <<writer, snapshot>>
  <2>1. pc[p] = "create" /\ call'[p] = call[p] /\ at'[p] = at[p]
    BY <1>6 DEF CreateStatement
  <2>2. result'[p] = result[p] \/ result'[p] # "ok"
    BY <1>1, <1>6 DEF CreateStatement, CreateTable
  <2> QED
    BY <1>1, <2>1, <2>2, PromiseFrame
<1>7. CASE AssertLedgerVersionIn(p)
  BY <1>1, <1>7, PromiseFrame DEF AssertLedgerVersionIn
<1>8. CASE VerifyPresenceIn(p) \/ VerifyVersion(p)
  BY <1>1, <1>8, PromiseFrame DEF VerifyPresenceIn, VerifyVersion
<1>9. CASE VerifyPlan(p)
  <2> DEFINE recorded == AppliedVersions(snapshot[p].rows, Current(p))
  <2>1. pc[p] = "verify_plan" /\ call'[p] = call[p]
    BY <1>9 DEF VerifyPlan
  <2>2. CASE result'[p] # "ok" /\ at'[p] = at[p]
    BY <1>1, <2>1, <2>2, PromiseFrame
  <2>3. CASE /\ PlanError(Bundled(p), recorded, DIALECT) = "ok"
             /\ Pending(Bundled(p), recorded) = {}
             /\ Enter(p, call[p], at[p] + 1)
    <3>1. Current(p) \in Bundle /\ call[p].release \in Release
      BY <2>1, CurrentBundle DEF Inv
    <3>2. PICK r \in Release, b \in Bundle : r = call[p].release /\ b = Current(p)
      BY <3>1
    <3>3. snapshot[p].rows \in SUBSET rows
      BY <2>1 DEF Inv, SeesThePast
    <3>4. Complete(r, b)
      BY <2>3, <3>2, <3>3, VerifiedIsComplete DEF Bundled
    <3>5. Complete(r, b)'
      BY <1>1, <3>4, StaysComplete
    <3>6. at'[p] = at[p] + 1 /\ (result'[p] = "ok" => at[p] + 1 > Len(call[p].bundles))
      BY <1>1, <2>3 DEF Enter
    <3> QED
      BY <1>1, <2>1, <3>2, <3>5, <3>6, PromiseNext
  <2> QED
    BY <1>1, <1>9, <2>2, <2>3 DEF VerifyPlan
<1>10. CASE Unwind(p)
  BY <1>1, <1>10, PromiseFrame DEF Unwind, Rollback
<1>11. CASE LoseBackend(p)
  BY <1>1, <1>11, PromiseFrame DEF LoseBackend, BackendError
<1> QED
  BY <1>2, <1>3, <1>4, <1>5, <1>6, <1>7, <1>8, <1>9, <1>10, <1>11 DEF Controls, VerifyBundle

(* Reading, applying and recording stay inside the transaction.            *)
LEMMA PlansInside ==
    ASSUME Inv, NEW p \in Proc, Plans(p)
    PROVE  /\ Elsewhere(p) /\ UNCHANGED db /\ LedgerInv'
           /\ Current(p) \in Bundle /\ call[p].release \in Release
           /\ HoldsWriter(p)' /\ BootstrapSound(p)' /\ SeesThePast(p)' /\ KeepsPromise(p)'
           /\ result'[p] \notin {"AlreadyExists", "DuplicateKey"}
<1>1. /\ pc \in [Proc -> Await] /\ result \in [Proc -> Outcome] /\ tx \in [Proc -> Writes]
      /\ pending \in [Proc -> SUBSET Version] /\ tx[p] \in Writes /\ SessionTypeOK /\ LedgerInv
      /\ HoldsWriter(p) /\ BootstrapSound(p) /\ KeepsPromise(p)
  BY DEF Inv, TypeOK, SessionTypeOK
<1>2. /\ pc[p] \in {"read_ledger", "apply", "record"} /\ UNCHANGED <<call, at, writer, snapshot>>
      /\ UNCHANGED db /\ UNCHANGED <<tables, stamps, rows>>
  BY DEF Plans, CarriesOut, ReadLedger, ApplyMigration, RecordReceipt, db
<1>3. Current(p) \in Bundle /\ call[p].release \in Release
  BY <1>2, CurrentBundle DEF Inv
<1>4. PlanError(Bundled(p), AppliedVersions(rows \cup tx[p].rows, Current(p)), DIALECT)
         \notin {"AlreadyExists", "DuplicateKey"}
  BY PlanErrorType
<1>5. /\ LedgerInv' /\ Elsewhere(p)
      /\ pc'[p] \in {"apply", "record", "unwind"}
      /\ tx'[p].tables = tx[p].tables /\ tx'[p].stamps = tx[p].stamps
      /\ result'[p] \notin {"ok", "AlreadyExists", "DuplicateKey"}
  <2>1. CASE ReadLedger(p)
    <3>1. LedgerInv'
      BY <1>1, <2>1, ReadLedgerInv
    <3> QED
      BY <1>1, <1>2, <1>4, <2>1, <3>1 DEF ReadLedger, Check, Goto, Fail, Elsewhere, Still
  <2>2. CASE ApplyMigration(p)
    <3>1. LedgerInv'
      BY <1>1, <1>3, <2>2, ApplyMigrationInv
    <3> QED
      BY <1>1, <1>2, <2>2, <3>1 DEF ApplyMigration, Goto, Elsewhere, Still, Writes
  <2>3. CASE RecordReceipt(p)
    <3>1. LedgerInv' /\ Goto(p, "apply")
      BY <1>1, <1>3, <2>3, RecordReceiptInv
    <3> QED
      BY <1>1, <1>2, <2>3, <3>1 DEF RecordReceipt, Goto, Fail, Elsewhere, Still, Writes
  <2> QED
    BY <2>1, <2>2, <2>3 DEF Plans, CarriesOut
<1>6. HoldsWriter(p)' /\ BootstrapSound(p)' /\ SeesThePast(p)'
  BY <1>1, <1>2, <1>5 DEF HoldsWriter, BootstrapSound, SeesThePast, LedgerReady, Writing
<1>7. KeepsPromise(p)'
  BY <1>1, <1>2, <1>5, PromiseFrame
<1> QED
  BY <1>2, <1>3, <1>5, <1>6, <1>7

(* The commit publishes a finished plan on a ready ledger, nobody else     *)
(* being in a transaction, and completes its bundle whether or not the     *)
(* caller learns of it.                                                    *)
LEMMA CommitPublishes ==
    ASSUME Inv, NEW p \in Proc, CommitBundle(p)
    PROVE  /\ CommitsPlan(p) /\ Elsewhere(p) /\ LedgerInv'
           /\ rows \subseteq rows'
           /\ Ledger!ApplyBundle(p, call[p].release, Current(p))
           /\ Current(p) \in Bundle /\ call[p].release \in Release
           /\ HoldsWriter(p)' /\ BootstrapSound(p)' /\ SeesThePast(p)' /\ KeepsPromise(p)'
           /\ result'[p] \notin {"AlreadyExists", "DuplicateKey"}
<1>1. /\ pc \in [Proc -> Await] /\ result \in [Proc -> Outcome] /\ tx \in [Proc -> Writes]
      /\ call \in [Proc -> Calls] /\ at \in [Proc -> Version] /\ SessionTypeOK /\ LedgerInv
      /\ FollowsPlan(p) /\ BootstrapSound(p) /\ KeepsPromise(p)
  BY DEF Inv, TypeOK, SessionTypeOK
<1>2. /\ pc[p] = "apply" /\ pending[p] = {} /\ Publish(p) /\ rows \subseteq rows'
      /\ call'[p] = call[p] /\ snapshot' = snapshot
  BY DEF CommitBundle, Publish
<1>3. Current(p) \in Bundle /\ call[p].release \in Release
  BY <1>2, CurrentBundle DEF Inv
<1>4. /\ Elsewhere(p) /\ tx'[p] = NoWrites
      /\ pc'[p] \in {"idle", "begin", "verify_presence"}
      /\ result'[p] \notin {"AlreadyExists", "DuplicateKey"}
  BY <1>1, <1>2
     DEF CommitBundle, FreeWriter, Enter, Elsewhere, Still, Publish, Goto, Return,
         AcknowledgementLost
<1>5. CommitsPlan(p)
  <2>1. \A q \in Proc \ {p} : ~ Planning(q)
    BY <1>2, Exclusion DEF Writing, Planning
  <2> QED
    BY <1>2, <1>4, <2>1 DEF CommitsPlan, Planning, Elsewhere
<1>6. LedgerInv'
  BY <1>1, <1>4, <1>5, CommitInv DEF CommitsPlan
<1>7. Ledger!ApplyBundle(p, call[p].release, Current(p))
  BY <1>1, <1>2, <1>3, CommitApplies DEF BootstrapSound
<1>8. HoldsWriter(p)' /\ BootstrapSound(p)' /\ SeesThePast(p)'
  BY <1>4 DEF HoldsWriter, BootstrapSound, SeesThePast, NoWrites, Writing
<1>9. KeepsPromise(p)'
  <2>1. PICK r \in Release, b \in Bundle : r = call[p].release /\ b = Current(p)
    BY <1>3
  <2>2. Complete(r, b)'
    BY <1>1, <1>2, <2>1, CommitCompletes
  <2>3. CASE Enter(p, call[p], at[p] + 1)
    <3>1. at'[p] = at[p] + 1 /\ (result'[p] = "ok" => at[p] + 1 > Len(call[p].bundles))
      BY <1>1, <2>3 DEF Enter, Goto, Return
    <3> QED
      BY <1>1, <1>2, <2>1, <2>2, <3>1, PromiseNext
  <2>4. CASE AcknowledgementLost(p) /\ UNCHANGED at
    BY <1>1, <1>2, <2>4, PromiseFrame DEF AcknowledgementLost, Return
  <2> QED
    BY <2>3, <2>4 DEF CommitBundle
<1> QED
  BY <1>2, <1>3, <1>4, <1>5, <1>6, <1>7, <1>8, <1>9

-----------------------------------------------------------------------------
(* The induction, and the refinement.                                      *)

(* Nobody else's part of the invariant is disturbed: only the holder of    *)
(* the write lock changes the ledger, and receipts are only added.         *)
LEMMA ElsewhereInv ==
    ASSUME Inv, NEW p \in Proc, Elsewhere(p), rows \subseteq rows',
           pc[p] \in Writing \/ UNCHANGED <<tables, stamps>>,
           NEW q \in Proc \ {p}
    PROVE  /\ HoldsWriter(q)' /\ BootstrapSound(q)' /\ SeesThePast(q)' /\ KeepsPromise(q)'
           /\ result'[q] \notin {"AlreadyExists", "DuplicateKey"}
<1>1. /\ Still(q) /\ result'[q] = result[q] /\ snapshot'[q] = snapshot[q]
      /\ writer = q => writer' = q
      /\ HoldsWriter(q) /\ BootstrapSound(q) /\ SeesThePast(q) /\ KeepsPromise(q)
      /\ result[q] \notin {"AlreadyExists", "DuplicateKey"}
  BY DEF Elsewhere, Inv, NoRunnerConflict
<1>2. HoldsWriter(q)' /\ SeesThePast(q)'
  BY <1>1 DEF HoldsWriter, SeesThePast, Still
<1>3. BootstrapSound(q)'
  <2>1. CASE pc[p] \in Writing
    <3>1. pc[q] \notin Writing
      BY <2>1, Exclusion
    <3> QED
      BY <1>1, <3>1 DEF BootstrapSound, Still, Writing
  <2>2. CASE UNCHANGED <<tables, stamps>>
    BY <1>1, <2>2 DEF BootstrapSound, LedgerReady, Still
  <2> QED
    BY <2>1, <2>2
<1>4. KeepsPromise(q)'
  BY <1>1, PromiseStill
<1> QED
  BY <1>1, <1>2, <1>3, <1>4

(* What each kind of step does to the invariant and to the database, seen  *)
(* as the abstract ledger.                                                 *)
LEMMA StepInv == Inv /\ [Next]_vars => Inv' /\ [Ledger!Next]_Ledger!db
<1> SUFFICES ASSUME Inv, [Next]_vars PROVE Inv' /\ (Ledger!Next \/ UNCHANGED db)
  BY DEF db, Ledger!db
<1>1. /\ TypeOK' /\ SessionTypeOK /\ LedgerInv /\ pc \in [Proc -> Await]
      /\ \A q \in Proc : FollowsPlan(q)
  BY StepTypeOK DEF Inv, TypeOK
<1>2. ASSUME UNCHANGED vars PROVE Inv' /\ UNCHANGED db
  <2>1. /\ \A q \in Proc : Still(q) /\ result'[q] = result[q] /\ snapshot'[q] = snapshot[q]
        /\ UNCHANGED <<tables, stamps, rows, effects, writer>> /\ UNCHANGED db
    BY <1>2 DEF vars, db, session, Still
  <2>2. \A q \in Proc : FollowsPlan(q)'
    BY <1>1, <2>1, StillFollows
  <2>3. \A q \in Proc : KeepsPromise(q)'
    BY <2>1, PromiseStill DEF Inv
  <2>4. \A q \in Proc : PlanSound(q)'
    BY <1>1, <2>1, StillSound DEF LedgerInv
  <2>5. \A q \in Proc : HoldsWriter(q)' /\ BootstrapSound(q)' /\ SeesThePast(q)'
    BY <2>1 DEF Inv, HoldsWriter, BootstrapSound, SeesThePast, LedgerReady, Still
  <2>6. NoRunnerConflict' /\ LedgerMatchesSchema'
    BY <1>1, <2>1 DEF Inv, LedgerInv, NoRunnerConflict, LedgerMatchesSchema
  <2> QED
    BY <1>1, <2>1, <2>2, <2>3, <2>4, <2>5, <2>6 DEF Inv, LedgerInv
<1>3. ASSUME NEW p \in Proc, Controls(p) PROVE Inv' /\ UNCHANGED db
  <2>1. OutsidePlan(p) /\ Elsewhere(p) /\ UNCHANGED <<tables, stamps, rows, effects>>
    BY <1>3, ControlsQuietly DEF OutsidePlan
  <2>2. \A q \in Proc : FollowsPlan(q)'
    BY <1>1, <2>1, PlansFollowed
  <2>3. LedgerInv'
    BY <1>1, <1>3, <2>1, ControlsSoundly, LedgerInvFrame DEF OutsidePlan
  <2>4. /\ HoldsWriter(p)' /\ BootstrapSound(p)' /\ SeesThePast(p)' /\ KeepsPromise(p)'
        /\ result'[p] \notin {"AlreadyExists", "DuplicateKey"}
    BY <1>3, ControlsSoundly, ControlsPromise
  <2>5. \A q \in Proc \ {p} :
           /\ HoldsWriter(q)' /\ BootstrapSound(q)' /\ SeesThePast(q)' /\ KeepsPromise(q)'
           /\ result'[q] \notin {"AlreadyExists", "DuplicateKey"}
    BY <2>1, ElsewhereInv
  <2> QED
    BY <1>1, <2>1, <2>2, <2>3, <2>4, <2>5 DEF Inv, NoRunnerConflict, db
<1>4. ASSUME NEW p \in Proc, Plans(p) PROVE Inv' /\ UNCHANGED db
  <2>1. /\ Elsewhere(p) /\ UNCHANGED db /\ LedgerInv'
        /\ Current(p) \in Bundle /\ call[p].release \in Release
        /\ HoldsWriter(p)' /\ BootstrapSound(p)' /\ SeesThePast(p)' /\ KeepsPromise(p)'
        /\ result'[p] \notin {"AlreadyExists", "DuplicateKey"}
    BY <1>4, PlansInside
  <2>2. UNCHANGED <<tables, stamps, rows>>
    BY <2>1 DEF db
  <2>3. \A q \in Proc : FollowsPlan(q)'
    BY <1>1, <1>4, <2>1, PlansFollowed DEF Plans
  <2>4. \A q \in Proc \ {p} :
           /\ HoldsWriter(q)' /\ BootstrapSound(q)' /\ SeesThePast(q)' /\ KeepsPromise(q)'
           /\ result'[q] \notin {"AlreadyExists", "DuplicateKey"}
    BY <2>1, <2>2, ElsewhereInv
  <2> QED
    BY <1>1, <2>1, <2>3, <2>4 DEF Inv, NoRunnerConflict
<1>5. ASSUME NEW p \in Proc, CommitBundle(p) PROVE Inv' /\ Ledger!Next
  <2>1. /\ CommitsPlan(p) /\ Elsewhere(p) /\ LedgerInv'
        /\ rows \subseteq rows'
        /\ Ledger!ApplyBundle(p, call[p].release, Current(p))
        /\ Current(p) \in Bundle /\ call[p].release \in Release
        /\ HoldsWriter(p)' /\ BootstrapSound(p)' /\ SeesThePast(p)' /\ KeepsPromise(p)'
        /\ result'[p] \notin {"AlreadyExists", "DuplicateKey"}
    BY <1>5, CommitPublishes
  <2>2. \A q \in Proc : FollowsPlan(q)'
    BY <1>1, <2>1, PlansFollowed
  <2>3. pc[p] \in Writing
    BY <1>5 DEF CommitBundle, Writing
  <2>4. \A q \in Proc \ {p} :
           /\ HoldsWriter(q)' /\ BootstrapSound(q)' /\ SeesThePast(q)' /\ KeepsPromise(q)'
           /\ result'[q] \notin {"AlreadyExists", "DuplicateKey"}
    BY <2>1, <2>3, ElsewhereInv
  <2> QED
    BY <1>1, <2>1, <2>2, <2>4 DEF Inv, NoRunnerConflict, Ledger!Next
<1> QED
  BY <1>2, <1>3, <1>4, <1>5, StepKinds

(* The inductive invariant holds in every reachable state.                 *)
LEMMA Invariance == Spec => []Inv
<1>1. Inv /\ [Next]_vars => Inv'
  BY StepInv
<1> QED
  BY <1>1, InitInv, PTL DEF Spec

(* Whatever interleaving, failures, lost acknowledgements and retries:     *)
(* every committed receipt stands for exactly one execution of the body    *)
(* its checksum names, and no body took effect without one (run_bundle).   *)
THEOREM LedgerMatches == Spec => []LedgerMatchesSchema
<1>1. Inv => LedgerMatchesSchema
  BY DEF Inv, LedgerInv
<1> QED
  BY <1>1, Invariance, PTL

(* From the ledger read until the commit no other runner changes the       *)
(* receipts the plan was made from: the write lock is taken before the     *)
(* read (BEGIN IMMEDIATE).                                                 *)
THEOREM PlansAreFresh == Spec => []PlanStaysFresh
<1>1. Inv => PlanStaysFresh
  BY LedgerInvImpliesFresh DEF Inv
<1> QED
  BY <1>1, Invariance, PTL

(* No run ever fails because another run created the ledger or recorded    *)
(* the same migration.                                                     *)
THEOREM RunnersNeverConflict == Spec => []NoRunnerConflict
<1>1. Inv => NoRunnerConflict
  BY DEF Inv
<1> QED
  BY <1>1, Invariance, PTL

(* A caller told "ok" may rely on every migration its release declares     *)
(* being recorded with an accepted checksum, then and later, also when     *)
(* verify_bundle judged by a snapshot taken before others committed.       *)
THEOREM SuccessIsComplete == Spec => []SuccessMeansComplete
<1>1. Inv => SuccessMeansComplete
  BY PromiseMeansComplete DEF Inv
<1> QED
  BY <1>1, Invariance, PTL

(* run_bundle and verify_bundle implement the abstract ledger: run_bundle's *)
(* commit is ApplyBundle for its bundle, the ledger's creation included,    *)
(* and no other step touches the database.                                  *)
THEOREM RunnerImplementsLedger == Spec => ImplementsLedger
<1>1. Init => Ledger!InitDatabase
  BY InitLedger DEF Init
<1>2. Inv /\ [Next]_vars => [Ledger!Next]_Ledger!db
  BY StepInv
<1> QED
  BY <1>1, <1>2, Invariance, PTL DEF Spec, ImplementsLedger, Ledger!Spec

(* While releases only append, and the database was left by such releases, *)
(* no body of a bundle runs after one of a greater version.                *)
THEOREM BodiesRunInOrder ==
    ASSUME ReleasesAppend, FoundInOrder
    PROVE  Spec => []AppliedInOrder
BY RunnerImplementsLedger, LedgerKeepsOrder, PTL DEF ImplementsLedger
=============================================================================
