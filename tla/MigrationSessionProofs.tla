----------------------- MODULE MigrationSessionProofs -----------------------
(***************************************************************************)
(* Lemmas about what the runner shells share.  First the operators of      *)
(* MigrationPlan and MigrationDatabase on well-typed arguments, and the    *)
(* effect of a session's moves on the types of its variables.  Then how a  *)
(* session implements the abstract MigrationLedger: a transaction follows  *)
(* the plan it read, its commit is the abstract ApplyBundle, and what it   *)
(* leaves behind is complete for its release.  Last, what all of it takes  *)
(* for granted of the bundles a release declares: that whatever services   *)
(* author, only such bundles are built (BundleAuthoring).                  *)
(***************************************************************************)
EXTENDS MigrationSession, BundleAuthoring, FiniteSetTheorems, WellFoundedInduction, TLAPS

(* The migrations of a declared bundle are migrations, under versions.     *)
LEMMA DeclaredBundles ==
    ASSUME NEW r \in Release, NEW b \in Bundle
    PROVE  /\ DOMAIN Declared[r][b] \subseteq Version
           /\ \A v \in DOMAIN Declared[r][b] :
                 /\ SqlFor(r, b, v) \in Body
                 /\ ChecksumFor(v, Declared[r][b][v], DIALECT) \in Checksum
                 /\ ChecksumFor(v, Declared[r][b][v], DIALECT) = <<v, SqlFor(r, b, v)>>
<1>1. IsBundle(Declared[r][b]) /\ DIALECT \in Dialect
  BY DatabaseAssumption
<1>2. ASSUME NEW v \in DOMAIN Declared[r][b]
      PROVE  v \in Version /\ Declared[r][b][v].sql \in [Dialect -> Body]
  BY <1>1 DEF IsBundle, IsMigration, Migration
<1> QED
  BY <1>1, <1>2 DEF IsBundle, SqlFor, ChecksumFor, Checksum

(* plan() answers with one of its three verdicts.                          *)
LEMMA PlanErrorType ==
    ASSUME NEW bundle, NEW known, NEW dialect
    PROVE  PlanError(bundle, known, dialect)
               \in {"ok", "UnknownAppliedVersion", "ChecksumMismatch"}
BY DEF PlanError

(* The generation assertion answers with one of its three verdicts.        *)
LEMMA AssertLedgerVersionType ==
    ASSUME NEW s
    PROVE  AssertLedgerVersion(s)
               \in {"ok", "LedgerMetadataRowCount", "LedgerVersionMismatch"}
BY DEF AssertLedgerVersion, CheckLedgerVersion

(* Executing nothing is a well-typed transaction.                          *)
LEMMA NoWritesType == NoWrites \in Writes
BY DEF NoWrites, Writes

(* COMMIT publishes well-typed writes.                                     *)
LEMMA PublishType ==
    ASSUME SessionTypeOK, NEW p \in Proc, Publish(p)
    PROVE  DatabaseTypeOK' /\ tx' \in [Proc -> Writes]
<1>1. tx[p] \in Writes
  BY DEF SessionTypeOK
<1>2. stamps' \in Seq(Nat)
  BY <1>1 DEF SessionTypeOK, DatabaseTypeOK, Publish, Writes
<1>3. tables' \in SUBSET LedgerTables /\ rows' \in SUBSET Receipt
        /\ effects' \in SUBSET Effect
  BY <1>1 DEF SessionTypeOK, DatabaseTypeOK, Publish, Writes
<1> QED
  BY <1>2, <1>3, NoWritesType DEF SessionTypeOK, DatabaseTypeOK, Publish

-----------------------------------------------------------------------------
(* A step of p that changes its place to one of "places", its outcome and  *)
(* its report, and nothing else about the calls.                           *)

Moves(p, places) ==
    /\ \E a \in places : pc' = [pc EXCEPT ![p] = a]
    /\ result' \in [Proc -> Outcome]
    /\ applied' \in [Proc -> SUBSET Receipt]

(* Going on to an await moves p there.                                     *)
LEMMA GotoMoves ==
    ASSUME SessionTypeOK, NEW p \in Proc, NEW await, Goto(p, await), UNCHANGED applied
    PROVE  Moves(p, {await})
BY DEF Moves, Goto, SessionTypeOK, Outcome

(* Failing moves p to "unwind".                                            *)
LEMMA FailMoves ==
    ASSUME SessionTypeOK, NEW p \in Proc, NEW error \in Outcome, Fail(p, error)
    PROVE  Moves(p, {"unwind"})
BY DEF Moves, Fail, SessionTypeOK

(* Returning moves p to "idle".                                            *)
LEMMA ReturnMoves ==
    ASSUME SessionTypeOK, NEW p \in Proc, NEW outcome \in Outcome, Return(p, outcome),
           applied' \in [Proc -> SUBSET Receipt]
    PROVE  Moves(p, {"idle"})
BY DEF Moves, Return, SessionTypeOK

(* A check moves p on, or to "unwind".                                     *)
LEMMA CheckMoves ==
    ASSUME SessionTypeOK, NEW p \in Proc, NEW verdict \in Outcome, NEW await,
           Check(p, verdict, await)
    PROVE  Moves(p, {await, "unwind"})
BY GotoMoves, FailMoves DEF Check, Moves

(* A lost acknowledgement moves p to "idle".                               *)
LEMMA LostMoves ==
    ASSUME SessionTypeOK, NEW p \in Proc, AcknowledgementLost(p)
    PROVE  Moves(p, {"idle"})
BY DEF AcknowledgementLost, Moves, Return, SessionTypeOK, Outcome

-----------------------------------------------------------------------------
(* Executing and recording a migration of the current bundle.              *)

(* What run_bundle executes and what it records are well typed, and the    *)
(* receipt is the one that execution must leave behind.                    *)
LEMMA ExecutionType ==
    ASSUME SessionTypeOK, NEW p \in Proc, Current(p) \in Bundle,
           call[p].release \in Release, NEW v \in DOMAIN Bundled(p)
    PROVE  /\ Execution(p, v) \in Effect
           /\ NewReceipt(p, v) \in Receipt
           /\ NewReceipt(p, v) = ReceiptOf(Execution(p, v))
<1>1. /\ v \in Version
      /\ SqlFor(call[p].release, Current(p), v) \in Body
      /\ ChecksumFor(v, Bundled(p)[v], DIALECT) \in Checksum
      /\ ChecksumFor(v, Bundled(p)[v], DIALECT) = <<v, SqlFor(call[p].release, Current(p), v)>>
  BY DeclaredBundles DEF Bundled
<1>2. \A e \in effects \cup tx[p].effects : e.version \in Version
  BY DEF SessionTypeOK, DatabaseTypeOK, Writes, Effect
<1>3. Executed(p) \subseteq Version
  BY <1>2 DEF Executed
<1> QED
  BY <1>1, <1>3 DEF Execution, NewReceipt, ReceiptOf, Effect, Receipt, Writer

(* Each statement of the shells keeps the open transaction well typed.     *)
LEMMA WritesType ==
    ASSUME SessionTypeOK, NEW p \in Proc
    PROVE  /\ \A e \in Effect : [tx EXCEPT ![p].effects = @ \cup {e}] \in [Proc -> Writes]
           /\ \A x \in Receipt : [tx EXCEPT ![p].rows = @ \cup {x}] \in [Proc -> Writes]
           /\ \A t \in LedgerTables :
                 [tx EXCEPT ![p].tables = @ \cup {t}] \in [Proc -> Writes]
           /\ [tx EXCEPT ![p].stamps = Append(@, LEDGER_VERSION)] \in [Proc -> Writes]
<1>1. LEDGER_VERSION \in Nat
  BY DEF LEDGER_VERSION
<1>2. tx[p] \in Writes /\ tx \in [Proc -> Writes]
  BY DEF SessionTypeOK
<1>3. Append(tx[p].stamps, LEDGER_VERSION) \in Seq(Nat)
  BY <1>1, <1>2 DEF Writes
<1>4. [tx[p] EXCEPT !.stamps = Append(@, LEDGER_VERSION)] \in Writes
  BY <1>2, <1>3 DEF Writes
<1>5. \A e \in Effect : [tx[p] EXCEPT !.effects = @ \cup {e}] \in Writes
  BY <1>2 DEF Writes
<1>6. \A x \in Receipt : [tx[p] EXCEPT !.rows = @ \cup {x}] \in Writes
  BY <1>2 DEF Writes
<1>7. \A t \in LedgerTables : [tx[p] EXCEPT !.tables = @ \cup {t}] \in Writes
  BY <1>2 DEF Writes
<1> QED
  BY <1>2, <1>4, <1>5, <1>6, <1>7

(* The next migration to apply is a pending one.                           *)
LEMMA EarliestOf ==
    ASSUME NEW versions, NEW v \in Earliest(versions)
    PROVE  v \in versions /\ \A u \in versions : v <= u
BY DEF Earliest

(* plan() and the execution of its migrations keep the session typed.      *)
LEMMA ReadLedgerType ==
    ASSUME SessionTypeOK, NEW p \in Proc, ReadLedger(p)
    PROVE  /\ Moves(p, {"apply", "unwind"})
           /\ \E planned \in SUBSET DOMAIN Bundled(p) : pending' = [pending EXCEPT ![p] = planned]
<1> DEFINE recorded == AppliedVersions(rows \cup tx[p].rows, Current(p))
           verdict == PlanError(Bundled(p), recorded, DIALECT)
<1>1. verdict \in Outcome
  BY PlanErrorType DEF Outcome
<1>2. Check(p, verdict, "apply")
  BY DEF ReadLedger
<1>3. Moves(p, {"apply", "unwind"})
  BY <1>1, <1>2, CheckMoves
<1>4. Pending(Bundled(p), recorded) \subseteq DOMAIN Bundled(p)
  BY DEF Pending
<1> QED
  BY <1>3, <1>4 DEF ReadLedger

(* Executing a body keeps the types.                                       *)
LEMMA ApplyMigrationType ==
    ASSUME SessionTypeOK, NEW p \in Proc, Current(p) \in Bundle,
           call[p].release \in Release, ApplyMigration(p)
    PROVE  /\ Moves(p, {"record"})
           /\ tx' \in [Proc -> Writes]
           /\ pending' = pending
<1>1. PICK v \in Earliest(pending[p]) :
         tx' = [tx EXCEPT ![p].effects = @ \cup {Execution(p, v)}]
  BY DEF ApplyMigration
<1>2. v \in DOMAIN Bundled(p)
  BY EarliestOf DEF ApplyMigration, SessionTypeOK
<1>3. tx' \in [Proc -> Writes]
  BY <1>1, <1>2, ExecutionType, WritesType
<1> QED
  BY <1>3, GotoMoves DEF ApplyMigration

(* Recording a receipt keeps the types.                                    *)
LEMMA RecordReceiptType ==
    ASSUME SessionTypeOK, NEW p \in Proc, Current(p) \in Bundle,
           call[p].release \in Release, RecordReceipt(p)
    PROVE  /\ Moves(p, {"apply", "unwind"})
           /\ tx' \in [Proc -> Writes]
           /\ \E planned \in SUBSET pending[p] : pending' = [pending EXCEPT ![p] = planned]
<1>1. PICK v \in Earliest(pending[p]) :
         \/ /\ tx' = [tx EXCEPT ![p].rows = @ \cup {NewReceipt(p, v)}]
            /\ pending' = [pending EXCEPT ![p] = @ \ {v}]
            /\ applied' = [applied EXCEPT ![p] = @ \cup {NewReceipt(p, v)}]
            /\ Goto(p, "apply")
         \/ Fail(p, "DuplicateKey") /\ UNCHANGED <<tx, pending>>
  BY DEF RecordReceipt
<1>2. v \in DOMAIN Bundled(p)
  BY EarliestOf DEF RecordReceipt, SessionTypeOK
<1>3. NewReceipt(p, v) \in Receipt
  BY <1>2, ExecutionType
<1>4. CASE Goto(p, "apply")
             /\ tx' = [tx EXCEPT ![p].rows = @ \cup {NewReceipt(p, v)}]
             /\ pending' = [pending EXCEPT ![p] = @ \ {v}]
             /\ applied' = [applied EXCEPT ![p] = @ \cup {NewReceipt(p, v)}]
  <2>1. Moves(p, {"apply"})
    BY <1>3, <1>4 DEF Moves, Goto, SessionTypeOK, Outcome
  <2> QED
    BY <1>3, <1>4, <2>1, WritesType DEF Moves, SessionTypeOK
<1>5. CASE Fail(p, "DuplicateKey") /\ UNCHANGED <<tx, pending>>
  <2>1. Moves(p, {"unwind"})
    BY <1>5, FailMoves DEF Outcome
  <2>2. pending' = [pending EXCEPT ![p] = pending[p]]
    BY <1>5 DEF SessionTypeOK
  <2> QED
    BY <1>5, <2>1, <2>2 DEF Moves, SessionTypeOK
<1> QED
  BY <1>1, <1>4, <1>5

(* The bootstrap statements keep the session typed.                        *)
LEMMA CreateStatementType ==
    ASSUME SessionTypeOK, NEW S, pc \in [Proc -> S], NEW p \in Proc, CreateStatement(p)
    PROVE  Moves(p, {"create", "stamp", "unwind"}) /\ tx' \in [Proc -> Writes]
<1>1. ASSUME NEW t \in LedgerTables, CreateTable(p, t)
      PROVE  Moves(p, {"create", "unwind"}) /\ tx' \in [Proc -> Writes]
  <2>1. CASE tx' = [tx EXCEPT ![p].tables = @ \cup {t}] /\ UNCHANGED <<pc, applied, result>>
    <3>1. pc' = [pc EXCEPT ![p] = "create"]
      BY <2>1 DEF CreateStatement
    <3> QED
      BY <2>1, <3>1, WritesType DEF Moves, SessionTypeOK
  <2>2. CASE Fail(p, "AlreadyExists") /\ UNCHANGED tx
    <3>1. Moves(p, {"unwind"})
      BY <2>2, FailMoves DEF Outcome
    <3> QED
      BY <2>2, <3>1 DEF Moves, SessionTypeOK
  <2> QED
    BY <1>1, <2>1, <2>2 DEF CreateTable
<1>2. CASE /\ tx' = [tx EXCEPT ![p].stamps = Append(@, LEDGER_VERSION)]
           /\ Goto(p, "stamp")
           /\ UNCHANGED applied
  BY <1>2, WritesType, GotoMoves DEF Moves
<1> QED
  BY <1>1, <1>2 DEF CreateStatement, LedgerTables, Moves

-----------------------------------------------------------------------------
(* What holds of every transaction that carries out a plan, whichever      *)
(* shell runs it.                                                          *)

Planning(p) == pc[p] \in {"apply", "record"}

(* Only a plan, or a transaction on its way to rollback, has written.  A   *)
(* plan is fresh, writes to its own bundle, and each version at most once. *)
(* Between two migrations every body has its receipt; after a body has run *)
(* only its own is missing.                                                *)
PlanSound(p) ==
    /\ pc[p] \notin {"apply", "record", "unwind"} => tx[p].rows = {} /\ tx[p].effects = {}
    /\ Planning(p) =>
          /\ Pending(Bundled(p), AppliedVersions(rows, Current(p)))
                = pending[p] \cup Recorded(tx[p].rows)
          /\ pending[p] \cap Recorded(tx[p].rows) = {}
          /\ \A x \in tx[p].rows \cup tx[p].effects : x.bundle = Current(p)
          /\ \A e, f \in tx[p].effects : e.version = f.version => e = f
    /\ pc[p] = "apply" => tx[p].rows = {ReceiptOf(e) : e \in tx[p].effects}
    /\ pc[p] = "record" =>
          \E e \in tx[p].effects :
              /\ e.version \in Earliest(pending[p])
              /\ ReceiptOf(e) = NewReceipt(p, e.version)
              /\ tx[p].rows = {ReceiptOf(f) : f \in tx[p].effects \ {e}}

LedgerInv == LedgerMatchesSchema /\ \A p \in Proc : PlanSound(p)

(* The inductive invariant of the apply transaction yields PlanStaysFresh. *)
LEMMA LedgerInvImpliesFresh == LedgerInv => PlanStaysFresh
BY DEF LedgerInv, PlanSound, Planning, PlanStaysFresh

(* The process stands still.                                               *)
Still(q) ==
    /\ pc'[q] = pc[q] /\ call'[q] = call[q] /\ at'[q] = at[q]
    /\ pending'[q] = pending[q] /\ tx'[q] = tx[q]

(* Its plan stays sound as long as nobody writes to its bundle.            *)
LEMMA StillSound ==
    ASSUME NEW q \in Proc, PlanSound(q), Still(q),
           Planning(q) => AppliedVersions(rows', Current(q)) = AppliedVersions(rows, Current(q))
    PROVE  PlanSound(q)'
<1>1. /\ Planning(q)' = Planning(q)
      /\ Current(q)' = Current(q)
      /\ Bundled(q)' = Bundled(q)
      /\ \A v : NewReceipt(q, v)' = NewReceipt(q, v)
  BY DEF Still, Planning, Current, Bundled, NewReceipt
<1>2. Planning(q) =>
        (AppliedVersions(rows, Current(q)))' = AppliedVersions(rows, Current(q))
  BY <1>1
<1> QED
  BY <1>1, <1>2 DEF Still, PlanSound

(* A step outside any plan, or one that gives its plan up, leaves the      *)
(* ledger's invariant alone.                                               *)
LEMMA LedgerInvFrame ==
    ASSUME LedgerInv, NEW p \in Proc, \A q \in Proc \ {p} : Still(q),
           UNCHANGED <<rows, effects>>,
           ~ Planning(p)',
           pc'[p] = "unwind" \/ (tx'[p].rows = {} /\ tx'[p].effects = {})
    PROVE  LedgerInv'
<1>1. LedgerMatchesSchema'
  BY DEF LedgerInv, LedgerMatchesSchema
<1>2. PlanSound(p)'
  BY DEF PlanSound, Planning
<1>3. ASSUME NEW q \in Proc \ {p} PROVE PlanSound(q)'
  BY StillSound DEF LedgerInv
<1> QED
  BY <1>1, <1>2, <1>3 DEF LedgerInv

(* A plan has just been made.                                              *)
LEMMA ReadLedgerInv ==
    ASSUME SessionTypeOK, NEW S, pc \in [Proc -> S],
           LedgerInv, NEW p \in Proc, ReadLedger(p)
    PROVE  LedgerInv'
<1> DEFINE recorded == AppliedVersions(rows \cup tx[p].rows, Current(p))
           verdict == PlanError(Bundled(p), recorded, DIALECT)
<1>1. /\ pc[p] = "read_ledger" /\ tx[p].rows = {} /\ tx[p].effects = {}
      /\ UNCHANGED <<rows, effects, call, at, tx>>
  BY DEF ReadLedger, LedgerInv, PlanSound, db
<1>2. \A q \in Proc \ {p} : Still(q)
  BY DEF ReadLedger, Check, Goto, Fail, Still, SessionTypeOK
<1>3. CASE verdict # "ok"
  <2>1. pc'[p] = "unwind"
    BY <1>3 DEF ReadLedger, Check, Fail, SessionTypeOK
  <2> QED
    BY <1>1, <1>2, <2>1, LedgerInvFrame DEF Planning
<1>4. CASE verdict = "ok"
  <2>1. pc'[p] = "apply" /\ pending'[p] = Pending(Bundled(p), recorded)
    BY <1>4 DEF ReadLedger, Check, Goto, SessionTypeOK
  <2>2. recorded = AppliedVersions(rows, Current(p))
    BY <1>1
  <2>3. Current(p)' = Current(p) /\ Bundled(p)' = Bundled(p)
    BY <1>1 DEF Current, Bundled
  <2>4. Recorded(tx'[p].rows) = {}
    BY <1>1 DEF Recorded
  <2>5. PlanSound(p)'
    BY <1>1, <2>1, <2>2, <2>3, <2>4 DEF PlanSound, Planning
  <2>6. ASSUME NEW q \in Proc \ {p} PROVE PlanSound(q)'
    BY <1>1, <1>2, StillSound DEF LedgerInv
  <2> QED
    BY <1>1, <2>5, <2>6 DEF LedgerInv, LedgerMatchesSchema
<1> QED
  BY <1>3, <1>4

(* A body has just run: it had not run before in this transaction.         *)
LEMMA ApplyMigrationInv ==
    ASSUME SessionTypeOK, NEW S, pc \in [Proc -> S],
           LedgerInv, NEW p \in Proc, Current(p) \in Bundle, call[p].release \in Release,
           ApplyMigration(p)
    PROVE  LedgerInv'
<1>1. PICK v \in Earliest(pending[p]) :
         tx' = [tx EXCEPT ![p].effects = @ \cup {Execution(p, v)}]
  BY DEF ApplyMigration
<1> PICK e : e = Execution(p, v)
  OBVIOUS
<1>2. /\ pc[p] = "apply" /\ pc' = [pc EXCEPT ![p] = "record"]
      /\ UNCHANGED <<rows, effects, call, at, pending>>
  BY DEF ApplyMigration, Goto, db
<1>3. /\ v \in pending[p] /\ v \in DOMAIN Bundled(p)
      /\ tx \in [Proc -> Writes] /\ tx[p] \in Writes
  BY <1>2, EarliestOf DEF SessionTypeOK
<1>4. /\ e.version = v /\ e.bundle = Current(p)
      /\ ReceiptOf(e) = NewReceipt(p, v)
  BY <1>3, ExecutionType DEF Execution
<1>5. tx'[p].rows = tx[p].rows /\ tx'[p].effects = tx[p].effects \cup {e}
  BY <1>1, <1>3 DEF Writes
<1>6. PlanSound(p)
  BY DEF LedgerInv
<1>7. ASSUME NEW f \in tx[p].effects PROVE f.version # v
  <2>1. ReceiptOf(f) \in tx[p].rows
    BY <1>2, <1>6 DEF PlanSound
  <2>2. f.version \in Recorded(tx[p].rows)
    BY <2>1 DEF Recorded, ReceiptOf
  <2> QED
    BY <1>2, <1>3, <1>6, <2>2 DEF PlanSound, Planning
<1>8. pc'[p] = "record" /\ pending'[p] = pending[p]
  BY <1>2
<1>9. /\ Current(p)' = Current(p) /\ Bundled(p)' = Bundled(p)
      /\ NewReceipt(p, v)' = NewReceipt(p, v)
  BY <1>2 DEF Current, Bundled, NewReceipt
<1>10. PlanSound(p)'
  <2>1. /\ (Pending(Bundled(p), AppliedVersions(rows, Current(p))))'
              = (pending[p] \cup Recorded(tx[p].rows))'
        /\ (pending[p] \cap Recorded(tx[p].rows))' = {}
    BY <1>2, <1>5, <1>6, <1>8, <1>9 DEF PlanSound, Planning
  <2>2. \A x \in tx'[p].rows \cup tx'[p].effects : x.bundle = Current(p)'
    BY <1>2, <1>4, <1>5, <1>6, <1>9 DEF PlanSound, Planning
  <2>3. \A f, g \in tx'[p].effects : f.version = g.version => f = g
    BY <1>2, <1>4, <1>5, <1>6, <1>7 DEF PlanSound, Planning
  <2>4. tx'[p].rows = {ReceiptOf(f) : f \in tx'[p].effects \ {e}}
    <3>1. tx'[p].effects \ {e} = tx[p].effects
      BY <1>4, <1>5, <1>7
    <3> QED
      BY <1>2, <1>5, <1>6, <3>1 DEF PlanSound
  <2>5. /\ e \in tx'[p].effects
        /\ e.version \in Earliest(pending'[p])
        /\ ReceiptOf(e) = (NewReceipt(p, e.version))'
    BY <1>4, <1>5, <1>8, <1>9
  <2> QED
    BY <1>5, <1>8, <2>1, <2>2, <2>3, <2>4, <2>5 DEF PlanSound, Planning
<1>11. ASSUME NEW q \in Proc \ {p} PROVE PlanSound(q)'
  BY <1>1, <1>2, StillSound DEF LedgerInv, Still, SessionTypeOK
<1> QED
  BY <1>2, <1>10, <1>11 DEF LedgerInv, LedgerMatchesSchema

(* The receipt of the body that has just run is inserted, never refused.   *)
LEMMA RecordReceiptInv ==
    ASSUME SessionTypeOK, NEW S, pc \in [Proc -> S],
           LedgerInv, NEW p \in Proc, Current(p) \in Bundle, call[p].release \in Release,
           RecordReceipt(p)
    PROVE  LedgerInv' /\ Goto(p, "apply")
<1>1. PICK v \in Earliest(pending[p]) :
         \/ /\ tx' = [tx EXCEPT ![p].rows = @ \cup {NewReceipt(p, v)}]
            /\ pending' = [pending EXCEPT ![p] = @ \ {v}]
            /\ Goto(p, "apply")
         \/ \E x \in rows \cup tx[p].rows : SameKey(x, NewReceipt(p, v))
  BY DEF RecordReceipt
<1>2. pc[p] = "record" /\ UNCHANGED <<rows, effects, call, at>>
  BY DEF RecordReceipt, db
<1>3. PlanSound(p) /\ Planning(p)
  BY <1>2 DEF LedgerInv, Planning
<1>4. PICK e \in tx[p].effects :
         /\ e.version \in Earliest(pending[p])
         /\ ReceiptOf(e) = NewReceipt(p, e.version)
         /\ tx[p].rows = {ReceiptOf(f) : f \in tx[p].effects \ {e}}
  BY <1>2, <1>3 DEF PlanSound
<1>5. /\ v \in pending[p] /\ e.version \in pending[p]
      /\ pending \in [Proc -> SUBSET Version] /\ pending[p] \subseteq Version
      /\ tx \in [Proc -> Writes] /\ tx[p] \in Writes
  BY <1>4, EarliestOf DEF SessionTypeOK
<1>6. e.version = v
  <2>1. v <= e.version /\ e.version <= v
    BY <1>4, <1>5, EarliestOf
  <2> QED
    BY <1>5, <2>1 DEF Version
<1>7. /\ NewReceipt(p, v).bundle = Current(p) /\ NewReceipt(p, v).version = v
      /\ NewReceipt(p, v) = ReceiptOf(e)
  BY <1>4, <1>6 DEF NewReceipt
<1>8. ASSUME NEW x \in rows \cup tx[p].rows PROVE ~ SameKey(x, NewReceipt(p, v))
  <2> SUFFICES ASSUME x.bundle = Current(p), x.version = v PROVE FALSE
    BY <1>7 DEF SameKey
  <2>1. v \in Pending(Bundled(p), AppliedVersions(rows, Current(p)))
    BY <1>3, <1>5 DEF PlanSound
  <2>2. CASE x \in rows
    <3>1. v \in Recorded(AppliedVersions(rows, Current(p)))
      BY <2>2 DEF Recorded, AppliedVersions
    <3> QED
      BY <2>1, <3>1 DEF Pending
  <2>3. CASE x \in tx[p].rows
    BY <1>3, <1>5, <2>3 DEF PlanSound, Recorded
  <2> QED
    BY <2>2, <2>3
<1>9. /\ tx' = [tx EXCEPT ![p].rows = @ \cup {NewReceipt(p, v)}]
      /\ pending' = [pending EXCEPT ![p] = @ \ {v}]
      /\ Goto(p, "apply")
  BY <1>1, <1>8
<1>10. /\ tx'[p].rows = tx[p].rows \cup {ReceiptOf(e)}
       /\ tx'[p].effects = tx[p].effects
       /\ pending'[p] = pending[p] \ {v}
       /\ pc'[p] = "apply"
  BY <1>5, <1>7, <1>9 DEF Writes, Goto
<1>11. Current(p)' = Current(p) /\ Bundled(p)' = Bundled(p)
  BY <1>2 DEF Current, Bundled
<1>12. PlanSound(p)'
  <2>1. Recorded(tx'[p].rows) = Recorded(tx[p].rows) \cup {v}
    <3>1. ReceiptOf(e).version = v
      BY <1>6 DEF ReceiptOf
    <3> QED
      BY <1>10, <3>1 DEF Recorded
  <2>2. /\ (Pending(Bundled(p), AppliedVersions(rows, Current(p))))'
              = (pending[p] \cup Recorded(tx[p].rows))'
        /\ (pending[p] \cap Recorded(tx[p].rows))' = {}
    <3>1. /\ Pending(Bundled(p), AppliedVersions(rows, Current(p)))
                = pending[p] \cup Recorded(tx[p].rows)
          /\ pending[p] \cap Recorded(tx[p].rows) = {}
      BY <1>3 DEF PlanSound
    <3>2. (Pending(Bundled(p), AppliedVersions(rows, Current(p))))'
             = Pending(Bundled(p), AppliedVersions(rows, Current(p)))
      BY <1>2, <1>11
    <3>3. (Recorded(tx[p].rows))' = Recorded(tx[p].rows) \cup {v}
      BY <2>1
    <3>4. (pending[p])' = pending[p] \ {v} /\ v \in pending[p]
      BY <1>5, <1>10
    <3> QED
      BY <3>1, <3>2, <3>3, <3>4
  <2>3. \A x \in tx'[p].rows \cup tx'[p].effects : x.bundle = Current(p)'
    BY <1>3, <1>7, <1>10, <1>11 DEF PlanSound
  <2>4. \A f, g \in tx'[p].effects : f.version = g.version => f = g
    BY <1>3, <1>10 DEF PlanSound
  <2>5. tx'[p].rows = {ReceiptOf(f) : f \in tx'[p].effects}
    BY <1>4, <1>10
  <2> QED
    BY <1>10, <2>2, <2>3, <2>4, <2>5 DEF PlanSound, Planning
<1>13. ASSUME NEW q \in Proc \ {p} PROVE PlanSound(q)'
  BY <1>2, <1>5, <1>9, StillSound DEF LedgerInv, Still, Goto
<1> QED
  BY <1>2, <1>9, <1>12, <1>13 DEF LedgerInv, LedgerMatchesSchema

(* A bundle commits, nobody else planning for it: its receipts and bodies  *)
(* become visible together.                                                *)
LEMMA CommitInv ==
    ASSUME SessionTypeOK, LedgerInv, NEW p \in Proc,
           pc[p] = "apply", Publish(p),
           ~ Planning(p)', tx'[p] = NoWrites,
           \A q \in Proc \ {p} : Still(q),
           \A q \in Proc \ {p} : Planning(q) => Current(q) # Current(p)
    PROVE  LedgerInv'
<1>1. PlanSound(p) /\ Planning(p)
  BY DEF LedgerInv, Planning
<1>2. rows' = rows \cup tx[p].rows /\ effects' = effects \cup tx[p].effects
  BY DEF Publish
<1>3. tx[p].rows = {ReceiptOf(e) : e \in tx[p].effects}
  BY <1>1 DEF PlanSound
<1>4. rows = {ReceiptOf(e) : e \in effects}
  BY DEF LedgerInv, LedgerMatchesSchema, Matches
<1>5. rows' = {ReceiptOf(e) : e \in effects'}
  BY <1>2, <1>3, <1>4
<1>6. ASSUME NEW e \in effects, NEW f \in tx[p].effects,
             e.bundle = f.bundle, e.version = f.version
      PROVE  FALSE
  <2>1. ReceiptOf(e) \in AppliedVersions(rows, Current(p))
    BY <1>1, <1>4, <1>6 DEF PlanSound, AppliedVersions, ReceiptOf
  <2>2. e.version \in Recorded(AppliedVersions(rows, Current(p)))
    BY <2>1 DEF Recorded, ReceiptOf
  <2>3. f.version \in Recorded(tx[p].rows)
    <3>1. ReceiptOf(f) \in tx[p].rows /\ ReceiptOf(f).version = f.version
      BY <1>3 DEF ReceiptOf
    <3> QED
      BY <3>1 DEF Recorded
  <2>4. f.version \in Pending(Bundled(p), AppliedVersions(rows, Current(p)))
    BY <1>1, <2>3 DEF PlanSound
  <2> QED
    BY <1>6, <2>2, <2>4 DEF Pending
<1>7. LedgerMatchesSchema'
  <2>1. \A e, f \in effects' : e.bundle = f.bundle /\ e.version = f.version => e = f
    BY <1>1, <1>2, <1>6 DEF LedgerInv, LedgerMatchesSchema, Matches, PlanSound
  <2> QED
    BY <1>5, <2>1 DEF LedgerMatchesSchema, Matches
<1>8. PlanSound(p)'
  BY DEF PlanSound, Planning, NoWrites
<1>9. ASSUME NEW q \in Proc \ {p} PROVE PlanSound(q)'
  <2>1. Planning(q) => AppliedVersions(rows', Current(q)) = AppliedVersions(rows, Current(q))
    BY <1>1, <1>2 DEF PlanSound, AppliedVersions
  <2> QED
    BY <2>1, StillSound DEF LedgerInv
<1> QED
  BY <1>7, <1>8, <1>9 DEF LedgerInv

-----------------------------------------------------------------------------
(* The session and the abstract ledger.                                    *)

(* The plan of the current bundle against the committed ledger.            *)
Known(p) == AppliedVersions(rows, Current(p))
Batch(p) == Pending(Bundled(p), Known(p))

(* The abstract ledger is stated with the operators of MigrationDatabase.  *)
LEMMA ApplyBundleMeans ==
    ASSUME NEW p \in Proc, NEW r \in Release, NEW b \in Bundle, NEW known, NEW batch, NEW new,
           known = AppliedVersions(rows, b),
           batch = Pending(Declared[r][b], known),
           new = {Ledger!EffectIn(p, r, b, batch, v) : v \in batch},
           \/ tables = LedgerTables /\ stamps = <<LEDGER_VERSION>>
           \/ tables = {},
           PlanError(Declared[r][b], known, DIALECT) = "ok",
           tables' = LedgerTables,
           stamps' = <<LEDGER_VERSION>>,
           rows' = rows \cup {ReceiptOf(e) : e \in new},
           effects' = effects \cup new
    PROVE  Ledger!ApplyBundle(p, r, b)
BY DEF Ledger!ApplyBundle, Ledger!Usable, Ledger!AppliedVersions, Ledger!Pending,
       Ledger!PlanError, Ledger!UnknownVersions, Ledger!Drifted, Ledger!AcceptsChecksum,
       Ledger!ChecksumFor, Ledger!Recorded, Ledger!ReceiptOf, Ledger!LedgerTables,
       Ledger!LedgerTable, Ledger!MetaTable, Ledger!LEDGER_VERSION,
       AppliedVersions, Pending, PlanError, UnknownVersions, Drifted, AcceptsChecksum,
       ChecksumFor, Recorded, ReceiptOf, LedgerTables, LedgerTable, MetaTable, LEDGER_VERSION

(* What the plan of p must leave behind for one of its versions.           *)
PlannedEffect(p, v) ==
    [bundle |-> Current(p), version |-> v,
     body |-> SqlFor(call[p].release, Current(p), v), by |-> p,
     after |-> Recorded(Known(p)) \cup {u \in Batch(p) : u < v}]

(* It is what the abstract batch leaves behind.                            *)
LEMMA PlannedEffectIs ==
    ASSUME NEW p, NEW v
    PROVE  PlannedEffect(p, v)
             = Ledger!EffectIn(p, call[p].release, Current(p), Batch(p), v)
BY DEF PlannedEffect, Known, Ledger!EffectIn, Ledger!SqlFor, Ledger!Recorded,
       Ledger!AppliedVersions, SqlFor, Recorded, AppliedVersions

-----------------------------------------------------------------------------
(* A transaction follows its plan.                                         *)

(* plan() accepted what the ledger records of the bundle.  Each body that  *)
(* has run is the one the abstract batch runs for its version, after the   *)
(* same versions, and none is left that should have run before.            *)
FollowsPlan(p) ==
    Planning(p) =>
        /\ PlanError(Bundled(p), Known(p), DIALECT) = "ok"
        /\ \A e \in tx[p].effects : e = PlannedEffect(p, e.version)
        /\ \A u \in Recorded(tx[p].rows), v \in pending[p] : u < v

(* A step of p outside any plan; a step of its plan; the plan's commit,    *)
(* nobody else planning for the bundle.  A shell's step is one of these.   *)
OutsidePlan(p) ==
    /\ ~ Planning(p)'
    /\ \A q \in Proc \ {p} : Still(q)
    /\ UNCHANGED <<rows, effects>>

CarriesOut(p) == ReadLedger(p) \/ ApplyMigration(p) \/ RecordReceipt(p)

CommitsPlan(p) ==
    /\ pc[p] = "apply" /\ pending[p] = {}
    /\ Publish(p)
    /\ ~ Planning(p)'
    /\ \A q \in Proc \ {p} : Still(q)
    /\ \A q \in Proc \ {p} : Planning(q) => Current(q) # Current(p)

(* The process stands still and nobody writes to its bundle.               *)
LEMMA StillFollows ==
    ASSUME NEW q \in Proc, FollowsPlan(q), Still(q),
           Planning(q) => AppliedVersions(rows', Current(q)) = AppliedVersions(rows, Current(q))
    PROVE  FollowsPlan(q)'
<1>1. /\ Planning(q)' = Planning(q)
      /\ Current(q)' = Current(q)
      /\ Bundled(q)' = Bundled(q)
      /\ call'[q].release = call[q].release
  BY DEF Still, Planning, Current, Bundled
<1>2. Planning(q) => Known(q)' = Known(q) /\ Batch(q)' = Batch(q)
  BY <1>1 DEF Known, Batch
<1>3. ASSUME Planning(q), NEW v
      PROVE  PlannedEffect(q, v)' = PlannedEffect(q, v)
  BY <1>1, <1>2, <1>3 DEF PlannedEffect
<1> QED
  BY <1>1, <1>2, <1>3 DEF Still, FollowsPlan

(* plan() has just accepted the ledger.                                    *)
LEMMA ReadLedgerFollows ==
    ASSUME SessionTypeOK, NEW S, pc \in [Proc -> S],
           LedgerInv, NEW p \in Proc, ReadLedger(p)
    PROVE  FollowsPlan(p)' /\ \A q \in Proc \ {p} : Still(q)
<1> DEFINE recorded == AppliedVersions(rows \cup tx[p].rows, Current(p))
           verdict == PlanError(Bundled(p), recorded, DIALECT)
<1>1. /\ pc[p] = "read_ledger" /\ tx[p].rows = {} /\ tx[p].effects = {}
      /\ UNCHANGED <<rows, call, at, tx>>
  BY DEF ReadLedger, LedgerInv, PlanSound, db
<1>2. \A q \in Proc \ {p} : Still(q)
  BY DEF ReadLedger, Check, Goto, Fail, Still, SessionTypeOK
<1>3. /\ recorded = Known(p) /\ Known(p)' = Known(p) /\ Bundled(p)' = Bundled(p)
      /\ Recorded(tx'[p].rows) = {}
  BY <1>1 DEF Known, Bundled, Current, Recorded
<1>4. Planning(p)' => verdict = "ok"
  BY DEF ReadLedger, Check, Fail, Goto, Planning, SessionTypeOK
<1> QED
  BY <1>1, <1>2, <1>3, <1>4 DEF FollowsPlan

(* The receipts of a bundle's executions record their versions.            *)
LEMMA RecordedExecutions ==
    ASSUME NEW E, NEW b
    PROVE  Recorded(AppliedVersions({ReceiptOf(e) : e \in E}, b))
             = {e.version : e \in {f \in E : f.bundle = b}}
<1> DEFINE of == AppliedVersions({ReceiptOf(e) : e \in E}, b)
<1>1. \A e : ReceiptOf(e).bundle = e.bundle /\ ReceiptOf(e).version = e.version
  BY DEF ReceiptOf
<1>2. ASSUME NEW x \in of PROVE \E f \in E : f.bundle = b /\ x.version = f.version
  BY <1>1 DEF AppliedVersions
<1>3. ASSUME NEW f \in E, f.bundle = b PROVE ReceiptOf(f) \in of
  BY <1>1, <1>3 DEF AppliedVersions
<1> HIDE DEF of
<1>4. ASSUME NEW v \in Recorded(of) PROVE v \in {e.version : e \in {f \in E : f.bundle = b}}
  BY <1>2 DEF Recorded
<1>5. ASSUME NEW f \in E, f.bundle = b PROVE f.version \in Recorded(of)
  BY <1>1, <1>3, <1>5 DEF Recorded
<1>6. Recorded(of) = {e.version : e \in {f \in E : f.bundle = b}}
  BY <1>4, <1>5
<1> QED
  BY <1>6 DEF of

(* Between two migrations, what has been executed for the bundle is what   *)
(* the ledger and the transaction record.                                  *)
LEMMA ExecutedIsRecorded ==
    ASSUME LedgerInv, NEW p \in Proc, pc[p] = "apply"
    PROVE  Executed(p) = Recorded(Known(p)) \cup Recorded(tx[p].rows)
<1>1. rows = {ReceiptOf(e) : e \in effects}
  BY DEF LedgerInv, LedgerMatchesSchema, Matches
<1>2. /\ tx[p].rows = {ReceiptOf(e) : e \in tx[p].effects}
      /\ \A x \in tx[p].rows : x.bundle = Current(p)
  BY DEF LedgerInv, PlanSound, Planning
<1>3. Recorded(Known(p)) = {e.version : e \in {f \in effects : f.bundle = Current(p)}}
  BY <1>1, RecordedExecutions DEF Known
<1>4. Recorded(tx[p].rows) = {e.version : e \in {f \in tx[p].effects : f.bundle = Current(p)}}
  <2>1. AppliedVersions(tx[p].rows, Current(p)) = tx[p].rows
    <3>1. \A R, b : (\A x \in R : x.bundle = b) => AppliedVersions(R, b) = R
      BY DEF AppliedVersions
    <3> QED
      BY <1>2, <3>1
  <2>2. Recorded(AppliedVersions({ReceiptOf(e) : e \in tx[p].effects}, Current(p)))
          = {e.version : e \in {f \in tx[p].effects : f.bundle = Current(p)}}
    BY RecordedExecutions
  <2>3. AppliedVersions({ReceiptOf(e) : e \in tx[p].effects}, Current(p)) = tx[p].rows
    BY <1>2, <2>1
  <2> QED
    BY <2>2, <2>3
<1> QED
  BY <1>3, <1>4 DEF Executed

(* The body that runs next is the planned one.                             *)
LEMMA ApplyMigrationFollows ==
    ASSUME SessionTypeOK, NEW S, pc \in [Proc -> S],
           LedgerInv, NEW p \in Proc, FollowsPlan(p), ApplyMigration(p),
           Current(p) \in Bundle, call[p].release \in Release
    PROVE  FollowsPlan(p)' /\ \A q \in Proc \ {p} : Still(q)
<1>1. PICK v \in Earliest(pending[p]) :
         tx' = [tx EXCEPT ![p].effects = @ \cup {Execution(p, v)}]
  BY DEF ApplyMigration
<1>2. /\ pc[p] = "apply" /\ pc' = [pc EXCEPT ![p] = "record"]
      /\ UNCHANGED <<rows, call, at, pending>>
  BY DEF ApplyMigration, Goto, db
<1>3. /\ v \in pending[p] /\ \A u \in pending[p] : v <= u
      /\ tx \in [Proc -> Writes] /\ tx[p] \in Writes
      /\ pending[p] \subseteq Version
  BY <1>2, EarliestOf DEF SessionTypeOK
<1>4. tx'[p].rows = tx[p].rows /\ tx'[p].effects = tx[p].effects \cup {Execution(p, v)}
  BY <1>1, <1>3 DEF Writes
<1>5. Batch(p) = pending[p] \cup Recorded(tx[p].rows)
  BY <1>2 DEF LedgerInv, PlanSound, Planning, Batch, Known
<1>6. \A u \in Recorded(tx[p].rows) : u < v
  BY <1>2, <1>3 DEF FollowsPlan, Planning
<1>7. Recorded(tx[p].rows) = {u \in Batch(p) : u < v}
  BY <1>3, <1>5, <1>6 DEF Version
<1>8. Execution(p, v) = PlannedEffect(p, v) /\ Execution(p, v).version = v
  BY <1>2, <1>7, ExecutedIsRecorded DEF Execution, PlannedEffect
<1>9. /\ Known(p)' = Known(p) /\ Bundled(p)' = Bundled(p) /\ Batch(p)' = Batch(p)
      /\ Current(p)' = Current(p)
  BY <1>2 DEF Known, Bundled, Current, Batch
<1>10. \A u : PlannedEffect(p, u)' = PlannedEffect(p, u)
  BY <1>2, <1>9 DEF PlannedEffect
<1>11. \A q \in Proc \ {p} : Still(q)
  BY <1>1, <1>2 DEF Still, SessionTypeOK
<1> QED
  BY <1>2, <1>4, <1>8, <1>9, <1>10, <1>11 DEF FollowsPlan, Planning

(* Its receipt leaves only greater versions to do.                         *)
LEMMA RecordReceiptFollows ==
    ASSUME SessionTypeOK, NEW S, pc \in [Proc -> S],
           LedgerInv, NEW p \in Proc, FollowsPlan(p), RecordReceipt(p),
           Current(p) \in Bundle, call[p].release \in Release
    PROVE  FollowsPlan(p)' /\ \A q \in Proc \ {p} : Still(q)
<1>1. Goto(p, "apply")
  BY RecordReceiptInv
<1>2. PICK v \in Earliest(pending[p]) :
         /\ tx' = [tx EXCEPT ![p].rows = @ \cup {NewReceipt(p, v)}]
         /\ pending' = [pending EXCEPT ![p] = @ \ {v}]
  BY <1>1 DEF RecordReceipt, Goto, Fail, SessionTypeOK
<1>3. pc[p] = "record" /\ UNCHANGED <<rows, call, at>>
  BY DEF RecordReceipt, db
<1>4. /\ v \in pending[p] /\ \A u \in pending[p] : v <= u
      /\ tx \in [Proc -> Writes] /\ tx[p] \in Writes
      /\ pending[p] \subseteq Version /\ pending \in [Proc -> SUBSET Version]
  BY <1>2, EarliestOf DEF SessionTypeOK
<1>5. /\ tx'[p].rows = tx[p].rows \cup {NewReceipt(p, v)} /\ tx'[p].effects = tx[p].effects
      /\ pending'[p] = pending[p] \ {v} /\ NewReceipt(p, v).version = v
  BY <1>2, <1>4 DEF Writes, NewReceipt
<1>6. Recorded(tx'[p].rows) = Recorded(tx[p].rows) \cup {v}
  BY <1>5 DEF Recorded
<1>7. \A u \in pending[p] \ {v} : v < u
  BY <1>4 DEF Version
<1>8. \A u \in Recorded(tx'[p].rows), w \in pending'[p] : u < w
  BY <1>3, <1>5, <1>6, <1>7 DEF FollowsPlan, Planning
<1>9. /\ Known(p)' = Known(p) /\ Bundled(p)' = Bundled(p) /\ Batch(p)' = Batch(p)
      /\ Current(p)' = Current(p)
  BY <1>3 DEF Known, Bundled, Current, Batch
<1>10. \A u : PlannedEffect(p, u)' = PlannedEffect(p, u)
  BY <1>3, <1>9 DEF PlannedEffect
<1>11. \A q \in Proc \ {p} : Still(q)
  BY <1>1, <1>2, <1>3, <1>4 DEF Still, Goto
<1> QED
  BY <1>3, <1>5, <1>8, <1>9, <1>10, <1>11 DEF FollowsPlan, Planning

(* Every step of a shell lets every transaction follow its plan.           *)
LEMMA PlansFollowed ==
    ASSUME SessionTypeOK, NEW S, pc \in [Proc -> S],
           LedgerInv, \A q \in Proc : FollowsPlan(q),
           NEW p \in Proc,
           \/ OutsidePlan(p)
           \/ CarriesOut(p) /\ Current(p) \in Bundle /\ call[p].release \in Release
           \/ CommitsPlan(p)
    PROVE  \A q \in Proc : FollowsPlan(q)'
<1>1. CASE OutsidePlan(p)
  <2>1. FollowsPlan(p)'
    BY <1>1 DEF OutsidePlan, FollowsPlan
  <2> QED
    BY <1>1, <2>1, StillFollows DEF OutsidePlan
<1>2. CASE CarriesOut(p) /\ Current(p) \in Bundle /\ call[p].release \in Release
  <2>1. FollowsPlan(p)' /\ \A q \in Proc \ {p} : Still(q)
    BY <1>2, ReadLedgerFollows, ApplyMigrationFollows, RecordReceiptFollows DEF CarriesOut
  <2>2. UNCHANGED rows
    BY <1>2 DEF CarriesOut, ReadLedger, ApplyMigration, RecordReceipt, db
  <2> QED
    BY <2>1, <2>2, StillFollows
<1>3. CASE CommitsPlan(p)
  <2>1. FollowsPlan(p)'
    BY <1>3 DEF CommitsPlan, FollowsPlan
  <2>2. rows' = rows \cup tx[p].rows /\ \A x \in tx[p].rows : x.bundle = Current(p)
    BY <1>3 DEF CommitsPlan, Publish, LedgerInv, PlanSound, Planning
  <2>3. ASSUME NEW q \in Proc \ {p}, Planning(q)
        PROVE  AppliedVersions(rows', Current(q)) = AppliedVersions(rows, Current(q))
    BY <1>3, <2>2, <2>3 DEF CommitsPlan, AppliedVersions
  <2> QED
    BY <1>3, <2>1, <2>3, StillFollows DEF CommitsPlan
<1> QED
  BY <1>1, <1>2, <1>3

-----------------------------------------------------------------------------
(* Committing a plan is the abstract ApplyBundle.                          *)

(* A plan that is done has run and recorded exactly the abstract batch.    *)
LEMMA BatchDone ==
    ASSUME LedgerInv, NEW p \in Proc, FollowsPlan(p), pc[p] = "apply", pending[p] = {}
    PROVE  /\ Recorded(tx[p].rows) = Batch(p)
           /\ tx[p].rows = {ReceiptOf(e) : e \in tx[p].effects}
           /\ tx[p].effects = {PlannedEffect(p, v) : v \in Batch(p)}
<1>1. /\ Recorded(tx[p].rows) = Batch(p)
      /\ tx[p].rows = {ReceiptOf(e) : e \in tx[p].effects}
  BY DEF LedgerInv, PlanSound, Planning, Batch, Known
<1>2. \A e : ReceiptOf(e).version = e.version
  BY DEF ReceiptOf
<1>3. \A e \in tx[p].effects : e = PlannedEffect(p, e.version)
  BY DEF FollowsPlan, Planning
<1>4. ASSUME NEW e \in tx[p].effects PROVE e.version \in Batch(p)
  <2>1. ReceiptOf(e) \in tx[p].rows
    BY <1>1
  <2>2. e.version \in Recorded(tx[p].rows)
    BY <1>2, <2>1 DEF Recorded
  <2> QED
    BY <1>1, <2>2
<1>5. ASSUME NEW v \in Batch(p) PROVE PlannedEffect(p, v) \in tx[p].effects
  <2>1. PICK x \in tx[p].rows : x.version = v
    BY <1>1 DEF Recorded
  <2>2. PICK e \in tx[p].effects : x = ReceiptOf(e)
    BY <1>1, <2>1
  <2> QED
    BY <1>2, <1>3, <2>1, <2>2
<1>6. tx[p].effects = {PlannedEffect(p, v) : v \in Batch(p)}
  BY <1>3, <1>4, <1>5
<1> QED
  BY <1>1, <1>6

(* The ledger p sees is complete and stamped with this generation, and p   *)
(* either found it so or creates all of it.                                *)
LedgerReady(p) ==
    /\ tables \cup tx[p].tables = LedgerTables
    /\ stamps \o tx[p].stamps = <<LEDGER_VERSION>>
    /\ tx[p].tables # {} => tables = {}
    /\ tx[p].tables = {} => tx[p].stamps = <<>>

(* COMMIT of a finished plan on a ready ledger is ApplyBundle.             *)
LEMMA CommitApplies ==
    ASSUME SessionTypeOK, LedgerInv, NEW p \in Proc, FollowsPlan(p), LedgerReady(p),
           Current(p) \in Bundle, call[p].release \in Release,
           pc[p] = "apply", pending[p] = {}, Publish(p)
    PROVE  Ledger!ApplyBundle(p, call[p].release, Current(p))
<1> DEFINE r == call[p].release
           b == Current(p)
           new == {Ledger!EffectIn(p, r, b, Batch(p), v) : v \in Batch(p)}
<1>1. new = tx[p].effects
  BY BatchDone, PlannedEffectIs
<1>2. /\ tables' = LedgerTables
      /\ stamps' = <<LEDGER_VERSION>>
      /\ rows' = rows \cup {ReceiptOf(e) : e \in new}
      /\ effects' = effects \cup new
  BY <1>1, BatchDone DEF LedgerReady, Publish
<1>3. PlanError(Declared[r][b], Known(p), DIALECT) = "ok"
  BY DEF FollowsPlan, Planning, Bundled
<1>4. \/ tables = LedgerTables /\ stamps = <<LEDGER_VERSION>>
      \/ tables = {}
  <2>1. stamps \in Seq(Nat)
    BY DEF SessionTypeOK, DatabaseTypeOK
  <2>2. CASE tx[p].tables = {}
    <3>1. stamps \o <<>> = stamps
      BY <2>1
    <3> QED
      BY <2>2, <3>1 DEF LedgerReady
  <2> QED
    BY <2>2 DEF LedgerReady
<1>5. Known(p) = AppliedVersions(rows, b) /\ Batch(p) = Pending(Declared[r][b], Known(p))
  BY DEF Known, Batch, Bundled
<1> HIDE DEF r, b, new
<1>6. r \in Release /\ b \in Bundle
  BY DEF r, b
<1>7. new = {Ledger!EffectIn(p, r, b, Batch(p), v) : v \in Batch(p)}
  BY DEF new
<1>8. Ledger!ApplyBundle(p, r, b)
  BY <1>2, <1>3, <1>4, <1>5, <1>6, <1>7, ApplyBundleMeans
<1> QED
  BY <1>8 DEF r, b

(* The generation assertion accepts exactly one stamp, this generation's.  *)
LEMMA OneStamp ==
    ASSUME NEW s \in Seq(Nat), AssertLedgerVersion(s) = "ok"
    PROVE  s = <<LEDGER_VERSION>>
<1>1. Len(s) = 1 /\ s[1] = LEDGER_VERSION
  BY DEF AssertLedgerVersion, CheckLedgerVersion
<1> QED
  BY <1>1

(* Creating the ledger and committing nothing else is Bootstrap; without a *)
(* ledger to create it leaves the database alone.                          *)
LEMMA CommitBootstraps ==
    ASSUME SessionTypeOK, NEW p \in Proc, LedgerReady(p), Publish(p),
           tx[p].rows = {}, tx[p].effects = {}
    PROVE  Ledger!Bootstrap \/ UNCHANGED db
<1>1. stamps \in Seq(Nat) /\ rows' = rows /\ effects' = effects
  BY DEF SessionTypeOK, DatabaseTypeOK, Publish
<1>2. CASE tx[p].tables = {}
  <2>1. stamps \o <<>> = stamps
    BY <1>1
  <2> QED
    BY <1>1, <1>2, <2>1 DEF LedgerReady, Publish, db
<1>3. CASE tx[p].tables # {}
  <2>1. tables = {} /\ tables' = LedgerTables /\ stamps' = <<LEDGER_VERSION>>
    BY <1>3 DEF LedgerReady, Publish
  <2> QED
    BY <1>1, <2>1 DEF Ledger!Bootstrap, Ledger!LedgerTables, Ledger!LedgerTable,
       Ledger!MetaTable, Ledger!LEDGER_VERSION, LedgerTables, LedgerTable, MetaTable,
       LEDGER_VERSION
<1> QED
  BY <1>2, <1>3

(* A database the session starts from is one the abstract ledger does.     *)
LEMMA InitLedger == InitSession => Ledger!InitDatabase
BY DEF InitSession, InitDatabase, Ledger!InitDatabase

-----------------------------------------------------------------------------
(* What "ok" promises.                                                     *)

Complete(r, b) == \A v \in DOMAIN Declared[r][b] : AcceptedReceipt(r, b, v)

(* Receipts are never removed, so what is complete stays complete.         *)
LEMMA StaysComplete ==
    ASSUME rows \subseteq rows', NEW r, NEW b, Complete(r, b)
    PROVE  Complete(r, b)'
BY DEF Complete, AcceptedReceipt

(* What plan() accepts of a bundle is recorded as accepted.                *)
LEMMA RecordedIsAccepted ==
    ASSUME NEW r \in Release, NEW b \in Bundle, NEW visible \in SUBSET rows,
           PlanError(Declared[r][b], AppliedVersions(visible, b), DIALECT) = "ok",
           NEW v \in DOMAIN Declared[r][b], v \in Recorded(AppliedVersions(visible, b))
    PROVE  AcceptedReceipt(r, b, v)
<1>1. PICK x \in AppliedVersions(visible, b) : x.version = v
  BY DEF Recorded
<1>2. x \in rows /\ x.bundle = b
  BY <1>1 DEF AppliedVersions
<1>3. Drifted(Declared[r][b], AppliedVersions(visible, b), DIALECT) = {}
  BY DEF PlanError
<1>4. AcceptsChecksum(v, Declared[r][b][v], DIALECT, x.checksum)
  BY <1>1, <1>3 DEF Drifted
<1> QED
  BY <1>1, <1>2, <1>4 DEF AcceptedReceipt

(* Nothing missing, nothing drifted: verify_bundle's verdict is complete.  *)
LEMMA VerifiedIsComplete ==
    ASSUME NEW r \in Release, NEW b \in Bundle, NEW visible \in SUBSET rows,
           PlanError(Declared[r][b], AppliedVersions(visible, b), DIALECT) = "ok",
           Pending(Declared[r][b], AppliedVersions(visible, b)) = {}
    PROVE  Complete(r, b)
<1>1. \A v \in DOMAIN Declared[r][b] : v \in Recorded(AppliedVersions(visible, b))
  BY DEF Pending
<1> QED
  BY <1>1, RecordedIsAccepted DEF Complete

(* A call has completed every bundle its loop has passed, and all of them  *)
(* once it has returned "ok".                                              *)
KeepsPromise(p) ==
    /\ pc[p] \notin {"idle", "unwind"} =>
          \A i \in DOMAIN call[p].bundles :
              i < at[p] => Complete(call[p].release, call[p].bundles[i])
    /\ result[p] = "ok" =>
          \A i \in DOMAIN call[p].bundles : Complete(call[p].release, call[p].bundles[i])

(* That promise is SuccessMeansComplete.                                   *)
LEMMA PromiseMeansComplete == (\A p \in Proc : KeepsPromise(p)) => SuccessMeansComplete
BY DEF KeepsPromise, SuccessMeansComplete, Complete

(* A step that neither moves the loop on nor reports success keeps it.     *)
LEMMA PromiseFrame ==
    ASSUME rows \subseteq rows', NEW p \in Proc, KeepsPromise(p),
           call'[p] = call[p], at'[p] = at[p],
           result'[p] = result[p] \/ result'[p] # "ok",
           pc[p] \notin {"idle", "unwind"} \/ pc'[p] \in {"idle", "unwind"}
    PROVE  KeepsPromise(p)'
<1>1. \A r, b : Complete(r, b) => Complete(r, b)'
  BY StaysComplete
<1> QED
  BY <1>1 DEF KeepsPromise

(* Neither does a process that stands still.                               *)
LEMMA PromiseStill ==
    ASSUME rows \subseteq rows', NEW q \in Proc, KeepsPromise(q), Still(q),
           result'[q] = result[q]
    PROVE  KeepsPromise(q)'
<1>1. \A r, b : Complete(r, b) => Complete(r, b)'
  BY StaysComplete
<1> QED
  BY <1>1 DEF KeepsPromise, Still

(* The loop reaches index i, every bundle before it complete: it may       *)
(* report success once there is no bundle left.                            *)
LEMMA PromiseEnter ==
    ASSUME NEW p \in Proc, NEW c \in Calls, NEW i \in Version,
           call'[p] = c, at'[p] = i,
           \A j \in DOMAIN c.bundles : j < i => Complete(c.release, c.bundles[j])',
           result'[p] = "ok" => i > Len(c.bundles)
    PROVE  KeepsPromise(p)'
<1>1. c.bundles \in Seq(Bundle)
  BY SessionAssumption DEF Call
<1>2. DOMAIN c.bundles = 1..Len(c.bundles) /\ Len(c.bundles) \in Nat
  BY <1>1
<1>3. i > Len(c.bundles) => \A j \in DOMAIN c.bundles : j < i
  BY <1>2 DEF Version
<1> QED
  BY <1>3 DEF KeepsPromise

(* The loop goes on from a complete bundle.                                *)
LEMMA PromiseNext ==
    ASSUME NEW p \in Proc, KeepsPromise(p), rows \subseteq rows',
           pc[p] \notin {"idle", "unwind"},
           call[p] \in Calls, call'[p] = call[p],
           at \in [Proc -> Version], at'[p] = at[p] + 1,
           NEW r, r = call[p].release, NEW b, b = Current(p), Complete(r, b)',
           result'[p] = "ok" => at[p] + 1 > Len(call[p].bundles)
    PROVE  KeepsPromise(p)'
<1> DEFINE c == call[p]
           i == at[p] + 1
<1>1. i \in Version
  BY DEF Version
<1>2. ASSUME NEW j \in DOMAIN c.bundles, j < i PROVE Complete(c.release, c.bundles[j])'
  <2>1. c.bundles \in Seq(Bundle)
    BY SessionAssumption DEF Call
  <2>2. j < at[p] \/ j = at[p]
    BY <1>2, <2>1 DEF Version
  <2>3. CASE j < at[p]
    <3>1. Complete(call[p].release, call[p].bundles[j])
      BY <2>3 DEF KeepsPromise
    <3> QED
      BY <3>1 DEF Complete, AcceptedReceipt
  <2>4. CASE j = at[p]
    BY <2>4 DEF Current, Complete, AcceptedReceipt
  <2> QED
    BY <2>2, <2>3, <2>4
<1> QED
  BY <1>1, <1>2, PromiseEnter

(* A committed plan completes its bundle.                                  *)
LEMMA CommitCompletes ==
    ASSUME LedgerInv, NEW p \in Proc, FollowsPlan(p), pc[p] = "apply", pending[p] = {},
           Publish(p),
           NEW r \in Release, r = call[p].release, NEW b \in Bundle, b = Current(p)
    PROVE  Complete(r, b)'
<1>1. rows' = rows \cup tx[p].rows
  BY DEF Publish
<1>2. PlanError(Declared[r][b], AppliedVersions(rows, b), DIALECT) = "ok"
  BY DEF FollowsPlan, Planning, Bundled, Known
<1>3. ASSUME NEW v \in DOMAIN Declared[r][b], v \in Recorded(AppliedVersions(rows, b))
      PROVE  AcceptedReceipt(r, b, v)'
  <2>1. AcceptedReceipt(r, b, v)
    BY <1>2, <1>3, RecordedIsAccepted
  <2> QED
    BY <1>1, <2>1 DEF AcceptedReceipt
<1>4. ASSUME NEW v \in DOMAIN Declared[r][b], v \notin Recorded(AppliedVersions(rows, b))
      PROVE  AcceptedReceipt(r, b, v)'
  <2>1. v \in Batch(p)
    BY <1>4 DEF Batch, Known, Pending, Bundled
  <2>2. ReceiptOf(PlannedEffect(p, v)) \in tx[p].rows
    BY <2>1, BatchDone
  <2>3. ReceiptOf(PlannedEffect(p, v)) =
          [bundle |-> b, version |-> v, checksum |-> <<v, SqlFor(r, b, v)>>, by |-> p]
    BY DEF ReceiptOf, PlannedEffect
  <2>4. AcceptsChecksum(v, Declared[r][b][v], DIALECT, <<v, SqlFor(r, b, v)>>)
    BY DEF AcceptsChecksum, ChecksumFor, SqlFor
  <2> QED
    BY <1>1, <2>2, <2>3, <2>4 DEF AcceptedReceipt
<1> QED
  BY <1>3, <1>4 DEF Complete

-----------------------------------------------------------------------------
(* The order of execution, of the abstract ledger.                         *)

(* No version that some release declares is missing below a recorded one.  *)
ClosedBelow ==
    \A b \in Bundle, s \in Release :
        \A u \in Recorded(AppliedVersions(rows, b)), v \in DOMAIN Declared[s][b] :
            v < u => v \in Recorded(AppliedVersions(rows, b))

OrderInv == AppliedInOrder /\ ClosedBelow

(* A batch of bundle b runs on top of what is known of it.                 *)
RunsBatch(b, known, batch, new) ==
    /\ effects' = effects \cup new
    /\ rows' = rows \cup {ReceiptOf(e) : e \in new}
    /\ \A e \in new : e.bundle = b /\ e.version \in batch
    /\ \A e \in new : e.after = Recorded(known) \cup {u \in batch : u < e.version}
    /\ \A v \in batch : \E e \in new : e.version = v

(* ApplyBundle, in the operators of MigrationDatabase.                     *)
LEMMA ApplyBundleDoes ==
    ASSUME NEW p \in Proc, NEW r \in Release, NEW b \in Bundle, Ledger!ApplyBundle(p, r, b)
    PROVE  /\ UnknownVersions(Declared[r][b], AppliedVersions(rows, b)) = {}
           /\ \E new : RunsBatch(b, AppliedVersions(rows, b),
                                Pending(Declared[r][b], AppliedVersions(rows, b)), new)
<1> DEFINE known == AppliedVersions(rows, b)
           batch == Pending(Declared[r][b], known)
           new == {Ledger!EffectIn(p, r, b, batch, v) : v \in batch}
<1>1. /\ effects' = effects \cup new
      /\ rows' = rows \cup {ReceiptOf(e) : e \in new}
  BY DEF Ledger!ApplyBundle, Ledger!AppliedVersions, Ledger!Pending, Ledger!Recorded,
         Ledger!ReceiptOf, AppliedVersions, Pending, Recorded, ReceiptOf
<1>2. UnknownVersions(Declared[r][b], known) = {}
  BY DEF Ledger!ApplyBundle, Ledger!AppliedVersions, Ledger!PlanError, Ledger!UnknownVersions,
         Ledger!Recorded, AppliedVersions, UnknownVersions, Recorded
<1>3. \A v : /\ Ledger!EffectIn(p, r, b, batch, v).bundle = b
             /\ Ledger!EffectIn(p, r, b, batch, v).version = v
             /\ Ledger!EffectIn(p, r, b, batch, v).after
                  = Recorded(known) \cup {u \in batch : u < v}
  BY DEF Ledger!EffectIn, Ledger!Recorded, Ledger!AppliedVersions, Recorded, AppliedVersions
<1>4. /\ \A e \in new : e.bundle = b /\ e.version \in batch
      /\ \A e \in new : e.after = Recorded(known) \cup {u \in batch : u < e.version}
      /\ \A v \in batch : \E e \in new : e.version = v
  BY <1>3
<1>5. RunsBatch(b, known, batch, new)
  BY <1>1, <1>4 DEF RunsBatch
<1> QED
  BY <1>2, <1>5

(* The receipts of a bundle after a batch was applied.                     *)
LEMMA RecordedAfter ==
    ASSUME NEW b, NEW known, NEW batch, NEW new, RunsBatch(b, known, batch, new), NEW c
    PROVE  Recorded(AppliedVersions(rows', c))
             = Recorded(AppliedVersions(rows, c)) \cup IF c = b THEN batch ELSE {}
<1>1. \A e : ReceiptOf(e).bundle = e.bundle /\ ReceiptOf(e).version = e.version
  BY DEF ReceiptOf
<1> USE DEF RunsBatch
<1>2. ASSUME NEW v \in Recorded(AppliedVersions(rows', c))
      PROVE  v \in Recorded(AppliedVersions(rows, c)) \cup IF c = b THEN batch ELSE {}
  <2>1. PICK x \in rows' : x.bundle = c /\ x.version = v
    BY DEF Recorded, AppliedVersions
  <2>2. CASE x \in rows
    BY <2>1, <2>2 DEF Recorded, AppliedVersions
  <2>3. CASE x \in {ReceiptOf(e) : e \in new}
    BY <1>1, <2>1, <2>3
  <2> QED
    BY <2>2, <2>3
<1>3. ASSUME NEW v \in Recorded(AppliedVersions(rows, c))
      PROVE  v \in Recorded(AppliedVersions(rows', c))
  BY DEF Recorded, AppliedVersions
<1>4. ASSUME c = b, NEW v \in batch PROVE v \in Recorded(AppliedVersions(rows', c))
  <2>1. PICK e \in new : e.version = v
    OBVIOUS
  <2>2. ReceiptOf(e) \in AppliedVersions(rows', c)
    BY <1>1, <1>4, <2>1 DEF AppliedVersions
  <2> QED
    BY <1>1, <2>1, <2>2 DEF Recorded
<1> QED
  BY <1>2, <1>3, <1>4

(* While releases only append, applying a bundle keeps its order: what is  *)
(* pending lies above everything recorded, because no version below a      *)
(* recorded one is missing.                                                *)
LEMMA ApplyBundleInOrder ==
    ASSUME ReleasesAppend, OrderInv,
           \A b \in Bundle : Recorded(AppliedVersions(rows, b)) \subseteq Version,
           NEW p \in Proc, NEW r \in Release, NEW b \in Bundle, Ledger!ApplyBundle(p, r, b)
    PROVE  OrderInv'
<1> DEFINE known == AppliedVersions(rows, b)
           batch == Pending(Declared[r][b], known)
<1>1. UnknownVersions(Declared[r][b], known) = {}
  BY ApplyBundleDoes
<1>2. PICK new : RunsBatch(b, known, batch, new)
  BY ApplyBundleDoes
<1>3. Recorded(known) \subseteq DOMAIN Declared[r][b] /\ Recorded(known) \subseteq Version
  BY <1>1 DEF UnknownVersions
<1>4. batch = DOMAIN Declared[r][b] \ Recorded(known) /\ batch \subseteq Version
  BY DeclaredBundles DEF Pending
<1> HIDE DEF known, batch
<1>5. ASSUME NEW v \in batch, NEW u \in Recorded(known) PROVE u < v
  <2>1. ~ (v < u)
    BY <1>4 DEF OrderInv, ClosedBelow, known
  <2>2. u # v /\ u \in Version /\ v \in Version
    BY <1>3, <1>4
  <2> QED
    BY <2>1, <2>2 DEF Version
<1>6. AppliedInOrder'
  BY <1>2, <1>5 DEF RunsBatch, OrderInv, AppliedInOrder
<1>7. \A c : Recorded(AppliedVersions(rows', c))
                = Recorded(AppliedVersions(rows, c)) \cup IF c = b THEN batch ELSE {}
  BY <1>2, RecordedAfter
<1>8. Recorded(AppliedVersions(rows', b)) = DOMAIN Declared[r][b]
  BY <1>3, <1>4, <1>7 DEF known
<1>9. ASSUME NEW c \in Bundle, NEW s \in Release,
             NEW u \in Recorded(AppliedVersions(rows', c)), NEW v \in DOMAIN Declared[s][c],
             v < u
      PROVE  v \in Recorded(AppliedVersions(rows', c))
  <2>1. CASE c = b
    BY <1>8, <1>9, <2>1 DEF ReleasesAppend
  <2>2. CASE c # b
    <3>1. Recorded(AppliedVersions(rows', c)) = Recorded(AppliedVersions(rows, c))
      BY <1>7, <2>2
    <3> QED
      BY <1>9, <3>1 DEF OrderInv, ClosedBelow
  <2> QED
    BY <2>1, <2>2
<1>10. ClosedBelow'
  BY <1>9 DEF ClosedBelow
<1> QED
  BY <1>6, <1>10 DEF OrderInv

(* The recorded versions are versions, whatever the abstract ledger does.  *)
RecordsVersions == \A b \in Bundle : Recorded(AppliedVersions(rows, b)) \subseteq Version

LEMMA LedgerRecordsVersions == Ledger!Spec => []RecordsVersions
<1>1. Ledger!InitDatabase => RecordsVersions
  <2> SUFFICES ASSUME Ledger!InitDatabase PROVE RecordsVersions
    OBVIOUS
  <2>1. rows \in SUBSET Receipt
    BY DatabaseAssumption DEF Ledger!InitDatabase, IsDatabase
  <2> QED
    BY <2>1 DEF RecordsVersions, Recorded, AppliedVersions, Receipt
<1>2. RecordsVersions /\ [Ledger!Next]_Ledger!db => RecordsVersions'
  <2> SUFFICES ASSUME RecordsVersions, [Ledger!Next]_Ledger!db PROVE RecordsVersions'
    OBVIOUS
  <2>1. CASE UNCHANGED Ledger!db
    BY <2>1 DEF Ledger!db, RecordsVersions
  <2>2. CASE Ledger!Bootstrap
    BY <2>2 DEF Ledger!Bootstrap, RecordsVersions
  <2>3. ASSUME NEW p \in Proc, NEW r \in Release, NEW b \in Bundle, Ledger!ApplyBundle(p, r, b)
        PROVE  RecordsVersions'
    <3> DEFINE known == AppliedVersions(rows, b)
               batch == Pending(Declared[r][b], known)
    <3>1. PICK new : RunsBatch(b, known, batch, new)
      BY <2>3, ApplyBundleDoes
    <3>2. batch \subseteq Version
      BY DeclaredBundles DEF Pending
    <3> HIDE DEF known, batch
    <3>3. \A c : Recorded(AppliedVersions(rows', c))
                    = Recorded(AppliedVersions(rows, c)) \cup IF c = b THEN batch ELSE {}
      BY <3>1, RecordedAfter
    <3> QED
      BY <3>2, <3>3 DEF RecordsVersions
  <2> QED
    BY <2>1, <2>2, <2>3 DEF Ledger!Next
<1> QED
  BY <1>1, <1>2, PTL DEF Ledger!Spec

(* While releases only append and databases are found as they leave them,  *)
(* the abstract ledger runs no body of a bundle after one of a greater     *)
(* version.  Whatever implements it inherits that.                         *)
LEMMA LedgerKeepsOrder ==
    ASSUME ReleasesAppend, FoundInOrder
    PROVE  Ledger!Spec => []AppliedInOrder
<1>1. Ledger!InitDatabase => OrderInv
  BY DEF Ledger!InitDatabase, FoundInOrder, OrderInv, AppliedInOrder, ClosedBelow
<1>2. RecordsVersions /\ OrderInv /\ [Ledger!Next]_Ledger!db => OrderInv'
  <2> SUFFICES ASSUME RecordsVersions, OrderInv, [Ledger!Next]_Ledger!db PROVE OrderInv'
    OBVIOUS
  <2>1. CASE UNCHANGED Ledger!db
    BY <2>1 DEF Ledger!db, OrderInv, AppliedInOrder, ClosedBelow
  <2>2. CASE Ledger!Bootstrap
    BY <2>2 DEF Ledger!Bootstrap, OrderInv, AppliedInOrder, ClosedBelow
  <2>3. ASSUME NEW p \in Proc, NEW r \in Release, NEW b \in Bundle, Ledger!ApplyBundle(p, r, b)
        PROVE  OrderInv'
    BY <2>3, ApplyBundleInOrder DEF RecordsVersions
  <2> QED
    BY <2>1, <2>2, <2>3 DEF Ledger!Next
<1>3. OrderInv => AppliedInOrder
  BY DEF OrderInv
<1> QED
  BY <1>1, <1>2, <1>3, LedgerRecordsVersions, PTL DEF Ledger!Spec

-----------------------------------------------------------------------------
(* The bundles that sessions are given.                                    *)

(* Each migration of s was constructed.                                    *)
Constructed(s) ==
    /\ s \in Seq(Candidates)
    /\ \A i \in DOMAIN s : Validate(s[i]) = "ok"
Increasing(s) == \A i, j \in DOMAIN s : i < j => s[i].version < s[j].version

BAInv ==
    /\ Constructed(draft)
    /\ bundles \in Seq([id : DOMAIN BundleIds, migrations : Seq(Candidates)])
    /\ \A b \in DOMAIN bundles :
          Constructed(bundles[b].migrations) /\ Increasing(bundles[b].migrations)

(* Some number is the least of those there are.                            *)
LEMMA LeastOf ==
    ASSUME NEW T, T \subseteq Nat, T # {}
    PROVE  \E j \in T : \A k \in T : j <= k
<1> DEFINE Less == OpToRel(<, Nat)
<1>1. PICK j \in T : \A k \in T : ~(<<k, j>> \in Less)
  <2> HIDE DEF Less
  <2>1. IsWellFoundedOn(Less, Nat)
    BY NatLessThanWellFounded DEF Less
  <2> QED
    BY <2>1, WFMin
<1>2. \A k \in T : ~(k < j)
  BY <1>1 DEF OpToRel
<1> QED
  BY <1>2

(* A sequence of which each element comes after its predecessor ascends.   *)
LEMMA StepwiseIncreasing ==
    ASSUME NEW s, NEW n \in Nat, DOMAIN s = 1..n, \A i \in 1..n : s[i].version \in Int,
           \A i \in 1..n : i > 1 => s[i - 1].version < s[i].version
    PROVE  Increasing(s)
<1> DEFINE v == [i \in 1..n |-> s[i].version]
<1> DEFINE T == {j \in 1..n : \E i \in 1..(j - 1) : ~(v[i] < v[j])}
<1>1. /\ v \in [1..n -> Int]
      /\ \A i \in 1..n : i > 1 => v[i - 1] < v[i]
  <2>1. \A i \in 1..n : v[i] = s[i].version
    OBVIOUS
  <2>2. v \in [1..n -> Int]
    OBVIOUS
  <2> HIDE DEF v
  <2>3. \A i \in 1..n : i > 1 => i - 1 \in 1..n
    OBVIOUS
  <2> QED
    BY <2>1, <2>2, <2>3
<1>2. (\A i, j \in 1..n : i < j => v[i] < v[j]) => Increasing(s)
  BY DEF Increasing
<1> HIDE DEF v
<1>3. ASSUME T # {} PROVE FALSE
  <2>1. T \subseteq Nat
    OBVIOUS
  <2>2. PICK j \in T : \A k \in T : j <= k
    <3> HIDE DEF T
    <3> QED
      BY <1>3, <2>1, LeastOf
  <2>3. \A k \in T : ~(k < j)
    <3> HIDE DEF T
    <3> QED
      BY <2>1, <2>2
  <2>4. PICK i \in 1..(j - 1) : ~(v[i] < v[j])
    OBVIOUS
  <2>5. j \in 1..n /\ i \in 1..n /\ i < j
    BY <2>4
  <2>6. v[j - 1] < v[j] /\ j - 1 \in 1..n
    BY <1>1, <2>5
  <2>7. CASE i = j - 1
    BY <2>4, <2>6, <2>7
  <2>8. CASE i # j - 1
    <3>1. j - 1 \notin T
      <4>1. j - 1 < j
        BY <2>5
      <4> HIDE DEF T
      <4> QED
        BY <2>3, <4>1, Zenon
    <3>2. i \in 1..((j - 1) - 1)
      BY <2>5, <2>8
    <3>3. v[i] < v[j - 1]
      BY <2>6, <3>1, <3>2
    <3> QED
      BY <1>1, <2>4, <2>5, <2>6, <3>3
  <2> QED
    BY <2>7, <2>8
<1>4. \A i, j \in 1..n : i < j => v[i] < v[j]
  <2> SUFFICES ASSUME NEW i \in 1..n, NEW j \in 1..n, i < j PROVE v[i] < v[j]
    OBVIOUS
  <2>1. i \in 1..(j - 1)
    OBVIOUS
  <2>2. j \notin T
    <3> HIDE DEF T
    <3> QED
      BY <1>3, Zenon
  <2> QED
    BY <2>1, <2>2, Zenon
<1> QED
  BY <1>2, <1>4

(* A bundle that is not refused has its migrations in order.               *)
LEMMA OrderValidated ==
    ASSUME NEW id, NEW s, Constructed(s), ValidateBundle(id, s) = "ok"
    PROVE  Increasing(s)
<1> DEFINE n == Len(s)
<1> DEFINE Falls(i) == i > 1 /\ s[i].version <= s[i - 1].version
<1>1. s \in Seq(Constructible)
  BY CandidatesAssumption DEF Constructed
<1>2. n \in Nat /\ DOMAIN s = 1..n /\ \A i \in 1..n : s[i].version \in Int
  <2>1. n \in Nat /\ DOMAIN s = 1..n /\ \A i \in 1..n : s[i] \in Constructible
    BY <1>1
  <2> HIDE DEF n
  <2> QED
    BY <2>1 DEF Constructible
<1>3. \A i \in DOMAIN s : ~Falls(i)
  BY DEF ValidateBundle
<1>4. \A i \in 1..n : i > 1 => s[i - 1].version < s[i].version
  <2> SUFFICES ASSUME NEW i \in 1..n, i > 1 PROVE s[i - 1].version < s[i].version
    OBVIOUS
  <2>1. i - 1 \in 1..n
    BY <1>2
  <2>2. ~(s[i].version <= s[i - 1].version)
    BY <1>2, <1>3
  <2>3. s[i].version \in Int /\ s[i - 1].version \in Int
    BY <1>2, <2>1
  <2> QED
    BY <2>2, <2>3
<1> HIDE DEF n
<1> QED
  BY <1>2, <1>4, StepwiseIncreasing

(* A migration that was constructed is one, under its version.             *)
LEMMA ConstructedMigration ==
    ASSUME NEW m \in Candidates, Validate(m) = "ok",
           NEW planned,
           planned = [sql |-> m.sql, aliases |-> [d \in Dialect |-> {m.aliases[d][i] :
                                                        i \in DOMAIN m.aliases[d]}]]
    PROVE  m.version \in Version /\ IsMigration(m.version, planned)
<1>1. /\ m.version \in Int /\ m.sql \in [Dialect -> Body]
      /\ m.aliases \in [Dialect -> Seq(Checksum \cup {Malformed})]
      /\ \A d \in Dialect : m.kind \notin Legacy => m.aliases[d] = <<>>
  BY CandidatesAssumption DEF Constructible
<1>2. ~(m.version <= 0)
  BY DEF Validate
<1>3. m.version \in Version
  BY <1>1, <1>2 DEF Version
<1> DEFINE A(d) == {m.aliases[d][i] : i \in DOMAIN m.aliases[d]}
<1>4. ASSUME NEW d \in Dialect
      PROVE  A(d) \subseteq Checksum /\ ChecksumFor(m.version, m, d) \notin A(d)
  <2> DEFINE s == m.aliases[d]
  <2>1. s \in Seq(Checksum \cup {Malformed})
    BY <1>1
  <2>2. CASE m.kind \notin Legacy
    <3>1. s = <<>>
      BY <1>1, <2>2
    <3>2. A(d) = {}
      BY <3>1
    <3> QED
      BY <3>2
  <2>3. CASE m.kind \in Legacy
    <3>1. /\ \A e \in Dialect : m.expected[e] = ChecksumFor(m.version, m, e)
          /\ \A e \in Dialect : AliasesFit(m.expected[e], m.aliases[e])
      BY <2>3 DEF Validate
    <3>2. AliasesFit(ChecksumFor(m.version, m, d), s)
      BY <3>1
    <3> DEFINE c == ChecksumFor(m.version, m, d)
    <3>3. AliasesFit(c, s) /\ A(d) = {s[i] : i \in DOMAIN s}
      BY <3>2
    <3> HIDE DEF c, s
    <3>4. \A i \in DOMAIN s : s[i] \notin {Malformed, c} /\ s[i] \in Checksum \cup {Malformed}
      BY <2>1, <3>3 DEF AliasesFit
    <3> QED
      BY <3>3, <3>4 DEF c
  <2> QED
    BY <2>2, <2>3
<1>5. planned = [sql |-> m.sql, aliases |-> [d \in Dialect |-> A(d)]]
  OBVIOUS
<1> HIDE DEF A
<1>6. planned \in Migration
  BY <1>1, <1>4, <1>5 DEF Migration
<1>7. \A d \in Dialect : ChecksumFor(m.version, planned, d) \notin planned.aliases[d]
  <2>1. planned.sql = m.sql /\ \A d \in Dialect : planned.aliases[d] = A(d)
    BY <1>5
  <2>2. \A d \in Dialect : ChecksumFor(m.version, planned, d) = ChecksumFor(m.version, m, d)
    BY <2>1, Zenon DEF ChecksumFor
  <2> QED
    BY <1>4, <2>1, <2>2, Zenon
<1> QED
  BY <1>3, <1>6, <1>7 DEF IsMigration

(* The versions of a sequence of constructed migrations are finitely many. *)
LEMMA FiniteVersions ==
    ASSUME NEW s, Constructed(s)
    PROVE  IsFiniteSet(Versions(s))
<1> DEFINE n == Len(s)
<1> DEFINE f == [i \in 1..n |-> s[i].version]
<1>1. n \in Nat /\ DOMAIN s = 1..n
  BY DEF Constructed
<1>2. Versions(s) = {s[i].version : i \in 1..n}
  BY <1>1 DEF Versions
<1>3. IsFiniteSet(1..n)
  BY <1>1, FS_Interval
<1> HIDE DEF n
<1>4. f \in [1..n -> Versions(s)]
  BY <1>2
<1>5. \A v \in Versions(s) : \E i \in 1..n : f[i] = v
  BY <1>2
<1>6. f \in Surjection(1..n, Versions(s))
  BY <1>4, <1>5 DEF Surjection
<1> HIDE DEF f
<1> QED
  BY <1>3, <1>6, FS_Surjection

(* What runners take for granted of a bundle.                              *)
LEMMA PlannedBundle ==
    ASSUME NEW s, Constructed(s), NEW bundle, bundle = AsPlanned(s)
    PROVE  IsBundle(bundle)
<1> DEFINE Chosen(v) == CHOOSE m \in {s[i] : i \in DOMAIN s} : m.version = v
<1> DEFINE Planned(m) ==
        [sql |-> m.sql, aliases |-> [d \in Dialect |-> {m.aliases[d][i] :
                                                        i \in DOMAIN m.aliases[d]}]]
<1>1. bundle = [v \in Versions(s) |-> Planned(Chosen(v))]
  BY DEF AsPlanned
<1>2. ASSUME NEW v \in Versions(s)
      PROVE  Chosen(v) \in Candidates /\ Validate(Chosen(v)) = "ok" /\ Chosen(v).version = v
  <2> DEFINE M == {s[i] : i \in DOMAIN s}
  <2>1. \E m \in M : m.version = v
    BY DEF Versions
  <2>2. \A m \in M : m \in Candidates /\ Validate(m) = "ok"
    BY DEF Constructed
  <2> DEFINE c == CHOOSE m \in M : m.version = v
  <2> HIDE DEF M
  <2>3. c \in M /\ c.version = v
    BY <2>1
  <2>4. Chosen(v) = c
    BY DEF M
  <2> HIDE DEF c, Chosen
  <2> QED
    BY <2>2, <2>3, <2>4
<1> HIDE DEF Chosen
<1>3. ASSUME NEW v \in Versions(s) PROVE v \in Version /\ IsMigration(v, Planned(Chosen(v)))
  <2> DEFINE m == Chosen(v)
  <2> DEFINE planned == Planned(m)
  <2>1. m \in Candidates /\ Validate(m) = "ok" /\ m.version = v
    BY <1>2
  <2> HIDE DEF m
  <2>2. planned = [sql |-> m.sql, aliases |-> [d \in Dialect |-> {m.aliases[d][i] :
                                                        i \in DOMAIN m.aliases[d]}]]
    OBVIOUS
  <2> HIDE DEF planned
  <2>3. m.version \in Version /\ IsMigration(m.version, planned)
    BY <2>1, <2>2, ConstructedMigration
  <2> QED
    BY <2>1, <2>3 DEF planned, m
<1> HIDE DEF Planned
<1>4. /\ DOMAIN bundle = Versions(s)
      /\ \A v \in Versions(s) : bundle[v] = Planned(Chosen(v))
  BY <1>1
<1>5. IsFiniteSet(Versions(s))
  BY FiniteVersions
<1> QED
  BY <1>3, <1>4, <1>5 DEF IsBundle

(* Only migrations that were constructed get into a bundle.                *)
THEOREM AuthoringInvariant == BASpec => []BAInv
<1>1. BAInit => BAInv
  <2> SUFFICES ASSUME BAInit PROVE BAInv
    OBVIOUS
  <2>1. draft = <<>> /\ bundles = <<>>
    BY DEF BAInit
  <2>2. Constructed(draft)
    BY <2>1 DEF Constructed
  <2> DEFINE Y == [id : DOMAIN BundleIds, migrations : Seq(Candidates)]
  <2> HIDE DEF Y
  <2>3. bundles \in Seq(Y)
    BY <2>1
  <2>4. \A b \in DOMAIN bundles : FALSE
    BY <2>1
  <2> QED
    BY <2>2, <2>3, <2>4 DEF BAInv, Y
<1>2. BAInv /\ [BANext]_baVars => BAInv'
  <2> SUFFICES ASSUME BAInv, [BANext]_baVars PROVE BAInv'
    OBVIOUS
  <2>1. ASSUME NEW m \in Candidates, Construct(m) PROVE BAInv'
    <3>1. bundles' = bundles
      BY <2>1 DEF Construct
    <3>2. Constructed(draft')
      <4>1. Constructed(draft)
        BY DEF BAInv
      <4>2. CASE Validate(m) = "ok"
        <5> DEFINE s == draft
        <5> DEFINE Y == Candidates
        <5>1. draft' = Append(s, m)
          BY <2>1, <4>2 DEF Construct
        <5>2. s \in Seq(Y) /\ m \in Y
          BY <2>1, <4>1 DEF Constructed
        <5> DEFINE t == Append(s, m)
        <5>c. \A i \in DOMAIN s : Validate(s[i]) = "ok"
          BY <4>1 DEF Constructed
        <5> HIDE DEF Y, s
        <5>3. t \in Seq(Y) /\ \A i \in DOMAIN t : t[i] = m \/ (i \in DOMAIN s /\ t[i] = s[i])
          BY <5>2
        <5> HIDE DEF t
        <5>4. \A i \in DOMAIN t : Validate(t[i]) = "ok"
          BY <4>2, <5>c, <5>3
        <5>5. draft' = t
          BY <5>1 DEF t
        <5> QED
          BY <5>3, <5>4, <5>5 DEF Constructed, Y
      <4>3. CASE Validate(m) # "ok"
        <5>1. draft' = draft
          BY <2>1, <4>3 DEF Construct
        <5> QED
          BY <4>1, <5>1
      <4> QED
        BY <4>2, <4>3
    <3> QED
      BY <3>1, <3>2 DEF BAInv
  <2>2. ASSUME NEW id \in DOMAIN BundleIds, NewBundle(id) PROVE BAInv'
    <3>1. draft' = <<>>
      BY <2>2 DEF NewBundle
    <3>2. Constructed(draft')
      BY <3>1 DEF Constructed
    <3>3. CASE ValidateBundle(id, draft) = "ok"
      <4> DEFINE new == [id |-> id, migrations |-> draft]
      <4> DEFINE s == bundles
      <4>1. bundles' = Append(s, new)
        BY <2>2, <3>3 DEF NewBundle
      <4>2. Constructed(new.migrations) /\ Increasing(new.migrations)
        BY <3>3, OrderValidated DEF BAInv
      <4> DEFINE Y == [id : DOMAIN BundleIds, migrations : Seq(Candidates)]
      <4>3. s \in Seq(Y) /\ new \in Y
        BY <2>2 DEF BAInv, Constructed
      <4>4. \A b \in DOMAIN s : Constructed(s[b].migrations) /\ Increasing(s[b].migrations)
        BY DEF BAInv
      <4> DEFINE t == Append(s, new)
      <4> HIDE DEF new, s, Y
      <4>5. t \in Seq(Y) /\ \A i \in DOMAIN t : t[i] = new \/ (i \in DOMAIN s /\ t[i] = s[i])
        BY <4>3
      <4> HIDE DEF t
      <4>6. \A b \in DOMAIN t : Constructed(t[b].migrations) /\ Increasing(t[b].migrations)
        BY <4>2, <4>4, <4>5
      <4>7. bundles' = t
        BY <4>1 DEF t
      <4> QED
        BY <3>2, <4>5, <4>6, <4>7 DEF BAInv, Y
    <3>4. CASE ValidateBundle(id, draft) # "ok"
      <4>1. bundles' = bundles
        BY <2>2, <3>4 DEF NewBundle
      <4> QED
        BY <3>2, <4>1 DEF BAInv
    <3> QED
      BY <3>3, <3>4
  <2>3. ASSUME Lint PROVE BAInv'
    BY <2>3 DEF Lint, BAInv
  <2>4. CASE UNCHANGED baVars
    BY <2>4 DEF baVars, BAInv
  <2> QED
    BY <2>1, <2>2, <2>3, <2>4 DEF BANext
<1> QED
  BY <1>1, <1>2, PTL DEF BASpec

(* What the runners take for granted of a bundle is true of every bundle   *)
(* that can be built, whatever migrations services try to construct.       *)
THEOREM AuthoredAreBundles == BASpec => []BuiltAreBundles
<1>1. BAInv => BuiltAreBundles
  <2> SUFFICES ASSUME BAInv, NEW b \in DOMAIN bundles
               PROVE  LET migrations == bundles[b].migrations
                      IN  /\ IsBundle(AsPlanned(migrations))
                          /\ \A i, j \in DOMAIN migrations :
                                i < j => migrations[i].version < migrations[j].version
    BY DEF BuiltAreBundles
  <2> DEFINE s == bundles[b].migrations
  <2>1. Constructed(s) /\ Increasing(s)
    BY DEF BAInv
  <2> HIDE DEF s
  <2>2. IsBundle(AsPlanned(s))
    BY <2>1, PlannedBundle
  <2> QED
    BY <2>1, <2>2 DEF Increasing, s
<1> QED
  BY <1>1, AuthoringInvariant, PTL

(* What the lint found last is still so: building a bundle is another      *)
(* call, with another answer.                                              *)
LintInv ==
    /\ answer = "linted" => LintError(bundles) = "ok"
    /\ answer = "CrossBundleReference" => LintError(bundles) = "CrossBundleReference"

(* The other two calls never answer as the lint does.                      *)
LEMMA OtherAnswers ==
    ASSUME NEW m, NEW id, NEW migrations
    PROVE  /\ Validate(m) \notin {"linted", "CrossBundleReference"}
           /\ ValidateBundle(id, migrations) \notin {"linted", "CrossBundleReference"}
<1>1. Validate(m) \notin {"linted", "CrossBundleReference"}
  BY DEF Validate
<1>2. ValidateBundle(id, migrations)
        \in {"InvalidBundleId", "ok", "DuplicateMigrationVersion", "InvalidMigrationOrder"}
  BY Zenon DEF ValidateBundle
<1> QED
  BY <1>1, <1>2

(* The lint's answer is about the bundles there are.                       *)
LEMMA LintAnswers == BASpec => []LintInv
<1>1. BAInit => LintInv
  BY DEF BAInit, LintInv
<1>2. LintInv /\ [BANext]_baVars => LintInv'
  <2> SUFFICES ASSUME LintInv, [BANext]_baVars PROVE LintInv'
    OBVIOUS
  <2>1. ASSUME NEW m \in Candidates, Construct(m) PROVE LintInv'
    <3>1. answer' = Validate(m)
      BY <2>1 DEF Construct
    <3>2. answer' \notin {"linted", "CrossBundleReference"}
      BY <3>1, OtherAnswers
    <3> QED
      BY <3>2 DEF LintInv
  <2>2. ASSUME NEW id \in DOMAIN BundleIds, NewBundle(id) PROVE LintInv'
    <3>1. answer' = ValidateBundle(id, draft)
      BY <2>2 DEF NewBundle
    <3>2. answer' \notin {"linted", "CrossBundleReference"}
      BY <3>1, OtherAnswers
    <3> QED
      BY <3>2 DEF LintInv
  <2>3. ASSUME Lint PROVE LintInv'
    <3>1. /\ answer' = IF LintError(bundles) = "ok" THEN "linted" ELSE LintError(bundles)
          /\ bundles' = bundles
      BY <2>3 DEF Lint
    <3>2. LintError(bundles)' = LintError(bundles)
      BY <3>1
    <3>3. LintError(bundles) # "linted"
      <4>1. \A i : LintFault(bundles, i) # "linted"
        <5> SUFFICES ASSUME NEW i PROVE LintFault(bundles, i) # "linted"
          OBVIOUS
        <5>1. CheckBundleIndependence(bundles[i].migrations) \in {"ok", "CrossBundleReference"}
          BY Zenon DEF CheckBundleIndependence
        <5>2. ValidateBundle(bundles[i].id, bundles[i].migrations) # "linted"
          BY OtherAnswers
        <5> QED
          BY <5>1, <5>2 DEF LintFault
      <4> QED
        BY <4>1 DEF LintError
    <3> QED
      BY <3>1, <3>2, <3>3 DEF LintInv
  <2>4. CASE UNCHANGED baVars
    BY <2>4 DEF baVars, LintInv
  <2> QED
    BY <2>1, <2>2, <2>3, <2>4 DEF BANext
<1> QED
  BY <1>1, <1>2, PTL DEF BASpec

(* A bundle stands alone when its statements use only tables that they     *)
(* create, in either dialect.                                              *)
StandsAlone(s) ==
    UNION {UsedBy(s, d) : d \in Dialect} \subseteq UNION {CreatedBy(s, d) : d \in Dialect}

(* Where the scan reads statements rightly, the independence check does:   *)
(* it puts together the migrations of a bundle and their dialects.         *)
LEMMA IndependenceChecked ==
    ASSUME ScansExactly, NEW s, Constructed(s)
    PROVE  CheckBundleIndependence(s) = IF StandsAlone(s) THEN "ok" ELSE "CrossBundleReference"
<1> DEFINE scans == UNION {Scans(s[i]) : i \in DOMAIN s}
<1> DEFINE created == UNION {t.created : t \in scans}
<1>1. \A i \in DOMAIN s : s[i] \in Candidates
  BY DEF Constructed
<1>2. \A i \in DOMAIN s, d \in Dialect :
          /\ ScanTables(s[i].sql[d]).created = Created(s[i].sql[d])
          /\ ScanTables(s[i].sql[d]).referenced = Used(s[i].sql[d])
  <2> SUFFICES ASSUME NEW i \in DOMAIN s, NEW d \in Dialect
               PROVE  /\ ScanTables(s[i].sql[d]).created = Created(s[i].sql[d])
                      /\ ScanTables(s[i].sql[d]).referenced = Used(s[i].sql[d])
    OBVIOUS
  <2>1. ScanTables(s[i].sql[d])
          = [created |-> Created(s[i].sql[d]), referenced |-> Used(s[i].sql[d])]
    BY <1>1, Zenon DEF ScansExactly
  <2> QED
    BY <2>1
<1>3. \A t : t \in scans <=> \E i \in DOMAIN s, d \in Dialect : t = ScanTables(s[i].sql[d])
  BY DEF Scans
<1> HIDE DEF scans
<1>4. \A x : x \in created <=> \E i \in DOMAIN s, d \in Dialect : x \in Created(s[i].sql[d])
  BY <1>2, <1>3
<1>5. \A x : x \in UNION {CreatedBy(s, d) : d \in Dialect}
                 <=> \E i \in DOMAIN s, d \in Dialect : x \in Created(s[i].sql[d])
  BY DEF CreatedBy
<1>6. \A x : x \in UNION {UsedBy(s, d) : d \in Dialect}
                 <=> \E i \in DOMAIN s, d \in Dialect : x \in Used(s[i].sql[d])
  BY DEF UsedBy
<1>7. (\E t \in scans : ~(t.referenced \subseteq created)) <=> ~StandsAlone(s)
  <2> HIDE DEF created
  <2>1. created = UNION {CreatedBy(s, d) : d \in Dialect}
    BY <1>4, <1>5
  <2>2. (\E t \in scans : ~(t.referenced \subseteq created))
          <=> \E i \in DOMAIN s, d \in Dialect : ~(Used(s[i].sql[d]) \subseteq created)
    BY <1>2, <1>3
  <2>3. StandsAlone(s) <=> \A i \in DOMAIN s, d \in Dialect : Used(s[i].sql[d]) \subseteq created
    BY <1>6, <2>1 DEF StandsAlone
  <2> QED
    BY <2>2, <2>3
<1>8. CheckBundleIndependence(s)
        = IF \E t \in scans : ~(t.referenced \subseteq created) THEN "CrossBundleReference" ELSE "ok"
  BY Zenon DEF CheckBundleIndependence, scans
<1> QED
  BY <1>7, <1>8

(* Where the scan reads statements rightly, so does the lint read bundles, *)
(* however many: it passes only such as stand alone, under distinct ids,   *)
(* and blames a reference only where there is one that does not.           *)
THEOREM LintDecides ==
    ASSUME ScansExactly
    PROVE  BASpec => []LintExact
<1>1. BAInv /\ LintInv => LintExact
  <2> SUFFICES ASSUME BAInv, LintInv PROVE LintExact
    OBVIOUS
  <2> DEFINE fault(i) == LintFault(bundles, i)
  <2> DEFINE wrong == {i \in DOMAIN bundles : fault(i) # "ok"}
  <2> DEFINE first == CHOOSE i \in wrong : \A j \in wrong : i <= j
  <2>1. LintError(bundles) = IF wrong = {} THEN "ok" ELSE fault(first)
    BY Zenon DEF LintError
  <2>2. \A i \in DOMAIN bundles :
            CheckBundleIndependence(bundles[i].migrations)
                = IF StandsAlone(bundles[i].migrations) THEN "ok" ELSE "CrossBundleReference"
    <3> SUFFICES ASSUME NEW i \in DOMAIN bundles, NEW s, s = bundles[i].migrations
                 PROVE  CheckBundleIndependence(s)
                            = IF StandsAlone(s) THEN "ok" ELSE "CrossBundleReference"
      BY Zenon
    <3>1. Constructed(s)
      BY DEF BAInv
    <3> QED
      BY <3>1, IndependenceChecked, Zenon
  <2>3. ASSUME answer = "linted"
        PROVE  \A i \in DOMAIN bundles :
                  /\ StandsAlone(bundles[i].migrations)
                  /\ \A j \in 1..(i - 1) : bundles[j].id # bundles[i].id
    <3>1. LintError(bundles) = "ok"
      BY <2>3 DEF LintInv
    <3>2. wrong = {}
      <4>1. CASE wrong # {}
        <5>1. first \in wrong
          <6>1. wrong \subseteq Nat
            BY DEF BAInv
          <6> HIDE DEF wrong
          <6>2. PICK i \in wrong : \A j \in wrong : i <= j
            BY <4>1, <6>1, LeastOf
          <6> QED
            BY <6>2, Zenon
        <5> HIDE DEF first
        <5> QED
          BY <2>1, <3>1, <4>1, <5>1
      <4> QED
        BY <4>1
    <3>3. \A i \in DOMAIN bundles : fault(i) = "ok"
      BY <3>2
    <3> SUFFICES ASSUME NEW i \in DOMAIN bundles
                 PROVE  /\ StandsAlone(bundles[i].migrations)
                        /\ \A j \in 1..(i - 1) : bundles[j].id # bundles[i].id
      OBVIOUS
    <3>4. fault(i) = "ok"
      BY <3>3
    <3>5. /\ ~\E j \in 1..(i - 1) : bundles[j].id = bundles[i].id
          /\ CheckBundleIndependence(bundles[i].migrations) = "ok"
      <4> DEFINE repeated == \E j \in 1..(i - 1) : bundles[j].id = bundles[i].id
      <4> DEFINE verdict == ValidateBundle(bundles[i].id, bundles[i].migrations)
      <4>1. "ok" = IF verdict # "ok" THEN verdict
                   ELSE IF repeated THEN "DuplicateBundle"
                   ELSE CheckBundleIndependence(bundles[i].migrations)
        BY <3>4, Zenon DEF LintFault
      <4> HIDE DEF repeated, verdict
      <4>2. ~repeated /\ CheckBundleIndependence(bundles[i].migrations) = "ok"
        BY <4>1
      <4> QED
        BY <4>2 DEF repeated
    <3> QED
      BY <2>2, <3>5
  <2>4. ASSUME answer = "CrossBundleReference"
        PROVE  \E i \in DOMAIN bundles : ~StandsAlone(bundles[i].migrations)
    <3>1. LintError(bundles) = "CrossBundleReference"
      BY <2>4 DEF LintInv
    <3>2. wrong # {} /\ fault(first) = "CrossBundleReference"
      BY <2>1, <3>1
    <3>3. first \in wrong
      <4>1. wrong \subseteq Nat
        BY DEF BAInv
      <4> HIDE DEF wrong
      <4>2. PICK i \in wrong : \A j \in wrong : i <= j
        BY <3>2, <4>1, LeastOf
      <4> QED
        BY <4>2, Zenon
    <3> HIDE DEF first
    <3>4. first \in DOMAIN bundles
      BY <3>3
    <3>5. CheckBundleIndependence(bundles[first].migrations) = "CrossBundleReference"
      <4> DEFINE verdict == ValidateBundle(bundles[first].id, bundles[first].migrations)
      <4>1. verdict # "CrossBundleReference"
        BY OtherAnswers
      <4>2. "CrossBundleReference"
              = IF verdict # "ok" THEN verdict
                ELSE IF \E j \in 1..(first - 1) : bundles[j].id = bundles[first].id
                THEN "DuplicateBundle"
                ELSE CheckBundleIndependence(bundles[first].migrations)
        BY <3>2, Zenon DEF LintFault
      <4> HIDE DEF verdict
      <4> QED
        BY <4>1, <4>2
    <3> QED
      BY <2>2, <3>4, <3>5
  <2>5. \A i \in DOMAIN bundles : i \in Nat /\ i >= 1
    BY DEF BAInv
  <2>6. ASSUME answer = "linted", NEW b \in DOMAIN bundles, NEW c \in DOMAIN bundles, b # c
        PROVE  bundles[b].id # bundles[c].id
    <3>1. b \in 1..(c - 1) \/ c \in 1..(b - 1)
      BY <2>5, <2>6
    <3> QED
      BY <2>3, <2>6, <3>1
  <2> QED
    BY <2>3, <2>4, <2>6 DEF LintExact, StandsAlone
<1> QED
  BY <1>1, AuthoringInvariant, LintAnswers, PTL

=============================================================================
