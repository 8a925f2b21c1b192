--------------------------- MODULE MigrationLedger ---------------------------
(***************************************************************************)
(* What every migration runner promises about the database it migrates,    *)
(* whatever its driver, locks and transactions: the ledger comes into      *)
(* being complete and stamped in one step; a bundle's pending migrations   *)
(* take effect together with their receipts, in declared order, each       *)
(* exactly once, and only on a ledger of this generation whose receipts    *)
(* the release recognises; nothing else ever changes the database.         *)
(***************************************************************************)
EXTENDS MigrationDatabase

Usable == tables = LedgerTables /\ stamps = <<LEDGER_VERSION>>

(* The ledger and its meta table appear together, already stamped.         *)
Bootstrap ==
    /\ tables = {}
    /\ tables' = LedgerTables
    /\ stamps' = <<LEDGER_VERSION>>
    /\ UNCHANGED <<rows, effects>>

(* What executing body v of a batch leaves behind: it runs after every     *)
(* version already recorded and every smaller version of the batch.        *)
EffectIn(p, r, b, batch, v) ==
    [bundle |-> b, version |-> v, body |-> SqlFor(r, b, v), by |-> p,
     after |-> Recorded(AppliedVersions(rows, b)) \cup {u \in batch : u < v}]

(* Process p, running release r, brings bundle b up to date.  Without a    *)
(* ledger it is created in the same step.                                  *)
ApplyBundle(p, r, b) ==
    LET applied == AppliedVersions(rows, b)
        batch == Pending(Declared[r][b], applied)
        new == {EffectIn(p, r, b, batch, v) : v \in batch}
    IN  /\ Usable \/ tables = {}
        /\ PlanError(Declared[r][b], applied, DIALECT) = "ok"
        /\ tables' = LedgerTables
        /\ stamps' = <<LEDGER_VERSION>>
        /\ rows' = rows \cup {ReceiptOf(e) : e \in new}
        /\ effects' = effects \cup new

Next == Bootstrap \/ \E p \in Proc, r \in Release, b \in Bundle : ApplyBundle(p, r, b)

Spec == InitDatabase /\ [][Next]_db
=============================================================================
