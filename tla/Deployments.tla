----------------------------- MODULE Deployments -----------------------------
(***************************************************************************)
(* The bundles, releases, databases and calls that make the interesting    *)
(* cases of a deployment happen, for the model-checked instances of the    *)
(* runner modules.                                                         *)
(***************************************************************************)
EXTENDS MigrationSession, TLC

CONSTANTS p1, p2, installer, none

MCBody == {"s1", "s2", "s3", "edited"}

(* A portable migration has the same template on both dialects.            *)
Portable(sql) == [sql |-> [d \in Dialect |-> sql], aliases |-> [d \in Dialect |-> {}]]
(* A published migration that also accepts another track's checksum.       *)
Legacy(sql, alias) == [sql |-> [d \in Dialect |-> sql], aliases |-> [d \in Dialect |-> {alias}]]
PerDialect(pg, lite) ==
    [sql |-> [d \in Dialect |-> IF d = "postgres" THEN pg ELSE lite],
     aliases |-> [d \in Dialect |-> {}]]

V1 == 1 :> Portable("s1")
V2 == 2 :> Portable("s2")

MCBundle == {"core", "outbox"}

(* v1: the first release.  v2 appends core V2 and adds the outbox bundle.  *)
(* edited: v2 with the recorded core V1 edited.  legacy: v2 accepting the  *)
(* edited body's receipt as an alias.                                      *)
MCRelease == {"v1", "v2", "edited", "legacy"}
MCDeclared ==
    "v1" :> [b \in MCBundle |-> IF b = "core" THEN V1 ELSE <<>>]
      @@ "v2" :> [b \in MCBundle |-> IF b = "core" THEN V1 @@ V2
                                      ELSE 1 :> PerDialect("s3", "s1")]
      @@ "edited" :> [b \in MCBundle |-> IF b = "core" THEN 1 :> Portable("edited") @@ V2
                                          ELSE <<>>]
      @@ "legacy" :> [b \in MCBundle |-> IF b = "core" THEN 1 :> Legacy("s1", <<1, "edited">>) @@ V2
                                          ELSE <<>>]

Fresh == [tables |-> {}, stamps |-> <<>>, rows |-> {}, effects |-> {}]
Found(present, stamped, executed) ==
    [tables |-> present, stamps |-> stamped,
     rows |-> {ReceiptOf(e) : e \in executed}, effects |-> executed]
Ran(v, sql, earlier) ==
    [bundle |-> "core", version |-> v, body |-> sql, by |-> installer, after |-> earlier]

(* Migrated by v1; by v1 and v2; by the edited track.                      *)
ByV1 == Found(LedgerTables, <<1>>, {Ran(1, "s1", {})})
ByV2 == Found(LedgerTables, <<1>>, {Ran(1, "s1", {}), Ran(2, "s2", {1})})
ByEdited == Found(LedgerTables, <<1>>, {Ran(1, "edited", {})})
(* Half a ledger, a later generation's stamp, no stamp and two stamps.     *)
OnlyLedger == Found({LedgerTable}, <<>>, {Ran(1, "s1", {})})
OnlyMeta == Found({MetaTable}, <<1>>, {})
NextGeneration == Found(LedgerTables, <<2>>, {Ran(1, "s1", {})})
Unstamped == Found(LedgerTables, <<>>, {})
TwiceStamped == Found(LedgerTables, <<1, 1>>, {})

AllDatabases == {Fresh, ByV1, ByV2, ByEdited, OnlyLedger, OnlyMeta, NextGeneration,
                 Unstamped, TwiceStamped}
Runnable == {Fresh, ByV1}

Run(r, bundles) == [kind |-> "run", release |-> r, bundles |-> bundles]
Verify(r, bundles) == [kind |-> "verify", release |-> r, bundles |-> bundles]

RollingCalls == {Run("v1", <<"core">>), Run("v2", <<"core", "outbox">>),
                 Run("edited", <<"core">>), Run("legacy", <<"core">>),
                 Run("v2", <<"core", "core">>),
                 Verify("v1", <<"core">>), Verify("v2", <<"outbox", "core">>),
                 Verify("v2", <<"core", "core">>)}
DeployCalls == {Run("v2", <<"core", "outbox">>), Run("v2", <<"outbox", "core">>)}

(* These releases only append, and these databases were left by such: what *)
(* the order of execution is proved from.                                  *)
ASSUME AppendOnlyAssumption == ReleasesAppend /\ FoundInOrder
=============================================================================
