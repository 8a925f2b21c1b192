---------------------------- MODULE MCSqliteRunner ----------------------------
(***************************************************************************)
(* Instances of SqliteRunner over Deployments.                             *)
(***************************************************************************)
EXTENDS SqliteRunner, Deployments
=============================================================================
