--------------------------- MODULE MCPostgresRunner ---------------------------
(***************************************************************************)
(* Instances of PostgresRunner over Deployments, and the lock keys.        *)
(***************************************************************************)
EXTENDS PostgresRunner, Deployments

MCKey == {"k0", "k1", "k2"}
(* hashtext may collide: a bundle id has the bootstrap name's key.         *)
CollidingHash == BootstrapName :> "k0" @@ "core" :> "k0" @@ "outbox" :> "k2"

(* The calls of a rolling deployment, with the bundles in either order.    *)
EitherOrderCalls == RollingCalls \cup DeployCalls
=============================================================================
