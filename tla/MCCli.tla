------------------------------- MODULE MCCli -------------------------------
(* A small instance of Cli for TLC: one key and one webhook to begin with.  *)
EXTENDS Cli, TLC

CONSTANTS key0, hook0, tenant0

MCFirstKeys ==
    key0 :> [tenant |-> tenant0, project |-> DefaultProject, scopes |-> {"read", "write"}, revoked |-> FALSE]

MCFirstHooks == hook0 :> [tenant |-> tenant0, target |-> "first", enabled |-> TRUE]
=============================================================================
