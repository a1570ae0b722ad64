---------------------------- MODULE MCServerState ----------------------------
(* What a server finds when it starts: the database behind the migration     *)
(* gate and the plugin catalog of its build.  They share no state, so one    *)
(* part is explored at a time: part is chosen once and the variables of the  *)
(* other stay as they began.                                                 *)
EXTENDS DatabaseMigration, PluginLifecycle, TLC

CONSTANTS a1, a2, b1    \* two versions of a plugin, a pack that depends on it

VARIABLE part

StateInit ==
    /\ MigrationInit /\ PluginInit
    /\ part \in {"database", "plugins"}
    /\ part = "database" => installed = {a1, b1}

StateNext ==
    /\ UNCHANGED part
    /\ \/ part = "database" /\ MigrationNext /\ UNCHANGED pluginVars
       \/ part = "plugins" /\ PluginNext /\ UNCHANGED migrationVars

StateSpec == StateInit /\ [][StateNext]_<<migrationVars, pluginVars, part>>

MCTargets == {a1, a2, b1}
MCFamilyOf == (a1 :> "a") @@ (a2 :> "a") @@ (b1 :> "b")
MCDependsOn == (a1 :> {}) @@ (a2 :> {}) @@ (b1 :> {"a"})
MCBuilds == {{a1, b1}, {a1, a2}}
MCSymmetry == Permutations(Ops) \cup Permutations(Procs) \cup Permutations(PluginRequests)
=============================================================================
