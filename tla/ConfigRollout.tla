---------------------------- MODULE ConfigRollout ----------------------------
(***************************************************************************)
(* run_config_rollout: recreate services of the active release with edited *)
(* runtime values.  config.env is the operator's env file, config.running  *)
(* what the containers were started with, config.state the recorded        *)
(* runtime-config.json.  The heads, the rendered target and the revision   *)
(* are read before the rollout lock.                                       *)
(***************************************************************************)
EXTENDS ReleaseState

configOnly == <<hostVars, deployments, migrations, bootstraps, backups, made, ops>>

Cfg(p) == configs[proc[p].id]
SetCfg(p, s) == configs' = [configs EXCEPT ![proc[p].id].status = s]

\* The operator edits the env file.
EditEnv(value) ==
    /\ ops < MaxOps
    /\ ops' = ops + 1
    /\ config.env # value
    /\ config' = [config EXCEPT !.env = value]
    /\ UNCHANGED <<hostVars, journalVars, backupVars, rolloutLock, backupLock,
                   proc, faults>>

\* The checks before the lock, and what they remember.
ConfigStart(p, initialize) ==
    /\ current # None /\ Resolvable(current)
    /\ live = current.heads
    /\ Compatible(current.app, SourceHeads[current.app], current)
    /\ Start(p, "config", current.app, IF initialize THEN "initialize" ELSE "apply",
             0, [heads |-> live, target |-> config.env])
    /\ UNCHANGED <<hostVars, journalVars, backupVars, config, rolloutLock,
                   backupLock, faults>>

ConfigUnblocked(p) ==
    /\ ~Blocked /\ UnresolvedConfigs = {}
    /\ current # None /\ Resolvable(current)
    /\ current.app = proc[p].rel

\* The recorded state belongs to the active deployment.
StateIsCurrent ==
    config.state # None /\ config.state.deployment = current.deployment

\* The health gates of the active release.
ActiveHealthy == app = current.app /\ gateway = current.app

Recorded(value) == [values |-> value, deployment |-> current.deployment]

\* --initialize-active-config records what runs, if nothing was edited yet.
ConfigInitializes(p) ==
    /\ ConfigUnblocked(p)
    /\ ~StateIsCurrent
    /\ proc[p].act = "initialize"
    /\ proc[p].saw.target = config.running
    /\ ActiveHealthy

ConfigInitialize(p) ==
    /\ At(p, "config", "lock")
    /\ rolloutLock = None
    /\ ConfigInitializes(p)
    /\ config' = [config EXCEPT !.state = Recorded(config.running)]
    /\ Leave(p)
    /\ UNCHANGED <<configs, configOnly, faults>>

ConfigChanges(p) ==
    /\ ConfigUnblocked(p)
    /\ StateIsCurrent
    /\ config.state.values = config.running
    /\ proc[p].saw.target # config.running

\* The plan of a changed configuration.
ConfigPlan(p) ==
    /\ At(p, "config", "lock")
    /\ rolloutLock = None
    /\ ConfigChanges(p)
    /\ configs' = Append(configs,
         [target |-> proc[p].saw.target, old |-> config.state.values,
          status |-> "none", result |-> "none"])
    /\ proc' = [proc EXCEPT ![p].pc = "run", ![p].id = Len(configs) + 1]
    /\ rolloutLock' = p
    /\ UNCHANGED <<config, configOnly, backupLock, faults>>

\* Blocked, drifted, unchanged or not initialized: nothing is written.
ConfigRefused(p) ==
    /\ At(p, "config", "lock")
    /\ rolloutLock = None
    /\ ~ConfigInitializes(p)
    /\ ~ConfigChanges(p)
    /\ Leave(p)
    /\ UNCHANGED <<hostVars, journalVars, backupVars, config, ops, faults>>

\* planned; activating with the recreation; stabilizing once the containers
\* carry the rendered values.
ConfigAdvance(p) ==
    /\ At(p, "config", "run")
    /\ \/ Cfg(p).status = "none" /\ SetCfg(p, "planned") /\ UNCHANGED config
       \/ /\ Cfg(p).status = "planned"
          /\ SetCfg(p, "activating")
          /\ config' = Recreated
       \/ /\ Cfg(p).status = "activating"
          /\ config.running = Cfg(p).target
          /\ SetCfg(p, "stabilizing")
          /\ UNCHANGED config
    /\ UNCHANGED <<configOnly, proc, rolloutLock, backupLock, faults>>

\* _assert_release_state_unchanged compares with the heads read before the lock.
ReleaseUnchanged(p) ==
    /\ current # None /\ current.app = proc[p].rel
    /\ live = proc[p].saw.heads

ConfigStable(p) ==
    /\ At(p, "config", "run")
    /\ Cfg(p).status = "stabilizing"
    /\ ActiveHealthy
    /\ ReleaseUnchanged(p)
    /\ Goto(p, "commit")
    /\ UNCHANGED <<configs, config, configOnly, faults>>

\* Event, result, and then runtime-config.json.
ConfigCommit(p) ==
    /\ At(p, "config", "commit")
    /\ SetCfg(p, "committed")
    /\ Goto(p, "result")
    /\ UNCHANGED <<config, configOnly, faults>>

ConfigResult(p) ==
    /\ At(p, "config", "result")
    /\ configs' = [configs EXCEPT ![proc[p].id].result = "committed"]
    /\ Goto(p, "state")
    /\ UNCHANGED <<config, configOnly, faults>>

ConfigRecord(p) ==
    /\ At(p, "config", "state")
    /\ config' = [config EXCEPT !.state = Recorded(Cfg(p).target)]
    /\ Leave(p)
    /\ UNCHANGED <<configs, configOnly, faults>>

\* An error while the target is activated, or a check that fails.
ConfigFails(p) ==
    /\ At(p, "config", "run")
    /\ Cfg(p).status \in {"activating", "stabilizing"}
    /\ \/ Fault
       \/ /\ \/ Cfg(p).status = "activating" /\ config.running # Cfg(p).target
             \/ Cfg(p).status = "stabilizing"
                /\ ~(ReleaseUnchanged(p) /\ ActiveHealthy)
          /\ UNCHANGED faults
    /\ SetCfg(p, "rollback_started")
    /\ Goto(p, "rollback")
    /\ UNCHANGED <<config, configOnly>>

\* The previous values are activated from a temporary env file and checked
\* the same way.
ConfigRollback(p) ==
    /\ At(p, "config", "rollback")
    /\ \/ /\ config' = [config EXCEPT !.running = Cfg(p).old]
          /\ IF ReleaseUnchanged(p) /\ ActiveHealthy
             THEN SetCfg(p, "rolled_back") ELSE SetCfg(p, "rollback_failed")
          /\ UNCHANGED faults
       \/ /\ Fault
          /\ config' \in {config, [config EXCEPT !.running = Cfg(p).old]}
          /\ SetCfg(p, "rollback_failed")
    /\ Goto(p, "rollback_result")
    /\ UNCHANGED configOnly

ConfigRollbackResult(p) ==
    /\ At(p, "config", "rollback_result")
    /\ configs' = [configs EXCEPT ![proc[p].id].result = Cfg(p).status]
    /\ Leave(p)
    /\ UNCHANGED <<config, configOnly, faults>>

\* Errors outside the activation: `failed' is recorded where the event is
\* legal and the refusal swallowed elsewhere.
ConfigError(p) ==
    /\ proc[p].op = "config"
    /\ \/ proc[p].pc = "run" /\ Cfg(p).status \in {"none", "planned"}
       \/ proc[p].pc \in {"commit", "result", "state", "rollback_result"}
    /\ Fault
    /\ configs' = IF Cfg(p).status = "planned"
                  THEN [configs EXCEPT ![proc[p].id].status = "failed",
                                       ![proc[p].id].result = "failed"]
                  ELSE configs
    /\ Leave(p)
    /\ UNCHANGED <<config, configOnly>>

ConfigNext(p) ==
    \/ \E i \in BOOLEAN : ConfigStart(p, i)
    \/ ConfigInitialize(p) \/ ConfigPlan(p) \/ ConfigRefused(p)
    \/ ConfigAdvance(p) \/ ConfigStable(p) \/ ConfigCommit(p) \/ ConfigResult(p)
    \/ ConfigRecord(p) \/ ConfigFails(p) \/ ConfigRollback(p)
    \/ ConfigRollbackResult(p) \/ ConfigError(p)
=============================================================================
