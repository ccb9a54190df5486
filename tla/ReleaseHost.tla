---------------------------- MODULE ReleaseHost ----------------------------
(***************************************************************************)
(* One deployment host: the release tools and the backup tools together,   *)
(* started by operators at any time, each of them able to fail or to be    *)
(* killed between two steps.                                               *)
(***************************************************************************)
EXTENDS AppRollout, SchemaMigration, DbBootstrap, ConfigRollout, BackupRetention,
        DeployPlan

CONSTANT Deployed   \* what the host may run when the model starts, or None

ASSUME DeployedAssumption == Deployed \subseteq Releases \union {None}

\* A virgin host, a host that runs a release, and one that a migration left
\* in doubt: Alembic ended on the new heads and a later check failed.
VirginHost(s) ==
    /\ current = None /\ live = NoSchema /\ app = None /\ gateway = None
    /\ deployments = <<>> /\ migrations = <<>>
    /\ backups = {} /\ made = 0
    /\ config = [env |-> s, running |-> s, state |-> None]

RunningHost(s, r) ==
    /\ current = [app |-> r, heads |-> SourceHeads[r], schema |-> r,
                  deployment |-> 1, migration |-> 0, envelope |-> {r}, stamp |-> 1]
    /\ app = r /\ gateway = r
    /\ deployments = <<[target |-> r, heads |-> SourceHeads[r],
                        status |-> "committed", prev |-> None,
                        result |-> "committed", resolved |-> FALSE]>>
    /\ config = [env |-> s, running |-> s,
                 state |-> [values |-> s, deployment |-> 1]]

SettledHost(s, r) ==
    /\ RunningHost(s, r)
    /\ live = SourceHeads[r]
    /\ migrations = <<>> /\ backups = {} /\ made = 0

HostInDoubt(s, r, t) ==
    /\ <<SourceHeads[r], SourceHeads[t]>> \in Transitions
    /\ RunningHost(s, r)
    /\ live = SourceHeads[t]
    /\ made = 1
    /\ backups = {[n |-> 1, heads |-> SourceHeads[r], verify |-> "passed"]}
    /\ migrations = <<[target |-> t, from |-> SourceHeads[r],
          before |-> FileHash(current),
          after |-> PredictedHash(AfterMigration(current, t, 1), current),
          status |-> "migration_requires_recovery",
          result |-> "migration_requires_recovery", resolved |-> FALSE,
          hold |-> "active", backup |-> 1]>>

Init ==
    /\ bootstraps = <<>> /\ configs = <<>>
    /\ rolloutLock = None /\ backupLock = None
    /\ proc = [p \in Procs |-> Idle]
    /\ ops = 0 /\ faults = 0
    /\ LET s == CHOOSE s \in Settings : TRUE IN
       \/ None \in Deployed /\ VirginHost(s)
       \/ \E r \in Deployed \ {None} :
            SettledHost(s, r) \/ \E t \in Releases : HostInDoubt(s, r, t)

\* One step of a process.
Tool(p) ==
    \/ RolloutNext(p) \/ RecoverNext(p)
    \/ MigrateNext(p) \/ MigrationRecoverNext(p)
    \/ BootstrapNext(p) \/ ConfigNext(p) \/ BackupNext(p)
    \/ LockRefused(p)

\* All tools that the bound allows have been started.
Quiet == ops = MaxOps /\ UNCHANGED vars

Next ==
    \/ \E p \in Procs : Tool(p) \/ Crash(p)
    \/ \E s \in Settings : EditEnv(s)
    \/ Quiet

Spec == Init /\ [][Next]_vars

\* The processes there are.
Running == \E p \in Procs : proc[p] # Idle /\ Tool(p)

-----------------------------------------------------------------------------
(* Properties                                                              *)

DeploymentJournals ==
    [target : Releases, heads : AllHeads, status : DOMAIN DeployLegal,
     prev : Releases \union {None},
     result : Terminal \union {"none"}, resolved : BOOLEAN]

\* Types; a migration names a backup that was made, and at most one tool has a lock.
TypeOK ==
    /\ current \in CurrentStates \union {None}
    /\ live \in AllHeads \union {NoSchema, Partial}
    /\ app \in Tiers /\ gateway \in Releases \union {None}
    /\ deployments \in Seq(DeploymentJournals)
    /\ \A i \in DOMAIN migrations :
         /\ migrations[i].backup \in 0..made
         /\ migrations[i].hold \in {"none", "active", "released"}
    /\ {rolloutLock, backupLock} \subseteq Procs \union {None}
    /\ \A b \in backups : b.n \in 1..made

\* At most one transaction of the three journal kinds is ever unresolved:
\* rollout, migrate and bootstrap refuse to start beside another's, and each
\* recovery refuses to run beside the other kind, so two would block forever.
AtMostOneUnresolved ==
    Cardinality(UnresolvedDeployments) + Cardinality(UnresolvedMigrations)
      + Cardinality(UnresolvedBootstraps) <= 1

\* Whenever no migration is in doubt, the heads saved in current.json are the
\* heads of the database, whatever failed or was killed on the way.
DatabaseSideIsTruthful ==
    UnresolvedMigrations = {} /\ current # None => live = current.heads

\* The tiers run what the newest deployment journal says once it has a good
\* end: the target after a commit, the previous release after a rollback.
TiersMatchJournal ==
    LET last == deployments[Len(deployments)] IN
    deployments # <<>> /\ UnresolvedDeployments = {} =>
      /\ last.result = "committed" => Runs(last.target)
      /\ last.result = "rolled_back" => Runs(last.prev)

\* An application tier outside a transaction is one the saved compatibility
\* envelope vouches for on the live heads: no rollout, rollback, migration or
\* recovery leaves an application beside a schema nobody declared it fit for.
RunningAppIsVouched ==
    ~Blocked /\ current # None /\ app \in Releases =>
      Compatible(app, SourceHeads[app], current)

\* While a migration that touched the database is in doubt, the backup taken
\* of the schema before it is on disk and held: neither prune, nor a second
\* tool, nor the tool's own error path gave up the way back.
InDoubt(mig) ==
    mig.status \in PostMutation \union {"migration_requires_recovery"}
RestorePointKept ==
    \A i \in UnresolvedMigrations :
      InDoubt(migrations[i]) =>
        /\ migrations[i].hold = "active"
        /\ \E b \in backups :
             b.n = migrations[i].backup /\ b.heads = migrations[i].from

\* prune always leaves a restore-verified backup if there was one, and the
\* newest backup of all.
PruneKeepsTheBest ==
    [][ (\E p \in Procs : PruneDelete(p)) =>
          /\ PassedBackups # {} => PassedBackups' # {}
          /\ Newest(backups) \subseteq backups' ]_vars

\* A result is written once: nothing rewrites the outcome of a transaction,
\* not even a tool that lost the lock before it recorded its failure.
ResultsAreFinal ==
    [][ /\ \A i \in DOMAIN deployments :
             deployments[i].result # "none" =>
               deployments'[i].result = deployments[i].result
        /\ \A i \in DOMAIN migrations :
             migrations[i].result # "none" =>
               migrations'[i].result = migrations[i].result
        /\ \A i \in DOMAIN bootstraps :
             bootstraps[i].result # "none" =>
               bootstraps'[i].result = bootstraps[i].result ]_vars

\* What deploy-plan promises, the tool that carries it out allows, as long as
\* no other transaction is unresolved: five gates written in five files agree.
PlanIsHonest ==
    ~Blocked =>
      \A r \in Releases :
        /\ Plan(r) = "bootstrap" => BootstrapAllowed /\ StartsAfresh(r)
        /\ Plan(r) = "first_rollout" => RolloutAllowed(r, TRUE)
        /\ Plan(r) = "rollout" => RolloutAllowed(r, FALSE)
        /\ Plan(r) = "migrate" => MigrationAllowed(r)

\* A configuration rollout that reports success runs the values it planned,
\* although the env file may have been edited since they were rendered, and
\* one that reports a rollback runs the old ones.
ConfigOutcomeRuns ==
    \A p \in Procs :
      proc[p].op = "config" /\ proc[p].id # 0 =>
        /\ proc[p].pc \in {"commit", "result", "state"} =>
             config.running = Cfg(p).target
        /\ proc[p].pc = "rollback_result" /\ Cfg(p).status = "rolled_back" =>
             config.running = Cfg(p).old

\* The journals can be trusted to name the one transaction in doubt.
JournalsAreSound == TypeOK /\ AtMostOneUnresolved

\* Outside a transaction, what is saved and reported is what runs: schema, images and
\* configuration, and an application on a schema that it was declared fit for.
SavedStateIsTruthful ==
    DatabaseSideIsTruthful /\ TiersMatchJournal /\ RunningAppIsVouched /\ ConfigOutcomeRuns

\* No tool undoes what another relied on: a verified backup is left, and a recorded
\* outcome is not rewritten.
NothingIsUndone == PruneKeepsTheBest /\ ResultsAreFinal

-----------------------------------------------------------------------------
(* Statements of the documentation                                         *)

\* docs/infrastructure/21-command-reference.md: recover-deployment resolves an
\* unresolved deployment.  A recovery that has done its work ends with the
\* journal resolved unless an error stops it.
RecoveryResolves ==
    [][ \A p \in Procs : RecoverResolve(p) /\ proc'[p] = Idle =>
          proc[p].id \notin UnresolvedDeployments' ]_vars
=============================================================================
