---------------------------- MODULE ReleaseState ----------------------------
(***************************************************************************)
(* The state that the release tools of scripts/fetchnow_release share on   *)
(* one deployment host: the published state/current.json, the live Alembic *)
(* heads of the database, the images the application tier and the gateway  *)
(* run, the journals of the four kinds of transaction, the backups with    *)
(* their retention holds, and the two advisory locks.  A running tool is a *)
(* process: proc[p] is what it keeps in memory, and a crash loses it and   *)
(* the locks it holds.                                                     *)
(***************************************************************************)
EXTENDS Naturals, Sequences, FiniteSets

CONSTANTS
    Procs,          \* operator processes that may run at the same time
    Releases,       \* prepared and verified releases
    SourceHeads,    \* the Alembic heads of each release's source tree
    Transitions,    \* <<from, to>> pairs of the compatibility contracts
    Settings,       \* runtime configurations an env file can hold
    StorageInit,    \* the releases whose Compose files declare storage-init
    NoSchema,       \* heads of a database without an alembic_version table
    Partial,        \* heads left behind by an interrupted upgrade
    Mixed,          \* an application tier left between two releases
    None,           \* Python's None
    MaxOps,         \* bound: tools started
    MaxFaults,      \* bound: errors raised and processes killed
    KeepBackups     \* the keep count of prune

ASSUME HeadsAssumption ==
    /\ SourceHeads \in [Releases -> {SourceHeads[r] : r \in Releases}]
    /\ StorageInit \subseteq Releases
    /\ {NoSchema, Partial} \cap {SourceHeads[r] : r \in Releases} = {}
    /\ NoSchema # Partial
    /\ {Mixed, None} \cap Releases = {} /\ None \notin Procs
    /\ MaxOps \in Nat /\ MaxFaults \in Nat /\ KeepBackups \in Nat \ {0}

VARIABLES
    current,        \* state/current.json, or None
    live,           \* heads in the alembic_version table
    app, gateway,   \* release whose images the two tiers run
    deployments,    \* deployment journals, oldest first
    migrations,     \* migration journals
    bootstraps,     \* database bootstrap journals
    configs,        \* runtime configuration journals
    config,         \* runtime values: env file, containers, recorded state
    backups,        \* backups on disk: number, heads, latest attestation
    made,           \* backups created so far
    rolloutLock,    \* holder of the rollout lock
    backupLock,     \* holder of the backup-root lock
    proc,           \* what each running tool remembers
    ops, faults     \* budget spent

vars == <<current, live, app, gateway, deployments, migrations, bootstraps,
          configs, config, backups, made, rolloutLock, backupLock, proc,
          ops, faults>>

AllHeads == {SourceHeads[r] : r \in Releases}
Tiers == Releases \union {None, Mixed}

-----------------------------------------------------------------------------
(* current.json                                                            *)

\* A published document.  `stamp' stands for updated_at_utc.
CurrentStates ==
    [app : Releases, heads : AllHeads, schema : Releases,
     deployment : Nat, migration : Nat, envelope : SUBSET Releases,
     stamp : Nat]

\* A missing file is not a document.
ASSUME DocumentAssumption == None \notin CurrentStates

\* The content hash of current.json as it lies on disk, ...
FileHash(doc) == <<"indented", doc>>
\* ... and the hash the migration plan predicts for the document it will
\* publish: compact JSON of the new database side, stamped with the old time.
PredictedHash(doc, before) == <<"compact", [doc EXCEPT !.stamp = before.stamp]>>

\* application_compatible_with_database: equal heads or a recorded revision.
Compatible(release, heads, doc) ==
    heads = doc.heads \/ release \in doc.envelope

\* load_and_resolve_current_state refuses a document whose schema release
\* does not carry the saved heads.
Resolvable(doc) == doc # None => SourceHeads[doc.schema] = doc.heads

\* The stamp of the next write.
NextStamp == IF current = None THEN 1 ELSE current.stamp + 1

\* build_bootstrap_database_state with the first application.
FirstState(release, heads, id) ==
    [app |-> release, heads |-> heads, schema |-> release, deployment |-> id,
     migration |-> 0, envelope |-> {release}, stamp |-> NextStamp]

\* next_database_state_after_app_commit with a new application.
AfterApp(doc, release, id) ==
    [doc EXCEPT !.app = release, !.deployment = id, !.stamp = NextStamp,
                !.envelope = IF SourceHeads[release] = doc.heads
                             THEN @ \union {release} ELSE @]

\* next_database_state_after_migration: the whole envelope is carried over.
AfterMigration(doc, release, id) ==
    [doc EXCEPT !.heads = SourceHeads[release], !.schema = release,
                !.migration = id, !.stamp = NextStamp,
                !.envelope = @ \union {doc.schema, release}]

-----------------------------------------------------------------------------
(* Journals                                                                *)

Terminal == {"committed", "failed", "rolled_back", "rollback_failed"}

\* LEGAL_TRANSITIONS of an application deployment.
DeployLegal ==
    [s \in {"none", "planned", "initializing_storage", "activating_app",
            "app_healthy", "activating_gateway", "stabilizing",
            "rollback_started", "bootstrap_cleanup_started",
            "bootstrap_cleaned"} \union Terminal |->
       CASE s = "none" -> {"planned"}
         [] s = "planned" -> {"initializing_storage", "activating_app", "failed"}
         [] s = "initializing_storage" -> {"activating_app", "failed"}
         [] s = "activating_app" -> {"app_healthy", "rollback_started"}
         [] s = "app_healthy" -> {"activating_gateway", "rollback_started"}
         [] s = "activating_gateway" -> {"stabilizing", "rollback_started"}
         [] s = "stabilizing" -> {"committed", "rollback_started"}
         [] s = "rollback_started" -> {"rolled_back", "rollback_failed"}
         [] OTHER -> {}]

\* MIGRATION_LEGAL_TRANSITIONS: a line, with a way out at every phase.
MigrationLine ==
    <<"planned", "backup_started", "backup_verified", "hold_acquired",
      "pre_migration_revalidated", "migration_started", "command_completed",
      "target_heads_verified", "application_stabilized", "state_committed",
      "committed">>
PreMutation == {MigrationLine[i] : i \in 1..5}
PostMutation == {MigrationLine[i] : i \in 6..9}
MigrationLegal(from, to) ==
    \/ from = "none" /\ to = "planned"
    \/ \E i \in 1..(Len(MigrationLine) - 1) :
         from = MigrationLine[i] /\ to = MigrationLine[i + 1]
    \/ from \in PreMutation /\ to = "failed"
    \/ from \in PostMutation /\ to = "migration_requires_recovery"

\* find_unresolved_deployments: no result, or a failed rollback that no
\* recovery resolved.
UnresolvedDeployments ==
    {i \in DOMAIN deployments :
       \/ deployments[i].result = "none"
       \/ deployments[i].result = "rollback_failed" /\ ~deployments[i].resolved}
\* find_unresolved_migrations
UnresolvedMigrations ==
    {i \in DOMAIN migrations :
       \/ migrations[i].result = "none"
       \/ /\ migrations[i].result = "migration_requires_recovery"
          /\ ~migrations[i].resolved}
\* find_unresolved_bootstraps
UnresolvedBootstraps ==
    {i \in DOMAIN bootstraps :
       bootstraps[i].result \in {"none", "requires_recovery"}}
\* find_unresolved_config_rollouts
UnresolvedConfigs == {i \in DOMAIN configs : configs[i].result = "none"}

\* Mutant: only deployments are looked at.
BlockedByDeployments == UnresolvedDeployments # {}

\* What rollout, migrate and the bootstrap refuse to run beside.
Blocked == \/ UnresolvedDeployments # {}
           \/ UnresolvedMigrations # {}
           \/ UnresolvedBootstraps # {}

-----------------------------------------------------------------------------
(* Processes                                                               *)

Idle == [op |-> "idle", pc |-> "idle", rel |-> None, act |-> None, id |-> 0,
         saw |-> None]

\* A process ends: it returns, or it dies, and its flocks go with it.
Leave(p) ==
    /\ proc' = [proc EXCEPT ![p] = Idle]
    /\ rolloutLock' = IF rolloutLock = p THEN None ELSE rolloutLock
    /\ backupLock' = IF backupLock = p THEN None ELSE backupLock

Goto(p, pc) ==
    /\ proc' = [proc EXCEPT ![p].pc = pc]
    /\ UNCHANGED <<rolloutLock, backupLock>>

At(p, op, pc) == proc[p].op = op /\ proc[p].pc = pc

\* `compose up' recreates containers with the values of the env file.
Recreated == [config EXCEPT !.running = config.env]

\* A tool is started; what it reads before it asks for the lock is in `saw'.
\* Process names mean nothing: a free one is taken.
Start(p, op, release, action, id, saw) ==
    /\ proc[p] = Idle
    /\ p = CHOOSE q \in Procs : proc[q] = Idle
    /\ ops < MaxOps
    /\ ops' = ops + 1
    /\ proc' = [proc EXCEPT ![p] = [op |-> op, pc |-> "lock", rel |-> release,
                                    act |-> action, id |-> id, saw |-> saw]]

\* An error or a kill is taken from the budget.
Fault == faults < MaxFaults /\ faults' = faults + 1

hostVars == <<current, live, app, gateway>>
journalVars == <<deployments, migrations, bootstraps, configs>>
backupVars == <<backups, made>>

-----------------------------------------------------------------------------
\* RolloutLock without --wait, or a wait that timed out: the tool gives up.
LockRefused(p) ==
    /\ proc[p].pc = "lock"
    /\ proc[p].op \notin {"backup", "verify", "prune"}
    /\ rolloutLock # None
    /\ Leave(p)
    /\ UNCHANGED <<hostVars, journalVars, backupVars, config, ops, faults>>

\* The process of a tool is killed between two of its steps.
Crash(p) ==
    /\ proc[p] # Idle
    /\ Fault
    /\ Leave(p)
    /\ UNCHANGED <<hostVars, journalVars, backupVars, config, ops>>
=============================================================================
