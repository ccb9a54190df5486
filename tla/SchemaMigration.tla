--------------------------- MODULE SchemaMigration ---------------------------
(***************************************************************************)
(* The verified migration transaction (run_migration) and its recovery     *)
(* (recover_migration), with the backup session it opens: a verified       *)
(* backup and a retention hold precede the Alembic upgrade, and the        *)
(* database side of current.json is published after it.                    *)
(***************************************************************************)
EXTENDS ReleaseState

migrateOnly == <<app, gateway, deployments, bootstraps, configs, config, ops>>

Mig(p) == migrations[proc[p].id]
SetStatus(p, s) == migrations' = [migrations EXCEPT ![proc[p].id].status = s]

\* run_health of the current application: it must be what runs.
CurrentHealthy == app = current.app /\ gateway = current.app

-----------------------------------------------------------------------------
(* run_migration                                                           *)

MigrateStart(p, release) ==
    /\ Start(p, "migrate", release, None, 0, None)
    /\ UNCHANGED <<hostVars, journalVars, backupVars, config, rolloutLock,
                   backupLock, faults>>

\* compute_migration_plan: the live heads are the saved ones, the running
\* application is compatible, and the target's contract lists the step from
\* the live heads to its own.  Equal, backward and unrelated heads find no
\* transition.
MigrationAllowed(release) ==
    /\ ~Blocked
    /\ current # None /\ Resolvable(current)
    /\ live = current.heads
    /\ Compatible(current.app, SourceHeads[release], current)
    /\ live # SourceHeads[release]
    /\ <<live, SourceHeads[release]>> \in Transitions

\* The journal directory and plan.json.
MigratePlan(p) ==
    LET release == proc[p].rel
        id == Len(migrations) + 1 IN
    /\ At(p, "migrate", "lock")
    /\ rolloutLock = None
    /\ MigrationAllowed(release)
    /\ migrations' = Append(migrations,
         [target |-> release, from |-> live, before |-> FileHash(current),
          after |-> PredictedHash(AfterMigration(current, release, id), current),
          status |-> "none", result |-> "none", resolved |-> FALSE,
          hold |-> "none", backup |-> 0])
    /\ proc' = [proc EXCEPT ![p].pc = "run", ![p].id = id]
    /\ rolloutLock' = p
    /\ UNCHANGED <<current, live, migrateOnly, backupVars, backupLock, faults>>

\* Refused, or already migrated and only verified.
MigrateRefused(p) ==
    /\ At(p, "migrate", "lock")
    /\ rolloutLock = None
    /\ ~MigrationAllowed(proc[p].rel)
    /\ Leave(p)
    /\ UNCHANGED <<hostVars, journalVars, backupVars, config, ops, faults>>

\* planned and backup_started, each before its operation.
MigrateAnnounce(p) ==
    /\ At(p, "migrate", "run")
    /\ \/ Mig(p).status = "none" /\ SetStatus(p, "planned") /\ Goto(p, "run")
       \/ /\ Mig(p).status = "planned"
          /\ SetStatus(p, "backup_started")
          /\ Goto(p, "backup")
    /\ UNCHANGED <<current, live, migrateOnly, backupVars, faults>>

\* open_backup_root_session with wait_lock=False, then create ...
MigrateBackup(p) ==
    /\ At(p, "migrate", "backup")
    /\ backupLock = None
    /\ backupLock' = p
    /\ made' = made + 1
    /\ backups' = backups \union
         {[n |-> made + 1, heads |-> live, verify |-> "none"]}
    /\ proc' = [proc EXCEPT ![p].pc = "verify", ![p].saw = made + 1]
    /\ UNCHANGED <<current, live, migrations, migrateOnly, rolloutLock, faults>>

\* ... and verify against the source heads of the plan.
Attested(n, result) ==
    {IF b.n = n THEN [b EXCEPT !.verify = result] ELSE b : b \in backups}

MigrateVerify(p) ==
    /\ At(p, "migrate", "verify")
    /\ \E b \in backups : b.n = proc[p].saw /\ b.heads = Mig(p).from
    /\ backups' = Attested(proc[p].saw, "passed")
    /\ migrations' = [migrations EXCEPT ![proc[p].id].status = "backup_verified",
                                        ![proc[p].id].backup = proc[p].saw]
    /\ Goto(p, "hold")
    /\ UNCHANGED <<current, live, made, migrateOnly, faults>>

\* acquire_retention_hold, still inside the session; the session ends.
MigrateHold(p) ==
    /\ At(p, "migrate", "hold")
    /\ migrations' = [migrations EXCEPT ![proc[p].id].status = "hold_acquired",
                                        ![proc[p].id].hold = "active"]
    /\ proc' = [proc EXCEPT ![p].pc = "upgrade"]
    /\ backupLock' = None
    /\ UNCHANGED <<current, live, migrateOnly, backupVars, rolloutLock, faults>>

\* The live heads are read again; the step is announced and Alembic runs.
MigrateRevalidate(p) ==
    /\ At(p, "migrate", "upgrade")
    /\ Mig(p).status = "hold_acquired"
    /\ live = Mig(p).from
    /\ SetStatus(p, "pre_migration_revalidated")
    /\ Goto(p, "upgrade")
    /\ UNCHANGED <<current, live, migrateOnly, backupVars, faults>>

MigrateUpgrade(p) ==
    /\ At(p, "migrate", "upgrade")
    /\ Mig(p).status = "pre_migration_revalidated"
    /\ SetStatus(p, "migration_started")
    /\ live' = SourceHeads[Mig(p).target]
    /\ Goto(p, "check")
    /\ UNCHANGED <<current, migrateOnly, backupVars, faults>>

\* command_completed, target_heads_verified and application_stabilized.
MigrateCheck(p) ==
    /\ At(p, "migrate", "check")
    /\ \/ /\ Mig(p).status = "migration_started"
          /\ SetStatus(p, "command_completed")
       \/ /\ Mig(p).status = "command_completed"
          /\ live = SourceHeads[Mig(p).target]
          /\ SetStatus(p, "target_heads_verified")
       \/ /\ Mig(p).status = "target_heads_verified"
          /\ CurrentHealthy
          /\ SetStatus(p, "application_stabilized")
    /\ Goto(p, "check")
    /\ UNCHANGED <<current, live, migrateOnly, backupVars, faults>>

\* The compare-and-set on current.json, then its three records.
MigratePublish(p) ==
    /\ At(p, "migrate", "check")
    /\ Mig(p).status = "application_stabilized"
    /\ FileHash(current) = Mig(p).before
    /\ current' = AfterMigration(current, Mig(p).target, proc[p].id)
    /\ Goto(p, "commit")
    /\ UNCHANGED <<live, migrations, migrateOnly, backupVars, faults>>

MigrateCommit(p) ==
    /\ At(p, "migrate", "commit")
    /\ IF Mig(p).status = "application_stabilized"
       THEN SetStatus(p, "state_committed") /\ Goto(p, "commit")
       ELSE SetStatus(p, "committed") /\ Goto(p, "result")
    /\ UNCHANGED <<current, live, migrateOnly, backupVars, faults>>

MigrateResult(p) ==
    /\ At(p, "migrate", "result")
    /\ migrations' = [migrations EXCEPT ![proc[p].id].result = "committed"]
    /\ Goto(p, "release")
    /\ UNCHANGED <<current, live, migrateOnly, backupVars, faults>>

\* _release_hold_if_needed: a busy backup root or an error is only a warning.
MigrateRelease(p) ==
    /\ At(p, "migrate", "release")
    /\ \/ /\ backupLock = None
          /\ migrations' = [migrations EXCEPT ![proc[p].id].hold =
               IF @ = "active" THEN "released" ELSE @]
          /\ UNCHANGED faults
       \/ backupLock # None /\ UNCHANGED <<migrations, faults>>
       \/ Fault /\ UNCHANGED migrations
    /\ Leave(p)
    /\ UNCHANGED <<current, live, migrateOnly, backupVars>>

\* A check that cannot succeed: the heads moved, the application that should
\* run does not, or current.json is not the planned one.
CheckFails(p) ==
    \/ At(p, "migrate", "upgrade") /\ Mig(p).status = "hold_acquired"
         /\ live # Mig(p).from
    \/ At(p, "migrate", "check") /\ Mig(p).status = "target_heads_verified"
         /\ ~CurrentHealthy
    \/ At(p, "migrate", "check") /\ Mig(p).status = "application_stabilized"
         /\ FileHash(current) # Mig(p).before

\* An error that run_migration catches: the rollout lock is given up first,
\* and the terminal record is written without it.  An interrupted upgrade may
\* leave the database on the source, on the target or in between.
MigrateError(p) ==
    /\ proc[p].op = "migrate"
    /\ proc[p].pc \in {"run", "verify", "hold", "upgrade", "check", "commit",
                       "result"}
    /\ IF CheckFails(p) THEN UNCHANGED faults ELSE Fault
    /\ \/ /\ UNCHANGED <<live, migrations>>
       \/ /\ proc[p].pc = "hold"
          /\ migrations' = [migrations EXCEPT ![proc[p].id].hold = "active"]
          /\ UNCHANGED live
       \/ /\ proc[p].pc = "upgrade" /\ Mig(p).status = "pre_migration_revalidated"
          /\ SetStatus(p, "migration_started")
          /\ live' \in {live, SourceHeads[Mig(p).target], Partial}
    /\ proc' = [proc EXCEPT ![p].pc = "failed"]
    /\ rolloutLock' = None
    /\ backupLock' = IF backupLock = p THEN None ELSE backupLock
    /\ backups' \in IF proc[p].pc = "verify"
                    THEN {backups, Attested(proc[p].saw, "failed")} ELSE {backups}
    /\ UNCHANGED <<current, made, migrateOnly>>

\* An error of the backup session that it does not catch: LockError and
\* CommandError are RuntimeErrors outside the tuple of its except clause.
MigrateBackupFails(p) ==
    /\ At(p, "migrate", "backup")
    /\ \/ backupLock # None /\ UNCHANGED faults
       \/ backupLock = None /\ Fault
    /\ Leave(p)
    /\ UNCHANGED <<hostVars, journalVars, backupVars, config, ops>>

\* _terminal_failure: failed before the upgrade, requires_recovery after it;
\* from state_committed on the event is illegal and only a warning is left.
MigrateTerminal(p) ==
    LET status == IF Mig(p).status \in PreMutation \union {"none"}
                  THEN "failed" ELSE "migration_requires_recovery" IN
    /\ At(p, "migrate", "failed")
    /\ migrations' = IF MigrationLegal(Mig(p).status, status)
                     THEN [migrations EXCEPT ![proc[p].id].status = status,
                                             ![proc[p].id].result = status]
                     ELSE migrations
    /\ IF status = "failed" /\ Mig(p).hold = "active"
       THEN Goto(p, "release") ELSE Leave(p)
    /\ UNCHANGED <<current, live, migrateOnly, backupVars, faults>>

-----------------------------------------------------------------------------
(* recover_migration                                                       *)

\* The states of a journal it accepts, read before the lock.
RecoveryAccepts(mig, action) ==
    /\ ~mig.resolved
    /\ IF action = "release_hold" THEN mig.result = "committed"
       ELSE IF mig.result = "none" THEN mig.status = "state_committed"
       ELSE mig.result = "migration_requires_recovery"

MigrationRecoverStart(p, id, action) ==
    /\ id \in DOMAIN migrations
    /\ RecoveryAccepts(migrations[id], action)
    /\ Start(p, "recover_migration", None, action, id, migrations[id].result)
    /\ UNCHANGED <<hostVars, journalVars, backupVars, config, rolloutLock,
                   backupLock, faults>>

\* The gates under the lock for accept_source and accept_target.
SourceAccepted(mig) ==
    live = mig.from /\ FileHash(current) = mig.before
TargetAccepted(mig) ==
    /\ live = SourceHeads[mig.target]
    /\ FileHash(current) \in {mig.after, mig.before}

RecoveryAllowed(id, action) ==
    LET mig == migrations[id] IN
    /\ UnresolvedDeployments = {}
    /\ current # None /\ Resolvable(current)
    /\ mig.hold = "active"
    /\ action # "release_hold" =>
         /\ id \in UnresolvedMigrations
         /\ CurrentHealthy
         /\ IF action = "accept_source" THEN SourceAccepted(mig)
                                        ELSE TargetAccepted(mig)

\* current.json is brought to the target if it is still the planned source.
MigrationRecoverAccept(p) ==
    LET act == proc[p].act IN
    /\ At(p, "recover_migration", "lock")
    /\ rolloutLock = None
    /\ RecoveryAllowed(proc[p].id, act)
    /\ current' = IF act = "accept_target" /\ FileHash(current) = Mig(p).before
                  THEN AfterMigration(current, Mig(p).target, proc[p].id)
                  ELSE current
    /\ proc' = [proc EXCEPT ![p].pc = IF act = "release_hold" THEN "release"
                                                              ELSE "resolve"]
    /\ rolloutLock' = p
    /\ UNCHANGED <<live, migrations, migrateOnly, backupVars, backupLock, faults>>

MigrationRecoverRefused(p) ==
    /\ At(p, "recover_migration", "lock")
    /\ rolloutLock = None
    /\ ~RecoveryAllowed(proc[p].id, proc[p].act)
    /\ Leave(p)
    /\ UNCHANGED <<hostVars, journalVars, backupVars, config, ops, faults>>

\* result.json if it was missing before the lock, then resolution.json.
MigrationRecoverResolve(p) ==
    /\ At(p, "recover_migration", "resolve")
    /\ IF proc[p].saw = "none" /\ Mig(p).result = "none"
          /\ proc[p].act = "accept_target"
       THEN /\ migrations' = [migrations EXCEPT ![proc[p].id].result = "committed"]
            /\ Goto(p, "resolve")
       ELSE /\ migrations' = [migrations EXCEPT ![proc[p].id].resolved = TRUE]
            /\ Goto(p, "release")
    /\ UNCHANGED <<current, live, migrateOnly, backupVars, faults>>

\* The hold is released in a session that does not wait; a busy backup root
\* or an error ends the tool with the hold still active.
MigrationRecoverRelease(p) ==
    /\ At(p, "recover_migration", "release")
    /\ \/ /\ backupLock = None
          /\ migrations' = [migrations EXCEPT ![proc[p].id].hold = "released"]
          /\ UNCHANGED faults
       \/ backupLock # None /\ UNCHANGED <<migrations, faults>>
       \/ Fault /\ UNCHANGED migrations
    /\ Leave(p)
    /\ UNCHANGED <<current, live, migrateOnly, backupVars>>

-----------------------------------------------------------------------------
MigrateNext(p) ==
    \/ \E r \in Releases : MigrateStart(p, r)
    \/ MigratePlan(p) \/ MigrateRefused(p) \/ MigrateAnnounce(p)
    \/ MigrateBackup(p) \/ MigrateVerify(p) \/ MigrateHold(p) \/ MigrateRevalidate(p)
    \/ MigrateUpgrade(p) \/ MigrateCheck(p) \/ MigratePublish(p)
    \/ MigrateCommit(p) \/ MigrateResult(p) \/ MigrateRelease(p)
    \/ MigrateError(p) \/ MigrateBackupFails(p) \/ MigrateTerminal(p)

MigrationRecoverNext(p) ==
    \/ \E id \in DOMAIN migrations,
          a \in {"accept_source", "accept_target", "release_hold"} :
         MigrationRecoverStart(p, id, a)
    \/ MigrationRecoverAccept(p) \/ MigrationRecoverRefused(p)
    \/ MigrationRecoverResolve(p) \/ MigrationRecoverRelease(p)
=============================================================================
