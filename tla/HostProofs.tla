----------------------------- MODULE HostProofs -----------------------------
(***************************************************************************)
(* Machine-checked safety of the tools of a deployment host, second half:  *)
(* migrations, bootstraps, configuration rollouts, backups and their       *)
(* retention each keep HostInv (see ReleaseProofs), for any releases,      *)
(* schema heads, settings and number of tools; what follows from it; and   *)
(* the three parts that MCReleaseHost puts side by side.                   *)
(***************************************************************************)
EXTENDS ReleaseProofs

-----------------------------------------------------------------------------
(* The host: migrations *)

\* The phases by name.
LEMMA MigrationSets ==
    /\ PreMutation = {"planned", "backup_started", "backup_verified", "hold_acquired",
                      "pre_migration_revalidated"}
    /\ PostMutation = {"migration_started", "command_completed", "target_heads_verified",
                       "application_stabilized"}
    /\ MigStatus = PreMutation \cup PostMutation \cup Late
                     \cup {"none", "failed", "migration_requires_recovery"}
<1>1. /\ MigrationLine[1] = "planned" /\ MigrationLine[2] = "backup_started"
      /\ MigrationLine[3] = "backup_verified" /\ MigrationLine[4] = "hold_acquired"
      /\ MigrationLine[5] = "pre_migration_revalidated" /\ MigrationLine[6] = "migration_started"
      /\ MigrationLine[7] = "command_completed" /\ MigrationLine[8] = "target_heads_verified"
      /\ MigrationLine[9] = "application_stabilized" /\ MigrationLine[10] = "state_committed"
      /\ MigrationLine[11] = "committed"
  BY DEF MigrationLine
<1>2. 1..5 = {1, 2, 3, 4, 5} /\ 6..9 = {6, 7, 8, 9} /\ 1..11 = {1, 2, 3, 4, 5, 6, 7, 8, 9, 10, 11}
  OBVIOUS
<1>3. PreMutation = {MigrationLine[1], MigrationLine[2], MigrationLine[3], MigrationLine[4], MigrationLine[5]}
  BY <1>2 DEF PreMutation
<1>4. PostMutation = {MigrationLine[6], MigrationLine[7], MigrationLine[8], MigrationLine[9]}
  BY <1>2 DEF PostMutation
<1>5. {MigrationLine[i] : i \in 1..11} =
        {MigrationLine[1], MigrationLine[2], MigrationLine[3], MigrationLine[4], MigrationLine[5],
         MigrationLine[6], MigrationLine[7], MigrationLine[8], MigrationLine[9], MigrationLine[10],
         MigrationLine[11]}
  BY <1>2
<1> QED
  BY <1>1, <1>3, <1>4, <1>5 DEF MigStatus, Late

\* The ways out of the line.
LEMMA MigrationEnds ==
    ASSUME NEW st
    PROVE  /\ MigrationLegal(st, "failed") <=> st \in PreMutation
           /\ MigrationLegal(st, "migration_requires_recovery") <=> st \in PostMutation
<1>1. \A i \in 1..(Len(MigrationLine) - 1) :
        MigrationLine[i + 1] # "failed" /\ MigrationLine[i + 1] # "migration_requires_recovery"
  <2>1. Len(MigrationLine) = 11
    BY DEF MigrationLine
  <2>2. \A j \in 1..11 : MigrationLine[j] \in
          {"planned", "backup_started", "backup_verified", "hold_acquired",
           "pre_migration_revalidated", "migration_started", "command_completed",
           "target_heads_verified", "application_stabilized", "state_committed", "committed"}
    BY DEF MigrationLine
  <2> QED
    BY <2>1, <2>2
<1> QED
  BY <1>1, MigrationSets DEF MigrationLegal

\* A step that leaves the migration journals alone.
LEMMA MigSame ==
    ASSUME migrations \in Seq(MigrationJournals), NEW i \in DOMAIN migrations,
           migrations' = migrations
    PROVE  MigSet(i, migrations[i].status, migrations[i].result, migrations[i].resolved,
                  migrations[i].hold, migrations[i].backup)
BY DEF MigSet

\* What a migration under the rollout lock finds.
LEMMA MigrateFacts ==
    ASSUME HostInv, NEW p \in Procs, proc[p].op = "migrate", Locked(p)
    PROVE  /\ RolloutFree(p) /\ rolloutLock = p /\ ProcShape /\ MigrateOK(p) /\ HostTypes /\ SavedOK
           /\ LockInv /\ JournalsAreOwned
           /\ proc[p].id \in DOMAIN migrations /\ proc[p].id \in UnresolvedMigrations
           /\ \A j \in UnresolvedMigrations : j = proc[p].id
           /\ Mig(p) = migrations[proc[p].id] /\ Mig(p) \in MigrationJournals /\ Mig(p).result = "none"
<1>1. LockInv /\ ProcShape /\ ProcOK(p) /\ HostTypes /\ SavedOK /\ JournalsAreOwned
  BY DEF HostInv, HostTypes
<1>2. RolloutFree(p) /\ rolloutLock = p
  BY <1>1, Alone DEF LockInv
<1>3. MigrateOK(p)
  BY <1>1 DEF ProcOK
<1>4. proc[p].id \in DOMAIN migrations /\ Mig(p).result = "none"
  BY <1>3 DEF MigrateOK, Locked
<1>5. proc[p].id \in UnresolvedMigrations /\ Mig(p) = migrations[proc[p].id]
  BY <1>4 DEF UnresolvedMigrations, Mig
<1>6. Mig(p) \in MigrationJournals
  BY <1>1, <1>4, <1>5 DEF HostTypes
<1>7. \A j \in UnresolvedMigrations : j = proc[p].id
  BY <1>1, <1>5 DEF SavedOK, OneUnresolved
<1> QED
  BY <1>1, <1>2, <1>3, <1>4, <1>5, <1>6, <1>7

\* Whatever is rewritten in journal i, the plan stays and so do the other journals.
MigKept(i) ==
    /\ migrations' \in Seq(MigrationJournals)
    /\ Len(migrations') = Len(migrations) /\ DOMAIN migrations' = DOMAIN migrations
    /\ migrations'[i].target = migrations[i].target /\ migrations'[i].from = migrations[i].from
    /\ migrations'[i].before = migrations[i].before
    /\ \A j \in DOMAIN migrations \ {i} : migrations'[j] = migrations[j]

\* A step of a migration under the rollout lock, or of its recovery.
LEMMA MigrateStep ==
    ASSUME HostInv, NEW p \in Procs, proc[p].op \in {"migrate", "recover_migration"}, RolloutFree(p),
           proc[p].id \in DOMAIN migrations, UNCHANGED migrateOnly, Moves(p),
           rolloutLock' \in Procs \cup {None}, backupLock' \in Procs \cup {None},
           LockInv', JournalsAreOwned',
           MigKept(proc[p].id),
           LET e == migrations[proc[p].id]
               f == migrations'[proc[p].id] IN
           /\ e.result # "none" => f.result = e.result
           /\ e.status \in Late => f.status \in Late
           /\ (f.result = "failed") <=> (f.status = "failed")
           /\ (f.result = "migration_requires_recovery") <=> (f.status = "migration_requires_recovery")
           /\ f.result = "committed" => f.status \in Late
           /\ f.resolved => f.status \in Late \cup {"migration_requires_recovery"}
           /\ f.status = "none" => f.hold = "none"
           /\ f.backup <= made'
           /\ proc[p].id \in UnresolvedMigrations' => proc[p].id \in UnresolvedMigrations,
           live' \in Schemata, live' = NoSchema => live = NoSchema,
           backups' \subseteq Dumps, made' \in Nat, made <= made', PruneSafe(p),
           \/ current' = current
           \/ /\ current # None /\ current' \in CurrentStates /\ current'.app = current.app
              /\ current.envelope \subseteq current'.envelope,
           BaseInv', RestoreInv', BackupsInv', ProcOK(p)'
    PROVE  HostInv' /\ ResultsKept
<1> DEFINE i == proc[p].id
<1>0. HostTypes /\ LockInv /\ JournalsAreOwned /\ SavedOK /\ ProcShape
  BY DEF HostInv, HostTypes
<1>1. HostTypes'
  BY <1>0 DEF HostTypes, Moves, MigKept, migrateOnly
<1>2. UnresolvedDeployments' = UnresolvedDeployments /\ UnresolvedBootstraps' = UnresolvedBootstraps
  BY DEF UnresolvedDeployments, UnresolvedBootstraps, migrateOnly
<1>3. UnresolvedMigrations' \subseteq UnresolvedMigrations
  <2> SUFFICES ASSUME NEW j \in UnresolvedMigrations', j # i PROVE j \in UnresolvedMigrations
    OBVIOUS
  <2>1. j \in DOMAIN migrations /\ migrations'[j] = migrations[j]
    BY DEF UnresolvedMigrations, MigKept
  <2> QED
    BY <2>1 DEF UnresolvedMigrations
<1>4. OneUnresolved' /\ LastUnresolved'
  BY <1>0, <1>2, <1>3 DEF SavedOK, OneUnresolved, LastUnresolved, migrateOnly
<1>5. DeploymentsOK' /\ TiersMatchJournal'
  BY <1>0, <1>2 DEF SavedOK, DeploymentsOK, TiersMatchJournal, Runs, migrateOnly
<1>6. EnvelopeInv'
  <2>1. \A r : Vouched(r) => Vouched(r)'
    BY DocumentAssumption DEF Vouched
  <2>2. current' # None => current'.app \in current'.envelope
    BY <1>0 DEF SavedOK, EnvelopeInv
  <2> QED
    BY <1>0, <2>1, <2>2 DEF SavedOK, EnvelopeInv, migrateOnly
<1>7. TierInv'
  BY <1>0, <1>2 DEF SavedOK, TierInv, migrateOnly
<1>8. MigrationsOK'
  <2> SUFFICES ASSUME NEW j \in DOMAIN migrations'
               PROVE  /\ (migrations'[j].result = "failed") <=> (migrations'[j].status = "failed")
                      /\ (migrations'[j].result = "migration_requires_recovery")
                           <=> (migrations'[j].status = "migration_requires_recovery")
                      /\ migrations'[j].result = "committed" => migrations'[j].status \in Late
                      /\ migrations'[j].backup <= made'
                      /\ migrations'[j].before[2].heads = migrations'[j].from
                      /\ migrations'[j].resolved => migrations'[j].status \in Late \cup {"migration_requires_recovery"}
                      /\ migrations'[j].status = "none" => migrations'[j].hold = "none"
    BY DEF MigrationsOK
  <2>1. j \in DOMAIN migrations
    BY DEF MigKept
  <2>2. CASE j = i
    BY <1>0, <2>1, <2>2 DEF SavedOK, MigrationsOK, MigKept
  <2>3. CASE j # i
    <3>1. migrations'[j] = migrations[j]
      BY <2>1, <2>3 DEF MigKept
    <3>2. migrations[j] \in MigrationJournals /\ made \in Nat
      BY <1>0, <2>1 DEF HostTypes
    <3>3. migrations[j].backup \in Nat
      BY <3>2 DEF MigrationJournals
    <3> QED
      BY <1>0, <2>1, <3>1, <3>2, <3>3 DEF SavedOK, MigrationsOK
  <2> QED
    BY <2>2, <2>3
<1>9. BootInv'
  BY <1>0 DEF SavedOK, BootInv, migrateOnly
<1>10. Grow
  BY DEF Grow, MigKept, migrateOnly
<1>11. \A q \in Procs \ {p} : ProcOK(q)'
  BY <1>10, OthersFree
<1>12. ResultsKept
  BY DEF ResultsKept, MigKept, migrateOnly
<1> QED
  BY <1>1, <1>4, <1>5, <1>6, <1>7, <1>8, <1>9, <1>11, <1>12 DEF HostInv, SavedOK

\* What a recorded phase may change of the saved state: nothing that was held is let go, ...
LEMMA RestoreKept ==
    ASSUME HostInv, NEW i \in UnresolvedMigrations, NEW st, NEW res, NEW rsv \in BOOLEAN, NEW hold, NEW n,
           MigSet(i, st, res, rsv, hold, n),
           st \in HeldFrom =>
             /\ hold = "active"
             /\ \E b \in backups' : b.n = n /\ b.heads = migrations[i].from
    PROVE  RestoreInv'
<1>1. \A j \in UnresolvedMigrations : j = i
  BY DEF HostInv, SavedOK, OneUnresolved
<1>2. UnresolvedMigrations' \subseteq {i}
  <2> SUFFICES ASSUME NEW j \in UnresolvedMigrations', j # i PROVE FALSE
    OBVIOUS
  <2>1. j \in DOMAIN migrations /\ migrations'[j] = migrations[j]
    BY DEF UnresolvedMigrations, MigSet
  <2>2. j \in UnresolvedMigrations
    BY <2>1 DEF UnresolvedMigrations
  <2> QED
    BY <1>1, <2>2
<1>3. migrations'[i].status = st /\ migrations'[i].hold = hold /\ migrations'[i].backup = n
      /\ migrations'[i].from = migrations[i].from
  BY DEF MigSet
<1> QED
  BY <1>2, <1>3 DEF RestoreInv

\* ... and the database is as saved until Alembic runs.
LEMMA BaseKept ==
    ASSUME HostInv, NEW i \in UnresolvedMigrations, NEW st, NEW res, NEW rsv \in BOOLEAN, NEW hold, NEW n,
           MigSet(i, st, res, rsv, hold, n), UNCHANGED <<current, live>>,
           st \in PreMutation \cup {"none"} \/ res # "none" =>
             migrations[i].status \in PreMutation \cup {"none"} \/ (current # None => live = current.heads)
    PROVE  BaseInv'
<1>1. (\A j \in UnresolvedMigrations : j = i) /\ BaseInv
  BY DEF HostInv, SavedOK, OneUnresolved
<1>2. CASE current # None => live = current.heads
  BY <1>2 DEF BaseInv
<1>3. CASE migrations[i].status \in PreMutation \cup {"none"}
  <2>1. current # None => live = current.heads
    BY <1>1, <1>3 DEF BaseInv
  <2> QED
    BY <2>1 DEF BaseInv
<1>4. CASE res = "none" /\ st \notin PreMutation \cup {"none"}
  <2>1. i \in UnresolvedMigrations' /\ migrations'[i].status = st
    BY <1>4 DEF UnresolvedMigrations, MigSet
  <2> QED
    BY <1>4, <2>1 DEF BaseInv
<1> QED
  BY <1>2, <1>3, <1>4

\* The phases that are only recorded: the next one is written and the tool goes on.
MayRecord(p, st, pc) ==
    /\ pc \in {"run", "backup", "upgrade", "check", "commit", "result"}
    /\ st \in PreMutation \cup PostMutation \cup Late
    /\ st \in PreMutation => Mig(p).status \in PreMutation \cup {"none"}
    /\ st \in HeldFrom => Mig(p).status \in HeldFrom
    /\ Mig(p).status \in Late => st \in Late
    /\ pc = "run" => st \in {"none", "planned"}
    /\ pc = "backup" => st = "backup_started"
    /\ pc = "upgrade" => st \in {"hold_acquired", "pre_migration_revalidated"}
    /\ pc = "check" => st \in PostMutation /\ live = SourceHeads[Mig(p).target]
    /\ pc = "commit" => st \in {"application_stabilized", "state_committed"}
    /\ pc = "result" => st = "committed"
    /\ pc \in {"commit", "result"} => current # None /\ live = current.heads

\* A migration records a status that its step allows and moves on.
LEMMA MigrateRecords ==
    ASSUME HostInv, NEW p \in Procs, proc[p].op = "migrate", Locked(p),
           UNCHANGED <<current, live, migrateOnly, backupVars>>,
           NEW pc, Goto(p, pc), NEW st, SetStatus(p, st), MayRecord(p, st, pc)
    PROVE  HostInv' /\ ResultsKept
<1> DEFINE i == proc[p].id
           e == migrations[i]
<1>0. /\ pc \in {"run", "backup", "upgrade", "check", "commit", "result"}
      /\ st \in PreMutation \cup PostMutation \cup Late
  BY DEF MayRecord
<1>1. /\ RolloutFree(p) /\ rolloutLock = p /\ ProcShape /\ MigrateOK(p) /\ HostTypes /\ SavedOK
      /\ LockInv /\ JournalsAreOwned
      /\ i \in DOMAIN migrations /\ i \in UnresolvedMigrations
      /\ \A j \in UnresolvedMigrations : j = i
      /\ Mig(p) = e /\ Mig(p) \in MigrationJournals /\ Mig(p).result = "none"
  BY MigrateFacts
<1>2. e.resolved \in BOOLEAN /\ e.backup \in Nat
  BY <1>1 DEF MigrationJournals
<1>3. st \in MigStatus /\ st # "none" /\ st # "failed" /\ st # "migration_requires_recovery"
  BY <1>0, MigrationSets DEF Late
<1>4. MigSet(i, st, e.result, e.resolved, e.hold, e.backup)
  BY <1>1, <1>3, MigStatusSet DEF HostTypes, SetStatus
<1>5. Moves(p) /\ Advances(p, pc)
  BY <1>1, GotoMoves
<1>6. rolloutLock' = rolloutLock /\ backupLock' = backupLock
  BY DEF Goto
<1>7. LockInv'
  <2>1. ~ BackupLocked(p)'
    BY <1>0, <1>5 DEF BackupLocked, Advances
  <2> QED
    BY <1>1, <1>5, <1>6, <2>1, LocksKept
<1>8. JournalsAreOwned'
  <2>1. Migrates(p)
    BY DEF Migrates, Locked
  <2> QED
    BY <1>1, <1>5, <2>1, OwnedKept DEF Advances
<1>9. e.resolved => st \in Late
  BY <1>1 DEF SavedOK, MigrationsOK, MayRecord
<1>10. e.backup <= made' /\ made' = made /\ made \in Nat /\ backups' = backups /\ backups \subseteq Dumps
  BY <1>1 DEF SavedOK, MigrationsOK, HostTypes, backupVars
<1>11. RestoreInv'
  <2>1. st \in HeldFrom => e.hold = "active" /\ \E b \in backups' : b.n = e.backup /\ b.heads = e.from
    BY <1>1, <1>10 DEF SavedOK, RestoreInv, MayRecord
  <2> QED
    BY <1>1, <1>2, <1>4, <2>1, RestoreKept
<1>12. BaseInv'
  <2>1. st \in PreMutation \cup {"none"} => e.status \in PreMutation \cup {"none"}
    BY <1>1, <1>3 DEF MayRecord
  <2>2. e.result = "none"
    BY <1>1
  <2> QED
    BY <1>1, <1>2, <1>4, <2>1, <2>2, BaseKept
<1>13. BackupsInv'
  BY <1>1, <1>10 DEF SavedOK, BackupsInv
<1>14. PruneSafe(p)
  <2>1. \A n \in Nat : Held(n)' => Held(n)
    BY <1>1, <1>4 DEF Held, MigSet
  <2> QED
    BY <1>10, <2>1 DEF PruneSafe
<1>15. ProcOK(p)'
  <2>0. proc'[p].id = proc[p].id
    BY <1>5 DEF Advances
  <2>a. /\ proc'[p].id \in DOMAIN migrations'
        /\ Mig(p)'.status = st /\ Mig(p)'.result = e.result /\ Mig(p)'.hold = e.hold
        /\ Mig(p)'.backup = e.backup
        /\ Mig(p)'.target = Mig(p).target /\ Mig(p)'.from = Mig(p).from
    BY <1>1, <1>4, <2>0 DEF MigSet, Mig
  <2>1. /\ proc'[p].id \in DOMAIN migrations' /\ Mig(p)'.status = st /\ Mig(p)'.result = "none"
        /\ Mig(p)'.target = Mig(p).target
    BY <1>1, <2>a
  <2>2. proc'[p].op = "migrate" /\ proc'[p].pc = pc /\ proc'[p].rel \in Releases
    BY <1>1, <1>5 DEF Advances, MigrateOK
  <2>3. current' = current /\ live' = live
    OBVIOUS
  <2>4. MigrateOK(p)'
    BY <2>1, <2>2, <2>3 DEF MigrateOK, MayRecord
  <2> QED
    BY <2>2, <2>4 DEF ProcOK
<1>16. live' \in Schemata
  BY <1>1 DEF HostTypes
<1>17. rolloutLock' \in Procs \cup {None} /\ backupLock' \in Procs \cup {None}
  BY <1>1, <1>6 DEF HostTypes
<1>18. MigKept(i)
  BY <1>4 DEF MigSet, MigKept
<1>19. LET f == migrations'[i] IN
       /\ e.result # "none" => f.result = e.result
       /\ e.status \in Late => f.status \in Late
       /\ (f.result = "failed") <=> (f.status = "failed")
       /\ (f.result = "migration_requires_recovery") <=> (f.status = "migration_requires_recovery")
       /\ f.result = "committed" => f.status \in Late
       /\ f.resolved => f.status \in Late \cup {"migration_requires_recovery"}
       /\ f.status = "none" => f.hold = "none"
       /\ f.backup <= made'
       /\ i \in UnresolvedMigrations' => i \in UnresolvedMigrations
  BY <1>1, <1>3, <1>4, <1>9, <1>10 DEF MigSet, MayRecord
<1>20. current' = current /\ made <= made' /\ made' \in Nat /\ backups' \subseteq Dumps
  BY <1>10
<1> QED
  BY <1>1, <1>5, <1>7, <1>8, <1>11, <1>12, <1>13, <1>14, <1>15, <1>16, <1>17, <1>18, <1>19, <1>20,
     MigrateStep

\* planned and backup_started.
LEMMA MigrateAnnounceKeeps ==
    ASSUME HostInv, NEW p \in Procs, MigrateAnnounce(p)
    PROVE  HostInv' /\ ResultsKept
<1>1. /\ proc[p].op = "migrate" /\ Locked(p) /\ UNCHANGED <<current, live, migrateOnly, backupVars>>
  BY DEF MigrateAnnounce, At, Locked
<1>2. MigrateOK(p)
  BY <1>1, MigrateFacts
<1>3. /\ PreMutation = {"planned", "backup_started", "backup_verified", "hold_acquired",
                        "pre_migration_revalidated"}
      /\ PostMutation = {"migration_started", "command_completed", "target_heads_verified",
                         "application_stabilized"}
      /\ HeldFrom = {"hold_acquired", "pre_migration_revalidated",
                     "migration_requires_recovery"} \cup PostMutation
      /\ Late = {"state_committed", "committed"}
  BY MigrationSets DEF HeldFrom, Late
<1>4. CASE Mig(p).status = "none" /\ SetStatus(p, "planned") /\ Goto(p, "run")
  <2> DEFINE st == "planned"
             pc == "run"
  <2>1. MayRecord(p, st, pc)
    BY <1>3, <1>4 DEF MayRecord
  <2>2. Goto(p, pc) /\ SetStatus(p, st)
    BY <1>4
  <2> HIDE DEF st, pc
  <2> QED
    BY <1>1, <2>1, <2>2, MigrateRecords
<1>5. CASE Mig(p).status = "planned" /\ SetStatus(p, "backup_started") /\ Goto(p, "backup")
  <2> DEFINE st == "backup_started"
             pc == "backup"
  <2>1. MayRecord(p, st, pc)
    BY <1>3, <1>5 DEF MayRecord
  <2>2. Goto(p, pc) /\ SetStatus(p, st)
    BY <1>5
  <2> HIDE DEF st, pc
  <2> QED
    BY <1>1, <2>1, <2>2, MigrateRecords
<1> QED
  BY <1>4, <1>5 DEF MigrateAnnounce

\* pre_migration_revalidated.
LEMMA MigrateRevalidateKeeps ==
    ASSUME HostInv, NEW p \in Procs, MigrateRevalidate(p)
    PROVE  HostInv' /\ ResultsKept
<1>1. /\ proc[p].op = "migrate" /\ Locked(p) /\ UNCHANGED <<current, live, migrateOnly, backupVars>>
  BY DEF MigrateRevalidate, At, Locked
<1>2. MigrateOK(p)
  BY <1>1, MigrateFacts
<1>3. /\ PreMutation = {"planned", "backup_started", "backup_verified", "hold_acquired",
                        "pre_migration_revalidated"}
      /\ PostMutation = {"migration_started", "command_completed", "target_heads_verified",
                         "application_stabilized"}
      /\ HeldFrom = {"hold_acquired", "pre_migration_revalidated",
                     "migration_requires_recovery"} \cup PostMutation
      /\ Late = {"state_committed", "committed"}
  BY MigrationSets DEF HeldFrom, Late
<1>4. CASE Mig(p).status = "hold_acquired" /\ SetStatus(p, "pre_migration_revalidated") /\ Goto(p, "upgrade")
  <2> DEFINE st == "pre_migration_revalidated"
             pc == "upgrade"
  <2>1. MayRecord(p, st, pc)
    BY <1>3, <1>4 DEF MayRecord
  <2>2. Goto(p, pc) /\ SetStatus(p, st)
    BY <1>4
  <2> HIDE DEF st, pc
  <2> QED
    BY <1>1, <2>1, <2>2, MigrateRecords
<1> QED
  BY <1>4 DEF MigrateRevalidate

\* command_completed, target_heads_verified and application_stabilized.
LEMMA MigrateCheckKeeps ==
    ASSUME HostInv, NEW p \in Procs, MigrateCheck(p)
    PROVE  HostInv' /\ ResultsKept
<1>1. /\ proc[p].op = "migrate" /\ Locked(p) /\ UNCHANGED <<current, live, migrateOnly, backupVars>>
  BY DEF MigrateCheck, At, Locked
<1>2. MigrateOK(p)
  BY <1>1, MigrateFacts
<1>3. /\ PreMutation = {"planned", "backup_started", "backup_verified", "hold_acquired",
                        "pre_migration_revalidated"}
      /\ PostMutation = {"migration_started", "command_completed", "target_heads_verified",
                         "application_stabilized"}
      /\ HeldFrom = {"hold_acquired", "pre_migration_revalidated",
                     "migration_requires_recovery"} \cup PostMutation
      /\ Late = {"state_committed", "committed"}
  BY MigrationSets DEF HeldFrom, Late
<1>7. live = SourceHeads[Mig(p).target]
  BY <1>2 DEF MigrateOK, MigrateCheck, At
<1>4. CASE Mig(p).status = "migration_started" /\ SetStatus(p, "command_completed") /\ Goto(p, "check")
  <2> DEFINE st == "command_completed"
             pc == "check"
  <2>1. MayRecord(p, st, pc)
    BY <1>3, <1>4, <1>7 DEF MayRecord
  <2>2. Goto(p, pc) /\ SetStatus(p, st)
    BY <1>4
  <2> HIDE DEF st, pc
  <2> QED
    BY <1>1, <2>1, <2>2, MigrateRecords
<1>5. CASE Mig(p).status = "command_completed" /\ SetStatus(p, "target_heads_verified") /\ Goto(p, "check")
  <2> DEFINE st == "target_heads_verified"
             pc == "check"
  <2>1. MayRecord(p, st, pc)
    BY <1>3, <1>5, <1>7 DEF MayRecord
  <2>2. Goto(p, pc) /\ SetStatus(p, st)
    BY <1>5
  <2> HIDE DEF st, pc
  <2> QED
    BY <1>1, <2>1, <2>2, MigrateRecords
<1>6. CASE Mig(p).status = "target_heads_verified" /\ SetStatus(p, "application_stabilized") /\ Goto(p, "check")
  <2> DEFINE st == "application_stabilized"
             pc == "check"
  <2>1. MayRecord(p, st, pc)
    BY <1>3, <1>6, <1>7 DEF MayRecord
  <2>2. Goto(p, pc) /\ SetStatus(p, st)
    BY <1>6
  <2> HIDE DEF st, pc
  <2> QED
    BY <1>1, <2>1, <2>2, MigrateRecords
<1> QED
  BY <1>4, <1>5, <1>6 DEF MigrateCheck

\* state_committed and committed.
LEMMA MigrateCommitKeeps ==
    ASSUME HostInv, NEW p \in Procs, MigrateCommit(p)
    PROVE  HostInv' /\ ResultsKept
<1>1. /\ proc[p].op = "migrate" /\ Locked(p) /\ UNCHANGED <<current, live, migrateOnly, backupVars>>
  BY DEF MigrateCommit, At, Locked
<1>2. MigrateOK(p)
  BY <1>1, MigrateFacts
<1>3. /\ PreMutation = {"planned", "backup_started", "backup_verified", "hold_acquired",
                        "pre_migration_revalidated"}
      /\ PostMutation = {"migration_started", "command_completed", "target_heads_verified",
                         "application_stabilized"}
      /\ HeldFrom = {"hold_acquired", "pre_migration_revalidated",
                     "migration_requires_recovery"} \cup PostMutation
      /\ Late = {"state_committed", "committed"}
  BY MigrationSets DEF HeldFrom, Late
<1>7. current # None /\ live = current.heads /\ Mig(p).status \in {"application_stabilized", "state_committed"}
  BY <1>2 DEF MigrateOK, MigrateCommit, At
<1>4. CASE Mig(p).status = "application_stabilized" /\ SetStatus(p, "state_committed") /\ Goto(p, "commit")
  <2> DEFINE st == "state_committed"
             pc == "commit"
  <2>1. MayRecord(p, st, pc)
    BY <1>3, <1>4, <1>7 DEF MayRecord
  <2>2. Goto(p, pc) /\ SetStatus(p, st)
    BY <1>4
  <2> HIDE DEF st, pc
  <2> QED
    BY <1>1, <2>1, <2>2, MigrateRecords
<1>5. CASE Mig(p).status = "state_committed" /\ SetStatus(p, "committed") /\ Goto(p, "result")
  <2> DEFINE st == "committed"
             pc == "result"
  <2>1. MayRecord(p, st, pc)
    BY <1>3, <1>5, <1>7 DEF MayRecord
  <2>2. Goto(p, pc) /\ SetStatus(p, st)
    BY <1>5
  <2> HIDE DEF st, pc
  <2> QED
    BY <1>1, <2>1, <2>2, MigrateRecords
<1> QED
  BY <1>4, <1>5, <1>7 DEF MigrateCommit

\* What a migration journal must say of itself when `m' backups have been made.
MigFits(f, m) ==
    /\ (f.result = "failed") <=> (f.status = "failed")
    /\ (f.result = "migration_requires_recovery") <=> (f.status = "migration_requires_recovery")
    /\ f.result = "committed" => f.status \in Late
    /\ f.resolved => f.status \in Late \cup {"migration_requires_recovery"}
    /\ f.status = "none" => f.hold = "none"
    /\ f.backup <= m

\* A step of a migration that has the rollout lock.
LEMMA MigrateWorks ==
    ASSUME HostInv, NEW p \in Procs, proc[p].op = "migrate", Locked(p), UNCHANGED migrateOnly, Moves(p),
           proc'[p].op = "migrate", proc'[p].id = proc[p].id,
           rolloutLock' \in {p, None}, Locked(p)' => rolloutLock' = p,
           backupLock' \in Procs \cup {None}, backupLock' = backupLock \/ BackupFree(p),
           BackupLocked(p)' => backupLock' = p,
           MigKept(proc[p].id), MigFits(migrations'[proc[p].id], made'),
           Mig(p).status \in Late => migrations'[proc[p].id].status \in Late,
           live' \in Schemata, live' = NoSchema => live = NoSchema,
           backups' \subseteq Dumps, made' \in Nat, made <= made', PruneSafe(p),
           \/ current' = current
           \/ /\ current # None /\ current' \in CurrentStates /\ current'.app = current.app
              /\ current.envelope \subseteq current'.envelope,
           BaseInv', RestoreInv', BackupsInv', MigrateOK(p)'
    PROVE  HostInv' /\ ResultsKept
<1> DEFINE i == proc[p].id
           e == migrations[i]
<1>1. /\ RolloutFree(p) /\ rolloutLock = p /\ ProcShape /\ MigrateOK(p) /\ HostTypes /\ SavedOK
      /\ LockInv /\ JournalsAreOwned
      /\ i \in DOMAIN migrations /\ i \in UnresolvedMigrations
      /\ \A j \in UnresolvedMigrations : j = i
      /\ Mig(p) = e /\ Mig(p) \in MigrationJournals /\ Mig(p).result = "none"
  BY MigrateFacts
<1>2. LockInv'
  BY <1>1, LocksKept
<1>3. JournalsAreOwned'
  <2>1. Migrates(p)
    BY DEF Migrates, Locked
  <2> QED
    BY <1>1, <2>1, OwnedKept
<1>4. ProcOK(p)'
  BY DEF ProcOK
<1>5. LET f == migrations'[i] IN
       /\ e.result # "none" => f.result = e.result
       /\ e.status \in Late => f.status \in Late
       /\ (f.result = "failed") <=> (f.status = "failed")
       /\ (f.result = "migration_requires_recovery") <=> (f.status = "migration_requires_recovery")
       /\ f.result = "committed" => f.status \in Late
       /\ f.resolved => f.status \in Late \cup {"migration_requires_recovery"}
       /\ f.status = "none" => f.hold = "none"
       /\ f.backup <= made'
       /\ i \in UnresolvedMigrations' => i \in UnresolvedMigrations
  BY <1>1 DEF MigFits
<1>6. rolloutLock' \in Procs \cup {None}
  OBVIOUS
<1> QED
  BY <1>1, <1>2, <1>3, <1>4, <1>5, <1>6, MigrateStep

\* A journal that is left alone stays as it was.
LEMMA FitsNow ==
    ASSUME HostInv, NEW i \in DOMAIN migrations, made' \in Nat, made <= made'
    PROVE  MigFits(migrations[i], made')
<1>1. migrations[i] \in MigrationJournals /\ made \in Nat /\ MigrationsOK
  BY DEF HostInv, HostTypes, SavedOK
<1>2. migrations[i].backup \in Nat
  BY <1>1 DEF MigrationJournals
<1> QED
  BY <1>1, <1>2 DEF MigrationsOK, MigFits

\* A journal that is left alone is kept.
LEMMA KeptSame ==
    ASSUME HostTypes, NEW i \in DOMAIN migrations, migrations' = migrations
    PROVE  MigKept(i)
BY DEF MigKept, HostTypes

\* A verification rewrites an attestation and nothing else of a backup.
SameDumps ==
    /\ backups' \subseteq Dumps
    /\ \A b \in backups : \E c \in backups' : c.n = b.n /\ c.heads = b.heads
    /\ \A c \in backups' : \E b \in backups : c.n = b.n /\ c.heads = b.heads

\* An attestation is such a rewriting.
LEMMA AttestedSame ==
    ASSUME HostTypes, NEW n, NEW r \in {"passed", "failed"}, backups' = Attested(n, r)
    PROVE  SameDumps
<1> DEFINE g(b) == IF b.n = n THEN [b EXCEPT !.verify = r] ELSE b
<1>1. \A b \in backups : g(b) \in Dumps /\ g(b).n = b.n /\ g(b).heads = b.heads
  <2> TAKE b \in backups
  <2>1. b \in Dumps
    BY DEF HostTypes
  <2> QED
    BY <2>1 DEF Dumps
<1>2. backups' = {g(b) : b \in backups}
  BY DEF Attested
<1> HIDE DEF g
<1> QED
  BY <1>1, <1>2 DEF SameDumps

\* open_backup_root_session, and the new backup.
LEMMA MigrateBackupKeeps ==
    ASSUME HostInv, NEW p \in Procs, MigrateBackup(p)
    PROVE  HostInv' /\ ResultsKept
<1> DEFINE i == proc[p].id
           m == made + 1
           b == [n |-> m, heads |-> live, verify |-> "none"]
<1>0. /\ proc[p].op = "migrate" /\ proc[p].pc = "backup" /\ Locked(p)
      /\ UNCHANGED <<current, live, migrations, migrateOnly, rolloutLock>>
      /\ backupLock = None /\ backupLock' = p /\ made' = m /\ backups' = backups \cup {b}
      /\ proc' = [proc EXCEPT ![p].pc = "verify", ![p].saw = m]
  BY DEF MigrateBackup, At, Locked
<1>1. /\ RolloutFree(p) /\ rolloutLock = p /\ ProcShape /\ MigrateOK(p) /\ HostTypes /\ SavedOK
      /\ LockInv /\ JournalsAreOwned
      /\ i \in DOMAIN migrations /\ i \in UnresolvedMigrations
      /\ \A j \in UnresolvedMigrations : j = i
      /\ Mig(p) = migrations[i] /\ Mig(p) \in MigrationJournals /\ Mig(p).result = "none"
  BY <1>0, MigrateFacts
<1>2. /\ Moves(p) /\ proc'[p].op = "migrate" /\ proc'[p].pc = "verify" /\ proc'[p].id = i
      /\ proc'[p].saw = m /\ proc'[p].rel = proc[p].rel
  <2> DEFINE pc == "verify"
  <2>0. ProcShape
    BY <1>1
  <2> HIDE DEF pc
  <2>1. proc' = [proc EXCEPT ![p].pc = pc, ![p].saw = m]
    BY <1>0 DEF pc
  <2> HIDE DEF m
  <2>2. Moves(p) /\ Becomes(p, pc, proc[p].act, proc[p].id, m)
    BY <2>0, <2>1, SetPcSaw
  <2> QED
    BY <1>0, <2>2 DEF pc, Becomes
<1>3. made \in Nat /\ m \in Nat \ {0} /\ made <= made' /\ made' \in Nat
  BY <1>0, <1>1 DEF HostTypes
<1>4. b \in Dumps
  BY <1>1, <1>3 DEF Dumps, HostTypes
<1>5. backups' \subseteq Dumps /\ BackupsInv'
  BY <1>0, <1>1, <1>3, <1>4 DEF HostTypes, SavedOK, BackupsInv, Dumps
<1>6. RestoreInv' /\ BaseInv'
  BY <1>0, <1>1 DEF SavedOK, RestoreInv, BaseInv, UnresolvedMigrations
<1>7. BackupFree(p) /\ PruneSafe(p)
  BY <1>0, <1>1, BackupAlone DEF PruneSafe
<1>8. MigKept(i) /\ MigFits(migrations'[i], made')
  BY <1>0, <1>1, <1>3, FitsNow, KeptSame
<1>9. MigrateOK(p)'
  <2>1. Mig(p)' = Mig(p) /\ Locked(p)'
    BY <1>0, <1>2 DEF Mig, Locked
  <2> QED
    BY <1>0, <1>1, <1>2, <1>3, <2>1 DEF MigrateOK
<1>10. live' \in Schemata
  BY <1>0, <1>1 DEF HostTypes
<1> HIDE DEF m, b
<1> QED
  BY <1>0, <1>1, <1>2, <1>3, <1>5, <1>6, <1>7, <1>8, <1>9, <1>10, MigrateWorks

\* The attestation of the new backup, and backup_verified.
LEMMA MigrateVerifyKeeps ==
    ASSUME HostInv, NEW p \in Procs, MigrateVerify(p)
    PROVE  HostInv' /\ ResultsKept
<1> DEFINE i == proc[p].id
           n == proc[p].saw
           st == "backup_verified"
           e == migrations[i]
<1>0. /\ proc[p].op = "migrate" /\ proc[p].pc = "verify" /\ Locked(p) /\ BackupLocked(p)
      /\ UNCHANGED <<current, live, made, migrateOnly>> /\ Goto(p, "hold")
      /\ \E b \in backups : b.n = n /\ b.heads = Mig(p).from
      /\ backups' = Attested(n, "passed")
      /\ migrations' = [migrations EXCEPT ![i].status = st, ![i].backup = n]
  BY DEF MigrateVerify, At, Locked, BackupLocked
<1>1. /\ RolloutFree(p) /\ rolloutLock = p /\ ProcShape /\ MigrateOK(p) /\ HostTypes /\ SavedOK
      /\ LockInv /\ JournalsAreOwned
      /\ i \in DOMAIN migrations /\ i \in UnresolvedMigrations
      /\ \A j \in UnresolvedMigrations : j = i
      /\ Mig(p) = e /\ Mig(p) \in MigrationJournals /\ Mig(p).result = "none"
  BY <1>0, MigrateFacts
<1>2. Moves(p) /\ Advances(p, "hold") /\ rolloutLock' = rolloutLock /\ backupLock' = backupLock
  BY <1>0, <1>1, GotoMoves DEF Goto
<1>3. n \in Nat /\ n <= made /\ made \in Nat
  BY <1>0, <1>1 DEF MigrateOK, HostTypes
<1>4. st \in MigStatus /\ st \notin HeldFrom \cup Late /\ st \in PreMutation
  BY MigrationSets DEF HeldFrom, Late
<1>5. MigSet(i, st, e.result, e.resolved, e.hold, n)
  <2> HIDE DEF st
  <2> QED
    BY <1>0, <1>1, <1>3, <1>4, MigVerifySet DEF HostTypes
<1>6. SameDumps
  BY <1>0, <1>1, AttestedSame
<1>7. e.status = "backup_started"
  BY <1>0, <1>1 DEF MigrateOK
<1>8. backups' \subseteq Dumps /\ BackupsInv'
  BY <1>0, <1>1, <1>6 DEF SavedOK, BackupsInv, SameDumps
<1>9. e.resolved \in BOOLEAN /\ ~ e.resolved
  <2>1. e.resolved \in BOOLEAN
    BY <1>1 DEF MigrationJournals
  <2>2. ~ e.resolved
    BY <1>1, <1>7 DEF SavedOK, MigrationsOK, Late
  <2> QED
    BY <2>1, <2>2
<1>10. RestoreInv'
  <2> HIDE DEF st
  <2> QED
    BY <1>1, <1>4, <1>5, <1>9, RestoreKept
<1>11. BaseInv'
  <2>1. e.status \in PreMutation
    BY <1>7, MigrationSets
  <2> HIDE DEF st
  <2> QED
    BY <1>0, <1>1, <1>5, <1>9, <2>1, BaseKept
<1>12. BackupFree(p) /\ PruneSafe(p)
  BY <1>0, <1>1, BackupAlone DEF PruneSafe
<1>13. MigKept(i) /\ MigFits(migrations'[i], made')
  BY <1>0, <1>1, <1>3, <1>5, <1>9 DEF MigSet, MigKept, MigFits
<1>14. MigrateOK(p)'
  <2>1. /\ Mig(p)'.status = st /\ Mig(p)'.result = "none" /\ Mig(p)'.backup = n
        /\ Mig(p)'.from = Mig(p).from
    BY <1>1, <1>2, <1>5 DEF Mig, MigSet, Advances
  <2>2. \E b \in backups' : b.n = n /\ b.heads = Mig(p).from
    BY <1>0, <1>6 DEF SameDumps
  <2> QED
    BY <1>0, <1>1, <1>2, <1>5, <2>1, <2>2 DEF MigrateOK, Advances, MigSet
<1>15. live' \in Schemata /\ backupLock' \in Procs \cup {None}
  BY <1>0, <1>1, <1>2 DEF HostTypes
<1>16. backupLock' = p /\ proc'[p].op = "migrate" /\ proc'[p].id = i
  BY <1>0, <1>1, <1>2 DEF LockInv, Advances
<1> HIDE DEF n
<1> QED
  BY <1>0, <1>1, <1>2, <1>3, <1>7, <1>8, <1>10, <1>11, <1>12, <1>13, <1>14, <1>15, <1>16, MigrateWorks
  DEF Late

\* The hold is taken and the backup session ends.
LEMMA MigrateHoldKeeps ==
    ASSUME HostInv, NEW p \in Procs, MigrateHold(p)
    PROVE  HostInv' /\ ResultsKept
<1> DEFINE i == proc[p].id
           st == "hold_acquired"
           hold == "active"
           e == migrations[i]
<1>0. /\ proc[p].op = "migrate" /\ proc[p].pc = "hold" /\ Locked(p) /\ BackupLocked(p)
      /\ UNCHANGED <<current, live, migrateOnly, backupVars, rolloutLock>> /\ backupLock' = None
      /\ migrations' = [migrations EXCEPT ![i].status = st, ![i].hold = hold]
      /\ proc' = [proc EXCEPT ![p].pc = "upgrade"]
  BY DEF MigrateHold, At, Locked, BackupLocked
<1>1. /\ RolloutFree(p) /\ rolloutLock = p /\ ProcShape /\ MigrateOK(p) /\ HostTypes /\ SavedOK
      /\ LockInv /\ JournalsAreOwned
      /\ i \in DOMAIN migrations /\ i \in UnresolvedMigrations
      /\ \A j \in UnresolvedMigrations : j = i
      /\ Mig(p) = e /\ Mig(p) \in MigrationJournals /\ Mig(p).result = "none"
  BY <1>0, MigrateFacts
<1>2. Moves(p) /\ Advances(p, "upgrade")
  BY <1>0, <1>1, SetPc
<1>4. st \in MigStatus /\ st \notin Late /\ st \in PreMutation
  BY MigrationSets DEF Late
<1>5. MigSet(i, st, e.result, e.resolved, hold, e.backup)
  <2>1. hold \in {"none", "active", "released"}
    OBVIOUS
  <2> HIDE DEF st, hold
  <2> QED
    BY <1>0, <1>1, <1>4, <2>1, MigHeldSet DEF HostTypes
<1>7. e.status = "backup_verified" /\ \E b \in backups : b.n = e.backup /\ b.heads = e.from
  BY <1>0, <1>1 DEF MigrateOK
<1>8. /\ backups' = backups /\ made' = made /\ made \in Nat /\ backups' \subseteq Dumps /\ BackupsInv'
      /\ e.backup <= made
  BY <1>0, <1>1 DEF HostTypes, SavedOK, BackupsInv, backupVars, MigrationsOK
<1>9. e.resolved \in BOOLEAN /\ ~ e.resolved
  <2>1. e.resolved \in BOOLEAN
    BY <1>1 DEF MigrationJournals
  <2>2. ~ e.resolved
    BY <1>1, <1>7 DEF SavedOK, MigrationsOK, Late
  <2> QED
    BY <2>1, <2>2
<1>10. RestoreInv'
  <2>1. hold = "active" /\ \E b \in backups' : b.n = e.backup /\ b.heads = migrations[i].from
    BY <1>7, <1>8
  <2> HIDE DEF st, hold
  <2> QED
    BY <1>1, <1>5, <1>9, <2>1, RestoreKept
<1>11. BaseInv'
  <2>1. e.status \in PreMutation
    BY <1>7, MigrationSets
  <2> HIDE DEF st, hold
  <2> QED
    BY <1>0, <1>1, <1>5, <1>9, <2>1, BaseKept
<1>12. BackupFree(p) /\ PruneSafe(p)
  BY <1>0, <1>1, BackupAlone DEF PruneSafe
<1>13. MigKept(i) /\ MigFits(migrations'[i], made')
  BY <1>0, <1>1, <1>5, <1>8, <1>9 DEF MigSet, MigKept, MigFits
<1>14. MigrateOK(p)'
  <2>1. Mig(p)'.status = st /\ Mig(p)'.result = "none"
    BY <1>1, <1>2, <1>5 DEF Mig, MigSet, Advances
  <2> QED
    BY <1>0, <1>1, <1>2, <1>5, <2>1 DEF MigrateOK, Advances, MigSet
<1>15. live' \in Schemata
  BY <1>0, <1>1 DEF HostTypes
<1>16. ~ BackupLocked(p)' /\ proc'[p].op = "migrate" /\ proc'[p].id = i
  BY <1>0, <1>2 DEF BackupLocked, Advances
<1> QED
  BY <1>0, <1>1, <1>2, <1>7, <1>8, <1>10, <1>11, <1>12, <1>13, <1>14, <1>15, <1>16, MigrateWorks
  DEF Late

\* Alembic runs.
LEMMA MigrateUpgradeKeeps ==
    ASSUME HostInv, NEW p \in Procs, MigrateUpgrade(p)
    PROVE  HostInv' /\ ResultsKept
<1> DEFINE i == proc[p].id
           st == "migration_started"
           e == migrations[i]
<1>0. /\ proc[p].op = "migrate" /\ proc[p].pc = "upgrade" /\ Locked(p)
      /\ UNCHANGED <<current, migrateOnly, backupVars>> /\ Goto(p, "check")
      /\ live' = SourceHeads[Mig(p).target] /\ Mig(p).status = "pre_migration_revalidated"
      /\ migrations' = [migrations EXCEPT ![i].status = st]
  BY DEF MigrateUpgrade, At, Locked, SetStatus
<1>1. /\ RolloutFree(p) /\ rolloutLock = p /\ ProcShape /\ MigrateOK(p) /\ HostTypes /\ SavedOK
      /\ LockInv /\ JournalsAreOwned
      /\ i \in DOMAIN migrations /\ i \in UnresolvedMigrations
      /\ \A j \in UnresolvedMigrations : j = i
      /\ Mig(p) = e /\ Mig(p) \in MigrationJournals /\ Mig(p).result = "none"
  BY <1>0, MigrateFacts
<1>2. Moves(p) /\ Advances(p, "check") /\ rolloutLock' = rolloutLock /\ backupLock' = backupLock
  BY <1>0, <1>1, GotoMoves DEF Goto
<1>4. st \in MigStatus /\ st \notin Late /\ st \in PostMutation /\ st \notin PreMutation \cup {"none"}
  BY MigrationSets DEF Late
<1>5. MigSet(i, st, e.result, e.resolved, e.hold, e.backup)
  <2> HIDE DEF st
  <2> QED
    BY <1>0, <1>1, <1>4, MigStatusSet DEF HostTypes
<1>7. e.status = "pre_migration_revalidated"
  BY <1>0, <1>1
<1>8. /\ backups' = backups /\ made' = made /\ made \in Nat /\ backups' \subseteq Dumps /\ BackupsInv'
      /\ e.backup <= made
  BY <1>0, <1>1 DEF HostTypes, SavedOK, BackupsInv, backupVars, MigrationsOK
<1>9. e.resolved \in BOOLEAN /\ ~ e.resolved
  <2>1. e.resolved \in BOOLEAN
    BY <1>1 DEF MigrationJournals
  <2>2. ~ e.resolved
    BY <1>1, <1>7, MigrationSets DEF SavedOK, MigrationsOK, Late
  <2> QED
    BY <2>1, <2>2
<1>10. RestoreInv'
  <2>1. e.hold = "active" /\ \E b \in backups' : b.n = e.backup /\ b.heads = migrations[i].from
    BY <1>1, <1>7, <1>8 DEF SavedOK, RestoreInv, HeldFrom
  <2> HIDE DEF st
  <2> QED
    BY <1>1, <1>5, <1>9, <2>1, RestoreKept
<1>11. BaseInv'
  <2>1. i \in UnresolvedMigrations' /\ migrations'[i].status = st
    BY <1>1, <1>5 DEF MigSet, UnresolvedMigrations
  <2> QED
    BY <1>4, <2>1 DEF BaseInv
<1>12. PruneSafe(p)
  <2>1. \A n \in Nat : Held(n)' => Held(n)
    BY <1>1, <1>5 DEF Held, MigSet
  <2> QED
    BY <1>8, <2>1 DEF PruneSafe
<1>13. MigKept(i) /\ MigFits(migrations'[i], made')
  BY <1>1, <1>5, <1>8, <1>9 DEF MigSet, MigKept, MigFits
<1>14. MigrateOK(p)'
  <2>1. Mig(p)'.status = st /\ Mig(p)'.result = "none" /\ Mig(p)'.target = Mig(p).target
    BY <1>1, <1>2, <1>5 DEF Mig, MigSet, Advances
  <2> QED
    BY <1>0, <1>1, <1>2, <1>4, <1>5, <2>1 DEF MigrateOK, Advances, MigSet
<1>15. live' \in AllHeads
  BY <1>0, <1>1 DEF MigrationJournals, AllHeads
<1>16. live' \in Schemata /\ live' # NoSchema
  BY <1>15, HeadsAssumption DEF Schemata, AllHeads
<1>17. ~ BackupLocked(p)' /\ proc'[p].op = "migrate" /\ proc'[p].id = i /\ backupLock' \in Procs \cup {None}
  BY <1>0, <1>1, <1>2 DEF BackupLocked, Advances, HostTypes
<1> QED
  BY <1>0, <1>1, <1>2, <1>7, <1>8, <1>10, <1>11, <1>12, <1>13, <1>14, <1>16, <1>17, MigrateWorks
  DEF Late

\* What a migration publishes in current.json.
LEMMA AfterMigrationType ==
    ASSUME current \in CurrentStates, NEW r \in Releases, NEW id \in Nat
    PROVE  LET c == AfterMigration(current, r, id) IN
           /\ c \in CurrentStates /\ c # None /\ c.heads = SourceHeads[r] /\ c.app = current.app
           /\ current.envelope \subseteq c.envelope
<1> DEFINE c == AfterMigration(current, r, id)
           env == current.envelope \cup {current.schema, r}
<1>1. current # None
  BY DocumentAssumption
<1>2. NextStamp \in Nat /\ SourceHeads[r] \in AllHeads /\ env \in SUBSET Releases
  BY <1>1 DEF NextStamp, CurrentStates, AllHeads
<1>3. c = [current EXCEPT !.heads = SourceHeads[r], !.schema = r, !.migration = id,
                          !.stamp = NextStamp, !.envelope = env]
  BY DEF AfterMigration
<1>4. current.envelope \subseteq env
  OBVIOUS
<1> HIDE DEF c, env
<1>5. c \in CurrentStates /\ c.heads = SourceHeads[r] /\ c.app = current.app /\ c.envelope = env
  BY <1>2, <1>3 DEF CurrentStates
<1> QED
  BY <1>4, <1>5, DocumentAssumption DEF c

\* The same on a host.
LEMMA AfterMigrationOK ==
    ASSUME HostTypes, current # None, NEW r \in Releases, NEW id \in Nat
    PROVE  LET c == AfterMigration(current, r, id) IN
           /\ c \in CurrentStates /\ c # None /\ c.heads = SourceHeads[r] /\ c.app = current.app
           /\ current.envelope \subseteq c.envelope
BY AfterMigrationType DEF HostTypes

\* The compare-and-set on current.json.
LEMMA MigratePublishKeeps ==
    ASSUME HostInv, NEW p \in Procs, MigratePublish(p)
    PROVE  HostInv' /\ ResultsKept
<1> DEFINE i == proc[p].id
           e == migrations[i]
<1>0. /\ proc[p].op = "migrate" /\ proc[p].pc = "check" /\ Locked(p)
      /\ UNCHANGED <<live, migrations, migrateOnly, backupVars>> /\ Goto(p, "commit")
      /\ FileHash(current) = Mig(p).before /\ Mig(p).status = "application_stabilized"
      /\ current' = AfterMigration(current, Mig(p).target, i)
  BY DEF MigratePublish, At, Locked
<1>1. /\ RolloutFree(p) /\ rolloutLock = p /\ ProcShape /\ MigrateOK(p) /\ HostTypes /\ SavedOK
      /\ LockInv /\ JournalsAreOwned
      /\ i \in DOMAIN migrations /\ i \in UnresolvedMigrations
      /\ \A j \in UnresolvedMigrations : j = i
      /\ Mig(p) = e /\ Mig(p) \in MigrationJournals /\ Mig(p).result = "none"
  BY <1>0, MigrateFacts
<1>2. Moves(p) /\ Advances(p, "commit") /\ rolloutLock' = rolloutLock /\ backupLock' = backupLock
  BY <1>0, <1>1, GotoMoves DEF Goto
<1>3. current \in CurrentStates /\ current # None
  <2>1. Mig(p).before \in {"indented"} \X CurrentStates
    BY <1>1 DEF MigrationJournals
  <2>2. FileHash(current)[2] = current
    BY DEF FileHash
  <2> QED
    BY <1>0, <2>1, <2>2, DocumentAssumption
<1>4. Mig(p).target \in Releases /\ i \in Nat
  BY <1>1 DEF MigrationJournals, HostTypes
<1>5. /\ current' \in CurrentStates /\ current' # None /\ current'.heads = SourceHeads[Mig(p).target]
      /\ current'.app = current.app /\ current.envelope \subseteq current'.envelope
  BY <1>0, <1>1, <1>3, <1>4, AfterMigrationOK
<1>6. live' = current'.heads
  BY <1>0, <1>1, <1>5 DEF MigrateOK
<1>8. /\ backups' = backups /\ made' = made /\ made \in Nat /\ made <= made' /\ backups' \subseteq Dumps
      /\ BackupsInv'
  BY <1>0, <1>1 DEF HostTypes, SavedOK, BackupsInv, backupVars
<1>10. RestoreInv' /\ BaseInv'
  BY <1>0, <1>1, <1>6, <1>8 DEF SavedOK, RestoreInv, BaseInv, UnresolvedMigrations
<1>12. PruneSafe(p)
  BY <1>0, <1>8 DEF PruneSafe, Held
<1>13. MigKept(i) /\ MigFits(migrations'[i], made')
  BY <1>0, <1>1, <1>8, FitsNow, KeptSame
<1>14. MigrateOK(p)'
  <2>1. Mig(p)' = Mig(p)
    BY <1>0, <1>2 DEF Mig, Advances
  <2> QED
    BY <1>0, <1>1, <1>2, <1>5, <1>6, <2>1 DEF MigrateOK, Advances
<1>16. live' \in Schemata /\ live' = live
  BY <1>0, <1>1 DEF HostTypes
<1>17. ~ BackupLocked(p)' /\ proc'[p].op = "migrate" /\ proc'[p].id = i /\ backupLock' \in Procs \cup {None}
  BY <1>0, <1>1, <1>2 DEF BackupLocked, Advances, HostTypes
<1> QED
  BY <1>0, <1>1, <1>2, <1>3, <1>5, <1>8, <1>10, <1>12, <1>13, <1>14, <1>16, <1>17, MigrateWorks
  DEF Late

\* result.json.
LEMMA MigrateResultKeeps ==
    ASSUME HostInv, NEW p \in Procs, MigrateResult(p)
    PROVE  HostInv' /\ ResultsKept
<1> DEFINE i == proc[p].id
           res == "committed"
           e == migrations[i]
<1>0. /\ proc[p].op = "migrate" /\ proc[p].pc = "result" /\ Locked(p)
      /\ UNCHANGED <<current, live, migrateOnly, backupVars>> /\ Goto(p, "release")
      /\ migrations' = [migrations EXCEPT ![i].result = res]
  BY DEF MigrateResult, At, Locked
<1>1. /\ RolloutFree(p) /\ rolloutLock = p /\ ProcShape /\ MigrateOK(p) /\ HostTypes /\ SavedOK
      /\ LockInv /\ JournalsAreOwned
      /\ i \in DOMAIN migrations /\ i \in UnresolvedMigrations
      /\ \A j \in UnresolvedMigrations : j = i
      /\ Mig(p) = e /\ Mig(p) \in MigrationJournals /\ Mig(p).result = "none"
  BY <1>0, MigrateFacts
<1>2. Moves(p) /\ Advances(p, "release") /\ rolloutLock' = rolloutLock /\ backupLock' = backupLock
  BY <1>0, <1>1, GotoMoves DEF Goto
<1>5. MigSet(i, e.status, res, e.resolved, e.hold, e.backup)
  <2>1. res \in {"none", "committed", "failed", "migration_requires_recovery"}
    OBVIOUS
  <2> HIDE DEF res
  <2> QED
    BY <1>0, <1>1, <2>1, MigResultSet DEF HostTypes
<1>7. e.status = "committed" /\ current # None /\ live = current.heads
  BY <1>0, <1>1 DEF MigrateOK
<1>8. /\ backups' = backups /\ made' = made /\ made \in Nat /\ backups' \subseteq Dumps /\ BackupsInv'
      /\ e.backup <= made
  BY <1>0, <1>1 DEF HostTypes, SavedOK, BackupsInv, backupVars, MigrationsOK
<1>9. e.resolved \in BOOLEAN
  BY <1>1 DEF MigrationJournals
<1>10. RestoreInv'
  <2>1. e.status \notin HeldFrom
    BY <1>7, MigrationSets DEF HeldFrom
  <2> HIDE DEF res
  <2> QED
    BY <1>1, <1>5, <1>9, <2>1, RestoreKept
<1>11. BaseInv'
  BY <1>0, <1>7 DEF BaseInv
<1>12. PruneSafe(p)
  <2>1. \A n \in Nat : Held(n)' => Held(n)
    BY <1>1, <1>5 DEF Held, MigSet
  <2> QED
    BY <1>8, <2>1 DEF PruneSafe
<1>13. MigKept(i) /\ MigFits(migrations'[i], made')
  BY <1>1, <1>5, <1>7, <1>8, <1>9 DEF MigSet, MigKept, MigFits, Late
<1>14. MigrateOK(p)'
  <2>1. Mig(p)'.status = e.status /\ Mig(p)'.result = res
    BY <1>1, <1>2, <1>5 DEF Mig, MigSet, Advances
  <2> QED
    BY <1>0, <1>1, <1>2, <1>5, <1>7, <2>1 DEF MigrateOK, Advances, MigSet, Locked
<1>16. live' \in Schemata /\ live' = live /\ migrations'[i].status = e.status
  BY <1>0, <1>1, <1>5 DEF HostTypes, MigSet
<1>17. ~ BackupLocked(p)' /\ proc'[p].op = "migrate" /\ proc'[p].id = i /\ backupLock' \in Procs \cup {None}
  BY <1>0, <1>1, <1>2 DEF BackupLocked, Advances, HostTypes
<1> QED
  BY <1>0, <1>1, <1>2, <1>7, <1>8, <1>10, <1>11, <1>12, <1>13, <1>14, <1>16, <1>17, MigrateWorks
  DEF Late

\* The backups after an error: the new one may have been attested as bad.
LEMMA SameAsNow ==
    ASSUME HostTypes, backups' = backups
    PROVE  SameDumps
BY DEF SameDumps, HostTypes

\* An error that run_migration catches.
LEMMA MigrateErrorKeeps ==
    ASSUME HostInv, NEW p \in Procs, MigrateError(p)
    PROVE  HostInv' /\ ResultsKept
<1> DEFINE i == proc[p].id
           e == migrations[i]
<1>0. /\ proc[p].op = "migrate"
      /\ proc[p].pc \in {"run", "verify", "hold", "upgrade", "check", "commit", "result"}
      /\ UNCHANGED <<current, made, migrateOnly>>
      /\ proc' = [proc EXCEPT ![p].pc = "failed"] /\ rolloutLock' = None
      /\ backupLock' = IF backupLock = p THEN None ELSE backupLock
      /\ backups' \in IF proc[p].pc = "verify"
                      THEN {backups, Attested(proc[p].saw, "failed")} ELSE {backups}
      /\ Locked(p)
  BY DEF MigrateError, Locked
<1>1. /\ RolloutFree(p) /\ rolloutLock = p /\ ProcShape /\ MigrateOK(p) /\ HostTypes /\ SavedOK
      /\ LockInv /\ JournalsAreOwned
      /\ i \in DOMAIN migrations /\ i \in UnresolvedMigrations
      /\ \A j \in UnresolvedMigrations : j = i
      /\ Mig(p) = e /\ Mig(p) \in MigrationJournals /\ Mig(p).result = "none"
  BY <1>0, MigrateFacts
<1>2. Moves(p) /\ Advances(p, "failed")
  BY <1>0, <1>1, SetPc
<1>3. SameDumps
  BY <1>0, <1>1, SameAsNow, AttestedSame
<1>4. backups' \subseteq Dumps /\ BackupsInv' /\ made' = made /\ made \in Nat
  BY <1>0, <1>1, <1>3 DEF HostTypes, SavedOK, BackupsInv, SameDumps
<1>5. e.status \in HeldFrom =>
        e.hold = "active" /\ \E b \in backups' : b.n = e.backup /\ b.heads = e.from
  BY <1>1, <1>3 DEF SavedOK, RestoreInv, SameDumps
<1>6. proc[p].pc \in {"verify", "hold"} => BackupFree(p)
  BY <1>0, <1>1, BackupAlone DEF BackupLocked
<1>7. proc[p].pc # "verify" => backups' = backups
  BY <1>0
<1>8. e.resolved \in BOOLEAN /\ e.backup \in Nat
  BY <1>1 DEF MigrationJournals
<1>9. backupLock' \in Procs \cup {None} /\ (backupLock' = backupLock \/ BackupFree(p))
  BY <1>0, <1>1 DEF HostTypes, LockInv, BackupFree
<1>10. /\ ~ Locked(p)' /\ ~ BackupLocked(p)' /\ proc'[p].op = "migrate" /\ proc'[p].id = i
       /\ proc'[p].pc = "failed" /\ proc'[p].rel \in Releases
  BY <1>0, <1>1, <1>2 DEF Locked, BackupLocked, Advances, MigrateOK
<1>11. ASSUME DOMAIN migrations' = DOMAIN migrations
       PROVE  MigrateOK(p)'
  BY <1>1, <1>10, <1>11 DEF MigrateOK
<1>12. CASE UNCHANGED <<live, migrations>>
  <2>1. MigKept(i) /\ MigFits(migrations'[i], made') /\ MigrateOK(p)'
    BY <1>1, <1>4, <1>11, <1>12, FitsNow, KeptSame
  <2>2. MigSet(i, e.status, e.result, e.resolved, e.hold, e.backup)
    BY <1>1, <1>12, MigSame DEF HostTypes
  <2>3. RestoreInv'
    BY <1>1, <1>5, <1>8, <2>2, RestoreKept
  <2>4. BaseInv'
    BY <1>0, <1>1, <1>12 DEF SavedOK, BaseInv, UnresolvedMigrations
  <2>5. PruneSafe(p)
    BY <1>6, <1>7, <1>12 DEF PruneSafe, Held
  <2>6. live' \in Schemata /\ live' = live /\ migrations'[i].status = e.status
    BY <1>1, <1>12 DEF HostTypes
  <2> QED
    BY <1>0, <1>1, <1>2, <1>4, <1>9, <1>10, <2>1, <2>3, <2>4, <2>5, <2>6, MigrateWorks
<1>13. CASE /\ proc[p].pc = "hold" /\ UNCHANGED live
            /\ migrations' = [migrations EXCEPT ![i].hold = "active"]
  <2> DEFINE hold == "active"
  <2>1. MigSet(i, e.status, e.result, e.resolved, hold, e.backup)
    <3>1. hold \in {"none", "active", "released"} /\ migrations' = [migrations EXCEPT ![i].hold = hold]
      BY <1>13
    <3> HIDE DEF hold
    <3> QED
      BY <1>1, <3>1, MigHoldSet DEF HostTypes
  <2>2. e.status = "backup_verified"
    BY <1>1, <1>13 DEF MigrateOK
  <2>3. e.status \notin HeldFrom \cup Late /\ e.status \in PreMutation
    BY <2>2, MigrationSets DEF HeldFrom, Late
  <2>4. RestoreInv' /\ BaseInv'
    <3> HIDE DEF hold
    <3>1. RestoreInv'
      BY <1>1, <1>8, <2>1, <2>3, RestoreKept
    <3>2. BaseInv'
      BY <1>0, <1>1, <1>8, <1>13, <2>1, <2>3, BaseKept
    <3> QED
      BY <3>1, <3>2
  <2>5. MigKept(i) /\ MigFits(migrations'[i], made') /\ MigrateOK(p)'
    <3>1. MigFits(e, made')
      BY <1>1, <1>4, FitsNow
    <3>2. MigKept(i) /\ DOMAIN migrations' = DOMAIN migrations
      BY <2>1 DEF MigSet, MigKept
    <3>3. MigFits(migrations'[i], made')
      BY <2>1, <2>2, <3>1 DEF MigSet, MigFits
    <3> QED
      BY <1>11, <3>2, <3>3
  <2>6. live' \in Schemata /\ live' = live
    BY <1>1, <1>13 DEF HostTypes
  <2>7. PruneSafe(p)
    BY <1>6, <1>13 DEF PruneSafe
  <2> QED
    BY <1>0, <1>1, <1>2, <1>4, <1>9, <1>10, <2>3, <2>4, <2>5, <2>6, <2>7, MigrateWorks
<1>14. CASE /\ proc[p].pc = "upgrade" /\ Mig(p).status = "pre_migration_revalidated"
            /\ SetStatus(p, "migration_started")
            /\ live' \in {live, SourceHeads[Mig(p).target], Partial}
  <2> DEFINE st == "migration_started"
  <2>1. st \in MigStatus /\ st \notin Late /\ st \in PostMutation /\ st \notin PreMutation \cup {"none"}
        /\ migrations' = [migrations EXCEPT ![i].status = st]
    BY <1>14, MigrationSets DEF Late, SetStatus
  <2>2. e.status = "pre_migration_revalidated" /\ e.status \in HeldFrom /\ e.status \notin Late
    BY <1>1, <1>14, MigrationSets DEF HeldFrom, Late
  <2>3. MigSet(i, st, e.result, e.resolved, e.hold, e.backup)
    <3> HIDE DEF st
    <3> QED
      BY <1>1, <2>1, MigStatusSet DEF HostTypes
  <2>4. RestoreInv'
    <3> HIDE DEF st
    <3> QED
      BY <1>1, <1>5, <1>8, <2>2, <2>3, RestoreKept
  <2>5. BaseInv'
    <3>1. i \in UnresolvedMigrations' /\ migrations'[i].status = st
      BY <1>1, <2>3 DEF MigSet, UnresolvedMigrations
    <3> QED
      BY <2>1, <3>1 DEF BaseInv
  <2>6. MigKept(i) /\ MigFits(migrations'[i], made') /\ MigrateOK(p)'
    <3>1. MigFits(e, made')
      BY <1>1, <1>4, FitsNow
    <3>2. MigKept(i) /\ DOMAIN migrations' = DOMAIN migrations
      BY <2>3 DEF MigSet, MigKept
    <3>3. MigFits(migrations'[i], made')
      BY <1>1, <2>2, <2>3, <3>1 DEF MigSet, MigFits
    <3> QED
      BY <1>11, <3>2, <3>3
  <2>7. live' \in Schemata /\ (live' = NoSchema => live = NoSchema)
    <3>1. Mig(p).target \in Releases
      BY <1>1 DEF MigrationJournals
    <3> QED
      BY <1>1, <1>14, <3>1, HeadsAssumption DEF HostTypes, Schemata, AllHeads
  <2>8. PruneSafe(p)
    <3>1. backups' = backups
      BY <1>7, <1>14
    <3>2. \A n \in Nat : Held(n)' => Held(n)
      BY <1>1, <2>3 DEF Held, MigSet
    <3> QED
      BY <3>1, <3>2 DEF PruneSafe
  <2> HIDE DEF st
  <2> QED
    BY <1>0, <1>1, <1>2, <1>4, <1>9, <1>10, <2>2, <2>4, <2>5, <2>6, <2>7, <2>8, MigrateWorks
<1> QED
  BY <1>12, <1>13, <1>14 DEF MigrateError

\* A migration is started.
LEMMA MigrateStartKeeps ==
    ASSUME HostInv, NEW p \in Procs, NEW r \in Releases, MigrateStart(p, r)
    PROVE  HostInv' /\ ResultsKept
<1> DEFINE op == "migrate"
<1>1. Start(p, op, r, None, 0, None)
  BY DEF MigrateStart
<1>2. UNCHANGED <<hostVars, journalVars, backupVars, config, rolloutLock, backupLock>>
  BY DEF MigrateStart
<1> HIDE DEF op
<1>3. proc'[p].op = op /\ proc'[p].pc = "lock" /\ proc'[p].rel = r
  BY <1>1, Started
<1>4. ProcOK(p)'
  BY <1>3 DEF ProcOK, MigrateOK, Locked, op
<1> QED
  BY <1>1, <1>2, <1>4, StartKeeps

\* Refused, or without its backup session: the tool ends and has written nothing.
LEMMA MigrateEndsKeep ==
    ASSUME HostInv, NEW p \in Procs, MigrateRefused(p) \/ MigrateBackupFails(p)
    PROVE  HostInv' /\ ResultsKept
<1>1. Leave(p) /\ UNCHANGED <<hostVars, journalVars, backupVars, config>>
  BY DEF MigrateRefused, MigrateBackupFails
<1> QED
  BY <1>1, LeaveKeeps

\* The gates pass and the plan is written: the only unresolved journal.
LEMMA MigratePlanKeeps ==
    ASSUME HostInv, NEW p \in Procs, MigratePlan(p)
    PROVE  HostInv' /\ ResultsKept
<1> DEFINE n == Len(migrations) + 1
           e == [target |-> proc[p].rel, from |-> live, before |-> FileHash(current),
                 after |-> PredictedHash(AfterMigration(current, proc[p].rel, n), current),
                 status |-> "none", result |-> "none", resolved |-> FALSE,
                 hold |-> "none", backup |-> 0]
<1>0. HostTypes /\ LockInv /\ JournalsAreOwned /\ SavedOK /\ ProcShape /\ ProcOK(p)
  BY DEF HostInv, HostTypes
<1>1. /\ proc[p].op = "migrate" /\ proc[p].pc = "lock" /\ rolloutLock = None /\ rolloutLock' = p
      /\ MigrationAllowed(proc[p].rel)
      /\ migrations' = Append(migrations, e)
      /\ proc' = [proc EXCEPT ![p].pc = "run", ![p].id = n]
      /\ UNCHANGED <<current, live, migrateOnly, backupVars, backupLock>>
  BY DEF MigratePlan, At
<1>2. proc[p].rel \in Releases
  BY <1>0, <1>1 DEF ProcOK, MigrateOK
<1>3. ~ Blocked /\ current # None /\ live = current.heads
  BY <1>1 DEF MigrationAllowed
<1>4. current \in CurrentStates /\ live \in AllHeads /\ n \in Nat
  BY <1>0, <1>3 DEF HostTypes, CurrentStates
<1>5. /\ e \in MigrationJournals
      /\ e.status = "none" /\ e.result = "none" /\ e.hold = "none" /\ e.backup = 0
      /\ e.before[2].heads = e.from
  <2> DEFINE c == AfterMigration(current, proc[p].rel, n)
  <2>1. FileHash(current) \in {"indented"} \X CurrentStates /\ FileHash(current)[2] = current
    BY <1>4 DEF FileHash
  <2>2. c \in CurrentStates
    BY <1>0, <1>2, <1>3, <1>4, AfterMigrationOK
  <2> HIDE DEF c
  <2>3. PredictedHash(c, current) \in {"compact"} \X CurrentStates
    <3>1. current.stamp \in Nat
      BY <1>4 DEF CurrentStates
    <3>2. [c EXCEPT !.stamp = current.stamp] \in CurrentStates
      BY <2>2, <3>1 DEF CurrentStates
    <3> QED
      BY <3>2 DEF PredictedHash
  <2>4. "none" \in MigStatus
    BY MigrationSets
  <2> DEFINE b == FileHash(current)
             a == PredictedHash(c, current)
             s == "none"
  <2>5. e = [target |-> proc[p].rel, from |-> live, before |-> b, after |-> a, status |-> s,
             result |-> "none", resolved |-> FALSE, hold |-> "none", backup |-> 0]
    BY DEF c
  <2>6. b \in {"indented"} \X CurrentStates /\ a \in {"compact"} \X CurrentStates /\ s \in MigStatus
    BY <2>1, <2>3, <2>4
  <2>7. b[2] = current
    BY <2>1
  <2> HIDE DEF b, a, s, e
  <2>8. e \in MigrationJournals
    BY <1>2, <1>4, <2>5, <2>6 DEF MigrationJournals
  <2>9. /\ e.status = s /\ e.result = "none" /\ e.hold = "none" /\ e.backup = 0
        /\ e.before = b /\ e.from = live
    BY <2>5
  <2> QED
    BY <1>3, <2>7, <2>8, <2>9 DEF s
<1>6. ~ e.resolved
  OBVIOUS
<1> HIDE DEF e
<1>7. /\ migrations' \in Seq(MigrationJournals) /\ n \in DOMAIN migrations' /\ migrations'[n] = e
      /\ n \notin DOMAIN migrations /\ DOMAIN migrations' = DOMAIN migrations \cup {n}
      /\ \A i \in DOMAIN migrations : migrations'[i] = migrations[i]
  BY <1>0, <1>1, <1>5 DEF HostTypes
<1>m. /\ Moves(p) /\ proc'[p].op = "migrate" /\ proc'[p].pc = "run" /\ proc'[p].rel = proc[p].rel
      /\ proc'[p].id = n
  <2> DEFINE pc == "run"
  <2>0. ProcShape
    BY <1>0
  <2>1. proc' = [proc EXCEPT ![p].pc = pc, ![p].id = n]
    BY <1>1
  <2> HIDE DEF pc, n
  <2>2. Moves(p) /\ Becomes(p, pc, proc[p].act, n, proc[p].saw)
    BY <2>0, <2>1, SetPcId
  <2> QED
    BY <1>1, <2>2 DEF pc, Becomes
<1> HIDE DEF n
<1>8. RolloutFree(p)
  BY <1>0, <1>1, Alone
<1>9. HostTypes'
  BY <1>0, <1>1, <1>7, <1>m DEF HostTypes, Moves, migrateOnly, backupVars
<1>10. LockInv'
  <2>1. ~ BackupLocked(p)'
    BY <1>m DEF BackupLocked
  <2> QED
    BY <1>0, <1>1, <1>8, <1>m, <2>1, LocksKept
<1>11. JournalsAreOwned'
  <2>1. \A q \in Procs \ {p} : Migrates(q)' => Migrates(q) /\ proc'[q].id \in DOMAIN migrations
    BY <1>m DEF Moves, Migrates, HostInv, ProcOK, MigrateOK
  <2> QED
    BY <1>0, <1>7, <1>m, <2>1 DEF JournalsAreOwned, Moves
<1>12. UnresolvedDeployments = {} /\ UnresolvedMigrations = {} /\ UnresolvedBootstraps = {}
  BY <1>3 DEF Blocked
<1>13. UnresolvedDeployments' = {} /\ UnresolvedBootstraps' = {}
  BY <1>1, <1>12 DEF UnresolvedDeployments, UnresolvedBootstraps, migrateOnly
<1>14. UnresolvedMigrations' = {n}
  BY <1>5, <1>7, <1>12 DEF UnresolvedMigrations
<1>15. OneUnresolved' /\ LastUnresolved'
  BY <1>13, <1>14 DEF OneUnresolved, LastUnresolved
<1>16. DeploymentsOK' /\ EnvelopeInv' /\ BootInv'
  BY <1>0, <1>1 DEF SavedOK, DeploymentsOK, EnvelopeInv, BootInv, Vouched, migrateOnly
<1>17. TierInv' /\ TiersMatchJournal'
  BY <1>0, <1>1, <1>12, <1>13 DEF SavedOK, TierInv, TiersMatchJournal, Runs, migrateOnly
<1>18. MigrationsOK'
  <2> SUFFICES ASSUME NEW j \in DOMAIN migrations'
               PROVE  MigFits(migrations'[j], made') /\ migrations'[j].before[2].heads = migrations'[j].from
    BY DEF MigrationsOK, MigFits
  <2>1. made' = made /\ made \in Nat
    BY <1>0, <1>1 DEF HostTypes, backupVars
  <2>2. CASE j = n
    BY <1>5, <1>6, <1>7, <2>1, <2>2 DEF MigFits
  <2>3. CASE j # n
    <3>1. j \in DOMAIN migrations /\ migrations'[j] = migrations[j]
      BY <1>7, <2>3
    <3>2. MigFits(migrations[j], made')
      BY <2>1, <3>1, FitsNow
    <3> QED
      BY <1>0, <3>1, <3>2 DEF SavedOK, MigrationsOK
  <2> QED
    BY <2>2, <2>3
<1>19. BaseInv' /\ RestoreInv' /\ BackupsInv'
  <2>1. BaseInv'
    BY <1>1, <1>3 DEF BaseInv
  <2>2. RestoreInv'
    <3>1. "none" \notin HeldFrom
      BY MigrationSets DEF HeldFrom
    <3> QED
      BY <1>5, <1>7, <1>14, <3>1 DEF RestoreInv
  <2>3. BackupsInv'
    BY <1>0, <1>1 DEF SavedOK, BackupsInv, backupVars
  <2> QED
    BY <2>1, <2>2, <2>3
<1>20. \A q \in Procs \ {p} : ProcOK(q)'
  <2>1. Grow
    BY <1>1, <1>7 DEF Grow, migrateOnly
  <2>2. \A k \in Nat : Held(k)' => Held(k)
    BY <1>5, <1>7 DEF Held
  <2>3. PruneSafe(p)
    BY <1>1, <2>2 DEF PruneSafe, backupVars
  <2> QED
    BY <1>8, <1>m, <2>1, <2>3, OthersFree
<1>21. ProcOK(p)'
  <2>1. Mig(p)' = e
    BY <1>7, <1>m DEF Mig
  <2> QED
    BY <1>2, <1>5, <1>7, <1>m, <2>1 DEF ProcOK, MigrateOK, Locked
<1>22. ResultsKept
  BY <1>1, <1>7 DEF ResultsKept, migrateOnly
<1> QED
  BY <1>9, <1>10, <1>11, <1>15, <1>16, <1>17, <1>18, <1>19, <1>20, <1>21, <1>22 DEF HostInv, SavedOK

\* A migration that has given up the rollout lock, or no longer needs it: others may be under it.
LEMMA MigrateBeside ==
    ASSUME HostInv, NEW p \in Procs, proc[p].op = "migrate", proc[p].pc \in {"failed", "release"},
           UNCHANGED <<current, live, migrateOnly, backupVars>>, Leave(p) \/ Goto(p, "release"),
           MigKept(proc[p].id), MigFits(migrations'[proc[p].id], made'),
           LET e == migrations[proc[p].id]
               f == migrations'[proc[p].id] IN
           /\ e.result # "none" => f.result = e.result
           /\ e.status \in Late => f.status \in Late
           /\ proc'[p].op = "migrate" => f.result \in {"committed", "failed"},
           UnresolvedMigrations' \subseteq UnresolvedMigrations,
           \A n \in Nat : Held(n)' => Held(n),
           RestoreInv', BaseInv'
    PROVE  HostInv' /\ ResultsKept
<1> DEFINE i == proc[p].id
<1>0. HostTypes /\ LockInv /\ JournalsAreOwned /\ SavedOK /\ ProcShape /\ MigrateOK(p)
  BY DEF HostInv, HostTypes, ProcOK
<1>1. i \in DOMAIN migrations /\ proc[p].rel \in Releases
  BY <1>0 DEF MigrateOK
<1>2. /\ Moves(p) /\ LockInv' /\ ProcOK(p)'
      /\ Migrates(p)' => proc'[p].id = i
      /\ rolloutLock' \in Procs \cup {None} /\ backupLock' \in Procs \cup {None}
  <2>1. CASE Leave(p)
    <3>1. Moves(p) /\ proc'[p].op = "idle"
      BY <1>0, <2>1, SetIdle
    <3>2. LockInv'
      BY <1>0, <2>1, LocksLeft
    <3>3. rolloutLock' \in Procs \cup {None} /\ backupLock' \in Procs \cup {None}
      BY <1>0, <2>1 DEF HostTypes, Leave
    <3> QED
      BY <3>1, <3>2, <3>3 DEF ProcOK, Migrates
  <2>2. CASE Goto(p, "release")
    <3>1. Moves(p) /\ Advances(p, "release")
      BY <1>0, <2>2, GotoMoves
    <3>2. rolloutLock' = rolloutLock /\ backupLock' = backupLock
      BY <2>2 DEF Goto
    <3>3. ~ Locked(p)' /\ ~ BackupLocked(p)'
      BY <3>1 DEF Locked, BackupLocked, Advances
    <3>4. LockInv'
      BY <1>0, <3>1, <3>2, <3>3, LocksKept
    <3>5. proc'[p].op = "migrate" /\ proc'[p].pc = "release" /\ proc'[p].id = i /\ proc'[p].rel \in Releases
      BY <1>1, <3>1 DEF Advances
    <3>6. MigrateOK(p)'
      BY <1>1, <3>3, <3>5 DEF MigrateOK, Mig, MigKept
    <3>7. ProcOK(p)'
      BY <3>5, <3>6 DEF ProcOK
    <3> QED
      BY <1>0, <3>1, <3>2, <3>4, <3>5, <3>7 DEF HostTypes
  <2> QED
    BY <2>1, <2>2
<1>3. JournalsAreOwned'
  <2>1. Migrates(p)
    BY DEF Migrates
  <2> QED
    BY <1>0, <1>2, <2>1, OwnedKept
<1>4. HostTypes'
  BY <1>0, <1>2 DEF HostTypes, Moves, MigKept, migrateOnly, backupVars
<1>5. UnresolvedDeployments' = UnresolvedDeployments /\ UnresolvedBootstraps' = UnresolvedBootstraps
  BY DEF UnresolvedDeployments, UnresolvedBootstraps, migrateOnly
<1>6. OneUnresolved' /\ LastUnresolved'
  BY <1>0, <1>5 DEF SavedOK, OneUnresolved, LastUnresolved, migrateOnly
<1>7. DeploymentsOK' /\ TiersMatchJournal' /\ TierInv'
  BY <1>0, <1>5 DEF SavedOK, DeploymentsOK, TiersMatchJournal, TierInv, Runs, migrateOnly
<1>8. EnvelopeInv' /\ BootInv' /\ BackupsInv'
  BY <1>0 DEF SavedOK, EnvelopeInv, BootInv, BackupsInv, Vouched, migrateOnly, backupVars
<1>9. MigrationsOK'
  <2> SUFFICES ASSUME NEW j \in DOMAIN migrations'
               PROVE  MigFits(migrations'[j], made') /\ migrations'[j].before[2].heads = migrations'[j].from
    BY DEF MigrationsOK, MigFits
  <2>1. j \in DOMAIN migrations /\ made' = made /\ made \in Nat
    BY <1>0 DEF MigKept, HostTypes, backupVars
  <2>2. CASE j = i
    BY <1>0, <1>1, <2>1, <2>2 DEF SavedOK, MigrationsOK, MigKept
  <2>3. CASE j # i
    <3>1. migrations'[j] = migrations[j]
      BY <2>1, <2>3 DEF MigKept
    <3>2. MigFits(migrations[j], made')
      BY <2>1, FitsNow
    <3> QED
      BY <1>0, <2>1, <3>1, <3>2 DEF SavedOK, MigrationsOK
  <2> QED
    BY <2>2, <2>3
<1>10. ASSUME NEW q \in Procs \ {p} PROVE ProcOK(q)'
  <2>0. ProcOK(q) /\ proc'[q] = proc[q]
    BY <1>2 DEF HostInv, Moves
  <2>1. proc[q].op = "rollout" => RolloutOK(q)'
    BY <2>0 DEF ProcOK, RolloutOK, Dep, GatesHold, Vouched, Runs, Compatible, migrateOnly
  <2>2. proc[q].op = "recover" => RecoverOK(q)'
    BY <2>0 DEF ProcOK, RecoverOK, Dep, Kept, Vouched, Runs, Recoverable, migrateOnly
  <2>3. proc[q].op = "migrate" => MigrateOK(q)'
    <3>1. CASE proc[q].op = "migrate" /\ proc[q].pc = "lock"
      <4>1. MigrateOK(q) /\ proc'[q].pc = "lock" /\ proc'[q].op = "migrate" /\ proc'[q].rel = proc[q].rel
        BY <2>0, <3>1 DEF ProcOK
      <4>2. ~ Locked(q)'
        BY <4>1 DEF Locked
      <4> QED
        BY <4>1, <4>2 DEF MigrateOK
    <3>2. CASE proc[q].op = "migrate" /\ proc[q].pc # "lock"
      <4>1. Migrates(p) /\ Migrates(q)
        BY <3>2 DEF Migrates
      <4>2. proc[q].id # i
        BY <1>0, <4>1 DEF JournalsAreOwned
      <4>3. proc[q].id \in DOMAIN migrations
        BY <2>0, <3>2 DEF ProcOK, MigrateOK
      <4>4. Mig(q)' = Mig(q) /\ proc'[q].id \in DOMAIN migrations'
        BY <2>0, <4>2, <4>3 DEF Mig, MigKept
      <4>5. Locked(q)' <=> Locked(q)
        BY <2>0 DEF Locked
      <4>6. MigrateOK(q) /\ current' = current /\ live' = live /\ made' = made /\ backups' = backups
        BY <2>0, <3>2 DEF ProcOK, backupVars
      <4> QED
        BY <2>0, <4>4, <4>5, <4>6 DEF MigrateOK
    <3> QED
      BY <3>1, <3>2
  <2>4. proc[q].op = "recover_migration" => MigrationRecoverOK(q)'
    <3> SUFFICES ASSUME proc[q].op = "recover_migration" PROVE MigrationRecoverOK(q)'
      OBVIOUS
    <3>1. MigrationRecoverOK(q) /\ proc[q].id \in DOMAIN migrations
      BY <2>0 DEF ProcOK, MigrationRecoverOK
    <3>2. /\ Mig(q).result # "none" => Mig(q)'.result = Mig(q).result
          /\ Mig(q).status \in Late => Mig(q)'.status \in Late
      BY <2>0, <3>1 DEF Mig, MigKept
    <3>3. proc'[q].id \in DOMAIN migrations' /\ current' = current /\ live' = live
      BY <2>0, <3>1 DEF MigKept
    <3> QED
      BY <2>0, <3>1, <3>2, <3>3 DEF MigrationRecoverOK
  <2>5. proc[q].op = "bootstrap" => BootstrapOK(q)'
    BY <2>0 DEF ProcOK, BootstrapOK, migrateOnly
  <2>6. proc[q].op = "config" => ConfigOK(q)'
    BY <2>0 DEF ProcOK, ConfigOK, Cfg, migrateOnly
  <2>7. proc[q].op = "prune" => PruneOK(q)'
    <3> SUFFICES ASSUME proc[q].op = "prune", proc[q].pc # "lock", NEW b \in proc[q].saw
                 PROVE  /\ b \in backups' /\ ~ Held(b.n)' /\ b \notin Newest(backups)'
                        /\ b \notin Newest(PassedBackups)'
      BY <2>0 DEF PruneOK
    <3>1. /\ b \in backups /\ ~ Held(b.n) /\ b \notin Newest(backups)
          /\ b \notin Newest(PassedBackups)
      BY <2>0 DEF ProcOK, PruneOK
    <3>2. b.n \in Nat
      BY <1>0, <3>1 DEF HostTypes, Dumps
    <3>3. backups' = backups
      BY DEF backupVars
    <3>4. Newest(backups)' = Newest(backups) /\ Newest(PassedBackups)' = Newest(PassedBackups)
      BY <3>3 DEF Newest, Newer, PassedBackups
    <3> QED
      BY <3>1, <3>2, <3>3, <3>4
  <2> QED
    BY <2>0, <2>1, <2>2, <2>3, <2>4, <2>5, <2>6, <2>7 DEF ProcOK
<1>11. ResultsKept
  BY DEF ResultsKept, MigKept, migrateOnly
<1> QED
  BY <1>2, <1>3, <1>4, <1>6, <1>7, <1>8, <1>9, <1>10, <1>11 DEF HostInv, SavedOK

\* _terminal_failure.
LEMMA MigrateTerminalKeeps ==
    ASSUME HostInv, NEW p \in Procs, MigrateTerminal(p)
    PROVE  HostInv' /\ ResultsKept
<1> DEFINE i == proc[p].id
           e == migrations[i]
           st == IF e.status \in PreMutation \cup {"none"}
                 THEN "failed" ELSE "migration_requires_recovery"
<1>0. HostTypes /\ SavedOK /\ MigrateOK(p)
  BY DEF HostInv, ProcOK, MigrateTerminal, At
<1>1. /\ proc[p].op = "migrate" /\ proc[p].pc = "failed"
      /\ UNCHANGED <<current, live, migrateOnly, backupVars>>
      /\ Leave(p) \/ (Goto(p, "release") /\ st = "failed" /\ e.hold = "active")
      /\ migrations' = IF MigrationLegal(e.status, st)
                       THEN [migrations EXCEPT ![i].status = st, ![i].result = st] ELSE migrations
  BY DEF MigrateTerminal, At, Mig
<1>2. i \in DOMAIN migrations
  BY <1>0, <1>1 DEF MigrateOK
<1>3. e \in MigrationJournals /\ MigFits(e, made) /\ made \in Nat
  BY <1>0, <1>2 DEF HostTypes, SavedOK, MigrationsOK, MigFits
<1>4. made' = made /\ backups' = backups
  BY <1>1 DEF backupVars
<1>5. proc'[p].op = "migrate" => st = "failed" /\ e.hold = "active"
  BY SMTT(40), <1>0, <1>1, SetIdle DEF HostTypes
<1>6. CASE ~ MigrationLegal(e.status, st)
  <2>1. migrations' = migrations
    BY <1>1, <1>6
  <2>2. MigKept(i) /\ MigFits(migrations'[i], made')
    BY SMTT(40), <1>0, <1>2, <1>3, <1>4, <2>1, KeptSame
  <2>3. RestoreInv' /\ BaseInv' /\ UnresolvedMigrations' = UnresolvedMigrations
    BY ZenonT(60), <1>0, <1>1, <1>4, <2>1 DEF SavedOK, RestoreInv, BaseInv, UnresolvedMigrations
  <2>4. st = "failed" => e.hold # "active"
    <3>1. st = "failed" => e.status = "none"
      BY <1>6, MigrationEnds
    <3> QED
      BY <1>3, <3>1 DEF MigFits
  <2>5. proc'[p].op = "migrate" => e.result \in {"committed", "failed"}
    BY <1>5, <2>4
  <2>6. \A n \in Nat : Held(n)' => Held(n)
    BY <2>1 DEF Held
  <2> HIDE DEF st
  <2> QED
    BY ZenonT(30), <1>1, <2>1, <2>2, <2>3, <2>5, <2>6, MigrateBeside
<1>7. CASE MigrationLegal(e.status, st)
  <2>0. /\ st \in MigStatus /\ st \in {"none", "committed", "failed", "migration_requires_recovery"}
        /\ st # "none" /\ st # "committed" /\ st \notin Late
    BY MigrationSets DEF Late
  <2>1. \/ st = "failed" /\ e.status \in PreMutation
        \/ st = "migration_requires_recovery" /\ e.status \in PostMutation
    BY <1>7, MigrationEnds
  <2>2. e.status \notin Late \cup {"failed", "migration_requires_recovery"}
    BY <2>1, MigrationSets DEF Late
  <2>3. e.result = "none" /\ ~ e.resolved
    <3>1. e.result \in {"none", "committed", "failed", "migration_requires_recovery"}
      BY <1>3 DEF MigrationJournals
    <3> QED
      BY <1>3, <2>2, <3>1 DEF MigFits
  <2>4. e.resolved \in BOOLEAN /\ e.backup \in Nat
    BY <1>3 DEF MigrationJournals
  <2>5. i \in UnresolvedMigrations
    BY <1>2, <2>3 DEF UnresolvedMigrations
  <2>6. MigSet(i, st, st, e.resolved, e.hold, e.backup)
    <3>1. migrations' = [migrations EXCEPT ![i].status = st, ![i].result = st]
      BY <1>1, <1>7
    <3> HIDE DEF st
    <3> QED
      BY <1>0, <1>2, <2>0, <3>1, MigTerminalSet DEF HostTypes
  <2>7. MigKept(i)
    BY <2>6 DEF MigSet, MigKept
  <2>8. MigFits(migrations'[i], made')
    BY <1>3, <1>4, <2>0, <2>1, <2>3, <2>6 DEF MigSet, MigFits
  <2>9. RestoreInv'
    <3>1. st \in HeldFrom => e.status \in HeldFrom
      BY <2>1, MigrationSets DEF HeldFrom
    <3>2. st \in HeldFrom =>
            e.hold = "active" /\ \E b \in backups' : b.n = e.backup /\ b.heads = migrations[i].from
      BY <1>0, <1>4, <2>5, <3>1 DEF SavedOK, RestoreInv
    <3> HIDE DEF st
    <3> QED
      BY <2>4, <2>5, <2>6, <3>2, RestoreKept
  <2>10. BaseInv'
    <3>1. CASE st = "failed"
      <4>1. e.status \in PreMutation \cup {"none"}
        BY <2>1, <3>1
      <4> HIDE DEF st
      <4> QED
        BY <1>1, <2>4, <2>5, <2>6, <4>1, BaseKept
    <3>2. CASE st = "migration_requires_recovery"
      <4>1. i \in UnresolvedMigrations' /\ migrations'[i].status = st
        BY <1>2, <2>3, <2>6, <3>2 DEF MigSet, UnresolvedMigrations
      <4>2. st \notin PreMutation \cup {"none"}
        BY <3>2, MigrationSets
      <4> QED
        BY <4>1, <4>2 DEF BaseInv
    <3> QED
      BY <2>1, <3>1, <3>2
  <2>11. UnresolvedMigrations' \subseteq UnresolvedMigrations
    <3> SUFFICES ASSUME NEW j \in UnresolvedMigrations', j # i PROVE j \in UnresolvedMigrations
      BY <2>5
    <3>1. j \in DOMAIN migrations /\ migrations'[j] = migrations[j]
      BY <2>7 DEF UnresolvedMigrations, MigKept
    <3> QED
      BY <3>1 DEF UnresolvedMigrations
  <2>12. \A n \in Nat : Held(n)' => Held(n)
    BY <1>2, <2>6 DEF Held, MigSet
  <2>13. proc'[p].op = "migrate" => migrations'[i].result \in {"committed", "failed"}
    BY <1>5, <2>6 DEF MigSet
  <2> HIDE DEF st
  <2> QED
    BY ZenonT(30), <1>1, <2>2, <2>3, <2>7, <2>8, <2>9, <2>10, <2>11, <2>12, <2>13, MigrateBeside
<1> QED
  BY <1>6, <1>7

\* _release_hold_if_needed.
LEMMA MigrateReleaseKeeps ==
    ASSUME HostInv, NEW p \in Procs, MigrateRelease(p)
    PROVE  HostInv' /\ ResultsKept
<1> DEFINE i == proc[p].id
           e == migrations[i]
           hold == IF e.hold = "active" THEN "released" ELSE e.hold
<1>0. HostTypes /\ SavedOK /\ MigrateOK(p) /\ ProcShape
  BY DEF HostInv, ProcOK, MigrateRelease, At, HostTypes
<1>1. /\ proc[p].op = "migrate" /\ proc[p].pc = "release"
      /\ UNCHANGED <<current, live, migrateOnly, backupVars>> /\ Leave(p)
      /\ migrations' = migrations \/ migrations' = [migrations EXCEPT ![i].hold = hold]
  BY DEF MigrateRelease, At
<1>2. i \in DOMAIN migrations /\ e.result \in {"committed", "failed"}
  BY <1>0, <1>1 DEF MigrateOK, Mig
<1>3. e \in MigrationJournals /\ MigFits(e, made) /\ made \in Nat
  BY <1>0, <1>2 DEF HostTypes, SavedOK, MigrationsOK, MigFits
<1>4. made' = made /\ backups' = backups
  BY <1>1 DEF backupVars
<1>5. proc'[p].op = "idle"
  BY <1>0, <1>1, SetIdle
<1>6. CASE migrations' = migrations
  <2>2. MigKept(i) /\ MigFits(migrations'[i], made')
    BY <1>0, <1>2, <1>3, <1>4, <1>6, KeptSame
  <2>3. RestoreInv' /\ BaseInv' /\ UnresolvedMigrations' = UnresolvedMigrations
    BY <1>0, <1>1, <1>4, <1>6 DEF SavedOK, RestoreInv, BaseInv, UnresolvedMigrations
  <2>6. \A n \in Nat : Held(n)' => Held(n)
    BY <1>6 DEF Held
  <2> QED
    BY <1>1, <1>5, <1>6, <2>2, <2>3, <2>6, MigrateBeside
<1>7. CASE migrations' = [migrations EXCEPT ![i].hold = hold]
  <2>1. hold \in {"none", "active", "released"} /\ hold # "active" /\ (e.hold = "none" => hold = "none")
    <3>1. e.hold \in {"none", "active", "released"}
      BY <1>3 DEF MigrationJournals
    <3> QED
      BY <3>1
  <2>2. MigSet(i, e.status, e.result, e.resolved, hold, e.backup)
    <3> HIDE DEF hold
    <3> QED
      BY <1>0, <1>2, <1>7, <2>1, MigHoldSet DEF HostTypes
  <2>3. MigKept(i) /\ MigFits(migrations'[i], made')
    BY <1>3, <1>4, <2>1, <2>2 DEF MigSet, MigKept, MigFits
  <2>4. UnresolvedMigrations' = UnresolvedMigrations /\ i \notin UnresolvedMigrations
    <3>1. i \notin UnresolvedMigrations /\ i \notin UnresolvedMigrations'
      BY <1>2, <2>2 DEF UnresolvedMigrations, MigSet
    <3>2. \A j \in DOMAIN migrations \ {i} : j \in UnresolvedMigrations' <=> j \in UnresolvedMigrations
      BY <2>2 DEF UnresolvedMigrations, MigSet
    <3>3. UnresolvedMigrations \subseteq DOMAIN migrations /\ UnresolvedMigrations' \subseteq DOMAIN migrations
      BY <2>2 DEF UnresolvedMigrations, MigSet
    <3> QED
      BY <3>1, <3>2, <3>3
  <2>5. \A j \in UnresolvedMigrations : migrations'[j] = migrations[j]
    BY <2>2, <2>4 DEF UnresolvedMigrations, MigSet
  <2>6. RestoreInv' /\ BaseInv'
    BY <1>0, <1>1, <1>4, <2>4, <2>5 DEF SavedOK, RestoreInv, BaseInv
  <2>7. \A n \in Nat : Held(n)' => Held(n)
    BY <1>2, <2>1, <2>2 DEF Held, MigSet
  <2>8. migrations'[i].result = e.result /\ migrations'[i].status = e.status
    BY <2>2 DEF MigSet
  <2> QED
    BY <1>1, <1>5, <2>3, <2>4, <2>6, <2>7, <2>8, MigrateBeside
<1> QED
  BY <1>1, <1>6, <1>7

\* What recover_migration finds under its lock.
LEMMA MigRecoverFacts ==
    ASSUME HostInv, NEW p \in Procs, proc[p].op = "recover_migration", proc[p].pc # "lock"
    PROVE  /\ RolloutFree(p) /\ rolloutLock = p /\ Locked(p)
<1>1. Locked(p) /\ LockInv
  BY DEF Locked, HostInv
<1> QED
  BY <1>1, Alone DEF LockInv

\* recover_migration is started on a journal that it accepts.
LEMMA MigrationRecoverStartKeeps ==
    ASSUME HostInv, NEW p \in Procs, NEW id \in DOMAIN migrations,
           NEW a \in {"accept_source", "accept_target", "release_hold"}, MigrationRecoverStart(p, id, a)
    PROVE  HostInv' /\ ResultsKept
<1> DEFINE op == "recover_migration"
           saw == migrations[id].result
<1>1. Start(p, op, None, a, id, saw)
  BY DEF MigrationRecoverStart
<1>2. /\ UNCHANGED <<hostVars, journalVars, backupVars, config, rolloutLock, backupLock>>
      /\ RecoveryAccepts(migrations[id], a)
  BY DEF MigrationRecoverStart
<1> HIDE DEF op, saw
<1>3. /\ proc'[p].op = op /\ proc'[p].pc = "lock" /\ proc'[p].act = a /\ proc'[p].id = id
  BY <1>1, Started
<1>4. /\ a = "release_hold" => migrations[id].result = "committed"
      /\ a # "release_hold" => migrations[id].status \in Late
                                 \/ migrations[id].result = "migration_requires_recovery"
  BY <1>2 DEF RecoveryAccepts, Late
<1>5. migrations' = migrations
  BY <1>2 DEF journalVars
<1>6. ProcOK(p)'
  BY <1>3, <1>4, <1>5 DEF ProcOK, MigrationRecoverOK, Mig, op
<1> QED
  BY <1>1, <1>2, <1>6, StartKeeps

\* A recovery of a migration that is refused.
LEMMA MigrationRecoverRefusedKeeps ==
    ASSUME HostInv, NEW p \in Procs, MigrationRecoverRefused(p)
    PROVE  HostInv' /\ ResultsKept
<1>1. Leave(p) /\ UNCHANGED <<hostVars, journalVars, backupVars, config>>
  BY DEF MigrationRecoverRefused
<1> QED
  BY <1>1, LeaveKeeps

\* A step of recover_migration that has or takes the rollout lock.
LEMMA MigRecoverWorks ==
    ASSUME HostInv, NEW p \in Procs, proc[p].op = "recover_migration", RolloutFree(p),
           UNCHANGED <<live, migrateOnly, backupVars>>,
           \/ Leave(p)
           \/ /\ Moves(p) /\ proc'[p].op = "recover_migration" /\ rolloutLock' = p
              /\ backupLock' = backupLock /\ MigrationRecoverOK(p)',
           MigKept(proc[p].id), MigFits(migrations'[proc[p].id], made'),
           LET e == migrations[proc[p].id]
               f == migrations'[proc[p].id] IN
           /\ e.result # "none" => f.result = e.result
           /\ e.status \in Late => f.status \in Late
           /\ f.hold = "active" => e.hold = "active"
           /\ f.backup = e.backup,
           proc[p].id \in UnresolvedMigrations' => proc[p].id \in UnresolvedMigrations,
           \/ current' = current
           \/ /\ current # None /\ current' \in CurrentStates /\ current'.app = current.app
              /\ current.envelope \subseteq current'.envelope,
           BaseInv', RestoreInv'
    PROVE  HostInv' /\ ResultsKept
<1> DEFINE i == proc[p].id
<1>0. HostTypes /\ LockInv /\ JournalsAreOwned /\ SavedOK /\ ProcShape /\ MigrationRecoverOK(p)
  BY DEF HostInv, HostTypes, ProcOK
<1>1. i \in DOMAIN migrations
  BY <1>0 DEF MigrationRecoverOK
<1>2. /\ Moves(p) /\ LockInv' /\ ProcOK(p)' /\ ~ Migrates(p)'
      /\ rolloutLock' \in Procs \cup {None} /\ backupLock' \in Procs \cup {None}
  <2>1. CASE Leave(p)
    <3>1. Moves(p) /\ proc'[p].op = "idle"
      BY <1>0, <2>1, SetIdle
    <3>2. LockInv'
      BY <1>0, <2>1, LocksLeft
    <3>3. rolloutLock' \in Procs \cup {None} /\ backupLock' \in Procs \cup {None}
      BY <1>0, <2>1 DEF HostTypes, Leave
    <3> QED
      BY <3>1, <3>2, <3>3 DEF ProcOK, Migrates
  <2>2. CASE /\ Moves(p) /\ proc'[p].op = "recover_migration" /\ rolloutLock' = p
             /\ backupLock' = backupLock /\ MigrationRecoverOK(p)'
    <3>1. ~ BackupLocked(p)'
      BY <2>2 DEF BackupLocked
    <3>2. LockInv'
      BY <1>0, <2>2, <3>1, LocksKept
    <3> QED
      BY <1>0, <2>2, <3>2 DEF ProcOK, Migrates, HostTypes
  <2> QED
    BY <2>1, <2>2
<1>3. JournalsAreOwned'
  BY <1>0, <1>2, OwnedKept
<1>4. /\ made \in Nat /\ made' = made /\ made' \in Nat /\ made <= made' /\ backups' = backups
      /\ backups' \subseteq Dumps /\ BackupsInv' /\ live' = live /\ live' \in Schemata
  BY <1>0 DEF HostTypes, SavedOK, BackupsInv, backupVars
<1>5. PruneSafe(p)
  <2>1. \A n \in Nat : Held(n)' => Held(n)
    BY <1>1 DEF Held, MigKept
  <2> QED
    BY <1>4, <2>1 DEF PruneSafe
<1>6. LET e == migrations[i]
          f == migrations'[i] IN
      /\ e.result # "none" => f.result = e.result
      /\ e.status \in Late => f.status \in Late
      /\ (f.result = "failed") <=> (f.status = "failed")
      /\ (f.result = "migration_requires_recovery") <=> (f.status = "migration_requires_recovery")
      /\ f.result = "committed" => f.status \in Late
      /\ f.resolved => f.status \in Late \cup {"migration_requires_recovery"}
      /\ f.status = "none" => f.hold = "none"
      /\ f.backup <= made'
      /\ i \in UnresolvedMigrations' => i \in UnresolvedMigrations
  BY SMTT(40) DEF MigFits
<1> QED
  BY <1>1, <1>2, <1>3, <1>4, <1>5, <1>6, MigrateStep

\* accept_source, accept_target and release_hold pass their gates.
LEMMA MigrationRecoverAcceptKeeps ==
    ASSUME HostInv, NEW p \in Procs, MigrationRecoverAccept(p)
    PROVE  HostInv' /\ ResultsKept
<1> DEFINE i == proc[p].id
           e == migrations[i]
           act == proc[p].act
           pc == IF act = "release_hold" THEN "release" ELSE "resolve"
<1>0. HostTypes /\ LockInv /\ SavedOK /\ ProcShape /\ MigrationRecoverOK(p)
  BY DEF HostInv, HostTypes, ProcOK, MigrationRecoverAccept, At
<1>1. /\ proc[p].op = "recover_migration" /\ proc[p].pc = "lock" /\ rolloutLock = None /\ rolloutLock' = p
      /\ UNCHANGED <<live, migrations, migrateOnly, backupVars, backupLock>>
      /\ RecoveryAllowed(i, act)
      /\ current' = IF act = "accept_target" /\ FileHash(current) = e.before
                    THEN AfterMigration(current, e.target, i) ELSE current
      /\ proc' = [proc EXCEPT ![p].pc = pc]
  BY DEF MigrationRecoverAccept, At, Mig
<1>2. i \in DOMAIN migrations /\ act \in {"accept_source", "accept_target", "release_hold"}
  BY <1>0 DEF MigrationRecoverOK
<1>3. Moves(p) /\ Advances(p, pc)
  <2> HIDE DEF pc
  <2>0. ProcShape
    BY <1>0
  <2> QED
    BY <1>1, <2>0, SetPc
<1>4. RolloutFree(p)
  BY <1>0, <1>1, Alone
<1>5. e \in MigrationJournals /\ made \in Nat /\ made' = made /\ e.before[2].heads = e.from
  BY <1>0, <1>1, <1>2 DEF HostTypes, SavedOK, MigrationsOK, backupVars
<1>6. e.target \in Releases /\ i \in Nat /\ e.after \in {"compact"} \X CurrentStates
  BY SMTT(40), <1>0, <1>2, <1>5 DEF MigrationJournals, HostTypes
<1>7. current # None
  BY <1>1 DEF RecoveryAllowed
<1>8. FileHash(current)[1] = "indented" /\ FileHash(current)[2] = current
  BY DEF FileHash
<1>9. FileHash(current) # e.after
  BY <1>6, <1>8
<1>10. \/ current' = current
       \/ /\ current # None /\ current' \in CurrentStates /\ current'.app = current.app
          /\ current.envelope \subseteq current'.envelope
  BY <1>0, <1>1, <1>6, <1>7, AfterMigrationOK
<1>11. act # "release_hold" => current' # None /\ live' = current'.heads
  <2>1. CASE act = "accept_source"
    <3>1. live = e.from /\ FileHash(current) = e.before
      BY <1>1, <2>1 DEF RecoveryAllowed, SourceAccepted
    <3>2. e.before[2] = current
      BY <1>8, <3>1
    <3> QED
      BY <1>1, <1>5, <1>7, <2>1, <3>1, <3>2
  <2>2. CASE act = "accept_target"
    <3>1. live = SourceHeads[e.target] /\ FileHash(current) \in {e.after, e.before}
      BY <1>1, <2>2 DEF RecoveryAllowed, TargetAccepted
    <3>2. current' = AfterMigration(current, e.target, i)
      BY <1>1, <1>9, <2>2, <3>1
    <3>3. current' # None /\ current'.heads = SourceHeads[e.target]
      BY <1>0, <1>6, <1>7, <3>2, AfterMigrationOK
    <3> QED
      BY <1>1, <3>1, <3>3
  <2> QED
    BY <1>2, <2>1, <2>2
<1>12. MigKept(i) /\ MigFits(migrations'[i], made')
  BY <1>0, <1>1, <1>2, <1>5, FitsNow, KeptSame
<1>13. RestoreInv'
  BY <1>0, <1>1 DEF SavedOK, RestoreInv, UnresolvedMigrations, backupVars
<1>14. BaseInv'
  <2>1. CASE act # "release_hold"
    BY <1>11, <2>1 DEF BaseInv
  <2>2. CASE act = "release_hold"
    <3>1. current' = current
      BY <1>1, <2>2
    <3> QED
      BY <1>0, <1>1, <3>1 DEF SavedOK, BaseInv, UnresolvedMigrations
  <2> QED
    BY <2>1, <2>2
<1>15. MigrationRecoverOK(p)'
  <2>1. Mig(p)' = Mig(p) /\ Mig(p) = e /\ proc'[p].id = i /\ proc'[p].act = act /\ proc'[p].pc = pc
    BY <1>1, <1>3 DEF Mig, Advances
  <2>2. act = "release_hold" => e.status \in Late
    BY <1>0, <1>2, <2>1 DEF MigrationRecoverOK, SavedOK, MigrationsOK
  <2>3. act = "release_hold" => pc = "release"
    OBVIOUS
  <2>4. act # "release_hold" => pc = "resolve"
    OBVIOUS
  <2> HIDE DEF pc
  <2> QED
    BY <1>0, <1>1, <1>2, <1>11, <2>1, <2>2, <2>3, <2>4 DEF MigrationRecoverOK
<1>16. proc'[p].op = "recover_migration"
  BY <1>1, <1>3 DEF Advances
<1>17. i \in UnresolvedMigrations' => i \in UnresolvedMigrations
  BY <1>1 DEF UnresolvedMigrations
<1>18. migrations'[i] = e
  BY <1>1
<1> HIDE DEF pc, act
<1> QED
  BY <1>1, <1>3, <1>4, <1>10, <1>12, <1>13, <1>14, <1>15, <1>16, <1>17, <1>18, MigRecoverWorks

\* result.json if it was missing, and resolution.json.
LEMMA MigrationRecoverResolveKeeps ==
    ASSUME HostInv, NEW p \in Procs, MigrationRecoverResolve(p)
    PROVE  HostInv' /\ ResultsKept
<1> DEFINE i == proc[p].id
           e == migrations[i]
<1>0. /\ HostTypes /\ SavedOK /\ ProcShape /\ MigrationRecoverOK(p)
      /\ proc[p].op = "recover_migration" /\ proc[p].pc = "resolve"
      /\ UNCHANGED <<current, live, migrateOnly, backupVars>>
      /\ \/ Goto(p, "resolve") \/ Goto(p, "release")
  BY DEF HostInv, HostTypes, ProcOK, MigrationRecoverResolve, At
<1>1. /\ i \in DOMAIN migrations /\ proc[p].act # "release_hold" /\ current # None /\ live = current.heads
      /\ proc[p].act \in {"accept_source", "accept_target", "release_hold"}
      /\ e.status \in Late \/ e.result = "migration_requires_recovery"
  BY <1>0 DEF MigrationRecoverOK, Mig
<1>2. RolloutFree(p) /\ rolloutLock = p
  BY <1>0, MigRecoverFacts
<1>3. e \in MigrationJournals /\ made \in Nat /\ made' = made /\ MigFits(e, made')
  BY <1>0, <1>1, FitsNow DEF HostTypes, backupVars
<1>4. Moves(p) /\ (Advances(p, "resolve") \/ Advances(p, "release"))
  BY <1>0, GotoMoves
<1>5. rolloutLock' = p /\ backupLock' = backupLock /\ proc'[p].op = "recover_migration"
  BY <1>0, <1>2, <1>4 DEF Goto, Advances
<1>6. BaseInv'
  BY <1>0, <1>1 DEF BaseInv
<1>7. e.resolved \in BOOLEAN
  BY <1>3 DEF MigrationJournals
<1>8. current' = current /\ backups' = backups
  BY <1>0 DEF backupVars
<1>9. CASE /\ e.result = "none" /\ Goto(p, "resolve")
           /\ migrations' = [migrations EXCEPT ![i].result = "committed"]
  <2> DEFINE res == "committed"
  <2>1. MigSet(i, e.status, res, e.resolved, e.hold, e.backup)
    <3>1. /\ res \in {"none", "committed", "failed", "migration_requires_recovery"}
          /\ migrations' = [migrations EXCEPT ![i].result = res]
      BY <1>9
    <3> HIDE DEF res
    <3> QED
      BY <1>0, <1>1, <3>1, MigResultSet DEF HostTypes
  <2>2. e.status \in Late
    BY <1>1, <1>9
  <2>3. i \in UnresolvedMigrations
    BY <1>1, <1>9 DEF UnresolvedMigrations
  <2>4. MigKept(i) /\ MigFits(migrations'[i], made')
    BY <1>3, <1>9, <2>1, <2>2 DEF MigSet, MigKept, MigFits, Late
  <2>5. RestoreInv'
    <3>1. e.status \notin HeldFrom
      BY <2>2, MigrationSets DEF HeldFrom, Late
    <3> HIDE DEF res
    <3> QED
      BY <1>7, <2>1, <2>3, <3>1, RestoreKept
  <2>6. LET f == migrations'[i] IN
        /\ e.result # "none" => f.result = e.result
        /\ e.status \in Late => f.status \in Late
        /\ f.hold = "active" => e.hold = "active"
        /\ f.backup = e.backup
    BY <1>9, <2>1 DEF MigSet
  <2>7. MigrationRecoverOK(p)'
    <3>1. Advances(p, "resolve")
      BY <1>0, <1>9, GotoMoves
    <3>2. Mig(p)'.status = e.status /\ proc'[p].id \in DOMAIN migrations'
      BY <1>1, <2>1, <3>1 DEF Mig, MigSet, Advances
    <3> QED
      BY <1>0, <1>1, <2>2, <3>1, <3>2 DEF MigrationRecoverOK, Advances
  <2> QED
    BY <1>0, <1>2, <1>4, <1>5, <1>6, <1>8, <2>3, <2>4, <2>5, <2>6, <2>7, MigRecoverWorks
<1>10. CASE Goto(p, "release") /\ migrations' = [migrations EXCEPT ![i].resolved = TRUE]
  <2>1. MigSet(i, e.status, e.result, TRUE, e.hold, e.backup)
    BY <1>0, <1>1, <1>10, MigResolvedSet DEF HostTypes
  <2>2. e.status \in Late \/ (e.status = "migration_requires_recovery" /\ e.result = "migration_requires_recovery")
    BY <1>1, <1>3 DEF MigFits
  <2>3. MigKept(i) /\ MigFits(migrations'[i], made')
    BY <1>3, <2>1, <2>2 DEF MigSet, MigKept, MigFits
  <2>4. i \in UnresolvedMigrations' => i \in UnresolvedMigrations /\ e.status \in Late
    BY <1>1, <2>1, <2>2 DEF UnresolvedMigrations, MigSet
  <2>5. RestoreInv'
    <3> SUFFICES ASSUME NEW j \in UnresolvedMigrations', migrations'[j].status \in HeldFrom
                 PROVE  /\ migrations'[j].hold = "active"
                        /\ \E b \in backups' : b.n = migrations'[j].backup /\ b.heads = migrations'[j].from
      BY DEF RestoreInv
    <3>1. j # i
      BY <2>1, <2>4, MigrationSets DEF HeldFrom, Late, MigSet
    <3>2. j \in DOMAIN migrations /\ migrations'[j] = migrations[j]
      BY <2>1, <3>1 DEF UnresolvedMigrations, MigSet
    <3>3. j \in UnresolvedMigrations
      BY <3>2 DEF UnresolvedMigrations
    <3> QED
      BY <1>0, <1>8, <3>2, <3>3 DEF SavedOK, RestoreInv
  <2>6. LET f == migrations'[i] IN
        /\ e.result # "none" => f.result = e.result
        /\ e.status \in Late => f.status \in Late
        /\ f.hold = "active" => e.hold = "active"
        /\ f.backup = e.backup
    BY <2>1 DEF MigSet
  <2>7. MigrationRecoverOK(p)'
    <3>1. Advances(p, "release")
      BY <1>0, <1>10, GotoMoves
    <3>2. Mig(p)'.status = e.status /\ Mig(p)'.result = e.result /\ proc'[p].id \in DOMAIN migrations'
          /\ proc'[p].id = i
      BY <1>1, <2>1, <3>1 DEF Mig, MigSet, Advances
    <3> QED
      BY <1>0, <1>1, <2>4, <3>1, <3>2 DEF MigrationRecoverOK, Advances
  <2> QED
    BY <1>0, <1>2, <1>4, <1>5, <1>6, <1>8, <2>3, <2>4, <2>5, <2>6, <2>7, MigRecoverWorks
<1> QED
  BY <1>9, <1>10 DEF MigrationRecoverResolve, Mig

\* The hold is released, or it stays and the tool ends.
LEMMA MigrationRecoverReleaseKeeps ==
    ASSUME HostInv, NEW p \in Procs, MigrationRecoverRelease(p)
    PROVE  HostInv' /\ ResultsKept
<1> DEFINE i == proc[p].id
           e == migrations[i]
           hold == "released"
<1>0. /\ HostTypes /\ SavedOK /\ ProcShape /\ MigrationRecoverOK(p)
      /\ proc[p].op = "recover_migration" /\ proc[p].pc = "release"
      /\ UNCHANGED <<current, live, migrateOnly, backupVars>> /\ Leave(p)
      /\ migrations' = migrations \/ migrations' = [migrations EXCEPT ![i].hold = hold]
  BY DEF HostInv, HostTypes, ProcOK, MigrationRecoverRelease, At
<1>1. i \in DOMAIN migrations /\ (e.status \in Late \/ i \notin UnresolvedMigrations)
  BY <1>0 DEF MigrationRecoverOK, Mig
<1>2. RolloutFree(p) /\ rolloutLock = p
  BY <1>0, MigRecoverFacts
<1>3. e \in MigrationJournals /\ made \in Nat /\ made' = made /\ MigFits(e, made')
  BY <1>0, <1>1, FitsNow DEF HostTypes, backupVars
<1>8. current' = current /\ backups' = backups
  BY <1>0 DEF backupVars
<1>9. CASE migrations' = migrations
  <2>1. MigKept(i)
    BY <1>0, <1>1, <1>9, KeptSame
  <2>2. RestoreInv' /\ BaseInv' /\ UnresolvedMigrations' = UnresolvedMigrations
    BY <1>0, <1>8, <1>9 DEF SavedOK, RestoreInv, BaseInv, UnresolvedMigrations
  <2> QED
    BY <1>0, <1>2, <1>3, <1>8, <1>9, <2>1, <2>2, MigRecoverWorks
<1>10. CASE migrations' = [migrations EXCEPT ![i].hold = hold]
  <2>0. hold \in {"none", "active", "released"} /\ hold # "active"
    OBVIOUS
  <2>1. MigSet(i, e.status, e.result, e.resolved, hold, e.backup)
    <3> HIDE DEF hold
    <3> QED
      BY <1>0, <1>1, <1>10, <2>0, MigHoldSet DEF HostTypes
  <2>2. e.status # "none"
    <3>1. e.result \in {"none", "committed", "failed", "migration_requires_recovery"}
      BY <1>3 DEF MigrationJournals
    <3> QED
      BY <1>1, <1>3, <3>1 DEF MigFits, Late, UnresolvedMigrations
  <2>3. MigKept(i) /\ MigFits(migrations'[i], made')
    BY <1>3, <2>1, <2>2 DEF MigSet, MigKept, MigFits
  <2>4. UnresolvedMigrations' = UnresolvedMigrations
    <3>1. i \in UnresolvedMigrations' <=> i \in UnresolvedMigrations
      BY <1>1, <2>1 DEF UnresolvedMigrations, MigSet
    <3>2. \A j \in DOMAIN migrations \ {i} : j \in UnresolvedMigrations' <=> j \in UnresolvedMigrations
      BY <2>1 DEF UnresolvedMigrations, MigSet
    <3>3. UnresolvedMigrations \subseteq DOMAIN migrations /\ UnresolvedMigrations' \subseteq DOMAIN migrations
      BY <2>1 DEF UnresolvedMigrations, MigSet
    <3> QED
      BY <3>1, <3>2, <3>3
  <2>5. \A j \in UnresolvedMigrations : migrations'[j].status = migrations[j].status
    BY <2>1 DEF UnresolvedMigrations, MigSet
  <2>6. RestoreInv'
    <3> SUFFICES ASSUME NEW j \in UnresolvedMigrations, migrations'[j].status \in HeldFrom
                 PROVE  /\ migrations'[j].hold = "active"
                        /\ \E b \in backups' : b.n = migrations'[j].backup /\ b.heads = migrations'[j].from
      BY <2>4 DEF RestoreInv
    <3>1. j # i
      BY <1>1, <2>5, MigrationSets DEF HeldFrom, Late
    <3>2. migrations'[j] = migrations[j]
      BY <2>1, <3>1 DEF UnresolvedMigrations, MigSet
    <3> QED
      BY <1>0, <1>8, <3>2 DEF SavedOK, RestoreInv
  <2>7. BaseInv'
    BY <1>0, <2>4, <2>5 DEF SavedOK, BaseInv
  <2>8. LET f == migrations'[i] IN
        /\ e.result # "none" => f.result = e.result
        /\ e.status \in Late => f.status \in Late
        /\ f.hold = "active" => e.hold = "active"
        /\ f.backup = e.backup
    BY <2>1 DEF MigSet
  <2> QED
    BY <1>0, <1>2, <1>8, <2>3, <2>4, <2>6, <2>7, <2>8, MigRecoverWorks
<1> QED
  BY <1>0, <1>9, <1>10

\* Every step of a migration and of its recovery.
LEMMA MigrateNextKeeps ==
    ASSUME HostInv, NEW p \in Procs, MigrateNext(p)
    PROVE  HostInv' /\ ResultsKept
BY MigrateStartKeeps, MigratePlanKeeps, MigrateEndsKeep, MigrateAnnounceKeeps, MigrateBackupKeeps,
   MigrateVerifyKeeps, MigrateHoldKeeps, MigrateRevalidateKeeps, MigrateUpgradeKeeps, MigrateCheckKeeps,
   MigratePublishKeeps, MigrateCommitKeeps, MigrateResultKeeps, MigrateReleaseKeeps, MigrateErrorKeeps,
   MigrateTerminalKeeps DEF MigrateNext

\* Every step of the recovery of a migration.
LEMMA MigrationRecoverNextKeeps ==
    ASSUME HostInv, NEW p \in Procs, MigrationRecoverNext(p)
    PROVE  HostInv' /\ ResultsKept
BY MigrationRecoverStartKeeps, MigrationRecoverAcceptKeeps, MigrationRecoverRefusedKeeps,
   MigrationRecoverResolveKeeps, MigrationRecoverReleaseKeeps DEF MigrationRecoverNext

-----------------------------------------------------------------------------
(* The host: database bootstraps *)

\* A step of a database bootstrap under the rollout lock.
LEMMA BootStep ==
    ASSUME HostInv, NEW p \in Procs, proc[p].op = "bootstrap", proc[p].pc # "lock", UNCHANGED bootstrapOnly,
           \/ Leave(p)
           \/ /\ Moves(p) /\ proc'[p].op = "bootstrap" /\ proc'[p].id = proc[p].id
              /\ proc'[p].rel = proc[p].rel /\ UNCHANGED <<rolloutLock, backupLock>>,
           NEW st, NEW res, BootSet(proc[p].id, st, res),
           res \in {"none", "requires_recovery"} =>
             bootstraps[proc[p].id].result \in {"none", "requires_recovery"},
           bootstraps[proc[p].id].result # "none" => res = bootstraps[proc[p].id].result,
           res = "committed" => live' # NoSchema,
           live' \in Schemata, live' = NoSchema => live = NoSchema,
           proc'[p].pc \in {"schema_done", "verify", "commit", "result"} => live' # NoSchema
    PROVE  HostInv' /\ ResultsKept
<1> DEFINE i == proc[p].id
<1>0. HostTypes /\ LockInv /\ JournalsAreOwned /\ SavedOK /\ ProcShape /\ BootstrapOK(p)
  BY DEF HostInv, HostTypes, ProcOK
<1>1. i \in DOMAIN bootstraps /\ current = None /\ Locked(p) /\ RolloutFree(p) /\ rolloutLock = p
      /\ proc[p].rel \in Releases
  BY <1>0, Alone DEF BootstrapOK, Locked, LockInv
<1>2. /\ Moves(p) /\ LockInv' /\ ProcOK(p)' /\ ~ Migrates(p)'
      /\ rolloutLock' \in Procs \cup {None} /\ backupLock' \in Procs \cup {None}
  <2>1. CASE Leave(p)
    <3>1. Moves(p) /\ proc'[p].op = "idle"
      BY <1>0, <2>1, SetIdle
    <3>2. LockInv'
      BY <1>0, <2>1, LocksLeft
    <3>3. rolloutLock' \in Procs \cup {None} /\ backupLock' \in Procs \cup {None}
      BY <1>0, <2>1 DEF HostTypes, Leave
    <3> QED
      BY <3>1, <3>2, <3>3 DEF ProcOK, Migrates
  <2>2. CASE /\ Moves(p) /\ proc'[p].op = "bootstrap" /\ proc'[p].id = proc[p].id
             /\ proc'[p].rel = proc[p].rel /\ UNCHANGED <<rolloutLock, backupLock>>
    <3>1. ~ BackupLocked(p)'
      BY <2>2 DEF BackupLocked
    <3>2. LockInv'
      BY <1>0, <1>1, <2>2, <3>1, LocksKept
    <3>3. BootstrapOK(p)'
      BY <1>1, <2>2 DEF BootstrapOK, BootSet, bootstrapOnly
    <3> QED
      BY <1>0, <2>2, <3>2, <3>3 DEF ProcOK, Migrates, HostTypes
  <2> QED
    BY <2>1, <2>2
<1>3. JournalsAreOwned'
  BY <1>0, <1>2, OwnedKept
<1>4. HostTypes'
  BY <1>0, <1>2 DEF HostTypes, Moves, BootSet, bootstrapOnly
<1>5. UnresolvedDeployments' = UnresolvedDeployments /\ UnresolvedMigrations' = UnresolvedMigrations
  BY DEF UnresolvedDeployments, UnresolvedMigrations, bootstrapOnly
<1>6. UnresolvedBootstraps' \subseteq UnresolvedBootstraps
  BY <1>1 DEF UnresolvedBootstraps, BootSet
<1>7. OneUnresolved' /\ LastUnresolved'
  BY <1>0, <1>5, <1>6 DEF SavedOK, OneUnresolved, LastUnresolved, bootstrapOnly
<1>8. DeploymentsOK' /\ EnvelopeInv' /\ TiersMatchJournal' /\ MigrationsOK' /\ RestoreInv' /\ BackupsInv'
  BY <1>0, <1>5 DEF SavedOK, DeploymentsOK, EnvelopeInv, TiersMatchJournal, MigrationsOK, RestoreInv,
                    BackupsInv, Vouched, Runs, bootstrapOnly
<1>9. TierInv' /\ BaseInv'
  BY <1>1 DEF TierInv, BaseInv, bootstrapOnly
<1>10. BootInv'
  BY <1>0, <1>1 DEF SavedOK, BootInv, BootSet
<1>11. \A q \in Procs \ {p} : ProcOK(q)'
  <2>1. Grow /\ PruneSafe(p)
    BY DEF Grow, PruneSafe, Held, bootstrapOnly
  <2> QED
    BY <1>1, <1>2, <2>1, OthersFree
<1>12. ResultsKept
  BY <1>1 DEF ResultsKept, BootSet, bootstrapOnly
<1> QED
  BY <1>2, <1>3, <1>4, <1>7, <1>8, <1>9, <1>10, <1>11, <1>12 DEF HostInv, SavedOK

\* What it finds.
LEMMA BootFacts ==
    ASSUME HostInv, NEW p \in Procs, proc[p].op = "bootstrap", proc[p].pc # "lock"
    PROVE  /\ HostTypes /\ ProcShape /\ BootstrapOK(p) /\ proc[p].id \in DOMAIN bootstraps
           /\ bootstraps[proc[p].id] \in BootstrapJournals /\ live \in Schemata
           /\ SourceHeads[proc[p].rel] \in Schemata /\ SourceHeads[proc[p].rel] # NoSchema
           /\ bootstraps[proc[p].id].result = "committed" => live # NoSchema
<1>1. HostTypes /\ ProcShape /\ BootstrapOK(p) /\ BootInv
  BY DEF HostInv, HostTypes, ProcOK, SavedOK
<1>2. proc[p].id \in DOMAIN bootstraps /\ proc[p].rel \in Releases
  BY <1>1 DEF BootstrapOK
<1>3. bootstraps[proc[p].id] \in BootstrapJournals /\ live \in Schemata
  BY <1>1, <1>2 DEF HostTypes
<1>4. SourceHeads[proc[p].rel] \in Schemata /\ SourceHeads[proc[p].rel] # NoSchema
  BY <1>2, HeadsAssumption DEF Schemata, AllHeads
<1> QED
  BY <1>1, <1>2, <1>3, <1>4 DEF BootInv

\* A bootstrap is started.
LEMMA BootstrapStartKeeps ==
    ASSUME HostInv, NEW p \in Procs, NEW r \in Releases, BootstrapStart(p, r)
    PROVE  HostInv' /\ ResultsKept
<1> DEFINE op == "bootstrap"
           act == "pre_schema"
<1>1. Start(p, op, r, act, 0, None)
  BY DEF BootstrapStart
<1>2. UNCHANGED <<hostVars, journalVars, backupVars, config, rolloutLock, backupLock>>
  BY DEF BootstrapStart
<1> HIDE DEF op, act
<1>3. proc'[p].op = op /\ proc'[p].pc = "lock" /\ proc'[p].rel = r
  BY <1>1, Started
<1>4. ProcOK(p)'
  BY <1>3 DEF ProcOK, BootstrapOK, op
<1> QED
  BY <1>1, <1>2, <1>4, StartKeeps

\* A bootstrap that is refused.
LEMMA BootstrapRefusedKeeps ==
    ASSUME HostInv, NEW p \in Procs, BootstrapRefused(p)
    PROVE  HostInv' /\ ResultsKept
<1>1. Leave(p) /\ UNCHANGED <<hostVars, journalVars, backupVars, config>>
  BY DEF BootstrapRefused
<1> QED
  BY <1>1, LeaveKeeps

\* What Leave leaves behind.
LEMMA IdleThen ==
    ASSUME ProcShape, NEW p \in Procs, Leave(p)
    PROVE  proc'[p].pc = "idle"
BY ZenonT(30), SetFields DEF Leave, Idle

\* The journal is planned.
LEMMA BootstrapPlannedKeeps ==
    ASSUME HostInv, NEW p \in Procs, BootstrapPlanned(p)
    PROVE  HostInv' /\ ResultsKept
<1> DEFINE i == proc[p].id
           e == bootstraps[i]
           st == "planned"
<1>0. /\ proc[p].op = "bootstrap" /\ proc[p].pc # "lock"
      /\ UNCHANGED <<live, bootstrapOnly>> /\ Goto(p, "inspect")
      /\ bootstraps' = [bootstraps EXCEPT ![i].status = st]
  BY DEF BootstrapPlanned, At, SetBoot
<1>1. /\ HostTypes /\ ProcShape /\ BootstrapOK(p) /\ i \in DOMAIN bootstraps
      /\ e \in BootstrapJournals /\ live \in Schemata
      /\ SourceHeads[proc[p].rel] \in Schemata /\ SourceHeads[proc[p].rel] # NoSchema
      /\ e.result = "committed" => live # NoSchema
  BY <1>0, BootFacts
<1>2. /\ st \in {"none", "planned", "postgres_started", "freshness_verified", "schema_started",
               "schema_completed", "target_heads_verified", "committed", "failed",
               "requires_recovery"}
  BY <1>1 DEF BootstrapJournals
<1>3. BootSet(i, st, e.result)
  <2> HIDE DEF st
  <2> QED
    BY <1>0, <1>1, <1>2, BootStatusSet DEF HostTypes
<1>4. live' \in Schemata /\ live' = live
  BY <1>0, <1>1
<1>5. /\ Moves(p) /\ proc'[p].op = "bootstrap" /\ proc'[p].id = i /\ proc'[p].rel = proc[p].rel
      /\ UNCHANGED <<rolloutLock, backupLock>> /\ proc'[p].pc = "inspect"
  <2>1. Moves(p) /\ Advances(p, "inspect")
    BY <1>0, <1>1, GotoMoves
  <2> QED
    BY <1>0, <2>1 DEF Goto, Advances
<1>6. e.result \in {"none", "requires_recovery"} => e.result \in {"none", "requires_recovery"}
  OBVIOUS
<1>7. e.result = "committed" => live' # NoSchema
  BY <1>1, <1>4
<1>8. proc'[p].pc \notin {"schema_done", "verify", "commit", "result"}
  BY <1>5
<1> HIDE DEF st
<1> QED
  BY <1>0, <1>3, <1>4, <1>5, <1>6, <1>7, <1>8, BootStep

\* start_postgres_only.
LEMMA BootstrapPostgresKeeps ==
    ASSUME HostInv, NEW p \in Procs, BootstrapPostgres(p)
    PROVE  HostInv' /\ ResultsKept
<1> DEFINE i == proc[p].id
           e == bootstraps[i]
           st == "postgres_started"
<1>0. /\ proc[p].op = "bootstrap" /\ proc[p].pc # "lock"
      /\ UNCHANGED <<live, bootstrapOnly>> /\ UNCHANGED <<proc, rolloutLock, backupLock>>
      /\ bootstraps' = [bootstraps EXCEPT ![i].status = st]
  BY DEF BootstrapPostgres, At, SetBoot
<1>1. /\ HostTypes /\ ProcShape /\ BootstrapOK(p) /\ i \in DOMAIN bootstraps
      /\ e \in BootstrapJournals /\ live \in Schemata
      /\ SourceHeads[proc[p].rel] \in Schemata /\ SourceHeads[proc[p].rel] # NoSchema
      /\ e.result = "committed" => live # NoSchema
  BY <1>0, BootFacts
<1>2. /\ st \in {"none", "planned", "postgres_started", "freshness_verified", "schema_started",
               "schema_completed", "target_heads_verified", "committed", "failed",
               "requires_recovery"}
  BY <1>1 DEF BootstrapJournals
<1>3. BootSet(i, st, e.result)
  <2> HIDE DEF st
  <2> QED
    BY <1>0, <1>1, <1>2, BootStatusSet DEF HostTypes
<1>4. live' \in Schemata /\ live' = live
  BY <1>0, <1>1
<1>5. /\ Moves(p) /\ proc'[p].op = "bootstrap" /\ proc'[p].id = i /\ proc'[p].rel = proc[p].rel
      /\ UNCHANGED <<rolloutLock, backupLock>> /\ proc'[p].pc = "inspect"
  BY <1>0, <1>1 DEF Moves, ProcShape, BootstrapPostgres, At
<1>6. e.result \in {"none", "requires_recovery"} => e.result \in {"none", "requires_recovery"}
  OBVIOUS
<1>7. e.result = "committed" => live' # NoSchema
  BY <1>1, <1>4
<1>8. proc'[p].pc \notin {"schema_done", "verify", "commit", "result"}
  BY <1>5
<1> HIDE DEF st
<1> QED
  BY <1>0, <1>3, <1>4, <1>5, <1>6, <1>7, <1>8, BootStep

\* The journal of a database that has the target's heads is closed.
LEMMA BootstrapAdoptKeeps ==
    ASSUME HostInv, NEW p \in Procs, BootstrapAdopt(p)
    PROVE  HostInv' /\ ResultsKept
<1> DEFINE i == proc[p].id
           e == bootstraps[i]
           st == IF e.status \in {"planned", "postgres_started", "freshness_verified"} THEN "committed" ELSE e.status
           res == IF e.result = "none" THEN "committed" ELSE e.result
<1>0. /\ proc[p].op = "bootstrap" /\ proc[p].pc # "lock"
      /\ UNCHANGED <<live, bootstrapOnly>> /\ Leave(p)
      /\ bootstraps' = [bootstraps EXCEPT ![i].status = st, ![i].result = res]
      /\ live = SourceHeads[proc[p].rel]
  BY DEF BootstrapAdopt, At, SetBoot
<1>1. /\ HostTypes /\ ProcShape /\ BootstrapOK(p) /\ i \in DOMAIN bootstraps
      /\ e \in BootstrapJournals /\ live \in Schemata
      /\ SourceHeads[proc[p].rel] \in Schemata /\ SourceHeads[proc[p].rel] # NoSchema
      /\ e.result = "committed" => live # NoSchema
  BY <1>0, BootFacts
<1>2. /\ st \in {"none", "planned", "postgres_started", "freshness_verified", "schema_started",
               "schema_completed", "target_heads_verified", "committed", "failed",
               "requires_recovery"}
      /\ res \in {"none", "committed", "failed", "requires_recovery"}
  BY SMTT(40), <1>1 DEF BootstrapJournals
<1>3. BootSet(i, st, res)
  <2> HIDE DEF st, res
  <2> QED
    BY <1>0, <1>1, <1>2, BootBothSet DEF HostTypes
<1>4. live' \in Schemata /\ live' # NoSchema
  BY <1>0, <1>1
<1>5. proc'[p].pc = "idle"
  BY <1>0, <1>1, IdleThen
<1>6. res \in {"none", "requires_recovery"} => e.result \in {"none", "requires_recovery"}
  OBVIOUS
<1>7. res = "committed" => live' # NoSchema
  BY <1>1, <1>4
<1>8. live' = NoSchema => live = NoSchema
  BY <1>4
<1>9. e.result # "none" => res = e.result
  OBVIOUS
<1> HIDE DEF st, res
<1> QED
  BY <1>0, <1>3, <1>4, <1>5, <1>6, <1>7, <1>8, <1>9, BootStep

\* freshness_verified.
LEMMA BootstrapFreshKeeps ==
    ASSUME HostInv, NEW p \in Procs, BootstrapFresh(p)
    PROVE  HostInv' /\ ResultsKept
<1> DEFINE i == proc[p].id
           e == bootstraps[i]
           st == IF e.status \in {"planned", "postgres_started"} THEN "freshness_verified" ELSE e.status
<1>0. /\ proc[p].op = "bootstrap" /\ proc[p].pc # "lock"
      /\ UNCHANGED <<live, bootstrapOnly>> /\ Goto(p, "schema")
      /\ bootstraps' = [bootstraps EXCEPT ![i].status = st]
  BY DEF BootstrapFresh, At, SetBoot
<1>1. /\ HostTypes /\ ProcShape /\ BootstrapOK(p) /\ i \in DOMAIN bootstraps
      /\ e \in BootstrapJournals /\ live \in Schemata
      /\ SourceHeads[proc[p].rel] \in Schemata /\ SourceHeads[proc[p].rel] # NoSchema
      /\ e.result = "committed" => live # NoSchema
  BY <1>0, BootFacts
<1>2. /\ st \in {"none", "planned", "postgres_started", "freshness_verified", "schema_started",
               "schema_completed", "target_heads_verified", "committed", "failed",
               "requires_recovery"}
  BY <1>1 DEF BootstrapJournals
<1>3. BootSet(i, st, e.result)
  <2> HIDE DEF st
  <2> QED
    BY <1>0, <1>1, <1>2, BootStatusSet DEF HostTypes
<1>4. live' \in Schemata /\ live' = live
  BY <1>0, <1>1
<1>5. /\ Moves(p) /\ proc'[p].op = "bootstrap" /\ proc'[p].id = i /\ proc'[p].rel = proc[p].rel
      /\ UNCHANGED <<rolloutLock, backupLock>> /\ proc'[p].pc = "schema"
  <2>1. Moves(p) /\ Advances(p, "schema")
    BY <1>0, <1>1, GotoMoves
  <2> QED
    BY <1>0, <2>1 DEF Goto, Advances
<1>6. e.result \in {"none", "requires_recovery"} => e.result \in {"none", "requires_recovery"}
  OBVIOUS
<1>7. e.result = "committed" => live' # NoSchema
  BY <1>1, <1>4
<1>8. proc'[p].pc \notin {"schema_done", "verify", "commit", "result"}
  BY <1>5
<1> HIDE DEF st
<1> QED
  BY <1>0, <1>3, <1>4, <1>5, <1>6, <1>7, <1>8, BootStep

\* Alembic runs.
LEMMA BootstrapSchemaKeeps ==
    ASSUME HostInv, NEW p \in Procs, BootstrapSchema(p)
    PROVE  HostInv' /\ ResultsKept
<1> DEFINE i == proc[p].id
           e == bootstraps[i]
           st == IF e.status = "freshness_verified" THEN "schema_started" ELSE e.status
<1>0. /\ proc[p].op = "bootstrap" /\ proc[p].pc # "lock"
      /\ UNCHANGED bootstrapOnly /\ live' = SourceHeads[proc[p].rel] /\ UNCHANGED <<rolloutLock, backupLock>>
      /\ bootstraps' = [bootstraps EXCEPT ![i].status = st]
      /\ proc' = [proc EXCEPT ![p].pc = "schema_done", ![p].act = "schema_started"]
  BY DEF BootstrapSchema, At, SetBoot
<1>1. /\ HostTypes /\ ProcShape /\ BootstrapOK(p) /\ i \in DOMAIN bootstraps
      /\ e \in BootstrapJournals /\ live \in Schemata
      /\ SourceHeads[proc[p].rel] \in Schemata /\ SourceHeads[proc[p].rel] # NoSchema
      /\ e.result = "committed" => live # NoSchema
  BY <1>0, BootFacts
<1>2. /\ st \in {"none", "planned", "postgres_started", "freshness_verified", "schema_started",
               "schema_completed", "target_heads_verified", "committed", "failed",
               "requires_recovery"}
  BY <1>1 DEF BootstrapJournals
<1>3. BootSet(i, st, e.result)
  <2> HIDE DEF st
  <2> QED
    BY <1>0, <1>1, <1>2, BootStatusSet DEF HostTypes
<1>4. live' \in Schemata /\ live' # NoSchema
  BY <1>0, <1>1
<1>5. /\ Moves(p) /\ proc'[p].op = "bootstrap" /\ proc'[p].id = i /\ proc'[p].rel = proc[p].rel
      /\ UNCHANGED <<rolloutLock, backupLock>>
  <2> DEFINE pc == "schema_done"
             act == "schema_started"
  <2>0. ProcShape
    BY <1>1
  <2>1. proc' = [proc EXCEPT ![p].pc = pc, ![p].act = act]
    BY <1>0
  <2> HIDE DEF pc, act
  <2>2. Moves(p) /\ Becomes(p, pc, act, proc[p].id, proc[p].saw)
    BY <2>0, <2>1, SetPcAct
  <2> QED
    BY <1>0, <2>2 DEF Becomes
<1>6. e.result \in {"none", "requires_recovery"} => e.result \in {"none", "requires_recovery"}
  OBVIOUS
<1>7. e.result = "committed" => live' # NoSchema
  BY <1>1, <1>4
<1>8. live' = NoSchema => live = NoSchema
  BY <1>4
<1> HIDE DEF st
<1> QED
  BY <1>0, <1>3, <1>4, <1>5, <1>6, <1>7, <1>8, BootStep

\* schema_completed.
LEMMA BootstrapSchemaDoneKeeps ==
    ASSUME HostInv, NEW p \in Procs, BootstrapSchemaDone(p)
    PROVE  HostInv' /\ ResultsKept
<1> DEFINE i == proc[p].id
           e == bootstraps[i]
           st == IF e.status = "schema_started" THEN "schema_completed" ELSE e.status
<1>0. /\ proc[p].op = "bootstrap" /\ proc[p].pc # "lock"
      /\ UNCHANGED <<live, bootstrapOnly>> /\ Goto(p, "verify")
      /\ bootstraps' = [bootstraps EXCEPT ![i].status = st]
      /\ proc[p].pc \in {"schema_done", "verify", "commit", "result"}
  BY DEF BootstrapSchemaDone, At, SetBoot
<1>1. /\ HostTypes /\ ProcShape /\ BootstrapOK(p) /\ i \in DOMAIN bootstraps
      /\ e \in BootstrapJournals /\ live \in Schemata
      /\ SourceHeads[proc[p].rel] \in Schemata /\ SourceHeads[proc[p].rel] # NoSchema
      /\ e.result = "committed" => live # NoSchema
  BY <1>0, BootFacts
<1>2. /\ st \in {"none", "planned", "postgres_started", "freshness_verified", "schema_started",
               "schema_completed", "target_heads_verified", "committed", "failed",
               "requires_recovery"}
  BY <1>1 DEF BootstrapJournals
<1>3. BootSet(i, st, e.result)
  <2> HIDE DEF st
  <2> QED
    BY <1>0, <1>1, <1>2, BootStatusSet DEF HostTypes
<1>4. live' \in Schemata /\ live' = live /\ live' # NoSchema
  BY <1>0, <1>1 DEF BootstrapOK
<1>5. /\ Moves(p) /\ proc'[p].op = "bootstrap" /\ proc'[p].id = i /\ proc'[p].rel = proc[p].rel
      /\ UNCHANGED <<rolloutLock, backupLock>> /\ proc'[p].pc = "verify"
  <2>1. Moves(p) /\ Advances(p, "verify")
    BY <1>0, <1>1, GotoMoves
  <2> QED
    BY <1>0, <2>1 DEF Goto, Advances
<1>6. e.result \in {"none", "requires_recovery"} => e.result \in {"none", "requires_recovery"}
  OBVIOUS
<1>7. e.result = "committed" => live' # NoSchema
  BY <1>1, <1>4
<1>8. live' = NoSchema => live = NoSchema
  BY <1>4
<1> HIDE DEF st
<1> QED
  BY <1>0, <1>3, <1>4, <1>5, <1>6, <1>7, <1>8, BootStep

\* committed.
LEMMA BootstrapCommitKeeps ==
    ASSUME HostInv, NEW p \in Procs, BootstrapCommit(p)
    PROVE  HostInv' /\ ResultsKept
<1> DEFINE i == proc[p].id
           e == bootstraps[i]
           st == "committed"
<1>0. /\ proc[p].op = "bootstrap" /\ proc[p].pc # "lock"
      /\ UNCHANGED <<live, bootstrapOnly>> /\ Goto(p, "result")
      /\ bootstraps' = [bootstraps EXCEPT ![i].status = st]
      /\ proc[p].pc \in {"schema_done", "verify", "commit", "result"}
  BY DEF BootstrapCommit, At, SetBoot
<1>1. /\ HostTypes /\ ProcShape /\ BootstrapOK(p) /\ i \in DOMAIN bootstraps
      /\ e \in BootstrapJournals /\ live \in Schemata
      /\ SourceHeads[proc[p].rel] \in Schemata /\ SourceHeads[proc[p].rel] # NoSchema
      /\ e.result = "committed" => live # NoSchema
  BY <1>0, BootFacts
<1>2. /\ st \in {"none", "planned", "postgres_started", "freshness_verified", "schema_started",
               "schema_completed", "target_heads_verified", "committed", "failed",
               "requires_recovery"}
  BY <1>1 DEF BootstrapJournals
<1>3. BootSet(i, st, e.result)
  <2> HIDE DEF st
  <2> QED
    BY <1>0, <1>1, <1>2, BootStatusSet DEF HostTypes
<1>4. live' \in Schemata /\ live' = live /\ live' # NoSchema
  BY <1>0, <1>1 DEF BootstrapOK
<1>5. /\ Moves(p) /\ proc'[p].op = "bootstrap" /\ proc'[p].id = i /\ proc'[p].rel = proc[p].rel
      /\ UNCHANGED <<rolloutLock, backupLock>> /\ proc'[p].pc = "result"
  <2>1. Moves(p) /\ Advances(p, "result")
    BY <1>0, <1>1, GotoMoves
  <2> QED
    BY <1>0, <2>1 DEF Goto, Advances
<1>6. e.result \in {"none", "requires_recovery"} => e.result \in {"none", "requires_recovery"}
  OBVIOUS
<1>7. e.result = "committed" => live' # NoSchema
  BY <1>1, <1>4
<1>8. live' = NoSchema => live = NoSchema
  BY <1>4
<1> HIDE DEF st
<1> QED
  BY <1>0, <1>3, <1>4, <1>5, <1>6, <1>7, <1>8, BootStep

\* result.json.
LEMMA BootstrapResultKeeps ==
    ASSUME HostInv, NEW p \in Procs, BootstrapResult(p)
    PROVE  HostInv' /\ ResultsKept
<1> DEFINE i == proc[p].id
           e == bootstraps[i]
           res == IF e.result = "none" THEN "committed" ELSE e.result
<1>0. /\ proc[p].op = "bootstrap" /\ proc[p].pc # "lock"
      /\ UNCHANGED <<live, bootstrapOnly>> /\ Leave(p)
      /\ bootstraps' = [bootstraps EXCEPT ![i].result = res]
      /\ proc[p].pc \in {"schema_done", "verify", "commit", "result"}
  BY DEF BootstrapResult, At, SetBoot
<1>1. /\ HostTypes /\ ProcShape /\ BootstrapOK(p) /\ i \in DOMAIN bootstraps
      /\ e \in BootstrapJournals /\ live \in Schemata
      /\ SourceHeads[proc[p].rel] \in Schemata /\ SourceHeads[proc[p].rel] # NoSchema
      /\ e.result = "committed" => live # NoSchema
  BY <1>0, BootFacts
<1>2. /\ res \in {"none", "committed", "failed", "requires_recovery"}
  BY <1>1 DEF BootstrapJournals
<1>3. BootSet(i, e.status, res)
  <2> HIDE DEF res
  <2> QED
    BY <1>0, <1>1, <1>2, BootResultSet DEF HostTypes
<1>4. live' \in Schemata /\ live' = live /\ live' # NoSchema
  BY <1>0, <1>1 DEF BootstrapOK
<1>5. proc'[p].pc = "idle"
  BY <1>0, <1>1, IdleThen
<1>6. res \in {"none", "requires_recovery"} => e.result \in {"none", "requires_recovery"}
  OBVIOUS
<1>7. res = "committed" => live' # NoSchema
  BY <1>1, <1>4
<1>8. live' = NoSchema => live = NoSchema
  BY <1>4
<1>9. e.result # "none" => res = e.result
  OBVIOUS
<1> HIDE DEF res
<1> QED
  BY <1>0, <1>3, <1>4, <1>5, <1>6, <1>7, <1>8, <1>9, BootStep

\* The except clause.
LEMMA BootstrapTerminalKeeps ==
    ASSUME HostInv, NEW p \in Procs, BootstrapTerminal(p)
    PROVE  HostInv' /\ ResultsKept
<1> DEFINE i == proc[p].id
           e == bootstraps[i]
           t == IF proc[p].act = "schema_started" THEN "requires_recovery" ELSE "failed"
           st == IF e.status # "none" /\ BootLegal(e.status, t) THEN t ELSE e.status
           res == IF e.result = "none" THEN t ELSE e.result
<1>0. /\ proc[p].op = "bootstrap" /\ proc[p].pc # "lock"
      /\ UNCHANGED <<live, bootstrapOnly>> /\ Leave(p)
      /\ bootstraps' = [bootstraps EXCEPT ![i].status = st, ![i].result = res]
  BY DEF BootstrapTerminal, At, SetBoot
<1>1. /\ HostTypes /\ ProcShape /\ BootstrapOK(p) /\ i \in DOMAIN bootstraps
      /\ e \in BootstrapJournals /\ live \in Schemata
      /\ SourceHeads[proc[p].rel] \in Schemata /\ SourceHeads[proc[p].rel] # NoSchema
      /\ e.result = "committed" => live # NoSchema
  BY <1>0, BootFacts
<1>2. /\ st \in {"none", "planned", "postgres_started", "freshness_verified", "schema_started",
               "schema_completed", "target_heads_verified", "committed", "failed",
               "requires_recovery"}
      /\ res \in {"none", "committed", "failed", "requires_recovery"}
  BY SMTT(40), <1>1 DEF BootstrapJournals
<1>3. BootSet(i, st, res)
  <2> HIDE DEF st, res
  <2> QED
    BY <1>0, <1>1, <1>2, BootBothSet DEF HostTypes
<1>4. live' \in Schemata /\ live' = live
  BY <1>0, <1>1
<1>5. proc'[p].pc = "idle"
  BY <1>0, <1>1, IdleThen
<1>6. res \in {"none", "requires_recovery"} => e.result \in {"none", "requires_recovery"}
  OBVIOUS
<1>7. res = "committed" => live' # NoSchema
  BY <1>1, <1>4
<1>8. proc'[p].pc \notin {"schema_done", "verify", "commit", "result"}
  BY <1>5
<1>9. e.result # "none" => res = e.result
  OBVIOUS
<1> HIDE DEF st, res
<1> QED
  BY <1>0, <1>3, <1>4, <1>5, <1>6, <1>7, <1>8, <1>9, BootStep

\* target_heads_verified, or an illegal event.
LEMMA BootstrapVerifyKeeps ==
    ASSUME HostInv, NEW p \in Procs, BootstrapVerify(p)
    PROVE  HostInv' /\ ResultsKept
<1> DEFINE i == proc[p].id
           e == bootstraps[i]
           st == "target_heads_verified"
<1>0. /\ proc[p].op = "bootstrap" /\ proc[p].pc = "verify" /\ UNCHANGED <<live, bootstrapOnly>>
      /\ \/ bootstraps' = [bootstraps EXCEPT ![i].status = st] /\ Goto(p, "commit")
         \/ bootstraps' = bootstraps /\ Goto(p, "failed")
  BY DEF BootstrapVerify, At, SetBoot
<1>1. /\ HostTypes /\ ProcShape /\ BootstrapOK(p) /\ i \in DOMAIN bootstraps
      /\ e \in BootstrapJournals /\ live \in Schemata
      /\ SourceHeads[proc[p].rel] \in Schemata /\ SourceHeads[proc[p].rel] # NoSchema
      /\ e.result = "committed" => live # NoSchema
  BY <1>0, BootFacts
<1>2. live' \in Schemata /\ live' = live /\ live # NoSchema
  BY <1>0, <1>1 DEF BootstrapOK
<1>3. Moves(p) /\ (Advances(p, "commit") \/ Advances(p, "failed"))
  BY <1>0, <1>1, GotoMoves
<1>4. /\ proc'[p].op = "bootstrap" /\ proc'[p].id = i /\ proc'[p].rel = proc[p].rel
      /\ UNCHANGED <<rolloutLock, backupLock>>
  BY <1>0, <1>3 DEF Goto, Advances
<1>5. BootSet(i, st, e.result) \/ BootSet(i, e.status, e.result)
  <2>1. st \in {"none", "planned", "postgres_started", "freshness_verified", "schema_started",
                "schema_completed", "target_heads_verified", "committed", "failed", "requires_recovery"}
    OBVIOUS
  <2>2. CASE bootstraps' = [bootstraps EXCEPT ![i].status = st]
    <3> HIDE DEF st
    <3> QED
      BY <1>1, <2>1, <2>2, BootStatusSet DEF HostTypes
  <2>3. CASE bootstraps' = bootstraps
    BY <1>1, <2>3 DEF BootSet, HostTypes
  <2> QED
    BY <1>0, <2>2, <2>3
<1>6. PICK s : BootSet(i, s, e.result)
  BY <1>5
<1> QED
  BY <1>0, <1>1, <1>2, <1>3, <1>4, <1>6, BootStep

\* An error before, after or in the middle of the upgrade.
LEMMA BootstrapErrorKeeps ==
    ASSUME HostInv, NEW p \in Procs, BootstrapError(p)
    PROVE  HostInv' /\ ResultsKept
<1> DEFINE i == proc[p].id
           e == bootstraps[i]
           st == IF e.status = "freshness_verified" THEN "schema_started" ELSE e.status
<1>0. /\ proc[p].op = "bootstrap" /\ proc[p].pc # "lock"
      /\ UNCHANGED <<bootstrapOnly, rolloutLock, backupLock>>
  BY DEF BootstrapError
<1>1. /\ HostTypes /\ ProcShape /\ BootstrapOK(p) /\ i \in DOMAIN bootstraps
      /\ e \in BootstrapJournals /\ live \in Schemata
      /\ SourceHeads[proc[p].rel] \in Schemata /\ SourceHeads[proc[p].rel] # NoSchema
      /\ e.result = "committed" => live # NoSchema
  BY <1>0, BootFacts
<1>2. CASE UNCHANGED <<live, bootstraps>> /\ proc' = [proc EXCEPT ![p].pc = "failed"]
  <2>1. Moves(p) /\ Advances(p, "failed")
    BY <1>1, <1>2, SetPc
  <2>2. /\ proc'[p].op = "bootstrap" /\ proc'[p].id = i /\ proc'[p].rel = proc[p].rel
        /\ proc'[p].pc = "failed"
    BY <1>0, <2>1 DEF Advances
  <2>3. BootSet(i, e.status, e.result)
    BY <1>1, <1>2 DEF BootSet, HostTypes
  <2>4. live' \in Schemata /\ live' = live
    BY <1>1, <1>2
  <2> QED
    BY <1>0, <1>1, <2>1, <2>2, <2>3, <2>4, BootStep
<1>3. CASE /\ bootstraps' = [bootstraps EXCEPT ![i].status = st]
           /\ live' \in {live, SourceHeads[proc[p].rel], Partial}
           /\ proc' = [proc EXCEPT ![p].pc = "failed", ![p].act = "schema_started"]
  <2> DEFINE pc == "failed"
             act == "schema_started"
  <2>0. ProcShape
    BY <1>1
  <2>1. proc' = [proc EXCEPT ![p].pc = pc, ![p].act = act]
    BY <1>3
  <2>2. pc \notin {"schema_done", "verify", "commit", "result"}
    OBVIOUS
  <2> HIDE DEF pc, act
  <2>3. Moves(p) /\ Becomes(p, pc, act, proc[p].id, proc[p].saw)
    BY <2>0, <2>1, SetPcAct
  <2>4. /\ proc'[p].op = "bootstrap" /\ proc'[p].id = i /\ proc'[p].rel = proc[p].rel
        /\ proc'[p].pc \notin {"schema_done", "verify", "commit", "result"}
    BY <1>0, <2>2, <2>3 DEF Becomes
  <2>5. st \in {"none", "planned", "postgres_started", "freshness_verified", "schema_started",
                "schema_completed", "target_heads_verified", "committed", "failed", "requires_recovery"}
    BY <1>1 DEF BootstrapJournals
  <2>6. BootSet(i, st, e.result)
    <3> HIDE DEF st
    <3> QED
      BY <1>1, <1>3, <2>5, BootStatusSet DEF HostTypes
  <2>7. live' \in Schemata /\ (live' = NoSchema => live = NoSchema)
    BY <1>1, <1>3, HeadsAssumption DEF Schemata
  <2>8. e.result = "committed" => live' # NoSchema
    BY <1>1, <2>7
  <2> HIDE DEF st
  <2> QED
    BY <1>0, <1>1, <2>3, <2>4, <2>6, <2>7, <2>8, BootStep
<1> QED
  BY <1>2, <1>3 DEF BootstrapError

\* An interrupted journal is resumed, or the first one of an empty database is opened.
LEMMA BootstrapOpenKeeps ==
    ASSUME HostInv, NEW p \in Procs, BootstrapOpen(p)
    PROVE  HostInv' /\ ResultsKept
<1> DEFINE n == Len(bootstraps) + 1
           k == CHOOSE j \in UnresolvedBootstraps : TRUE
           e == [target |-> proc[p].rel, status |-> "none", result |-> "none"]
<1>0. HostTypes /\ LockInv /\ JournalsAreOwned /\ SavedOK /\ ProcShape /\ BootstrapOK(p)
  BY DEF HostInv, HostTypes, ProcOK, BootstrapOpen, At
<1>1. /\ proc[p].op = "bootstrap" /\ proc[p].pc = "lock" /\ rolloutLock = None /\ rolloutLock' = p
      /\ BootstrapAllowed /\ UNCHANGED <<live, bootstrapOnly, backupLock>>
      /\ \/ /\ Resumes(proc[p].rel) /\ UNCHANGED bootstraps
            /\ proc' = [proc EXCEPT ![p].pc = "inspect", ![p].id = k]
         \/ /\ StartsAfresh(proc[p].rel) /\ bootstraps' = Append(bootstraps, e)
            /\ proc' = [proc EXCEPT ![p].pc = "plan", ![p].id = n]
  BY DEF BootstrapOpen, At
<1>2. proc[p].rel \in Releases
  BY <1>0 DEF BootstrapOK
<1>3. current = None /\ UnresolvedDeployments = {} /\ UnresolvedMigrations = {}
  BY <1>1 DEF BootstrapAllowed
<1>4. RolloutFree(p)
  BY <1>0, <1>1, Alone
<1>5. UnresolvedDeployments' = {} /\ UnresolvedMigrations' = {}
  BY <1>1, <1>3 DEF UnresolvedDeployments, UnresolvedMigrations, bootstrapOnly
<1>6. DeploymentsOK' /\ EnvelopeInv' /\ TiersMatchJournal' /\ MigrationsOK' /\ RestoreInv' /\ BackupsInv'
  BY <1>0, <1>1, <1>3, <1>5
  DEF SavedOK, DeploymentsOK, EnvelopeInv, TiersMatchJournal, MigrationsOK, RestoreInv,
      BackupsInv, Vouched, Runs, bootstrapOnly
<1>7. TierInv' /\ BaseInv'
  BY <1>1, <1>3 DEF TierInv, BaseInv, bootstrapOnly
<1>8. ASSUME Moves(p) PROVE \A q \in Procs \ {p} : ProcOK(q)'
  <2>1. Grow /\ PruneSafe(p)
    BY <1>1 DEF Grow, PruneSafe, Held, bootstrapOnly
  <2> QED
    BY <1>4, <1>8, <2>1, OthersFree
<1>9. ASSUME Moves(p), proc'[p].op = "bootstrap", proc'[p].pc \in {"inspect", "plan"},
             proc'[p].rel = proc[p].rel, proc'[p].id \in DOMAIN bootstraps',
             bootstraps' \in Seq(BootstrapJournals), BootInv',
             \A i, j \in UnresolvedBootstraps' : i = j,
             \A i \in DOMAIN bootstraps : bootstraps'[i] = bootstraps[i]
      PROVE  HostInv' /\ ResultsKept
  <2>1. HostTypes'
    BY <1>0, <1>1, <1>9 DEF HostTypes, Moves, bootstrapOnly
  <2>2. LockInv'
    <3>1. ~ BackupLocked(p)'
      BY <1>9 DEF BackupLocked
    <3> QED
      BY <1>0, <1>1, <1>4, <1>9, <3>1, LocksKept
  <2>3. JournalsAreOwned'
    <3>1. ~ Migrates(p)'
      BY <1>9 DEF Migrates
    <3> QED
      BY <1>0, <1>9, <3>1, OwnedKept
  <2>4. OneUnresolved' /\ LastUnresolved'
    BY <1>5, <1>9 DEF OneUnresolved, LastUnresolved
  <2>5. ProcOK(p)'
    <3>1. current' = None
      BY <1>1, <1>3 DEF bootstrapOnly
    <3> QED
      BY <1>2, <1>9, <3>1 DEF ProcOK, BootstrapOK
  <2>6. ResultsKept
    BY <1>1, <1>9 DEF ResultsKept, bootstrapOnly
  <2> QED
    BY <1>6, <1>7, <1>8, <1>9, <2>1, <2>2, <2>3, <2>4, <2>5, <2>6 DEF HostInv, SavedOK
<1>10. CASE /\ Resumes(proc[p].rel) /\ UNCHANGED bootstraps
            /\ proc' = [proc EXCEPT ![p].pc = "inspect", ![p].id = k]
  <2>1. k \in DOMAIN bootstraps
    BY <1>10 DEF Resumes, UnresolvedBootstraps
  <2> DEFINE pc == "inspect"
  <2>2. ProcShape
    BY <1>0
  <2>3. proc' = [proc EXCEPT ![p].pc = pc, ![p].id = k]
    BY <1>10
  <2> HIDE DEF pc, k
  <2>4. Moves(p) /\ Becomes(p, pc, proc[p].act, k, proc[p].saw)
    BY <2>2, <2>3, SetPcId
  <2>5. /\ proc'[p].op = "bootstrap" /\ proc'[p].pc \in {"inspect", "plan"}
        /\ proc'[p].rel = proc[p].rel /\ proc'[p].id \in DOMAIN bootstraps'
    BY <1>1, <1>10, <2>1, <2>4 DEF Becomes, pc
  <2>6. bootstraps' \in Seq(BootstrapJournals) /\ BootInv' /\ \A i, j \in UnresolvedBootstraps' : i = j
    BY <1>0, <1>1, <1>10 DEF HostTypes, SavedOK, BootInv, OneUnresolved, UnresolvedBootstraps
  <2>7. \A i \in DOMAIN bootstraps : bootstraps'[i] = bootstraps[i]
    BY <1>10
  <2> QED
    BY <1>9, <2>4, <2>5, <2>6, <2>7
<1>11. CASE /\ StartsAfresh(proc[p].rel) /\ bootstraps' = Append(bootstraps, e)
            /\ proc' = [proc EXCEPT ![p].pc = "plan", ![p].id = n]
  <2>1. e \in BootstrapJournals /\ e.result = "none"
    BY <1>2 DEF BootstrapJournals
  <2> HIDE DEF e
  <2>2. /\ bootstraps' \in Seq(BootstrapJournals) /\ n \in DOMAIN bootstraps' /\ bootstraps'[n] = e
        /\ n \notin DOMAIN bootstraps /\ DOMAIN bootstraps' = DOMAIN bootstraps \cup {n}
        /\ \A i \in DOMAIN bootstraps : bootstraps'[i] = bootstraps[i]
    BY <1>0, <1>11, <2>1 DEF HostTypes
  <2> DEFINE pc == "plan"
  <2>3. ProcShape
    BY <1>0
  <2>4. proc' = [proc EXCEPT ![p].pc = pc, ![p].id = n]
    BY <1>11
  <2> HIDE DEF pc, n
  <2>5. Moves(p) /\ Becomes(p, pc, proc[p].act, n, proc[p].saw)
    BY <2>3, <2>4, SetPcId
  <2>6. /\ proc'[p].op = "bootstrap" /\ proc'[p].pc \in {"inspect", "plan"}
        /\ proc'[p].rel = proc[p].rel /\ proc'[p].id \in DOMAIN bootstraps'
    BY <1>1, <2>2, <2>5 DEF Becomes, pc
  <2>7. BootInv'
    BY <1>0, <1>1, <2>1, <2>2 DEF SavedOK, BootInv
  <2>8. \A i, j \in UnresolvedBootstraps' : i = j
    <3>1. UnresolvedBootstraps = {}
      BY <1>11 DEF StartsAfresh
    <3>2. UnresolvedBootstraps' \subseteq {n}
      BY <2>2, <3>1 DEF UnresolvedBootstraps
    <3> QED
      BY <3>2
  <2> QED
    BY <1>9, <2>2, <2>5, <2>6, <2>7, <2>8
<1> QED
  BY <1>1, <1>10, <1>11

\* Every step of a database bootstrap.
LEMMA BootstrapNextKeeps ==
    ASSUME HostInv, NEW p \in Procs, BootstrapNext(p)
    PROVE  HostInv' /\ ResultsKept
BY BootstrapStartKeeps, BootstrapOpenKeeps, BootstrapRefusedKeeps, BootstrapPlannedKeeps,
   BootstrapPostgresKeeps, BootstrapAdoptKeeps, BootstrapFreshKeeps, BootstrapSchemaKeeps,
   BootstrapSchemaDoneKeeps, BootstrapVerifyKeeps, BootstrapCommitKeeps, BootstrapResultKeeps,
   BootstrapErrorKeeps, BootstrapTerminalKeeps DEF BootstrapNext

-----------------------------------------------------------------------------
(* The host: configuration rollouts, backups and the operator's editor *)

\* A step of a configuration rollout under the rollout lock, or one that takes it.
LEMMA ConfigStep ==
    ASSUME HostInv, NEW p \in Procs, proc[p].op = "config", RolloutFree(p), UNCHANGED configOnly,
           \/ Leave(p)
           \/ /\ Moves(p) /\ proc'[p].op = "config" /\ rolloutLock' = p /\ backupLock' = backupLock
              /\ ConfigOK(p)',
           configs' \in Seq(ConfigJournals), config' \in Runtimes
    PROVE  HostInv' /\ ResultsKept
<1>0. HostTypes /\ LockInv /\ JournalsAreOwned /\ SavedOK /\ ProcShape
  BY DEF HostInv, HostTypes
<1>2. /\ Moves(p) /\ LockInv' /\ ProcOK(p)' /\ ~ Migrates(p)'
      /\ rolloutLock' \in Procs \cup {None} /\ backupLock' \in Procs \cup {None}
  <2>1. CASE Leave(p)
    <3>1. Moves(p) /\ proc'[p].op = "idle"
      BY <1>0, <2>1, SetIdle
    <3>2. LockInv'
      BY <1>0, <2>1, LocksLeft
    <3>3. rolloutLock' \in Procs \cup {None} /\ backupLock' \in Procs \cup {None}
      BY <1>0, <2>1 DEF HostTypes, Leave
    <3> QED
      BY <3>1, <3>2, <3>3 DEF ProcOK, Migrates
  <2>2. CASE /\ Moves(p) /\ proc'[p].op = "config" /\ rolloutLock' = p /\ backupLock' = backupLock
             /\ ConfigOK(p)'
    <3>1. ~ BackupLocked(p)'
      BY <2>2 DEF BackupLocked
    <3>2. LockInv'
      BY <1>0, <2>2, <3>1, LocksKept
    <3> QED
      BY <1>0, <2>2, <3>2 DEF ProcOK, Migrates, HostTypes
  <2> QED
    BY <2>1, <2>2
<1>3. JournalsAreOwned'
  BY <1>0, <1>2, OwnedKept
<1>4. HostTypes'
  BY <1>0, <1>2 DEF HostTypes, Moves, configOnly, hostVars
<1>5. SavedOK'
  BY <1>0 DEF SavedOK, OneUnresolved, LastUnresolved, DeploymentsOK, EnvelopeInv, TierInv,
         TiersMatchJournal, MigrationsOK, BaseInv, RestoreInv, BootInv, BackupsInv, Vouched, Runs,
         UnresolvedDeployments, UnresolvedMigrations, UnresolvedBootstraps, configOnly, hostVars
<1>6. \A q \in Procs \ {p} : ProcOK(q)'
  <2>1. Grow /\ PruneSafe(p)
    BY DEF Grow, PruneSafe, Held, configOnly
  <2> QED
    BY <1>2, <2>1, OthersFree
<1>7. ResultsKept
  BY DEF ResultsKept, configOnly
<1> QED
  BY <1>2, <1>3, <1>4, <1>5, <1>6, <1>7 DEF HostInv

\* What it finds.
LEMMA ConfigFacts ==
    ASSUME HostInv, NEW p \in Procs, proc[p].op = "config"
    PROVE  /\ HostTypes /\ ProcShape /\ ConfigOK(p) /\ LockInv
           /\ proc[p].pc # "lock" =>
                /\ RolloutFree(p) /\ rolloutLock = p /\ proc[p].id \in DOMAIN configs
                /\ configs[proc[p].id] \in ConfigJournals /\ Cfg(p) = configs[proc[p].id]
                /\ current # None
           /\ rolloutLock = None => RolloutFree(p)
<1>1. HostTypes /\ ProcShape /\ ConfigOK(p) /\ LockInv
  BY DEF HostInv, HostTypes, ProcOK
<1>2. rolloutLock = None => RolloutFree(p)
  BY <1>1, Alone
<1>3. proc[p].pc # "lock" => RolloutFree(p) /\ rolloutLock = p
  <2>1. proc[p].pc # "lock" => Locked(p)
    BY DEF Locked
  <2> QED
    BY <1>1, <2>1, Alone DEF LockInv
<1>4. proc[p].pc # "lock" => proc[p].id \in DOMAIN configs /\ current # None
  BY <1>1 DEF ConfigOK
<1>5. proc[p].pc # "lock" => configs[proc[p].id] \in ConfigJournals
  BY <1>1, <1>4 DEF HostTypes
<1> QED
  BY <1>1, <1>2, <1>3, <1>4, <1>5 DEF Cfg

\* Updates of the runtime values.
LEMMA ConfigPut ==
    ASSUME config \in Runtimes
    PROVE  /\ config.running \in Values /\ config.env \in Values
           /\ \A v \in Values : [config EXCEPT !.running = v] \in Runtimes
                                 /\ [config EXCEPT !.running = v].running = v
           /\ \A v \in Values : [config EXCEPT !.env = v] \in Runtimes
                                 /\ [config EXCEPT !.env = v].running = config.running
           /\ \A s \in [values : Values, deployment : Nat] : [config EXCEPT !.state = s] \in Runtimes
BY DEF Runtimes

\* What runtime-config.json records.
LEMMA RecordedType ==
    ASSUME HostTypes, current # None, NEW v \in Values
    PROVE  Recorded(v) \in [values : Values, deployment : Nat]
<1>1. current \in CurrentStates
  BY DEF HostTypes
<1>2. current.deployment \in Nat
  BY <1>1 DEF CurrentStates
<1> QED
  BY <1>2 DEF Recorded

\* The checks before the lock.
LEMMA ConfigStartKeeps ==
    ASSUME HostInv, NEW p \in Procs, NEW b \in BOOLEAN, ConfigStart(p, b)
    PROVE  HostInv' /\ ResultsKept
<1> DEFINE op == "config"
           rel == current.app
           act == IF b THEN "initialize" ELSE "apply"
           saw == [heads |-> live, target |-> config.env]
<1>1. Start(p, op, rel, act, 0, saw)
  BY DEF ConfigStart
<1>2. UNCHANGED <<hostVars, journalVars, backupVars, config, rolloutLock, backupLock>>
  BY DEF ConfigStart
<1>3. saw.target \in Values
  <2>1. config \in Runtimes
    BY DEF HostInv, HostTypes
  <2> QED
    BY <2>1, ConfigPut
<1> HIDE DEF op, rel, act, saw
<1>4. proc'[p].op = op /\ proc'[p].pc = "lock" /\ proc'[p].id = 0 /\ proc'[p].saw = saw
  BY <1>1, Started
<1>5. ProcOK(p)'
  BY <1>3, <1>4 DEF ProcOK, ConfigOK, op
<1> QED
  BY <1>1, <1>2, <1>5, StartKeeps

\* A configuration rollout that is refused.
LEMMA ConfigRefusedKeeps ==
    ASSUME HostInv, NEW p \in Procs, ConfigRefused(p)
    PROVE  HostInv' /\ ResultsKept
<1>1. Leave(p) /\ UNCHANGED <<hostVars, journalVars, backupVars, config>>
  BY DEF ConfigRefused
<1> QED
  BY <1>1, LeaveKeeps

\* --initialize-active-config.
LEMMA ConfigInitializeKeeps ==
    ASSUME HostInv, NEW p \in Procs, ConfigInitialize(p)
    PROVE  HostInv' /\ ResultsKept
<1>0. /\ proc[p].op = "config" /\ rolloutLock = None /\ current # None
      /\ config' = [config EXCEPT !.state = Recorded(config.running)]
      /\ Leave(p) /\ UNCHANGED <<configs, configOnly>>
  BY DEF ConfigInitialize, At, ConfigInitializes, ConfigUnblocked
<1>1. HostTypes /\ RolloutFree(p)
  BY <1>0, ConfigFacts
<1>2. config \in Runtimes /\ configs \in Seq(ConfigJournals)
  BY <1>1 DEF HostTypes
<1>3. Recorded(config.running) \in [values : Values, deployment : Nat]
  BY <1>0, <1>1, <1>2, ConfigPut, RecordedType
<1>4. config' \in Runtimes
  BY <1>0, <1>2, <1>3, ConfigPut
<1> QED
  BY <1>0, <1>1, <1>2, <1>4, ConfigStep

\* The plan of a changed configuration.
LEMMA ConfigPlanKeeps ==
    ASSUME HostInv, NEW p \in Procs, ConfigPlan(p)
    PROVE  HostInv' /\ ResultsKept
<1> DEFINE n == Len(configs) + 1
           e == [target |-> proc[p].saw.target, old |-> config.state.values,
                 status |-> "none", result |-> "none"]
<1>0. /\ proc[p].op = "config" /\ rolloutLock = None /\ rolloutLock' = p /\ current # None
      /\ config.state # None /\ configs' = Append(configs, e)
      /\ proc' = [proc EXCEPT ![p].pc = "run", ![p].id = n]
      /\ UNCHANGED <<config, configOnly, backupLock>>
  BY DEF ConfigPlan, At, ConfigChanges, ConfigUnblocked, StateIsCurrent
<1>1. HostTypes /\ RolloutFree(p) /\ ProcShape /\ ConfigOK(p)
  BY <1>0, ConfigFacts
<1>2. config \in Runtimes /\ configs \in Seq(ConfigJournals)
  BY <1>1 DEF HostTypes
<1>3. e \in ConfigJournals /\ e.status = "none"
  <2>1. config.state \in [values : Values, deployment : Nat]
    BY <1>0, <1>2 DEF Runtimes
  <2>2. config.state.values \in Values
    BY <2>1
  <2>3. proc[p].saw.target \in Values
    BY <1>1 DEF ConfigOK
  <2> QED
    BY <2>2, <2>3 DEF ConfigJournals
<1> HIDE DEF e
<1>4. configs' \in Seq(ConfigJournals) /\ n \in DOMAIN configs' /\ configs'[n] = e
  BY <1>0, <1>2, <1>3
<1> DEFINE pc == "run"
<1>5. proc' = [proc EXCEPT ![p].pc = pc, ![p].id = n]
  BY <1>0
<1> HIDE DEF pc, n
<1>6. Moves(p) /\ Becomes(p, pc, proc[p].act, n, proc[p].saw)
  <2>0. ProcShape
    BY <1>1
  <2> QED
    BY <1>5, <2>0, SetPcId
<1>7. ConfigOK(p)'
  <2>1. /\ proc'[p].pc = "run" /\ proc'[p].id = n /\ proc'[p].saw = proc[p].saw
        /\ proc[p].saw.target \in Values /\ current' # None
    BY <1>0, <1>1, <1>6 DEF Becomes, pc, configOnly, hostVars, ConfigOK
  <2> QED
    BY <1>3, <1>4, <2>1 DEF ConfigOK, Cfg
<1> QED
  BY <1>0, <1>1, <1>2, <1>4, <1>6, <1>7, ConfigStep DEF Becomes

\* A step under the lock that writes its journal and goes on.
LEMMA ConfigGoesOn ==
    ASSUME HostInv, NEW p \in Procs, proc[p].op = "config", proc[p].pc # "lock",
           UNCHANGED configOnly, UNCHANGED <<rolloutLock, backupLock>>,
           NEW pc, Moves(p), Advances(p, pc), pc # "lock",
           NEW st, NEW res, CfgSet(proc[p].id, st, res), config' \in Runtimes,
           pc = "run" /\ st = "stabilizing" => config'.running = Cfg(p).target,
           pc \in {"commit", "result", "state"} => config'.running = Cfg(p).target,
           pc = "rollback_result" =>
             /\ st \in {"rolled_back", "rollback_failed"}
             /\ st = "rolled_back" => config'.running = Cfg(p).old
    PROVE  HostInv' /\ ResultsKept
<1>1. /\ RolloutFree(p) /\ rolloutLock = p /\ proc[p].id \in DOMAIN configs
      /\ Cfg(p) = configs[proc[p].id] /\ current # None /\ ConfigOK(p)
  BY ConfigFacts
<1>2. proc'[p].op = "config" /\ proc'[p].pc = pc /\ proc'[p].id = proc[p].id /\ proc'[p].saw = proc[p].saw
  BY DEF Advances
<1>3. /\ configs'[proc'[p].id].target = Cfg(p).target /\ configs'[proc'[p].id].old = Cfg(p).old
      /\ configs'[proc'[p].id].status = st /\ proc'[p].id \in DOMAIN configs'
      /\ configs' \in Seq(ConfigJournals)
  BY <1>1, <1>2 DEF CfgSet
<1>4. current' # None /\ proc'[p].saw.target \in Values
  BY <1>1, <1>2 DEF configOnly, hostVars, ConfigOK
<1>5. ConfigOK(p)'
  BY <1>2, <1>3, <1>4 DEF ConfigOK, Cfg
<1> QED
  BY <1>1, <1>2, <1>3, <1>5, ConfigStep

\* A step that does not move the program counter.
LEMMA StaysPut ==
    ASSUME ProcShape, NEW p \in Procs, proc' = proc
    PROVE  Moves(p) /\ Advances(p, proc[p].pc)
BY DEF Moves, ProcShape, Advances

\* The phases of the activation.
LEMMA ConfigAdvanceKeeps ==
    ASSUME HostInv, NEW p \in Procs, ConfigAdvance(p)
    PROVE  HostInv' /\ ResultsKept
<1> DEFINE pc == proc[p].pc
<1>0. /\ proc[p].op = "config" /\ pc = "run" /\ proc' = proc
      /\ UNCHANGED configOnly /\ UNCHANGED <<rolloutLock, backupLock>>
  BY DEF ConfigAdvance, At
<1>1. /\ ProcShape /\ proc[p].id \in DOMAIN configs /\ Cfg(p) = configs[proc[p].id]
      /\ HostTypes
  BY <1>0, ConfigFacts
<1>2. config \in Runtimes /\ configs \in Seq(ConfigJournals)
  BY <1>1 DEF HostTypes
<1>3. Moves(p) /\ Advances(p, pc)
  <2>1. ProcShape /\ proc' = proc
    BY <1>0, <1>1
  <2> QED
    BY <2>1, StaysPut
<1>4. pc \notin {"lock", "commit", "result", "state", "rollback_result"}
  BY <1>0
<1> HIDE DEF pc
<1>5. CASE Cfg(p).status = "none" /\ SetCfg(p, "planned") /\ UNCHANGED config
  <2> DEFINE st == "planned"
  <2>1. st \in CfgStatuses /\ st # "stabilizing"
    BY DEF CfgStatuses
  <2>2. configs' = [configs EXCEPT ![proc[p].id].status = st]
    BY <1>5 DEF SetCfg
  <2> HIDE DEF st
  <2>3. CfgSet(proc[p].id, st, configs[proc[p].id].result)
    BY <1>1, <1>2, <2>1, <2>2, CfgStatusSet
  <2> QED
    BY <1>0, <1>2, <1>3, <1>4, <1>5, <2>1, <2>3, ConfigGoesOn DEF pc
<1>6. CASE SetCfg(p, "activating") /\ config' = Recreated
  <2> DEFINE st == "activating"
  <2>1. st \in CfgStatuses /\ st # "stabilizing"
    BY DEF CfgStatuses
  <2>2. configs' = [configs EXCEPT ![proc[p].id].status = st]
    BY <1>6 DEF SetCfg
  <2> HIDE DEF st
  <2>3. CfgSet(proc[p].id, st, configs[proc[p].id].result)
    BY <1>1, <1>2, <2>1, <2>2, CfgStatusSet
  <2>4. config' \in Runtimes
    BY <1>2, <1>6, RecreatedType
  <2> QED
    BY <1>0, <1>3, <1>4, <2>1, <2>3, <2>4, ConfigGoesOn DEF pc
<1>7. CASE config.running = Cfg(p).target /\ SetCfg(p, "stabilizing") /\ UNCHANGED config
  <2> DEFINE st == "stabilizing"
  <2>1. st \in CfgStatuses
    BY DEF CfgStatuses
  <2>2. configs' = [configs EXCEPT ![proc[p].id].status = st]
    BY <1>7 DEF SetCfg
  <2> HIDE DEF st
  <2>3. CfgSet(proc[p].id, st, configs[proc[p].id].result)
    BY <1>1, <1>2, <2>1, <2>2, CfgStatusSet
  <2> QED
    BY <1>0, <1>2, <1>3, <1>4, <1>7, <2>3, ConfigGoesOn DEF pc
<1> QED
  BY <1>5, <1>6, <1>7 DEF ConfigAdvance

\* The health gates and the release state hold.
LEMMA ConfigStableKeeps ==
    ASSUME HostInv, NEW p \in Procs, ConfigStable(p)
    PROVE  HostInv' /\ ResultsKept
<1> DEFINE pc == "commit"
<1>0. /\ proc[p].op = "config" /\ proc[p].pc = "run" /\ Cfg(p).status = "stabilizing"
      /\ proc' = [proc EXCEPT ![p].pc = pc] /\ UNCHANGED <<configs, config>>
      /\ UNCHANGED configOnly /\ UNCHANGED <<rolloutLock, backupLock>>
  BY DEF ConfigStable, At, Goto
<1>1. /\ ProcShape /\ proc[p].id \in DOMAIN configs /\ Cfg(p) = configs[proc[p].id]
      /\ HostTypes /\ ConfigOK(p)
  BY <1>0, ConfigFacts
<1>2. config' \in Runtimes /\ configs' \in Seq(ConfigJournals)
  BY <1>0, <1>1 DEF HostTypes
<1>3. config'.running = Cfg(p).target
  BY <1>0, <1>1 DEF ConfigOK
<1>4. pc # "lock" /\ pc # "rollback_result"
  OBVIOUS
<1> HIDE DEF pc
<1>5. Moves(p) /\ Advances(p, pc)
  <2>1. ProcShape
    BY <1>1
  <2> QED
    BY <1>0, <2>1, SetPc
<1>6. CfgSet(proc[p].id, configs[proc[p].id].status, configs[proc[p].id].result)
  BY <1>0, <1>2 DEF CfgSet
<1> QED
  BY <1>0, <1>2, <1>3, <1>4, <1>5, <1>6, ConfigGoesOn

\* The event ...
LEMMA ConfigCommitKeeps ==
    ASSUME HostInv, NEW p \in Procs, ConfigCommit(p)
    PROVE  HostInv' /\ ResultsKept
<1> DEFINE pc == "result"
           i == proc[p].id
           st == "committed"
           res == configs[i].result
<1>0. /\ proc[p].op = "config" /\ proc[p].pc = "commit"
      /\ proc' = [proc EXCEPT ![p].pc = pc] /\ config' = config
      /\ configs' = [configs EXCEPT ![i].status = st]
      /\ UNCHANGED configOnly /\ UNCHANGED <<rolloutLock, backupLock>>
  BY DEF ConfigCommit, At, Goto, SetCfg
<1>1. /\ ProcShape /\ i \in DOMAIN configs /\ Cfg(p) = configs[i]
      /\ HostTypes /\ ConfigOK(p)
  BY <1>0, ConfigFacts
<1>2. config' \in Runtimes /\ configs \in Seq(ConfigJournals)
  BY <1>0, <1>1 DEF HostTypes
<1>3. pc \in {"commit", "result", "state"} => config'.running = Cfg(p).target
  BY <1>0, <1>1 DEF ConfigOK
<1>4. pc \notin {"lock", "run", "rollback_result"} /\ st \in CfgStatuses /\ res \in CfgResults
  <2>1. configs[i] \in ConfigJournals
    BY <1>1, <1>2
  <2>2. configs[i].status \in CfgStatuses /\ configs[i].result \in CfgResults
    BY <2>1 DEF ConfigJournals, CfgStatuses, CfgResults
  <2> QED
    BY <2>2 DEF CfgStatuses, CfgResults
<1> HIDE DEF pc
<1>5. Moves(p) /\ Advances(p, pc)
  <2>1. ProcShape
    BY <1>1
  <2> QED
    BY <1>0, <2>1, SetPc
<1>6. CfgSet(i, st, res)
  <2> HIDE DEF st
  <2> QED
    BY <1>0, <1>1, <1>2, <1>4, CfgStatusSet
<1> HIDE DEF st, res
<1> QED
  BY <1>0, <1>2, <1>3, <1>4, <1>5, <1>6, ConfigGoesOn

\* ... and the result of a success.
LEMMA ConfigResultKeeps ==
    ASSUME HostInv, NEW p \in Procs, ConfigResult(p)
    PROVE  HostInv' /\ ResultsKept
<1> DEFINE pc == "state"
           i == proc[p].id
           st == configs[i].status
           res == "committed"
<1>0. /\ proc[p].op = "config" /\ proc[p].pc = "result"
      /\ proc' = [proc EXCEPT ![p].pc = pc] /\ config' = config
      /\ configs' = [configs EXCEPT ![i].result = res]
      /\ UNCHANGED configOnly /\ UNCHANGED <<rolloutLock, backupLock>>
  BY DEF ConfigResult, At, Goto, SetCfg
<1>1. /\ ProcShape /\ i \in DOMAIN configs /\ Cfg(p) = configs[i]
      /\ HostTypes /\ ConfigOK(p)
  BY <1>0, ConfigFacts
<1>2. config' \in Runtimes /\ configs \in Seq(ConfigJournals)
  BY <1>0, <1>1 DEF HostTypes
<1>3. pc \in {"commit", "result", "state"} => config'.running = Cfg(p).target
  BY <1>0, <1>1 DEF ConfigOK
<1>4. pc \notin {"lock", "run", "rollback_result"} /\ st \in CfgStatuses /\ res \in CfgResults
  <2>1. configs[i] \in ConfigJournals
    BY <1>1, <1>2
  <2>2. configs[i].status \in CfgStatuses /\ configs[i].result \in CfgResults
    BY <2>1 DEF ConfigJournals, CfgStatuses, CfgResults
  <2> QED
    BY <2>2 DEF CfgStatuses, CfgResults
<1> HIDE DEF pc
<1>5. Moves(p) /\ Advances(p, pc)
  <2>1. ProcShape
    BY <1>1
  <2> QED
    BY <1>0, <2>1, SetPc
<1>6. CfgSet(i, st, res)
  <2> HIDE DEF res
  <2> QED
    BY <1>0, <1>1, <1>2, <1>4, CfgResultSet
<1> HIDE DEF st, res
<1> QED
  BY <1>0, <1>2, <1>3, <1>4, <1>5, <1>6, ConfigGoesOn

\* An error while the target is activated.
LEMMA ConfigFailsKeeps ==
    ASSUME HostInv, NEW p \in Procs, ConfigFails(p)
    PROVE  HostInv' /\ ResultsKept
<1> DEFINE pc == "rollback"
           i == proc[p].id
           st == "rollback_started"
           res == configs[i].result
<1>0. /\ proc[p].op = "config" /\ proc[p].pc = "run"
      /\ proc' = [proc EXCEPT ![p].pc = pc] /\ config' = config
      /\ configs' = [configs EXCEPT ![i].status = st]
      /\ UNCHANGED configOnly /\ UNCHANGED <<rolloutLock, backupLock>>
  BY DEF ConfigFails, At, Goto, SetCfg
<1>1. /\ ProcShape /\ i \in DOMAIN configs /\ Cfg(p) = configs[i]
      /\ HostTypes /\ ConfigOK(p)
  BY <1>0, ConfigFacts
<1>2. config' \in Runtimes /\ configs \in Seq(ConfigJournals)
  BY <1>0, <1>1 DEF HostTypes
<1>3. pc \in {"commit", "result", "state"} => config'.running = Cfg(p).target
  BY <1>0, <1>1 DEF ConfigOK
<1>4. pc \notin {"lock", "run", "rollback_result"} /\ st \in CfgStatuses /\ res \in CfgResults
  <2>1. configs[i] \in ConfigJournals
    BY <1>1, <1>2
  <2>2. configs[i].status \in CfgStatuses /\ configs[i].result \in CfgResults
    BY <2>1 DEF ConfigJournals, CfgStatuses, CfgResults
  <2> QED
    BY <2>2 DEF CfgStatuses, CfgResults
<1> HIDE DEF pc
<1>5. Moves(p) /\ Advances(p, pc)
  <2>1. ProcShape
    BY <1>1
  <2> QED
    BY <1>0, <2>1, SetPc
<1>6. CfgSet(i, st, res)
  <2> HIDE DEF st
  <2> QED
    BY <1>0, <1>1, <1>2, <1>4, CfgStatusSet
<1> HIDE DEF st, res
<1> QED
  BY <1>0, <1>2, <1>3, <1>4, <1>5, <1>6, ConfigGoesOn

\* A step under the lock that ends.
LEMMA ConfigEnds ==
    ASSUME HostInv, NEW p \in Procs, proc[p].op = "config", proc[p].pc # "lock",
           UNCHANGED configOnly, Leave(p), configs' \in Seq(ConfigJournals), config' \in Runtimes
    PROVE  HostInv' /\ ResultsKept
<1>1. RolloutFree(p)
  BY ConfigFacts
<1> QED
  BY <1>1, ConfigStep

\* runtime-config.json is written last.
LEMMA ConfigRecordKeeps ==
    ASSUME HostInv, NEW p \in Procs, ConfigRecord(p)
    PROVE  HostInv' /\ ResultsKept
<1>0. /\ proc[p].op = "config" /\ proc[p].pc = "state" /\ Leave(p)
      /\ config' = [config EXCEPT !.state = Recorded(Cfg(p).target)]
      /\ configs' = configs /\ UNCHANGED configOnly
  BY DEF ConfigRecord, At
<1>1. HostTypes /\ proc[p].id \in DOMAIN configs /\ Cfg(p) \in ConfigJournals /\ current # None
  BY <1>0, ConfigFacts
<1>2. config \in Runtimes /\ configs' \in Seq(ConfigJournals)
  BY <1>0, <1>1 DEF HostTypes
<1>3. Cfg(p).target \in Values
  BY <1>1 DEF ConfigJournals
<1>4. Recorded(Cfg(p).target) \in [values : Values, deployment : Nat]
  BY <1>1, <1>3, RecordedType
<1>5. config' \in Runtimes
  BY <1>0, <1>2, <1>4, ConfigPut
<1> QED
  BY <1>0, <1>2, <1>5, ConfigEnds

\* The result of a rollback is the last event.
LEMMA ConfigRollbackResultKeeps ==
    ASSUME HostInv, NEW p \in Procs, ConfigRollbackResult(p)
    PROVE  HostInv' /\ ResultsKept
<1> DEFINE res == Cfg(p).status
<1>0. /\ proc[p].op = "config" /\ proc[p].pc = "rollback_result" /\ Leave(p)
      /\ configs' = [configs EXCEPT ![proc[p].id].result = res]
      /\ config' = config /\ UNCHANGED configOnly
  BY DEF ConfigRollbackResult, At
<1>1. HostTypes /\ proc[p].id \in DOMAIN configs /\ ConfigOK(p)
  BY <1>0, ConfigFacts
<1>2. config' \in Runtimes /\ configs \in Seq(ConfigJournals)
  BY <1>0, <1>1 DEF HostTypes
<1>3. res \in CfgResults
  BY <1>0, <1>1 DEF ConfigOK, CfgResults
<1> HIDE DEF res
<1>4. CfgSet(proc[p].id, configs[proc[p].id].status, res)
  BY <1>0, <1>1, <1>2, <1>3, CfgResultSet
<1> QED
  BY <1>0, <1>2, <1>4, ConfigEnds DEF CfgSet

\* The previous values.
LEMMA ConfigRollbackKeeps ==
    ASSUME HostInv, NEW p \in Procs, ConfigRollback(p)
    PROVE  HostInv' /\ ResultsKept
<1> DEFINE pc == "rollback_result"
           old == [config EXCEPT !.running = Cfg(p).old]
<1>0. /\ proc[p].op = "config" /\ proc[p].pc = "rollback"
      /\ proc' = [proc EXCEPT ![p].pc = pc]
      /\ UNCHANGED configOnly /\ UNCHANGED <<rolloutLock, backupLock>>
      /\ \/ SetCfg(p, "rolled_back") /\ config' = old
         \/ SetCfg(p, "rollback_failed") /\ config' \in {config, old}
  BY DEF ConfigRollback, At, Goto
<1>1. /\ ProcShape /\ proc[p].id \in DOMAIN configs /\ Cfg(p) = configs[proc[p].id]
      /\ HostTypes /\ Cfg(p) \in ConfigJournals
  BY <1>0, ConfigFacts
<1>2. config \in Runtimes /\ configs \in Seq(ConfigJournals)
  BY <1>1 DEF HostTypes
<1>3. Cfg(p).old \in Values
  BY <1>1 DEF ConfigJournals
<1>4. old \in Runtimes /\ old.running = Cfg(p).old
  BY <1>2, <1>3, ConfigPut
<1> HIDE DEF old
<1>5. pc \notin {"lock", "run", "commit", "result", "state"}
  OBVIOUS
<1> HIDE DEF pc
<1>6. Moves(p) /\ Advances(p, pc)
  <2>1. ProcShape
    BY <1>1
  <2> QED
    BY <1>0, <2>1, SetPc
<1>7. CASE SetCfg(p, "rolled_back") /\ config' = old
  <2> DEFINE st == "rolled_back"
  <2>1. st \in CfgStatuses /\ st \in {"rolled_back", "rollback_failed"}
    BY DEF CfgStatuses
  <2>2. configs' = [configs EXCEPT ![proc[p].id].status = st]
    BY <1>7 DEF SetCfg
  <2> HIDE DEF st
  <2>3. CfgSet(proc[p].id, st, configs[proc[p].id].result)
    BY <1>1, <1>2, <2>1, <2>2, CfgStatusSet
  <2> QED
    BY <1>0, <1>4, <1>5, <1>6, <1>7, <2>1, <2>3, ConfigGoesOn
<1>8. CASE SetCfg(p, "rollback_failed") /\ config' \in {config, old}
  <2> DEFINE st == "rollback_failed"
  <2>1. st \in CfgStatuses /\ st \in {"rolled_back", "rollback_failed"} /\ st # "rolled_back"
    BY DEF CfgStatuses
  <2>2. configs' = [configs EXCEPT ![proc[p].id].status = st]
    BY <1>8 DEF SetCfg
  <2> HIDE DEF st
  <2>3. CfgSet(proc[p].id, st, configs[proc[p].id].result)
    BY <1>1, <1>2, <2>1, <2>2, CfgStatusSet
  <2>4. config' \in Runtimes
    BY <1>2, <1>4, <1>8
  <2> QED
    BY <1>0, <1>5, <1>6, <2>1, <2>3, <2>4, ConfigGoesOn
<1> QED
  BY <1>0, <1>7, <1>8

\* Errors outside the activation.
LEMMA ConfigErrorKeeps ==
    ASSUME HostInv, NEW p \in Procs, ConfigError(p)
    PROVE  HostInv' /\ ResultsKept
<1> DEFINE st == "failed"
           res == "failed"
<1>0. /\ proc[p].op = "config" /\ proc[p].pc # "lock" /\ Leave(p)
      /\ \/ configs' = [configs EXCEPT ![proc[p].id].status = st, ![proc[p].id].result = res]
         \/ configs' = configs
      /\ config' = config /\ UNCHANGED configOnly
  BY DEF ConfigError
<1>1. HostTypes /\ proc[p].id \in DOMAIN configs
  BY <1>0, ConfigFacts
<1>2. config' \in Runtimes /\ configs \in Seq(ConfigJournals)
  BY <1>0, <1>1 DEF HostTypes
<1>3. st \in CfgStatuses /\ res \in CfgResults
  BY DEF CfgStatuses, CfgResults
<1> HIDE DEF st, res
<1>4. configs' \in Seq(ConfigJournals)
  <2>1. CASE configs' = [configs EXCEPT ![proc[p].id].status = st, ![proc[p].id].result = res]
    <3>1. CfgSet(proc[p].id, st, res)
      BY <1>1, <1>2, <1>3, <2>1, CfgBothSet
    <3> QED
      BY <3>1 DEF CfgSet
  <2> QED
    BY <1>0, <1>2, <2>1
<1> QED
  BY <1>0, <1>2, <1>4, ConfigEnds

\* Every step of a configuration rollout.
LEMMA ConfigNextKeeps ==
    ASSUME HostInv, NEW p \in Procs, ConfigNext(p)
    PROVE  HostInv' /\ ResultsKept
BY ConfigStartKeeps, ConfigInitializeKeeps, ConfigPlanKeeps, ConfigRefusedKeeps, ConfigAdvanceKeeps,
   ConfigStableKeeps, ConfigCommitKeeps, ConfigResultKeeps, ConfigRecordKeeps, ConfigFailsKeeps,
   ConfigRollbackKeeps, ConfigRollbackResultKeeps, ConfigErrorKeeps DEF ConfigNext

-----------------------------------------------------------------------------
(* The host: backups and their retention *)

BackupOps == {"backup", "verify", "prune"}

\* A step of a backup tool under the lock of the backup root.
LEMMA BackupWorks ==
    ASSUME HostInv, NEW p \in Procs, proc[p].op \in BackupOps, BackupFree(p), UNCHANGED retentionOnly,
           \/ Leave(p)
           \/ /\ Moves(p) /\ proc'[p].op = proc[p].op /\ backupLock' = p /\ rolloutLock' = rolloutLock
              /\ proc'[p].op = "prune" => PruneOK(p)',
           backups' \subseteq Dumps, made' \in Nat, made <= made', BackupsInv', RestoreInv'
    PROVE  HostInv' /\ ResultsKept
<1>0. HostTypes /\ LockInv /\ JournalsAreOwned /\ SavedOK /\ ProcShape
  BY DEF HostInv, HostTypes
<1>1. /\ Moves(p) /\ LockInv' /\ ProcOK(p)' /\ ~ Migrates(p)'
      /\ rolloutLock' \in Procs \cup {None} /\ backupLock' \in Procs \cup {None}
  <2>1. CASE Leave(p)
    <3>1. Moves(p) /\ proc'[p].op = "idle"
      BY <1>0, <2>1, SetIdle
    <3>2. LockInv'
      BY <1>0, <2>1, LocksLeft
    <3>3. rolloutLock' \in Procs \cup {None} /\ backupLock' \in Procs \cup {None}
      BY <1>0, <2>1 DEF HostTypes, Leave
    <3> QED
      BY <3>1, <3>2, <3>3 DEF ProcOK, Migrates
  <2>2. CASE /\ Moves(p) /\ proc'[p].op = proc[p].op /\ backupLock' = p /\ rolloutLock' = rolloutLock
             /\ proc'[p].op = "prune" => PruneOK(p)'
    <3>1. ~ Locked(p)'
      BY <2>2 DEF Locked, BackupOps
    <3>2. LockInv'
      BY <1>0, <2>2, <3>1, LocksKept
    <3> QED
      BY <1>0, <2>2, <3>2 DEF ProcOK, Migrates, HostTypes, BackupOps
  <2> QED
    BY <2>1, <2>2
<1>2. JournalsAreOwned'
  BY <1>0, <1>1, OwnedKept
<1>3. HostTypes'
  BY <1>0, <1>1 DEF HostTypes, Moves, retentionOnly, hostVars, journalVars
<1>4. SavedOK'
  <2>1. MigrationsOK'
    <3> SUFFICES ASSUME NEW i \in DOMAIN migrations PROVE migrations[i].backup <= made'
      BY <1>0 DEF SavedOK, MigrationsOK, retentionOnly, journalVars
    <3>1. migrations[i] \in MigrationJournals /\ made \in Nat /\ migrations[i].backup <= made
      BY <1>0 DEF HostTypes, SavedOK, MigrationsOK
    <3>2. migrations[i].backup \in Nat
      BY <3>1 DEF MigrationJournals
    <3> QED
      BY <3>1, <3>2
  <2>2. /\ OneUnresolved' /\ LastUnresolved' /\ DeploymentsOK' /\ EnvelopeInv' /\ TierInv'
        /\ TiersMatchJournal' /\ BaseInv' /\ BootInv'
    BY <1>0 DEF SavedOK, OneUnresolved, LastUnresolved, DeploymentsOK, EnvelopeInv, TierInv,
           TiersMatchJournal, BaseInv, BootInv, Vouched, Runs, UnresolvedDeployments,
           UnresolvedMigrations, UnresolvedBootstraps, retentionOnly, hostVars, journalVars
  <2> QED
    BY <2>1, <2>2 DEF SavedOK
<1>5. \A q \in Procs \ {p} : ProcOK(q)'
  BY <1>1, OthersSame DEF retentionOnly
<1>6. ResultsKept
  BY DEF ResultsKept, retentionOnly, journalVars
<1> QED
  BY <1>1, <1>2, <1>3, <1>4, <1>5, <1>6 DEF HostInv

\* What it finds.
LEMMA BackupFacts ==
    ASSUME HostInv, NEW p \in Procs, proc[p].op \in BackupOps
    PROVE  /\ HostTypes /\ ProcShape /\ LockInv /\ RestoreInv /\ BackupsInv
           /\ backups \subseteq Dumps /\ made \in Nat
           /\ proc[p].pc # "lock" => BackupFree(p) /\ backupLock = p
           /\ backupLock = None => BackupFree(p)
           /\ proc[p].op = "prune" => PruneOK(p)
<1>1. HostTypes /\ ProcShape /\ LockInv /\ RestoreInv /\ BackupsInv /\ ProcOK(p)
  BY DEF HostInv, HostTypes, SavedOK
<1>2. backupLock = None => BackupFree(p)
  BY <1>1, BackupAlone
<1>3. proc[p].pc # "lock" => BackupFree(p) /\ backupLock = p
  <2>1. proc[p].pc # "lock" => BackupLocked(p)
    BY DEF BackupLocked, BackupOps
  <2> QED
    BY <1>1, <2>1, BackupAlone DEF LockInv
<1> QED
  BY <1>1, <1>2, <1>3 DEF HostTypes, ProcOK

\* A command is given.
LEMMA BackupStartKeeps ==
    ASSUME HostInv, NEW p \in Procs, NEW op \in BackupOps, NEW n, NEW h, BackupStart(p, op, n, h)
    PROVE  HostInv' /\ ResultsKept
<1>1. Start(p, op, None, None, n, h)
  BY DEF BackupStart
<1>2. UNCHANGED <<hostVars, journalVars, backupVars, config, rolloutLock, backupLock>>
  BY DEF BackupStart
<1>3. proc'[p].op = op /\ proc'[p].pc = "lock"
  BY <1>1, Started
<1>4. ProcOK(p)'
  BY <1>3 DEF ProcOK, PruneOK, BackupOps
<1> QED
  BY <1>1, <1>2, <1>4, StartKeeps

\* The lock, and what prune selects under it.
LEMMA BackupLockKeeps ==
    ASSUME HostInv, NEW p \in Procs, BackupLock(p)
    PROVE  HostInv' /\ ResultsKept
<1> DEFINE pc == "run"
           saw == IF proc[p].op = "prune" THEN PruneCandidates ELSE proc[p].saw
<1>0. proc[p].op \in BackupOps /\ UNCHANGED <<backupVars, retentionOnly>>
  BY DEF BackupLock, BackupOps
<1>1. /\ HostTypes /\ ProcShape /\ RestoreInv /\ BackupsInv /\ backups \subseteq Dumps /\ made \in Nat
      /\ backupLock = None => BackupFree(p)
  BY <1>0, BackupFacts
<1>2. CASE backupLock # None
  <2>1. Leave(p) /\ UNCHANGED <<hostVars, journalVars, backupVars, config>>
    BY <1>0, <1>2 DEF BackupLock, retentionOnly
  <2> QED
    BY <2>1, LeaveKeeps
<1>3. CASE backupLock = None
  <2>1. backupLock' = p /\ rolloutLock' = rolloutLock
    BY <1>3 DEF BackupLock
  <2>2. proc' = [proc EXCEPT ![p].pc = pc, ![p].saw = saw]
    BY <1>3 DEF BackupLock
  <2>3. saw = PruneCandidates \/ proc[p].op # "prune"
    OBVIOUS
  <2> HIDE DEF pc, saw
  <2>4. Moves(p) /\ Becomes(p, pc, proc[p].act, proc[p].id, saw)
    <3>1. ProcShape
      BY <1>1
    <3> QED
      BY <2>2, <3>1, SetPcSaw
  <2>5. proc'[p].op = proc[p].op /\ proc'[p].saw = saw
    BY <2>4 DEF Becomes
  <2>6. proc[p].op = "prune" => PruneOK(p)'
    <3> SUFFICES ASSUME proc[p].op = "prune", NEW b \in PruneCandidates
                 PROVE  /\ b \in backups' /\ ~ Held(b.n)' /\ b \notin Newest(backups)'
                        /\ b \notin Newest(PassedBackups)'
      BY <2>3, <2>5 DEF PruneOK
    <3>1. /\ b \in backups /\ ~ Held(b.n) /\ b \notin Newest(backups) /\ b \notin Newest(PassedBackups)
      BY DEF PruneCandidates
    <3>2. UNCHANGED <<backups, migrations>>
      BY <1>0 DEF backupVars, retentionOnly, journalVars
    <3> QED
      BY <3>1, <3>2 DEF Held, Newest, Newer, PassedBackups
  <2>7. /\ backups' \subseteq Dumps /\ made' \in Nat /\ made <= made' /\ BackupsInv' /\ RestoreInv'
    BY <1>0, <1>1 DEF backupVars, retentionOnly, journalVars, BackupsInv, RestoreInv, UnresolvedMigrations
  <2>8. BackupFree(p) /\ UNCHANGED retentionOnly
    BY <1>0, <1>1, <1>3
  <2> QED
    BY <1>0, <2>1, <2>4, <2>5, <2>6, <2>7, <2>8, BackupWorks
<1> QED
  BY <1>2, <1>3

\* A backup is published, or nothing is.
LEMMA BackupCreateKeeps ==
    ASSUME HostInv, NEW p \in Procs, BackupCreate(p)
    PROVE  HostInv' /\ ResultsKept
<1> DEFINE b == [n |-> made + 1, heads |-> live, verify |-> "none"]
<1>0. proc[p].op \in BackupOps /\ proc[p].pc # "lock" /\ Leave(p) /\ UNCHANGED retentionOnly
  BY DEF BackupCreate, At, BackupOps
<1>1. /\ HostTypes /\ RestoreInv /\ BackupsInv /\ backups \subseteq Dumps /\ made \in Nat
      /\ BackupFree(p)
  BY <1>0, BackupFacts
<1>2. b \in Dumps /\ b.n = made + 1
  BY <1>1 DEF HostTypes, Dumps
<1> HIDE DEF b
<1>3. \/ made' = made + 1 /\ backups' = backups \cup {b}
      \/ made' = made /\ backups' = backups
  BY DEF BackupCreate, backupVars, b
<1>4. backups' \subseteq Dumps /\ made' \in Nat /\ made <= made' /\ backups \subseteq backups'
  BY <1>1, <1>2, <1>3
<1>5. BackupsInv'
  BY <1>1, <1>2, <1>3 DEF BackupsInv, Dumps
<1>6. RestoreInv'
  BY <1>0, <1>1, <1>4 DEF RestoreInv, UnresolvedMigrations, retentionOnly, journalVars
<1> QED
  BY <1>0, <1>1, <1>4, <1>5, <1>6, BackupWorks

\* The attestation of a verification.
LEMMA BackupVerifyKeeps ==
    ASSUME HostInv, NEW p \in Procs, BackupVerify(p)
    PROVE  HostInv' /\ ResultsKept
<1>0. /\ proc[p].op \in BackupOps /\ proc[p].pc # "lock" /\ Leave(p) /\ UNCHANGED retentionOnly
      /\ made' = made
  BY DEF BackupVerify, At, BackupOps
<1>1. /\ HostTypes /\ RestoreInv /\ BackupsInv /\ backups \subseteq Dumps /\ made \in Nat
      /\ BackupFree(p)
  BY <1>0, BackupFacts
<1>2. SameDumps
  <2> DEFINE v(b) == IF b.heads = proc[p].saw THEN "passed" ELSE "failed"
             g(b) == IF b.n = proc[p].id THEN [b EXCEPT !.verify = v(b)] ELSE b
             f(b) == IF b.n = proc[p].id THEN [b EXCEPT !.verify = "failed"] ELSE b
  <2>1. \A b \in Dumps : g(b) \in Dumps /\ g(b).n = b.n /\ g(b).heads = b.heads
    BY DEF Dumps
  <2>2. \A b \in Dumps : f(b) \in Dumps /\ f(b).n = b.n /\ f(b).heads = b.heads
    BY DEF Dumps
  <2>3. backups' = {g(b) : b \in backups} \/ backups' = {f(b) : b \in backups}
    BY DEF BackupVerify
  <2> HIDE DEF g, f
  <2> QED
    BY <1>1, <2>1, <2>2, <2>3 DEF SameDumps
<1>3. backups' \subseteq Dumps /\ BackupsInv'
  BY <1>0, <1>1, <1>2 DEF BackupsInv, SameDumps
<1>4. RestoreInv'
  BY <1>0, <1>1, <1>2 DEF RestoreInv, UnresolvedMigrations, retentionOnly, journalVars, SameDumps
<1> QED
  BY <1>0, <1>1, <1>3, <1>4, BackupWorks

\* What was not the newest of a set is not after the removal of another that was not.
LEMMA StillNotNewest ==
    ASSUME NEW S, S \subseteq Dumps, NEW b \in Dumps, NEW c \in Dumps, b # c,
           b \notin Newest(S), c \notin Newest(S)
    PROVE  c \notin Newest(S \ {b})
<1> SUFFICES ASSUME c \in S PROVE \E d \in S \ {b} : d.n > c.n
  BY DEF Newest, Newer
<1>0. \A d \in Dumps : d.n \in Nat
  BY DEF Dumps
<1>1. PICK d \in S : d.n > c.n
  BY DEF Newest, Newer
<1>2. CASE d = b
  <2>1. PICK e \in S : e.n > b.n
    BY <1>2 DEF Newest, Newer
  <2>2. e.n > c.n /\ e # b
    BY <1>0, <1>1, <1>2, <2>1
  <2> QED
    BY <2>2
<1> QED
  BY <1>1, <1>2

\* One candidate, the newest left, unless it is held by now.
LEMMA PruneDeleteKeeps ==
    ASSUME HostInv, NEW p \in Procs, PruneDelete(p)
    PROVE  HostInv' /\ ResultsKept
<1>0. /\ proc[p].op = "prune" /\ proc[p].op \in BackupOps /\ proc[p].pc # "lock"
      /\ UNCHANGED retentionOnly /\ UNCHANGED <<made, rolloutLock, backupLock>>
  BY DEF PruneDelete, At, BackupOps
<1>1. /\ HostTypes /\ ProcShape /\ RestoreInv /\ BackupsInv /\ backups \subseteq Dumps /\ made \in Nat
      /\ BackupFree(p) /\ backupLock = p /\ PruneOK(p)
  BY <1>0, BackupFacts
<1>2. PICK b \in proc[p].saw :
        backups' \in {backups, backups \ {b}} /\ proc' = [proc EXCEPT ![p].saw = @ \ {b}]
  BY DEF PruneDelete, Newest
<1>3. /\ b \in backups /\ ~ Held(b.n) /\ b \notin Newest(backups) /\ b \notin Newest(PassedBackups)
      /\ b \in Dumps
  BY <1>0, <1>1 DEF PruneOK
<1> DEFINE saw == proc[p].saw \ {b}
<1>4. proc' = [proc EXCEPT ![p].saw = saw]
  BY <1>2
<1> HIDE DEF saw
<1>5. Moves(p) /\ proc'[p].op = proc[p].op /\ proc'[p].saw = saw
  <2>1. ProcShape
    BY <1>1
  <2> QED
    BY <1>4, <2>1, SetSaw
<1>6. PruneOK(p)'
  <2> SUFFICES ASSUME NEW c \in saw
               PROVE  /\ c \in backups' /\ ~ Held(c.n)' /\ c \notin Newest(backups)'
                      /\ c \notin Newest(PassedBackups)'
    BY <1>5 DEF PruneOK
  <2>1. /\ c \in backups /\ ~ Held(c.n) /\ c \notin Newest(backups) /\ c \notin Newest(PassedBackups)
        /\ c \in Dumps /\ c # b
    BY <1>0, <1>1 DEF PruneOK, saw
  <2>2. ~ Held(c.n)'
    BY <1>0, <2>1 DEF Held, retentionOnly, journalVars
  <2>3. Newest(backups)' = Newest(backups') /\ Newest(PassedBackups)' = Newest(PassedBackups')
    BY DEF Newest, Newer
  <2>4. c \notin Newest(backups')
    <3>1. c \notin Newest(backups \ {b})
      BY <1>1, <1>3, <2>1, StillNotNewest
    <3> QED
      BY <1>2, <2>1, <3>1
  <2>5. c \notin Newest(PassedBackups')
    <3>1. PassedBackups' \in {PassedBackups, PassedBackups \ {b}}
      BY <1>2 DEF PassedBackups
    <3>2. PassedBackups \subseteq Dumps
      BY <1>1 DEF PassedBackups
    <3>3. c \notin Newest(PassedBackups \ {b})
      BY <1>3, <2>1, <3>2, StillNotNewest
    <3> QED
      BY <2>1, <3>1, <3>3
  <2> QED
    BY <1>2, <2>1, <2>2, <2>3, <2>4, <2>5
<1>7. backups' \subseteq Dumps /\ BackupsInv' /\ made' \in Nat /\ made <= made'
  BY <1>0, <1>1, <1>2 DEF BackupsInv
<1>8. RestoreInv'
  <2> SUFFICES ASSUME NEW i \in UnresolvedMigrations, migrations[i].status \in HeldFrom
               PROVE  /\ migrations[i].hold = "active"
                      /\ \E d \in backups' : d.n = migrations[i].backup /\ d.heads = migrations[i].from
    BY <1>0 DEF RestoreInv, UnresolvedMigrations, retentionOnly, journalVars
  <2>1. migrations[i].hold = "active" /\ i \in DOMAIN migrations
    BY <1>1 DEF RestoreInv, UnresolvedMigrations
  <2>2. PICK d \in backups : d.n = migrations[i].backup /\ d.heads = migrations[i].from
    BY <1>1 DEF RestoreInv
  <2>3. Held(d.n)
    BY <2>1, <2>2 DEF Held
  <2> QED
    BY <1>2, <1>3, <2>1, <2>2, <2>3
<1> QED
  BY <1>0, <1>1, <1>5, <1>6, <1>7, <1>8, BackupWorks

\* Nothing left to delete.
LEMMA PruneEndKeeps ==
    ASSUME HostInv, NEW p \in Procs, PruneEnd(p)
    PROVE  HostInv' /\ ResultsKept
<1>1. Leave(p) /\ UNCHANGED <<hostVars, journalVars, backupVars, config>>
  BY DEF PruneEnd, retentionOnly
<1> QED
  BY <1>1, LeaveKeeps

\* Every step of a backup tool.
LEMMA BackupNextKeeps ==
    ASSUME HostInv, NEW p \in Procs, BackupNext(p)
    PROVE  HostInv' /\ ResultsKept
<1>1. {"backup", "prune", "verify"} \subseteq BackupOps
  BY DEF BackupOps
<1>2. CASE BackupStart(p, "backup", 0, None)
  BY <1>1, <1>2, BackupStartKeeps
<1>3. CASE BackupStart(p, "prune", 0, None)
  BY <1>1, <1>3, BackupStartKeeps
<1>4. ASSUME NEW b \in backups, NEW h \in AllHeads, BackupStart(p, "verify", b.n, h)
      PROVE  HostInv' /\ ResultsKept
  BY <1>1, <1>4, BackupStartKeeps
<1> QED
  BY <1>2, <1>3, <1>4, BackupLockKeeps, BackupCreateKeeps, BackupVerifyKeeps, PruneDeleteKeeps,
     PruneEndKeeps DEF BackupNext

-----------------------------------------------------------------------------
(* The host: where it starts *)

\* The documents a migration plan hashes.
LEMMA PlanHashes ==
    ASSUME current \in CurrentStates, NEW r \in Releases, NEW id \in Nat
    PROVE  /\ FileHash(current) \in {"indented"} \X CurrentStates /\ FileHash(current)[2] = current
           /\ PredictedHash(AfterMigration(current, r, id), current) \in {"compact"} \X CurrentStates
<1> DEFINE c == AfterMigration(current, r, id)
<1>1. c \in CurrentStates
  BY AfterMigrationType
<1> HIDE DEF c
<1>2. current.stamp \in Nat
  BY DEF CurrentStates
<1>3. [c EXCEPT !.stamp = current.stamp] \in CurrentStates
  BY <1>1, <1>2 DEF CurrentStates
<1> QED
  BY <1>3 DEF c, PredictedHash, FileHash

\* Nobody runs.
LEMMA InitProcs ==
    ASSUME proc = [p \in Procs |-> Idle], rolloutLock = None, backupLock = None
    PROVE  ProcShape /\ LockInv /\ JournalsAreOwned /\ \A p \in Procs : ProcOK(p)
<1>1. \A p \in Procs : proc[p].op = "idle"
  BY DEF Idle
<1>2. ProcShape
  BY DEF ProcShape, Idle
<1> QED
  BY <1>1, <1>2 DEF LockInv, Locked, BackupLocked, JournalsAreOwned, Migrates, ProcOK

\* A host with nothing on it.
LEMMA VirginKeeps ==
    ASSUME NEW s \in Values, VirginHost(s), bootstraps = <<>>, configs = <<>>,
           rolloutLock = None, backupLock = None, proc = [p \in Procs |-> Idle]
    PROVE  HostInv
<1>1. ProcShape /\ LockInv /\ JournalsAreOwned /\ \A p \in Procs : ProcOK(p)
  BY InitProcs
<1>2. HostTypes
  BY <1>1 DEF HostTypes, VirginHost, Schemata, Tiers, Runtimes
<1>3. UnresolvedDeployments = {} /\ UnresolvedMigrations = {} /\ UnresolvedBootstraps = {}
  BY DEF VirginHost, UnresolvedDeployments, UnresolvedMigrations, UnresolvedBootstraps
<1>4. SavedOK
  BY <1>3 DEF VirginHost, SavedOK, OneUnresolved, LastUnresolved, DeploymentsOK, EnvelopeInv, TierInv,
         TiersMatchJournal, MigrationsOK, BaseInv, RestoreInv, BootInv, BackupsInv
<1> QED
  BY <1>1, <1>2, <1>4 DEF HostInv

\* What a host that runs a release is, whatever its migrations say.
LEMMA RunningFacts ==
    ASSUME NEW s \in Values, NEW r \in Releases, RunningHost(s, r)
    PROVE  /\ current \in CurrentStates /\ current # None /\ current.heads = SourceHeads[r]
           /\ current.app \in current.envelope /\ app \in current.envelope
           /\ app \in Tiers /\ gateway \in Releases \cup {None}
           /\ deployments \in Seq(DeploymentJournals) /\ config \in Runtimes
           /\ UnresolvedDeployments = {} /\ DeploymentsOK /\ EnvelopeInv /\ TiersMatchJournal
<1> DEFINE h == SourceHeads[r]
           d == [target |-> r, heads |-> h, status |-> "committed", prev |-> None,
                 result |-> "committed", resolved |-> FALSE]
<1>1. h \in AllHeads
  BY DEF AllHeads
<1> HIDE DEF h
<1>2. /\ current \in CurrentStates /\ current.heads = h /\ current.app \in current.envelope
      /\ r \in current.envelope
  BY <1>1 DEF RunningHost, CurrentStates, h
<1>3. current # None
  BY <1>2, DocumentAssumption
<1>4. config \in Runtimes
  BY DEF RunningHost, Runtimes
<1>5. app = r /\ gateway = r /\ deployments = <<d>>
  BY DEF RunningHost, h
<1>6. d \in DeploymentJournals /\ d.target = r /\ d.result = "committed" /\ ~ d.resolved /\ d.prev = None
  BY <1>1 DEF DeploymentJournals, DeployLegal, Terminal
<1> HIDE DEF d
<1>7. deployments \in Seq(DeploymentJournals) /\ DOMAIN deployments = {1} /\ Len(deployments) = 1
      /\ deployments[1] = d
  BY <1>5, <1>6
<1>8. UnresolvedDeployments = {} /\ DeploymentsOK /\ EnvelopeInv /\ TiersMatchJournal
  BY <1>2, <1>5, <1>6, <1>7 DEF UnresolvedDeployments, DeploymentsOK, EnvelopeInv, TiersMatchJournal, Runs
<1> QED
  BY <1>2, <1>3, <1>4, <1>5, <1>7, <1>8 DEF Tiers, h

\* A host that runs a release.
LEMMA SettledKeeps ==
    ASSUME NEW s \in Values, NEW r \in Releases, SettledHost(s, r), bootstraps = <<>>, configs = <<>>,
           rolloutLock = None, backupLock = None, proc = [p \in Procs |-> Idle]
    PROVE  HostInv
<1>1. ProcShape /\ LockInv /\ JournalsAreOwned /\ \A p \in Procs : ProcOK(p)
  BY InitProcs
<1>2. RunningHost(s, r) /\ live = SourceHeads[r] /\ migrations = <<>> /\ backups = {} /\ made = 0
  BY DEF SettledHost
<1>3. /\ current \in CurrentStates /\ current # None /\ current.heads = SourceHeads[r]
      /\ current.app \in current.envelope /\ app \in current.envelope
      /\ app \in Tiers /\ gateway \in Releases \cup {None}
      /\ deployments \in Seq(DeploymentJournals) /\ config \in Runtimes
      /\ UnresolvedDeployments = {} /\ DeploymentsOK /\ EnvelopeInv /\ TiersMatchJournal
  BY <1>2, RunningFacts
<1>4. HostTypes
  BY <1>1, <1>2, <1>3 DEF HostTypes, Schemata, AllHeads
<1>5. UnresolvedMigrations = {} /\ UnresolvedBootstraps = {}
  BY <1>2 DEF UnresolvedMigrations, UnresolvedBootstraps
<1>6. SavedOK
  BY <1>2, <1>3, <1>5 DEF SavedOK, OneUnresolved, LastUnresolved, TierInv, MigrationsOK, BaseInv,
         RestoreInv, BootInv, BackupsInv
<1> QED
  BY <1>1, <1>4, <1>6 DEF HostInv

\* A host that a migration left in doubt.
LEMMA InDoubtKeeps ==
    ASSUME NEW s \in Values, NEW r \in Releases, NEW t \in Releases, HostInDoubt(s, r, t),
           bootstraps = <<>>, configs = <<>>,
           rolloutLock = None, backupLock = None, proc = [p \in Procs |-> Idle]
    PROVE  HostInv
<1> DEFINE before == FileHash(current)
           after == PredictedHash(AfterMigration(current, t, 1), current)
           h == SourceHeads[r]
           st == "migration_requires_recovery"
           e == [target |-> t, from |-> h, before |-> before, after |-> after, status |-> st,
                 result |-> st, resolved |-> FALSE, hold |-> "active", backup |-> 1]
           b == [n |-> 1, heads |-> h, verify |-> "passed"]
<1>1. ProcShape /\ LockInv /\ JournalsAreOwned /\ \A p \in Procs : ProcOK(p)
  BY InitProcs
<1>2. RunningHost(s, r) /\ live = SourceHeads[t] /\ migrations = <<e>> /\ backups = {b} /\ made = 1
  BY DEF HostInDoubt
<1>3. /\ current \in CurrentStates /\ current # None /\ current.heads = h
      /\ current.app \in current.envelope /\ app \in current.envelope
      /\ app \in Tiers /\ gateway \in Releases \cup {None}
      /\ deployments \in Seq(DeploymentJournals) /\ config \in Runtimes
      /\ UnresolvedDeployments = {} /\ DeploymentsOK /\ EnvelopeInv /\ TiersMatchJournal
  BY <1>2, RunningFacts
<1>4. /\ before \in {"indented"} \X CurrentStates /\ before[2].heads = h
      /\ after \in {"compact"} \X CurrentStates
  BY <1>3, PlanHashes
<1>5. h \in AllHeads /\ live \in Schemata
  BY <1>2 DEF AllHeads, Schemata
<1>6. b \in Dumps /\ b.n = 1 /\ b.heads = h
  BY <1>5 DEF Dumps, Schemata
<1>7. st \in MigStatus /\ st \notin PreMutation \cup {"none"} \cup Late
  BY MigrationSets DEF Late
<1>8. st \in HeldFrom /\ st # "failed" /\ st # "committed" /\ st = "migration_requires_recovery"
      /\ st # "none"
  BY DEF HeldFrom
<1>9. st \in {"none", "committed", "failed", "migration_requires_recovery"}
  OBVIOUS
<1> HIDE DEF before, after, h, b, st
<1>10. /\ e \in MigrationJournals /\ e.status = st /\ e.result = st /\ ~ e.resolved
       /\ e.hold = "active" /\ e.backup = 1 /\ e.from = h /\ e.before = before
  BY <1>4, <1>5, <1>7, <1>9 DEF MigrationJournals
<1> HIDE DEF e
<1>11. migrations \in Seq(MigrationJournals) /\ DOMAIN migrations = {1} /\ migrations[1] = e
  BY <1>2, <1>10
<1>12. UnresolvedMigrations = {1} /\ UnresolvedBootstraps = {}
  BY <1>8, <1>10, <1>11 DEF UnresolvedMigrations, UnresolvedBootstraps
<1>13. HostTypes
  BY <1>1, <1>2, <1>3, <1>5, <1>6, <1>11 DEF HostTypes
<1>14. MigrationsOK
  BY <1>2, <1>4, <1>7, <1>8, <1>10, <1>11 DEF MigrationsOK
<1>15. BaseInv /\ RestoreInv /\ BackupsInv
  BY <1>2, <1>6, <1>7, <1>10, <1>11, <1>12 DEF BaseInv, RestoreInv, BackupsInv
<1>16. OneUnresolved /\ LastUnresolved /\ TierInv /\ BootInv
  BY <1>3, <1>12 DEF OneUnresolved, LastUnresolved, TierInv, BootInv
<1> QED
  BY <1>1, <1>3, <1>13, <1>14, <1>15, <1>16 DEF HostInv, SavedOK

\* Whatever the host is when the tools are installed.
LEMMA HostInit == Init => HostInv
<1> SUFFICES ASSUME Init PROVE HostInv
  OBVIOUS
<1> DEFINE s == CHOOSE s \in Settings : TRUE
<1>1. s \in Values
  BY DEF Values
<1>2. /\ bootstraps = <<>> /\ configs = <<>> /\ rolloutLock = None /\ backupLock = None
      /\ proc = [p \in Procs |-> Idle]
  BY DEF Init
<1>3. \/ VirginHost(s)
      \/ \E r \in Deployed \ {None} : SettledHost(s, r) \/ \E t \in Releases : HostInDoubt(s, r, t)
  BY DEF Init
<1> HIDE DEF s
<1>4. \A r \in Deployed \ {None} : r \in Releases
  BY DeployedAssumption
<1> QED
  BY <1>1, <1>2, <1>3, <1>4, VirginKeeps, SettledKeeps, InDoubtKeeps

-----------------------------------------------------------------------------
(* The host: every step *)

\* Every step of a rollout, ...
LEMMA RolloutNextKeeps ==
    ASSUME HostInv, NEW p \in Procs, RolloutNext(p)
    PROVE  HostInv' /\ ResultsKept
BY RolloutStartKeeps, RolloutPlanKeeps, RolloutRefusedKeeps, RolloutAdvanceKeeps, RolloutStableKeeps,
   RolloutPublishKeeps, RolloutCommitKeeps, RolloutResultKeeps, RolloutErrorKeeps,
   RolloutErrorEarlyKeeps, RolloutFailedKeeps, HandlerRefusedKeeps, CleanupStartKeeps,
   CleanupRemoveKeeps, CleanupPublishKeeps, RollbackStartKeeps, RollbackAppKeeps,
   RollbackGatewayKeeps, RollbackResultKeeps, RollbackErrorKeeps, RollbackFailedKeeps
   DEF RolloutNext

\* ... and of a recovery.
LEMMA RecoverNextKeeps ==
    ASSUME HostInv, NEW p \in Procs, RecoverNext(p)
    PROVE  HostInv' /\ ResultsKept
BY RecoverStartKeeps, RecoverBeginKeeps, RecoverRefusedKeeps, RecoverAcceptKeeps,
   RecoverRollbackAppKeeps, RecoverRollbackGatewayKeeps, RecoverRollbackPublishKeeps,
   RecoverResolveKeeps, RecoverResultKeeps, RecoverErrorKeeps DEF RecoverNext

\* The operator's editor.
LEMMA EditEnvKeeps ==
    ASSUME HostInv, NEW s \in Settings, EditEnv(s)
    PROVE  HostInv' /\ ResultsKept
<1>0. HostTypes /\ LockInv /\ JournalsAreOwned /\ SavedOK /\ \A p \in Procs : ProcOK(p)
  BY DEF HostInv
<1>1. /\ config' = [config EXCEPT !.env = s] /\ proc' = proc
      /\ UNCHANGED <<hostVars, journalVars, backupVars, rolloutLock, backupLock>>
  BY DEF EditEnv
<1>2. config' \in Runtimes /\ config'.running = config.running
  BY <1>0, <1>1, ConfigPut DEF Values, HostTypes
<1>3. HostTypes'
  BY <1>0, <1>1, <1>2 DEF HostTypes, hostVars, journalVars, backupVars, ProcShape
<1>4. LockInv' /\ JournalsAreOwned'
  BY <1>0, <1>1 DEF LockInv, Locked, BackupLocked, JournalsAreOwned, Migrates
<1>5. SavedOK'
  BY <1>0, <1>1 DEF SavedOK, OneUnresolved, LastUnresolved, DeploymentsOK, EnvelopeInv, TierInv,
         TiersMatchJournal, MigrationsOK, BaseInv, RestoreInv, BootInv, BackupsInv, Vouched, Runs,
         UnresolvedDeployments, UnresolvedMigrations, UnresolvedBootstraps, hostVars, journalVars,
         backupVars
<1>6. \A p \in Procs : ProcOK(p)'
  <2> TAKE p \in Procs
  <2>0. ProcOK(p)
    BY <1>0
  <2>1. proc[p].op = "rollout" => RolloutOK(p)'
    BY <1>1, <2>0 DEF ProcOK, RolloutOK, Dep, GatesHold, Vouched, Runs, Compatible, hostVars, journalVars
  <2>2. proc[p].op = "recover" => RecoverOK(p)'
    BY <1>1, <2>0 DEF ProcOK, RecoverOK, Dep, Kept, Vouched, Runs, Recoverable, hostVars, journalVars
  <2>3. proc[p].op = "migrate" => MigrateOK(p)'
    BY <1>1, <2>0 DEF ProcOK, MigrateOK, Mig, Locked, hostVars, journalVars, backupVars
  <2>4. proc[p].op = "recover_migration" => MigrationRecoverOK(p)'
    BY <1>1, <2>0 DEF ProcOK, MigrationRecoverOK, Mig, UnresolvedMigrations, hostVars, journalVars
  <2>5. proc[p].op = "bootstrap" => BootstrapOK(p)'
    BY <1>1, <2>0 DEF ProcOK, BootstrapOK, hostVars, journalVars
  <2>6. proc[p].op = "config" => ConfigOK(p)'
    BY <1>1, <1>2, <2>0 DEF ProcOK, ConfigOK, Cfg, hostVars, journalVars
  <2>7. proc[p].op = "prune" => PruneOK(p)'
    BY <1>1, <2>0 DEF ProcOK, PruneOK, Held, Newest, Newer, PassedBackups, journalVars, backupVars
  <2> QED
    BY <1>1, <2>1, <2>2, <2>3, <2>4, <2>5, <2>6, <2>7 DEF ProcOK
<1>7. ResultsKept
  BY <1>1 DEF ResultsKept, journalVars
<1> QED
  BY <1>3, <1>4, <1>5, <1>6, <1>7 DEF HostInv

\* Nothing the invariant speaks of changes.
LEMMA HostStutters ==
    ASSUME HostInv, UNCHANGED vars
    PROVE  HostInv' /\ ResultsKept
<1>0. HostTypes /\ LockInv /\ JournalsAreOwned /\ SavedOK /\ \A p \in Procs : ProcOK(p)
  BY DEF HostInv
<1>1. /\ UNCHANGED <<current, live, app, gateway, deployments, migrations, bootstraps, configs, config>>
      /\ UNCHANGED <<backups, made, rolloutLock, backupLock, proc>>
  BY DEF vars
<1>3. HostTypes'
  BY <1>0, <1>1 DEF HostTypes, ProcShape
<1>4. LockInv' /\ JournalsAreOwned'
  BY <1>0, <1>1 DEF LockInv, Locked, BackupLocked, JournalsAreOwned, Migrates
<1>5. SavedOK'
  BY <1>0, <1>1 DEF SavedOK, OneUnresolved, LastUnresolved, DeploymentsOK, EnvelopeInv, TierInv,
         TiersMatchJournal, MigrationsOK, BaseInv, RestoreInv, BootInv, BackupsInv, Vouched, Runs,
         UnresolvedDeployments, UnresolvedMigrations, UnresolvedBootstraps
<1>6. \A p \in Procs : ProcOK(p)'
  <2> TAKE p \in Procs
  <2>0. ProcOK(p)
    BY <1>0
  <2>1. proc[p].op = "rollout" => RolloutOK(p)'
    BY <1>1, <2>0 DEF ProcOK, RolloutOK, Dep, GatesHold, Vouched, Runs, Compatible
  <2>2. proc[p].op = "recover" => RecoverOK(p)'
    BY <1>1, <2>0 DEF ProcOK, RecoverOK, Dep, Kept, Vouched, Runs, Recoverable
  <2>3. proc[p].op = "migrate" => MigrateOK(p)'
    BY <1>1, <2>0 DEF ProcOK, MigrateOK, Mig, Locked
  <2>4. proc[p].op = "recover_migration" => MigrationRecoverOK(p)'
    BY <1>1, <2>0 DEF ProcOK, MigrationRecoverOK, Mig, UnresolvedMigrations
  <2>5. proc[p].op = "bootstrap" => BootstrapOK(p)'
    BY <1>1, <2>0 DEF ProcOK, BootstrapOK
  <2>6. proc[p].op = "config" => ConfigOK(p)'
    BY <1>1, <2>0 DEF ProcOK, ConfigOK, Cfg
  <2>7. proc[p].op = "prune" => PruneOK(p)'
    BY <1>1, <2>0 DEF ProcOK, PruneOK, Held, Newest, Newer, PassedBackups
  <2> QED
    BY <1>1, <2>1, <2>2, <2>3, <2>4, <2>5, <2>6, <2>7 DEF ProcOK
<1>7. ResultsKept
  BY <1>1 DEF ResultsKept
<1> QED
  BY <1>3, <1>4, <1>5, <1>6, <1>7 DEF HostInv

\* Every step of the host.
LEMMA HostNext == HostInv /\ [Next]_vars => HostInv' /\ ResultsKept
<1> SUFFICES ASSUME HostInv, [Next]_vars PROVE HostInv' /\ ResultsKept
  OBVIOUS
<1>1. ASSUME NEW p \in Procs, Tool(p)
      PROVE  HostInv' /\ ResultsKept
  <2>1. CASE LockRefused(p)
    BY <2>1, LeaveKeeps DEF LockRefused
  <2> QED
    BY <1>1, <2>1, RolloutNextKeeps, RecoverNextKeeps, MigrateNextKeeps, MigrationRecoverNextKeeps,
       BootstrapNextKeeps, ConfigNextKeeps, BackupNextKeeps DEF Tool
<1>2. ASSUME NEW p \in Procs, Crash(p)
      PROVE  HostInv' /\ ResultsKept
  BY <1>2, LeaveKeeps DEF Crash
<1>3. CASE UNCHANGED vars
  BY <1>3, HostStutters
<1> QED
  BY <1>1, <1>2, <1>3, EditEnvKeeps DEF Next, Quiet

\* The invariant holds on every host.
THEOREM HostInvariance == Spec => []HostInv
<1> QED
  BY HostInit, HostNext, PTL DEF Spec

-----------------------------------------------------------------------------
(* The host: what follows *)

\* A set that has at most one element.
LEMMA AtMostOne ==
    ASSUME NEW S, \A i, j \in S : i = j
    PROVE  /\ Cardinality(S) \in {0, 1}
           /\ S = {} => Cardinality(S) = 0
<1>1. CASE S = {}
  BY <1>1, FS_EmptySet
<1>2. CASE S # {}
  <2>1. PICK x : x \in S
    BY <1>2
  <2>2. S = {x}
    BY <2>1
  <2>3. Cardinality(S) = 1
    BY <2>2, FS_Singleton
  <2> QED
    BY <1>2, <2>3
<1> QED
  BY <1>1, <1>2

\* The journals of a host are sound.
LEMMA InvSound == HostInv => JournalsAreSound
<1> SUFFICES ASSUME HostInv PROVE JournalsAreSound
  OBVIOUS
<1>0. HostTypes /\ SavedOK
  BY DEF HostInv
<1>1. AtMostOneUnresolved
  <2>1. /\ \A i, j \in UnresolvedDeployments : i = j
        /\ \A i, j \in UnresolvedMigrations : i = j
        /\ \A i, j \in UnresolvedBootstraps : i = j
        /\ UnresolvedDeployments = {} \/ UnresolvedMigrations = {}
        /\ UnresolvedDeployments = {} \/ UnresolvedBootstraps = {}
        /\ UnresolvedMigrations = {} \/ UnresolvedBootstraps = {}
    BY <1>0 DEF SavedOK, OneUnresolved
  <2>2. Cardinality(UnresolvedDeployments) \in {0, 1} /\ (UnresolvedDeployments = {} => Cardinality(UnresolvedDeployments) = 0)
    BY <2>1, AtMostOne
  <2>3. Cardinality(UnresolvedMigrations) \in {0, 1} /\ (UnresolvedMigrations = {} => Cardinality(UnresolvedMigrations) = 0)
    BY <2>1, AtMostOne
  <2>4. Cardinality(UnresolvedBootstraps) \in {0, 1} /\ (UnresolvedBootstraps = {} => Cardinality(UnresolvedBootstraps) = 0)
    BY <2>1, AtMostOne
  <2> QED
    BY <2>1, <2>2, <2>3, <2>4 DEF AtMostOneUnresolved
<1>2. TypeOK
  <2>1. \A i \in DOMAIN migrations :
          migrations[i].backup \in 0..made /\ migrations[i].hold \in {"none", "active", "released"}
    <3> TAKE i \in DOMAIN migrations
    <3>1. migrations[i] \in MigrationJournals /\ made \in Nat /\ migrations[i].backup <= made
      BY <1>0 DEF HostTypes, SavedOK, MigrationsOK
    <3> QED
      BY <3>1 DEF MigrationJournals
  <2>2. \A b \in backups : b.n \in 1..made
    <3> TAKE b \in backups
    <3>1. b \in Dumps /\ made \in Nat /\ b.n <= made
      BY <1>0 DEF HostTypes, SavedOK, BackupsInv
    <3> QED
      BY <3>1 DEF Dumps
  <2> QED
    BY <1>0, <2>1, <2>2 DEF TypeOK, HostTypes, Schemata
<1> QED
  BY <1>1, <1>2 DEF JournalsAreSound

\* What is saved is what runs.
LEMMA InvTruthful == HostInv => SavedStateIsTruthful
<1> SUFFICES ASSUME HostInv PROVE SavedStateIsTruthful
  OBVIOUS
<1>0. SavedOK /\ \A p \in Procs : ProcOK(p)
  BY DEF HostInv
<1>1. DatabaseSideIsTruthful
  BY <1>0 DEF SavedOK, BaseInv, DatabaseSideIsTruthful
<1>2. RunningAppIsVouched
  BY <1>0 DEF SavedOK, TierInv, RunningAppIsVouched, Blocked, Compatible
<1>3. ConfigOutcomeRuns
  <2> SUFFICES ASSUME NEW p \in Procs, proc[p].op = "config", proc[p].id # 0
               PROVE  /\ proc[p].pc \in {"commit", "result", "state"} => config.running = Cfg(p).target
                      /\ proc[p].pc = "rollback_result" /\ Cfg(p).status = "rolled_back" =>
                           config.running = Cfg(p).old
    BY DEF ConfigOutcomeRuns
  <2> QED
    BY <1>0 DEF ProcOK, ConfigOK
<1> QED
  BY <1>0, <1>1, <1>2, <1>3 DEF SavedStateIsTruthful, SavedOK

\* A migration in doubt has its backup.
LEMMA InvRestore == HostInv => RestorePointKept
BY DEF HostInv, SavedOK, RestoreInv, RestorePointKept, InDoubt, HeldFrom

\* The plan is what the gates allow.
LEMMA InvPlan == HostInv => PlanIsHonest
<1> SUFFICES ASSUME HostInv, ~ Blocked, NEW r \in Releases
             PROVE  /\ Plan(r) = "bootstrap" => BootstrapAllowed /\ StartsAfresh(r)
                    /\ Plan(r) = "first_rollout" => RolloutAllowed(r, TRUE)
                    /\ Plan(r) = "rollout" => RolloutAllowed(r, FALSE)
                    /\ Plan(r) = "migrate" => MigrationAllowed(r)
  BY DEF PlanIsHonest
<1>0. EnvelopeInv /\ BootInv
  BY DEF HostInv, SavedOK
<1>1. UnresolvedDeployments = {} /\ UnresolvedMigrations = {} /\ UnresolvedBootstraps = {}
  BY DEF Blocked
<1>2. CASE ~ Resolvable(current)
  BY <1>2 DEF Plan
<1>3. CASE Resolvable(current) /\ current = None
  <2>1. Plan(r) = InitialPlan(r)
    BY <1>1, <1>3 DEF Plan
  <2>2. CASE app # None \/ gateway # None
    <3>1. Freshness = "application_present"
      BY <2>2 DEF Freshness
    <3> QED
      BY <1>1, <2>1, <3>1 DEF InitialPlan
  <2>3. CASE app = None /\ gateway = None /\ live = NoSchema
    <3>1. Freshness = "uninitialized"
      BY <2>3 DEF Freshness
    <3>2. Plan(r) = "bootstrap"
      BY <1>1, <2>1, <3>1 DEF InitialPlan
    <3>3. BootstrapAllowed /\ StartsAfresh(r)
      BY <1>0, <1>1, <1>3, <2>3 DEF BootstrapAllowed, StartsAfresh, BootInv
    <3> QED
      BY <3>2, <3>3
  <2>4. CASE app = None /\ gateway = None /\ live # NoSchema
    <3>1. Freshness = "initialized"
      BY <2>4 DEF Freshness
    <3>2. \/ Plan(r) = "first_rollout" /\ live = SourceHeads[r]
          \/ Plan(r) = "refused"
      BY <1>1, <2>1, <3>1 DEF InitialPlan
    <3> QED
      BY <1>3, <2>4, <3>2 DEF RolloutAllowed
  <2> QED
    BY <2>2, <2>3, <2>4
<1>4. CASE Resolvable(current) /\ current # None
  <2>1. \/ Plan(r) = "refused" \/ Plan(r) = "nothing"
        \/ Plan(r) = "rollout" /\ live = current.heads /\ live = SourceHeads[r] /\ r # current.app
        \/ /\ Plan(r) = "migrate" /\ live = current.heads /\ live # SourceHeads[r]
           /\ <<live, SourceHeads[r]>> \in Transitions
    BY <1>1, <1>4 DEF Plan
  <2>2. current.app \in current.envelope
    BY <1>0, <1>4 DEF EnvelopeInv
  <2> QED
    BY <1>4, <2>1, <2>2 DEF RolloutAllowed, MigrationAllowed, Compatible
<1> QED
  BY <1>2, <1>3, <1>4

\* What prune may still delete is neither the newest backup nor the newest verified one,
\* whatever became of the backups since the candidates were selected.
LEMMA DeletesAnOlder ==
    ASSUME HostInv, NEW p \in Procs, PruneDelete(p)
    PROVE  /\ PassedBackups # {} => PassedBackups' # {}
           /\ Newest(backups) \subseteq backups'
<1>1. proc[p].op = "prune" /\ proc[p].op \in BackupOps /\ proc[p].pc # "lock"
  BY DEF PruneDelete, At, BackupOps
<1>2. PruneOK(p) /\ backups \subseteq Dumps
  BY <1>1, BackupFacts
<1>3. PICK b \in proc[p].saw : backups' \in {backups, backups \ {b}}
  BY DEF PruneDelete, Newest
<1>4. b \notin Newest(backups) /\ b \notin Newest(PassedBackups)
  BY <1>1, <1>2 DEF PruneOK
<1>5. Newest(backups) \subseteq backups'
  BY <1>3, <1>4 DEF Newest
<1>6. ASSUME PassedBackups # {} PROVE PassedBackups' # {}
  <2>1. CASE b \notin PassedBackups \/ backups' = backups
    BY <1>3, <1>6, <2>1 DEF PassedBackups
  <2>2. CASE b \in PassedBackups
    <3>1. PICK d \in PassedBackups : d.n > b.n
      BY <1>4, <2>2 DEF Newest, Newer
    <3>2. d # b
      BY <1>2, <2>2, <3>1 DEF PassedBackups, Dumps
    <3> QED
      BY <1>3, <3>1, <3>2 DEF PassedBackups
  <2> QED
    BY <2>1, <2>2
<1> QED
  BY <1>5, <1>6

-----------------------------------------------------------------------------
(* The three parts side by side *)

\* A behaviour of the composite is one of each of its parts.
LEMMA PartsRun == MCSpec => Spec /\ VaultSpec /\ ProcessSpec
<1>1. MCInit => Init /\ VaultInit /\ ProcessInit
  BY DEF MCInit
<1>2. [MCNext]_allVars => [Next]_vars /\ [VaultNext]_vaultVars /\ [ProcessNext]_processVars
  <2> SUFFICES ASSUME [MCNext]_allVars
               PROVE  [Next]_vars /\ [VaultNext]_vaultVars /\ [ProcessNext]_processVars
    OBVIOUS
  <2>1. CASE UNCHANGED allVars
    BY <2>1 DEF allVars
  <2>2. CASE Host(Next)
    BY <2>2 DEF Host
  <2>3. CASE Vault(VaultNext)
    BY <2>3 DEF Vault
  <2>4. CASE Process(ProcessNext)
    BY <2>4 DEF Process
  <2>5. CASE Over
    BY <2>5 DEF Over, allVars
  <2> QED
    BY <2>1, <2>2, <2>3, <2>4, <2>5 DEF MCNext
<1> QED
  BY <1>1, <1>2, PTL DEF MCSpec, Spec, VaultSpec, ProcessSpec

\* For any releases, heads, settings and number of tools, of journals and of faults: at
\* most one transaction of each kind is unresolved, and no two that exclude each other;
\* a journal says how far its transaction came.
THEOREM SoundJournals == MCSpec => []JournalsAreSound
<1> QED
  BY PartsRun, HostInvariance, InvSound, PTL

\* current.json, the tier records and the saved configuration tell what runs and what
\* schema the database has, wherever a tool was killed.
THEOREM TruthfulState == MCSpec => []SavedStateIsTruthful
<1> QED
  BY PartsRun, HostInvariance, InvTruthful, PTL

\* A migration in doubt has its backup, held and with the heads it started from, and what
\* the backup root says of it is true.
THEOREM WayBack == MCSpec => []WayBackIsKept
<1>1. RestorePointKept /\ VaultIsSound => WayBackIsKept
  BY DEF WayBackIsKept
<1> QED
  BY <1>1, PartsRun, HostInvariance, InvRestore, SoundVault, PTL

\* The plan promises only what the gates of the other commands allow, and a command is
\* reported as it ended.
THEOREM HonestAnswers == MCSpec => []AnswersAreHonest
<1>1. PlanIsHonest /\ ReportIsHonest => AnswersAreHonest
  BY DEF AnswersAreHonest
<1> QED
  BY <1>1, PartsRun, HostInvariance, InvPlan, HonestReport, PTL

\* Pruning leaves the newest backup and a verified one if there was one, and no tool
\* rewrites the result of a transaction, not even one that lost its lock on the way.
THEOREM NothingUndone == MCSpec => NothingIsUndone
<1>1. HostInv /\ [Next]_vars =>
        [ (\E p \in Procs : PruneDelete(p)) =>
            /\ PassedBackups # {} => PassedBackups' # {}
            /\ Newest(backups) \subseteq backups' ]_vars
  BY DeletesAnOlder
<1>2. HostInv /\ [Next]_vars =>
        [ /\ \A i \in DOMAIN deployments :
               deployments[i].result # "none" => deployments'[i].result = deployments[i].result
          /\ \A i \in DOMAIN migrations :
               migrations[i].result # "none" => migrations'[i].result = migrations[i].result
          /\ \A i \in DOMAIN bootstraps :
               bootstraps[i].result # "none" => bootstraps'[i].result = bootstraps[i].result ]_vars
  BY HostNext DEF ResultsKept
<1>3. Spec => PruneKeepsTheBest
  BY <1>1, HostInvariance, PTL DEF Spec, PruneKeepsTheBest
<1>4. Spec => ResultsAreFinal
  BY <1>2, HostInvariance, PTL DEF Spec, ResultsAreFinal
<1> QED
  BY <1>3, <1>4, PartsRun, PTL DEF NothingIsUndone
=============================================================================
