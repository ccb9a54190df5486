--------------------------- MODULE BackupRetention ---------------------------
(***************************************************************************)
(* The operator's own use of scripts/fetchnow_pg_backup beside the release *)
(* tools: create, verify and prune.  They share the backup root with the   *)
(* backup session of a migration and exclude it only by BackupRootLock,    *)
(* which none of them waits for.  A backup is its creation number, the     *)
(* Alembic heads inside the dump and its latest attestation.               *)
(***************************************************************************)
EXTENDS ReleaseState

retentionOnly == <<hostVars, journalVars, config, ops>>

\* active_hold_for_backup
Held(n) == \E i \in DOMAIN migrations :
             migrations[i].backup = n /\ migrations[i].hold = "active"

\* Newest first, as the sort by backup_id gives it.
Newer(b, set) == {c \in set : c.n > b.n}
Newest(set) == {b \in set : Newer(b, set) = {}}
PassedBackups == {b \in backups : b.verify = "passed"}

\* Mutant: the newest restore-verified backup is not protected.
PruneCandidatesByCount ==
    {b \in backups :
       ~Held(b.n) /\ Cardinality(Newer(b, backups)) >= KeepBackups}

\* select_prune_candidates: the newest backup, the newest restore-verified
\* one, the held ones and the keep newest stay.
PruneCandidates ==
    {b \in backups :
       /\ b \notin Newest(backups)
       /\ b \notin Newest(PassedBackups)
       /\ ~Held(b.n)
       /\ Cardinality(Newer(b, backups)) >= KeepBackups}

\* create, verify and prune --apply take the lock or give up at once.
BackupStart(p, op, n, heads) ==
    /\ op = "verify" => \E b \in backups : b.n = n
    /\ Start(p, op, None, None, n, heads)
    /\ UNCHANGED <<hostVars, journalVars, backupVars, config, rolloutLock,
                   backupLock, faults>>

BackupLock(p) ==
    /\ proc[p].op \in {"backup", "verify", "prune"} /\ proc[p].pc = "lock"
    /\ IF backupLock = None
       THEN /\ backupLock' = p
            /\ proc' = [proc EXCEPT ![p].pc = "run",
                          ![p].saw = IF proc[p].op = "prune"
                                     THEN PruneCandidates ELSE @]
            /\ UNCHANGED rolloutLock
       ELSE Leave(p)
    /\ UNCHANGED <<backupVars, retentionOnly, faults>>

\* _create_backup_in_session publishes the directory with one rename, or
\* removes the incomplete one.
BackupCreate(p) ==
    /\ At(p, "backup", "run")
    /\ \/ /\ made' = made + 1
          /\ backups' = backups \union
               {[n |-> made + 1, heads |-> live, verify |-> "none"]}
          /\ UNCHANGED faults
       \/ Fault /\ UNCHANGED backupVars
    /\ Leave(p)
    /\ UNCHANGED retentionOnly

\* _verify_backup_in_session: the restored heads must be the expected ones;
\* any other failure publishes a failed attestation too.  A backup removed
\* since the command was given is an error.
BackupVerify(p) ==
    /\ At(p, "verify", "run")
    /\ \/ /\ backups' = {IF b.n = proc[p].id
                         THEN [b EXCEPT !.verify = IF b.heads = proc[p].saw
                                                   THEN "passed" ELSE "failed"]
                         ELSE b : b \in backups}
          /\ UNCHANGED faults
       \/ /\ Fault
          /\ backups' = {IF b.n = proc[p].id THEN [b EXCEPT !.verify = "failed"]
                         ELSE b : b \in backups}
    /\ Leave(p)
    /\ UNCHANGED <<made, retentionOnly>>

\* prune_backups deletes the candidates one by one and looks at the holds
\* again before each; what fails is reported at the end.
PruneDelete(p) ==
    /\ At(p, "prune", "run")
    /\ proc[p].saw # {}
    /\ \E b \in Newest(proc[p].saw) :
         /\ \/ /\ backups' = IF Held(b.n) THEN backups ELSE backups \ {b}
               /\ UNCHANGED faults
            \/ Fault /\ backups' \in {backups, backups \ {b}}
         /\ proc' = [proc EXCEPT ![p].saw = @ \ {b}]
    /\ UNCHANGED <<made, retentionOnly, rolloutLock, backupLock>>

PruneEnd(p) ==
    /\ At(p, "prune", "run")
    /\ proc[p].saw = {}
    /\ Leave(p)
    /\ UNCHANGED <<backupVars, retentionOnly, faults>>

BackupNext(p) ==
    \/ BackupStart(p, "backup", 0, None) \/ BackupStart(p, "prune", 0, None)
    \/ \E b \in backups, h \in AllHeads : BackupStart(p, "verify", b.n, h)
    \/ BackupLock(p) \/ BackupCreate(p) \/ BackupVerify(p)
    \/ PruneDelete(p) \/ PruneEnd(p)
=============================================================================
