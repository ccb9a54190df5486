----------------------------- MODULE BackupVault -----------------------------
(***************************************************************************)
(* One backup root (scripts/fetchnow_pg_backup) step by step: create,      *)
(* verify, prune, and the session of a migration, which creates, verifies  *)
(* and holds a backup under one lock.  BackupRootLock admits one of them   *)
(* at a time and refuses the others; each may meet an error at any command *)
(* or file operation, and may be killed between two of them.               *)
(*                                                                         *)
(* BackupRetention is the same root as the release tools see it, with one  *)
(* step per command.                                                       *)
(***************************************************************************)
EXTENDS Naturals, Sequences, FiniteSets

CONSTANTS Schemas,       \* Alembic head sets
          Unread,        \* no heads have been read
          Slots,         \* bound: backups ever made, 1..Slots
          Keep,          \* the keep count of prune
          MaxSessions,   \* bound: sessions opened
          MaxTroubles    \* bound: errors and kills

ASSUME VaultAssumption ==
    /\ Unread \notin Schemas
    /\ Slots \in Nat \ {0} /\ Keep \in Nat \ {0}
    /\ MaxSessions \in Nat /\ MaxTroubles \in Nat

VARIABLES vault,      \* the directories of the backup root, by creation number
          holds,      \* retention holds
          restores,   \* temporary databases in PostgreSQL, by session number
          session,    \* the session that has the lock, or Closed
          condemned,  \* history: backups that a prune has begun to remove
          sessions, troubles

vaultVars == <<vault, holds, restores, session, condemned, sessions, troubles>>

\* A directory: under no name, its incomplete name or its final one, the files
\* in it, the schema in its dump, whether the dump still has the size and
\* digest of the manifest, and its attestations in the order of their writing.
NoDir == [name |-> "none", files |-> {}, schema |-> Unread, intact |-> TRUE, proofs |-> <<>>]
Parts == {"dump", "manifest"}
Backups == 1..Slots

\* VerificationAttestationV2, and the VerifyResult returned with it.
Attestation(s, result) ==
    [result |-> result, expected |-> s.expected, static |-> s.static, restored |-> s.restored,
     checks |-> s.checks, cleanup |-> s.cleanup, database |-> s.database]

Closed == [op |-> "none", pc |-> "none", b |-> 0, expected |-> Unread, static |-> Unread,
           restored |-> Unread, checks |-> FALSE, cleanup |-> FALSE, database |-> 0, todo |-> {}]

VaultInit ==
    /\ vault = [b \in Backups |-> NoDir]
    /\ holds = {} /\ restores = {}
    /\ session = Closed
    /\ condemned = {}
    /\ sessions = 0 /\ troubles = 0

SessionAt(pc) == session.pc = pc
Step(pc) == session' = [session EXCEPT !.pc = pc]
Close == session' = Closed
Dir(b, d) == vault' = [vault EXCEPT ![b] = d]
Trouble == troubles < MaxTroubles /\ troubles' = troubles + 1

history == <<condemned, sessions>>

-----------------------------------------------------------------------------
(* What a reader of the root sees *)

\* list_backups: incomplete names, and directories without a manifest that
\* loads, are never valid.
Valid == {b \in Backups : vault[b].name = "final" /\ "manifest" \in vault[b].files}

\* latest_attestation sorts by file name, that is by second, and within one by
\* "failed" before "passed"; the model has at most one attestation a second.
Latest(b) ==
    IF vault[b].proofs = <<>> THEN "none" ELSE vault[b].proofs[Len(vault[b].proofs)].result

HoldOf(b) == {h \in holds : h.b = b /\ h.state = "acquired"}

NewestOf(S) == {b \in S : \A c \in S : c <= b}

\* select_prune_candidates
Candidates ==
    {b \in Valid : /\ b \notin NewestOf(Valid) \cup NewestOf({v \in Valid : Latest(v) = "passed"})
                   /\ HoldOf(b) = {}
                   /\ Cardinality({c \in Valid : c > b}) >= Keep}

-----------------------------------------------------------------------------
(* Sessions *)

\* A number that no backup ever had.
Free(b) == vault[b] = NoDir /\ b \notin condemned

FirstPc == [create |-> "mkdir", migrate |-> "mkdir", verify |-> "load", prune |-> "delete",
            release |-> "release"]

\* open_backup_root_session: the lock is taken or the tool gives up.  The
\* operator names the backup and the heads; a migration takes the saved heads.
OpenSession(op, b, expected, static) ==
    /\ session = Closed /\ sessions < MaxSessions
    /\ op \in {"create", "migrate"} => \E free \in Backups : Free(free)
    /\ sessions' = sessions + 1
    /\ session' = [Closed EXCEPT !.op = op, !.pc = FirstPc[op], !.b = b, !.expected = expected,
                                 !.static = static,
                                 !.todo = IF op = "prune" THEN Candidates ELSE {}]
    /\ UNCHANGED <<vault, holds, restores, condemned, troubles>>

\* The process is killed: the kernel releases the lock, nothing else is undone.
KillSession ==
    /\ session # Closed /\ Trouble
    /\ Close
    /\ UNCHANGED <<vault, holds, restores, history>>

-----------------------------------------------------------------------------
(* _create_backup_in_session *)

\* The checks of the service, the free space and the name, then the incomplete
\* directory.
MakeDir ==
    /\ SessionAt("mkdir")
    /\ \/ \E b \in Backups :
            /\ Free(b) /\ \A c \in 1..(b - 1) : ~ Free(c)
            /\ Dir(b, [NoDir EXCEPT !.name = "incomplete"])
            /\ session' = [session EXCEPT !.pc = "dump", !.b = b]
            /\ UNCHANGED troubles
       \/ Trouble /\ Close /\ UNCHANGED vault
    /\ UNCHANGED <<holds, restores, history>>

\* An error before the rename: the finally clause removes the directory.
Undo == Trouble /\ Dir(session.b, NoDir) /\ Close

\* pg_dump of whatever schema the database has, the digest, pg_restore -l.
Dump ==
    /\ SessionAt("dump")
    /\ \/ \E h \in Schemas :
            Dir(session.b, [vault[session.b] EXCEPT !.files = {"dump"}, !.schema = h])
          /\ Step("manifest") /\ UNCHANGED troubles
       \/ Undo
    /\ UNCHANGED <<holds, restores, history>>

WriteManifest ==
    /\ SessionAt("manifest")
    /\ \/ Dir(session.b, [vault[session.b] EXCEPT !.files = Parts])
          /\ Step("publish") /\ UNCHANGED troubles
       \/ Undo
    /\ UNCHANGED <<holds, restores, history>>

\* atomic_publish_directory; an error of the fsync after the rename is an
\* error of a backup that is there.  A migration goes on to verify it.
Publish ==
    /\ SessionAt("publish")
    /\ \/ Undo
       \/ /\ Dir(session.b, [vault[session.b] EXCEPT !.name = "final"])
          /\ \/ /\ session' = IF session.op = "migrate" THEN [session EXCEPT !.pc = "load"] ELSE Closed
                /\ UNCHANGED troubles
             \/ Trouble /\ Close
    /\ UNCHANGED <<holds, restores, history>>

\* External: the dump on disk decays.
Decay(b) ==
    /\ vault[b].name = "final" /\ vault[b].intact /\ Trouble
    /\ Dir(b, [vault[b] EXCEPT !.intact = FALSE])
    /\ UNCHANGED <<holds, restores, session, history>>

-----------------------------------------------------------------------------
(* _verify_backup_in_session *)

\* _load_and_check_backup_dir raises and attests nothing.  Heads that are not
\* those of the migrations directory, or a dump of another size or digest, are
\* attested as failed before any database is made.
Load ==
    /\ SessionAt("load")
    /\ IF session.b \in Valid /\ "dump" \in vault[session.b].files
       THEN Step(IF session.expected = session.static /\ vault[session.b].intact
                 THEN "createdb" ELSE "attest_failed")
       ELSE Close
    /\ UNCHANGED <<vault, holds, restores, history, troubles>>

\* The checks of the service and of the archive; then createdb with a fresh
\* name.  A createdb that fails is outside the try that drops the database,
\* also when the database was created.
CreateDatabase ==
    /\ SessionAt("createdb")
    /\ \/ /\ restores' = restores \cup {sessions}
          /\ session' = [session EXCEPT !.pc = "restore", !.database = sessions]
          /\ UNCHANGED troubles
       \/ Trouble /\ Step("attest_failed") /\ UNCHANGED restores
       \/ /\ Trouble
          /\ restores' \in {restores, restores \cup {sessions}}
          /\ session' = [session EXCEPT !.pc = "attest_failed", !.database = sessions]
    /\ UNCHANGED <<vault, holds, history>>

\* Every error from here on goes through the finally clause to "drop"; a
\* verification that succeeded goes there with its checks passed.
Fails == Trouble /\ Step("drop")

Restore ==
    /\ SessionAt("restore")
    /\ \/ Step("heads") /\ UNCHANGED troubles
       \/ Fails
    /\ UNCHANGED <<vault, holds, restores, history>>

\* Mutant: the restored heads are recorded and not compared.
ReadAnyHeads ==
    /\ SessionAt("heads")
    /\ \/ session' = [session EXCEPT !.pc = "checks", !.restored = vault[session.b].schema]
          /\ UNCHANGED troubles
       \/ Fails
    /\ UNCHANGED <<vault, holds, restores, history>>

\* read_alembic_version_heads of the restored database, compared as sets.
ReadHeads ==
    /\ SessionAt("heads")
    /\ \/ /\ session' = [session EXCEPT !.restored = vault[session.b].schema,
                          !.pc = IF vault[session.b].schema = session.expected
                                 THEN "checks" ELSE "drop"]
          /\ UNCHANGED troubles
       \/ Fails
    /\ UNCHANGED <<vault, holds, restores, history>>

\* run_table_semantic_checks
Checks ==
    /\ SessionAt("checks")
    /\ \/ session' = [session EXCEPT !.pc = "drop", !.checks = TRUE] /\ UNCHANGED troubles
       \/ Fails
    /\ UNCHANGED <<vault, holds, restores, history>>

\* drop_database, in the finally: if it fails, the verification has failed.
DropDatabase ==
    /\ SessionAt("drop")
    /\ \/ /\ restores' = restores \ {session.database}
          /\ session' = [session EXCEPT !.cleanup = TRUE,
                          !.pc = IF session.checks THEN "attest_passed" ELSE "attest_failed"]
          /\ UNCHANGED troubles
       \/ /\ Trouble
          /\ restores' \in {restores, restores \ {session.database}}
          /\ Step("attest_failed")
    /\ UNCHANGED <<vault, holds, history>>

Record(result) ==
    Dir(session.b, [vault[session.b] EXCEPT !.proofs = Append(@, Attestation(session, result))])

\* write_attestation under a name of its own.  A migration goes on to take its
\* hold, which asks for a passed exact-head proof with its path.
AttestPassed ==
    /\ SessionAt("attest_passed")
    /\ \/ /\ Record("passed") /\ UNCHANGED troubles
          /\ IF session.op = "migrate" THEN Step("hold") ELSE Close
       \/ Trouble /\ Close /\ UNCHANGED vault
    /\ UNCHANGED <<holds, restores, history>>

\* _publish_failed_v2: an attestation that cannot be written is left out of
\* the result.
AttestFailed ==
    /\ SessionAt("attest_failed")
    /\ \/ Record("failed") /\ UNCHANGED troubles
       \/ Trouble /\ UNCHANGED vault
    /\ Close
    /\ UNCHANGED <<holds, restores, history>>

\* acquire_retention_hold: acquired.json appears complete or not at all.
AcquireHold ==
    /\ SessionAt("hold")
    /\ \/ /\ holds' = holds \cup {[b |-> session.b, state |-> "acquired",
                                   proof |-> Len(vault[session.b].proofs)]}
          /\ UNCHANGED troubles
       \/ Trouble /\ UNCHANGED holds
    /\ Close
    /\ UNCHANGED <<vault, restores, history>>

\* release_retention_hold: released.json beside acquired.json, written once.
ReleaseHold ==
    /\ SessionAt("release")
    /\ \/ /\ \E h \in HoldOf(session.b) :
               holds' = (holds \ {h}) \cup {[h EXCEPT !.state = "released"]}
          /\ UNCHANGED troubles
       \/ Trouble /\ UNCHANGED holds
    /\ Close
    /\ UNCHANGED <<vault, restores, history>>

-----------------------------------------------------------------------------
(* prune_backups --apply *)

\* The newest candidate first, with its manifest and its holds looked at again.
PickBackup ==
    /\ SessionAt("delete") /\ session.todo # {}
    /\ \E b \in NewestOf(session.todo) :
         IF "manifest" \in vault[b].files /\ HoldOf(b) = {}
         THEN /\ session' = [session EXCEPT !.pc = "remove", !.b = b, !.todo = @ \ {b}]
              /\ condemned' = condemned \cup {b}
         ELSE /\ session' = [session EXCEPT !.todo = @ \ {b}]
              /\ UNCHANGED condemned
    /\ UNCHANGED <<vault, holds, restores, sessions, troubles>>

\* remove_directory_tree removes one entry after the other and then the
\* directory; an error ends it and prune goes on with the next candidate.
RemoveEntry ==
    /\ SessionAt("remove")
    /\ LET d == vault[session.b]
       IN  \/ /\ \E f \in d.files : Dir(session.b, [d EXCEPT !.files = @ \ {f}])
              /\ UNCHANGED <<session, troubles>>
           \/ /\ d.proofs # <<>>
              /\ Dir(session.b, [d EXCEPT !.proofs = <<>>])
              /\ UNCHANGED <<session, troubles>>
           \/ /\ d.files = {} /\ d.proofs = <<>>
              /\ Dir(session.b, NoDir)
              /\ Step("delete") /\ UNCHANGED troubles
           \/ /\ Trouble
              /\ Step("delete") /\ UNCHANGED vault
    /\ UNCHANGED <<holds, restores, history>>

PruneDone ==
    /\ SessionAt("delete") /\ session.todo = {}
    /\ Close
    /\ UNCHANGED <<vault, holds, restores, history, troubles>>

VaultStep ==
    \/ MakeDir \/ Dump \/ WriteManifest \/ Publish
    \/ Load \/ CreateDatabase \/ Restore \/ ReadHeads \/ Checks \/ DropDatabase
    \/ AttestPassed \/ AttestFailed \/ AcquireHold \/ ReleaseHold
    \/ PickBackup \/ RemoveEntry \/ PruneDone

VaultNext ==
    \/ OpenSession("create", 0, Unread, Unread) \/ OpenSession("prune", 0, Unread, Unread)
    \/ \E b \in Backups, e \in Schemas, s \in Schemas :
         /\ vault[b].name = "final"
         /\ OpenSession("verify", b, e, s)
    \/ \E e \in Schemas, s \in Schemas : OpenSession("migrate", 0, e, s)
    \/ \E b \in Backups : HoldOf(b) # {} /\ OpenSession("release", b, Unread, Unread)
    \/ VaultStep \/ KillSession
    \/ \E b \in Backups : Decay(b)

VaultSpec == VaultInit /\ [][VaultNext]_vaultVars

-----------------------------------------------------------------------------
(* Properties *)

\* A directory under its final name has its manifest and its dump unless a
\* prune has begun to remove it: no error and no kill publishes half a backup.
PublishedIsWhole ==
    \A b \in Backups :
        vault[b].name = "final" /\ b \notin condemned =>
            vault[b].files = Parts /\ vault[b].schema \in Schemas

\* A passed attestation is an exact-head proof: the schema in the dump, read
\* back from a database that was restored from it and has been dropped, is
\* the expected one and the one of the migrations directory.
PassedIsProof ==
    \A b \in Backups : \A i \in DOMAIN vault[b].proofs :
        LET a == vault[b].proofs[i]
        IN  a.result = "passed" =>
                /\ a.expected = a.static /\ a.restored = a.expected
                /\ a.restored = vault[b].schema
                /\ a.checks /\ a.cleanup /\ a.database \notin restores

\* A temporary database that outlives its session, because the session was
\* killed or createdb or dropdb failed, is none that an attestation reports as
\* dropped.
LeftoversAreReported ==
    \A d \in restores \ {session.database}, b \in Backups : \A i \in DOMAIN vault[b].proofs :
        vault[b].proofs[i].database = d => ~ vault[b].proofs[i].cleanup

\* An active hold keeps what a recovery would restore from: the backup with
\* its dump, and the passed attestation the hold names.
HeldBackupStays ==
    \A h \in holds :
        h.state = "acquired" =>
            /\ vault[h.b].name = "final" /\ vault[h.b].files = Parts
            /\ h.proof \in DOMAIN vault[h.b].proofs
            /\ vault[h.b].proofs[h.proof].result = "passed"

\* What the backup root says of its backups can be relied on.
VaultIsSound == PublishedIsWhole /\ PassedIsProof /\ LeftoversAreReported /\ HeldBackupStays
=============================================================================
