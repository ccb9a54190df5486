---------------------------- MODULE ArtifactStore ----------------------------
(***************************************************************************)
(* The artifact directory shared by the workers: attempt workspaces,       *)
(* staging directories and published artifacts, and the hygiene pass that  *)
(* deletes what the database no longer points to.                          *)
(*                                                                         *)
(* A pass reads the active claims and then the referenced artifacts, two   *)
(* statements of one READ COMMITTED transaction, and acts on what it read  *)
(* later, entry by entry, while executors of other workers publish and     *)
(* commit.  publish with the cleanup after it, and reconcile, run without  *)
(* an await: they exclude each other in one worker, not between workers.   *)
(*                                                                         *)
(* A directory is named by the attempt, (job, fence), that made it.  Of    *)
(* the download queue only what matters here is kept; DownloadJobs has the *)
(* leases, the budget and the TTL that decide when a claim ends.           *)
(***************************************************************************)
EXTENDS Integers, FiniteSets

CONSTANTS Jobs,        \* download job ids
          Workers,     \* worker processes, each with one executor
          Grace,       \* orphan_grace_seconds
          MaxPass,     \* longest time from a pass's reads to its sweep
          MaxCopy,     \* longest time publish takes to copy an artifact
          SweepLimit,  \* limit of reconcile (64 in the code)
          MaxClaims,   \* bound: claims of one job
          MaxTime,     \* bound: the clock stops here
          MaxFaults    \* bound: crashes and filesystem errors

\* The grace period has to cover both times; nothing in the code enforces it.
ASSUME StoreAssumption ==
    /\ Grace \in Nat \ {0}
    /\ MaxPass \in Nat /\ MaxPass < Grace
    /\ MaxCopy \in Nat /\ MaxCopy < Grace
    /\ SweepLimit \in Nat \ {0}
    /\ MaxClaims \in Nat
    /\ MaxTime \in Nat
    /\ MaxFaults \in Nat

VARIABLES clock,   \* the host's clock, and the mtime it gives
          row,     \* media_download_jobs: state, fence and artifact
          disk,    \* entries of the managed root
          exec,    \* the executor of each worker
          pass,    \* the hygiene pass of each worker
          faults   \* injected faults (bounded by MaxFaults)

vars == <<clock, row, disk, exec, pass, faults>>

Null == -1

\* "open": claimable; "over": failed, cancelled or expired.
Rows == [state : {"open", "running", "ready", "over"}, fence : Nat,
         artifact : Nat \cup {Null}]

\* An entry is whole until its removal has failed half-way.
Entries == [kind : {"workspace", "partial", "published"}, job : Jobs,
            fence : Nat, mtime : Nat, whole : {"yes", "no"}]

Ids == Jobs \X Nat
Id(x) == <<x.job, x.fence>>

\* In execute: before the workspace is made, downloading into it, copying into
\* the staging directory, published, workspace removed and about to commit
\* ready, about to record a failure, in the finally clause.
ExecPcs == {"idle", "start", "working", "copying", "published", "commit",
            "failing", "closing"}
Execs == [pc : ExecPcs, job : Jobs, fence : Nat]

\* A pass: claims read, references read and expired artifacts being deleted,
\* sweeping.  `at` is the time of the reads, then the `now` of the sweep.
Passes == [pc : {"idle", "fences", "deleting", "sweeping"}, at : Nat,
           fences : SUBSET Ids, refs : SUBSET Ids, expired : SUBSET Ids,
           removed : Nat]

NoPass == [pc |-> "idle", at |-> 0, fences |-> {}, refs |-> {},
           expired |-> {}, removed |-> 0]

-----------------------------------------------------------------------------
Entry(kind, e, mtime) ==
    [kind |-> kind, job |-> e.job, fence |-> e.fence, mtime |-> mtime,
     whole |-> "yes"]

\* What a removal that failed leaves: all of it, or a part with a new mtime.
Remains(d) == {d, [d EXCEPT !.whole = "no", !.mtime = clock]}

Of(kind, e) == {d \in disk : d.kind = kind /\ Id(d) = Id(e)}

\* The claim of the executor is still the one in the database.
Current(e) == row[e.job].state = "running" /\ row[e.job].fence = e.fence

\* list_active_fences and list_referenced_artifact_ids.
ActiveFences(rows) == {<<j, rows[j].fence>> : j \in {k \in Jobs : rows[k].state = "running"}}
Referenced(rows) == {<<j, rows[j].artifact>> : j \in {k \in Jobs : rows[k].artifact # Null}}

\* Mutant: no grace period.
AgedAtOnce(d, now) == now - d.mtime >= 0

AgedOut(d, now) == now - d.mtime >= Grace

\* Mutant: the references are not looked at.
KeepActiveOnly(d, p) ==
    /\ d.kind \in {"workspace", "published"} /\ d.whole = "yes"
    /\ Id(d) \in p.fences

\* What reconcile keeps whatever its age: the workspaces of active attempts,
\* the publications that are referenced or of active attempts.  A staging
\* directory and a publication without a valid manifest go.
Kept(d, p) ==
    \/ d.kind = "workspace" /\ Id(d) \in p.fences
    \/ d.kind = "published" /\ d.whole = "yes" /\ Id(d) \in p.refs \cup p.fences

Candidates(p) == {d \in disk : AgedOut(d, p.at) /\ ~Kept(d, p)}

-----------------------------------------------------------------------------
Init ==
    /\ clock = 0
    /\ row = [j \in Jobs |-> [state |-> "open", fence |-> 0, artifact |-> Null]]
    /\ disk = {}
    /\ exec \in [Workers -> [pc : {"idle"}, job : Jobs, fence : {0}]]
    /\ pass = [w \in Workers |-> NoPass]
    /\ faults = 0

Fault ==
    /\ faults < MaxFaults
    /\ faults' = faults + 1

Goto(w, pc) ==
    exec' = [exec EXCEPT ![w].pc = pc, ![w].fence = IF pc = "idle" THEN 0 ELSE @]

\* Time passes, within what the two assumptions on durations allow.
Tick ==
    /\ clock < MaxTime
    /\ \A w \in Workers :
          /\ pass[w].pc \in {"fences", "deleting"} => clock - pass[w].at < MaxPass
          /\ exec[w].pc = "copying" =>
                \A d \in Of("partial", exec[w]) : clock - d.mtime < MaxCopy
    /\ clock' = clock + 1
    /\ UNCHANGED <<row, disk, exec, pass, faults>>

\* _claim_download_jobs follows the hygiene of the same poll.
Claim(w, j) ==
    /\ exec[w].pc = "idle" /\ pass[w].pc = "idle"
    /\ row[j].state = "open" /\ row[j].fence < MaxClaims
    /\ row' = [row EXCEPT ![j].state = "running", ![j].fence = @ + 1]
    /\ exec' = [exec EXCEPT ![w] = [pc |-> "start", job |-> j,
                                    fence |-> row[j].fence + 1]]
    /\ UNCHANGED <<clock, disk, pass, faults>>

\* A queued job is cancelled, or the quota reconciler expires a queued or a
\* running one past its TTL.
Discard(j) ==
    /\ row[j].state \in {"open", "running"}
    /\ row' = [row EXCEPT ![j].state = "over"]
    /\ UNCHANGED <<clock, disk, exec, pass, faults>>

\* create_attempt_workspace: an existing directory is an error, and removed.
CreateWorkspace(w) ==
    /\ exec[w].pc = "start"
    /\ IF Of("workspace", exec[w]) = {}
       THEN /\ disk' = disk \cup {Entry("workspace", exec[w], clock)}
            /\ Goto(w, "working")
       ELSE /\ disk' = disk \ Of("workspace", exec[w])
            /\ Goto(w, "failing")
    /\ UNCHANGED <<clock, row, pass, faults>>

\* The download failed, or the lease was found lost.
WorkFails(w) ==
    /\ exec[w].pc \in {"start", "working"}
    /\ \E pc \in {"failing", "closing"} : Goto(w, pc)
    /\ UNCHANGED <<clock, row, disk, pass, faults>>

\* publish opens the output and makes the staging directory.
BeginCopy(w) ==
    /\ exec[w].pc = "working"
    /\ IF \E d \in Of("workspace", exec[w]) : d.whole = "yes"
       THEN /\ disk' = disk \cup {Entry("partial", exec[w], clock)}
            /\ Goto(w, "copying")
       ELSE Goto(w, "failing") /\ UNCHANGED disk
    /\ UNCHANGED <<clock, row, pass, faults>>

\* publish writes the manifest and renames the staging directory, whose mtime
\* is that of the manifest's creation.
FinishCopy(w) ==
    /\ exec[w].pc = "copying"
    /\ \/ \E d \in Of("partial", exec[w]) : \E mtime \in d.mtime..clock :
             /\ disk' = (disk \ {d}) \cup
                        {[d EXCEPT !.kind = "published", !.mtime = mtime]}
             /\ Goto(w, "published")
       \/ Of("partial", exec[w]) = {} /\ Goto(w, "failing") /\ UNCHANGED disk
    /\ UNCHANGED <<clock, row, pass, faults>>

\* publish fails and removes its staging directory as far as it can; after
\* the rename there is none to remove and the publication stays.
CopyFails(w) ==
    /\ exec[w].pc = "copying"
    /\ Fault
    /\ \/ disk' = disk \ Of("partial", exec[w])
       \/ \E d \in Of("partial", exec[w]) :
             \E left \in Remains(d) \cup {[d EXCEPT !.kind = "published"]} :
                disk' = (disk \ {d}) \cup {left}
    /\ Goto(w, "failing")
    /\ UNCHANGED <<clock, row, pass>>

\* cleanup_attempt_workspace with require_gone.
Cleanup(w) ==
    /\ exec[w].pc = "published"
    /\ disk' = disk \ Of("workspace", exec[w])
    /\ Goto(w, "commit")
    /\ UNCHANGED <<clock, row, pass, faults>>

CleanupFails(w) ==
    /\ exec[w].pc = "published"
    /\ Fault
    /\ Goto(w, "failing")
    /\ UNCHANGED <<clock, row, disk, pass>>

\* complete_ready, under the fence; its answer may get lost.
Commit(w) ==
    /\ exec[w].pc = "commit"
    /\ Current(exec[w])
    /\ row' = [row EXCEPT ![exec[w].job].state = "ready",
                          ![exec[w].job].artifact = exec[w].fence]
    /\ \E pc \in {"idle", "failing"} : Goto(w, pc)
    /\ UNCHANGED <<clock, disk, pass, faults>>

\* The lease is lost, a cancel is honoured or the database fails: the
\* publication is left as an orphan.
Abandon(w) ==
    /\ exec[w].pc = "commit"
    /\ \/ UNCHANGED row
       \/ Current(exec[w]) /\ row' = [row EXCEPT ![exec[w].job].state = "over"]
    /\ \E pc \in {"idle", "failing"} : Goto(w, pc)
    /\ UNCHANGED <<clock, disk, pass, faults>>

\* fail_retry, fail_permanent, release or cancel, under the fence.
RecordFailure(w) ==
    /\ exec[w].pc = "failing"
    /\ \/ /\ Current(exec[w])
          /\ \E state \in {"open", "over"} :
                row' = [row EXCEPT ![exec[w].job].state = state]
       \/ UNCHANGED row
    /\ Goto(w, "closing")
    /\ UNCHANGED <<clock, disk, pass, faults>>

\* The finally clause of execute, whose errors are swallowed.
Close(w) ==
    /\ exec[w].pc = "closing"
    /\ disk' = disk \ Of("workspace", exec[w])
    /\ Goto(w, "idle")
    /\ UNCHANGED <<clock, row, pass, faults>>

CloseFails(w) ==
    /\ exec[w].pc = "closing"
    /\ Fault
    /\ \E d \in Of("workspace", exec[w]) : \E left \in Remains(d) :
          disk' = (disk \ {d}) \cup {left}
    /\ Goto(w, "idle")
    /\ UNCHANGED <<clock, row, pass>>

Reclaimed(r) == [r EXCEPT !.state = "open", !.fence = @ + 1]

Expired(r) == [r EXCEPT !.state = "over", !.artifact = Null]

\* reclaim_expired_leases, expire_due_jobs and list_active_fences.  Which
\* leases and TTLs have ended is left open, and a reclaimed job without
\* attempts ends like a due one.  The rows stay locked until the commit.
HygieneBegin(w) ==
    /\ pass[w].pc = "idle"
    /\ \E lost, due \in SUBSET Jobs :
          /\ lost \cap due = {}
          /\ \A j \in lost : row[j].state = "running"
          /\ \A j \in due : row[j].state # "over"
          /\ row' = [j \in Jobs |-> IF j \in lost THEN Reclaimed(row[j])
                                   ELSE IF j \in due THEN Expired(row[j])
                                   ELSE row[j]]
          /\ pass' = [pass EXCEPT ![w].pc = "fences", ![w].at = clock,
                          ![w].fences = ActiveFences(row'),
                          ![w].expired = {<<j, row[j].artifact>> :
                              j \in {k \in due : row[k].artifact # Null}}]
    /\ UNCHANGED <<clock, disk, exec, faults>>

\* list_referenced_artifact_ids and the commit.
HygieneReferences(w) ==
    /\ pass[w].pc = "fences"
    /\ pass' = [pass EXCEPT ![w].pc = "deleting", ![w].refs = Referenced(row)]
    /\ UNCHANGED <<clock, row, disk, exec, faults>>

\* delete_artifact for one expired artifact.
DeleteExpired(w) ==
    /\ pass[w].pc = "deleting"
    /\ \E id \in pass[w].expired :
          /\ disk' = {d \in disk : d.kind # "published" \/ Id(d) # id}
          /\ pass' = [pass EXCEPT ![w].expired = @ \ {id}]
    /\ UNCHANGED <<clock, row, exec, faults>>

\* A filesystem error leaves a part of it.
DeleteFails(w) ==
    /\ pass[w].pc = "deleting"
    /\ Fault
    /\ \E id \in pass[w].expired :
          /\ \E d \in disk :
                /\ d.kind = "published" /\ Id(d) = id
                /\ \E left \in Remains(d) : disk' = (disk \ {d}) \cup {left}
          /\ pass' = [pass EXCEPT ![w].expired = @ \ {id}]
    /\ UNCHANGED <<clock, row, exec>>

\* reconcile takes its time; the worker's own attempt is protected too.
SweepBegin(w) ==
    LET own == IF exec[w].pc = "idle" THEN {} ELSE {Id(exec[w])}
    IN  /\ pass[w].pc = "deleting" /\ pass[w].expired = {}
        /\ pass' = [pass EXCEPT ![w].pc = "sweeping", ![w].at = clock,
                                ![w].fences = @ \cup own]
        /\ UNCHANGED <<clock, row, disk, exec, faults>>

\* reconcile removes one entry.
SweepOne(w) ==
    /\ pass[w].pc = "sweeping" /\ pass[w].removed < SweepLimit
    /\ \E d \in Candidates(pass[w]) : disk' = disk \ {d}
    /\ pass' = [pass EXCEPT ![w].removed = @ + 1]
    /\ UNCHANGED <<clock, row, exec, faults>>

\* A filesystem error leaves a part of the entry, or ends the sweep.
SweepFails(w) ==
    /\ pass[w].pc = "sweeping"
    /\ Fault
    /\ \/ /\ \E d \in Candidates(pass[w]) : \E left \in Remains(d) :
                disk' = (disk \ {d}) \cup {left}
          /\ UNCHANGED pass
       \/ pass' = [pass EXCEPT ![w] = NoPass] /\ UNCHANGED disk
    /\ UNCHANGED <<clock, row, exec>>

SweepEnd(w) ==
    /\ pass[w].pc = "sweeping"
    /\ Candidates(pass[w]) = {} \/ pass[w].removed = SweepLimit
    /\ pass' = [pass EXCEPT ![w] = NoPass]
    /\ UNCHANGED <<clock, row, disk, exec, faults>>

\* The process dies and is started again: what is on disk stays.
Crash(w) ==
    /\ Fault
    /\ Goto(w, "idle")
    /\ pass' = [pass EXCEPT ![w] = NoPass]
    /\ UNCHANGED <<clock, row, disk>>

\* reconcile and publish do not yield to other tasks of their worker.
ExecutorStep(w) ==
    /\ pass[w].pc # "sweeping"
    /\ \/ \E j \in Jobs : Claim(w, j)
       \/ CreateWorkspace(w)
       \/ WorkFails(w)
       \/ BeginCopy(w)
       \/ FinishCopy(w)
       \/ CopyFails(w)
       \/ Cleanup(w)
       \/ CleanupFails(w)
       \/ Commit(w)
       \/ Abandon(w)
       \/ RecordFailure(w)
       \/ Close(w)
       \/ CloseFails(w)

HygieneStep(w) ==
    /\ exec[w].pc \notin {"copying", "published"}
    /\ \/ HygieneBegin(w)
       \/ HygieneReferences(w)
       \/ DeleteExpired(w)
       \/ DeleteFails(w)
       \/ SweepBegin(w)
       \/ SweepOne(w)
       \/ SweepFails(w)
       \/ SweepEnd(w)

Next ==
    \/ Tick
    \/ \E j \in Jobs : Discard(j)
    \/ \E w \in Workers :
          \/ ExecutorStep(w)
          \/ HygieneStep(w)
          \/ Crash(w)

Spec == Init /\ [][Next]_vars

\* Time passes, workers poll, and publish, which is synchronous, ends.
FairSpec ==
    /\ Spec
    /\ WF_vars(Tick)
    /\ \A w \in Workers :
          /\ WF_vars(HygieneStep(w))
          /\ WF_vars(FinishCopy(w) \/ Cleanup(w))

-----------------------------------------------------------------------------
(* Properties.                                                             *)

\* Every variable has its type.
TypeOK ==
    /\ clock \in Nat
    /\ row \in [Jobs -> Rows]
    /\ disk \in SUBSET Entries
    /\ exec \in [Workers -> Execs]
    /\ pass \in [Workers -> Passes]
    /\ faults \in Nat

\* There is a complete directory of this kind for the attempt.
Present(kind, e) == \E d \in Of(kind, e) : d.whole = "yes"

\* What a ready job points to is on disk, complete: no sweep of any worker,
\* with whatever it read before, and no half-failed removal takes it away.
ReferencedIsOnDisk ==
    \A j \in Jobs : row[j].artifact # Null =>
        Present("published", [job |-> j, fence |-> row[j].artifact])

\* Nothing is removed under an attempt whose claim still stands: reconcile
\* says it must not "delete an attempt directory that a peer is actively
\* writing into".
LiveAttemptKeepsFiles ==
    \A w \in Workers : Current(exec[w]) =>
        /\ exec[w].pc \in {"working", "copying"} => Present("workspace", exec[w])
        /\ exec[w].pc = "copying" => Present("partial", exec[w])
        /\ exec[w].pc \in {"published", "commit"} => Present("published", exec[w])

\* An attempt nobody works on and no row points to leaves nothing behind.
Orphan(j, f) ==
    /\ ~(row[j].state = "running" /\ row[j].fence = f)
    /\ row[j].artifact # f
    /\ \A w \in Workers : exec[w].pc # "idle" => Id(exec[w]) # <<j, f>>

\* What a crash, a lost lease or a failed deletion left on disk is removed, but for
\* entries too young in the modelled time (ArtifactStore.reconcile).
OrphansAreSwept ==
    \A j \in Jobs, f \in 1..MaxClaims : Orphan(j, f) =>
        \A d \in disk : Id(d) = <<j, f>> => d.mtime + Grace > MaxTime
=============================================================================
