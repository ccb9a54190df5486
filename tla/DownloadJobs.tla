---------------------------- MODULE DownloadJobs ----------------------------
(***************************************************************************)
(* The download queue: the media_download_jobs table with the quota slot   *)
(* each row holds, the executor that carries a claimed job through its     *)
(* stages, the user's cancel request, Premium promotion and expiry.        *)
(*                                                                         *)
(* A repository method is one transaction that locks the identity, the job *)
(* and the quota entry in this order, so it is one atomic step at one time *)
(* of the database clock; between two steps of an executor anything may    *)
(* happen.  MEDIA_DOWNLOAD_CONCURRENCY must be 1: a worker runs at most    *)
(* one task.  A worker that is stopped or dead is one that takes no steps. *)
(***************************************************************************)
EXTENDS Integers, Sequences

CONSTANTS Jobs,          \* download job ids, one per (media job, format)
          Workers,       \* worker processes
          NoWorker,      \* NULL lease_owner
          MaxAttempts,   \* media_download_max_attempts
          LeaseTicks,    \* media_download_lease_seconds
          TtlTicks,      \* media_download_artifact_ttl_seconds
          Backoff,       \* _retry_backoff_seconds (capped, see MediaJobQueue)
          MaxPercent,    \* 99 in the code
          Compatibility, \* free_download_quota_ready_compatibility_mode
          MaxTime,       \* bound: the clock stops here
          MaxFaults      \* bound: crashes, interruptions and database errors

ASSUME DownloadAssumption ==
    /\ NoWorker \notin Workers
    /\ MaxAttempts \in Nat \ {0}
    /\ LeaseTicks \in Nat \ {0}
    /\ TtlTicks \in Nat \ {0}
    /\ Backoff \in Nat
    /\ MaxPercent \in Nat
    /\ Compatibility \in BOOLEAN
    /\ MaxTime \in Nat
    /\ MaxFaults \in Nat

VARIABLES clock,   \* clock_timestamp() of the database
          row,     \* media_download_jobs with its quota entry
          live,    \* jobs with a live delivery lease in the range ledger
          tasks,   \* executors at work
          faults,  \* injected faults (bounded by MaxFaults)
          issued   \* history: fence tokens given to claims of the job

vars == <<clock, row, live, tasks, faults, issued>>

Null == -1

States == {"absent", "queued", "downloading", "ready", "failed", "expired"}

PercentStages == {"downloading_video", "downloading_audio"}
ActiveStages == PercentStages \cup {"inspecting", "muxing", "verifying", "publishing"}
WaitingStages == {"queued", "retrying"}
TerminalStages == {"ready", "failed", "cancelled", "expired"}

\* The state of the job's quota entry; "none" for a job without one.
Slots == {"none", "reserved", "consumed", "released", "expired"}

\* artifact_id is identified with the fence of the claim that published it.
Rows == [state : States, stage : ActiveStages \cup WaitingStages \cup TerminalStages,
         percent : Nat \cup {Null}, cancel : {"no", "yes"},
         attempt : Nat, fence : Nat, owner : Workers \cup {NoWorker},
         lease : Nat \cup {Null}, available : Nat, created : Nat, expires : Nat,
         artifact : Nat \cup {Null}, error : {"none", "code"},
         slot : Slots, tier : {"free", "premium"}]

AbsentRow ==
    [state |-> "absent", stage |-> "queued", percent |-> Null, cancel |-> "no",
     attempt |-> 0, fence |-> 0, owner |-> NoWorker, lease |-> Null,
     available |-> 0, created |-> 0, expires |-> 0, artifact |-> Null,
     error |-> "none", slot |-> "none", tier |-> "free"]

\* What execute does for a direct video, a direct audio and a muxed selection.
Direct(kind) == <<"inspecting", kind, "publishing">>
Muxed == <<"inspecting", "downloading_video", "downloading_audio", "muxing",
           "verifying", "publishing">>
Plans == {Direct("downloading_video"), Direct("downloading_audio"), Muxed}

\* What is left of a plan.
Rests == {SubSeq(p, i, Len(p)) : p \in Plans, i \in 1..7}

\* The stages whose subprocess is watched by _watch_lease_during_run.
Supervised == PercentStages \cup {"muxing", "verifying"}

\* The edges of progress._ALLOWED between active stages.
Allowed(from, to) ==
    \/ from = to
    \/ from = "inspecting" /\ to \in PercentStages
    \/ /\ from = "downloading_video"
       /\ to \in {"downloading_audio", "muxing", "verifying", "publishing"}
    \/ from = "downloading_audio" /\ to \in {"muxing", "publishing"}
    \/ from = "muxing" /\ to = "verifying"
    \/ from = "verifying" /\ to = "publishing"

\* In the try body of execute: about to verify the lease, to record the stage
\* todo[1], doing that stage's work, about to commit ready.  In a handler:
\* about to read in fail_retry, to requeue, to fail, to record the cancel, to
\* give the job back.
BodyPcs == {"check", "advance", "work", "complete"}
HandlerPcs == {"retry", "requeue", "permanent", "cancel", "release"}

Tasks == [w : Workers, job : Jobs, fence : Nat, pc : BodyPcs \cup HandlerPcs,
          todo : Rests]

-----------------------------------------------------------------------------
(* Row updates.                                                            *)

\* expires_at = min(now + ttl, parent.expires_at).
NewRow(life, tier, slot) ==
    [AbsentRow EXCEPT !.state = "queued", !.available = clock,
                      !.created = clock, !.expires = clock + life,
                      !.slot = slot, !.tier = tier]

Unleased(r) == [r EXCEPT !.owner = NoWorker, !.lease = Null, !.percent = Null]

\* release_locked: a reservation is given back, a terminal entry is kept.
Freed(slot, as) == IF slot = "reserved" THEN as ELSE slot

ClaimedRow(r, w) ==
    [r EXCEPT !.state = "downloading", !.stage = "inspecting", !.percent = Null,
              !.owner = w, !.lease = clock + LeaseTicks,
              !.fence = r.fence + 1, !.attempt = r.attempt + 1]

ReadyRow(r, fence) ==
    [Unleased(r) EXCEPT !.state = "ready", !.stage = "ready",
                        !.artifact = fence, !.error = "none",
                        !.slot = IF Compatibility THEN Freed(r.slot, "consumed")
                                 ELSE r.slot]

\* Mutant: a permanent failure keeps the slot.
FailedKeepsSlot(r) ==
    [Unleased(r) EXCEPT !.state = "failed", !.stage = "failed",
                        !.artifact = Null, !.error = "code"]

FailedRow(r) ==
    [Unleased(r) EXCEPT !.state = "failed", !.stage = "failed",
                        !.artifact = Null, !.error = "code",
                        !.slot = Freed(r.slot, "released")]

\* Mutant: a retry leaves the stage that failed.
RetriedKeepsStage(r) ==
    [Unleased(r) EXCEPT !.state = "queued", !.error = "none",
                        !.available = clock + Backoff]

RetriedRow(r) ==
    [Unleased(r) EXCEPT !.state = "queued", !.stage = "retrying",
                        !.error = "none", !.available = clock + Backoff]

\* Mutant: giving the job back does not refund the attempt.
ReleasedKeepsAttempt(r) ==
    [Unleased(r) EXCEPT !.state = "queued", !.stage = "queued",
                        !.available = clock]

ReleasedRow(r) ==
    [Unleased(r) EXCEPT !.state = "queued", !.stage = "queued",
                        !.attempt = IF r.attempt > 0 THEN r.attempt - 1 ELSE 0,
                        !.available = clock]

\* _apply_stored_cancel: a cancelled job is stored as expired with markers.
CancelledRow(r) ==
    [Unleased(r) EXCEPT !.state = "expired", !.stage = "cancelled",
                        !.artifact = Null, !.error = "none",
                        !.slot = Freed(r.slot, "released")]

Exhausted(r) == r.attempt >= MaxAttempts

\* Mutant: the attempt budget is looked at before the cancel request.
ReclaimIgnoresCancel(r) ==
    [Unleased(r) EXCEPT !.state = IF Exhausted(r) THEN "failed" ELSE "queued",
                        !.stage = IF Exhausted(r) THEN "failed" ELSE "retrying",
                        !.error = IF Exhausted(r) THEN "code" ELSE r.error,
                        !.cancel = "no",
                        !.slot = IF Exhausted(r) THEN Freed(r.slot, "released")
                                 ELSE r.slot,
                        !.fence = r.fence + 1, !.available = clock]

ReclaimedRow(r) ==
    IF r.cancel = "yes"
    THEN [CancelledRow(r) EXCEPT !.fence = r.fence + 1]
    ELSE IF Exhausted(r)
    THEN [FailedRow(r) EXCEPT !.fence = r.fence + 1, !.available = clock]
    ELSE [Unleased(r) EXCEPT !.state = "queued", !.stage = "retrying",
                             !.fence = r.fence + 1, !.available = clock]

\* Mutant: an expired row keeps the reservation.
ExpiredKeepsSlot(r) ==
    [Unleased(r) EXCEPT !.state = "expired", !.stage = "expired",
                        !.cancel = "no", !.artifact = Null, !.error = "none",
                        !.fence = r.fence + 1]

ExpiredRow(r) ==
    [Unleased(r) EXCEPT !.state = "expired", !.stage = "expired",
                        !.cancel = "no", !.artifact = Null, !.error = "none",
                        !.fence = r.fence + 1,
                        !.slot = Freed(r.slot, "expired")]

-----------------------------------------------------------------------------
(* Row predicates.                                                         *)

Claimable(r) ==
    /\ r.state = "queued"
    /\ r.available <= clock
    /\ r.expires > clock
    /\ r.attempt < MaxAttempts
    /\ r.cancel = "no"

\* Mutant: the state is all that is compared.
OwnedByAnyone(t) == row[t.job].state = "downloading"

\* Owner and fence match: all that complete_cancelled, set_progress_stage and
\* the read of fail_retry ask.
Owned(t) ==
    /\ row[t.job].state = "downloading"
    /\ row[t.job].owner = t.w
    /\ row[t.job].fence = t.fence

\* The predicate of renew_lease and lease_status.
Leased(t) ==
    /\ Owned(t)
    /\ row[t.job].lease > clock
    /\ row[t.job].expires > clock

\* The predicate of complete_ready, fail_permanent, fail_retry,
\* release_to_queued and set_progress_percent.
Fenced(t) == Leased(t) /\ row[t.job].cancel = "no"

LeaseExpired(r) ==
    /\ r.state = "downloading"
    /\ r.lease # Null
    /\ r.lease <= clock
    /\ r.expires > clock

StoredCancelled(r) ==
    r.state = "expired" /\ r.stage = "cancelled" /\ r.cancel = "yes"

Due(r) ==
    /\ r.expires <= clock
    /\ r.state \in {"queued", "downloading", "ready", "failed"} \/ StoredCancelled(r)

\* Mutant: expiry does not look at the delivery ledger.
NeverDeferred(j) == FALSE

\* A live delivery lease keeps a ready job from expiring, unless the entry is
\* consumed or there is none.
Deferred(j) ==
    /\ row[j].state = "ready"
    /\ row[j].slot \in {"reserved", "released", "expired"}
    /\ j \in live

-----------------------------------------------------------------------------
Init ==
    /\ clock = 0
    /\ row = [j \in Jobs |-> AbsentRow]
    /\ live = {}
    /\ tasks = {}
    /\ faults = 0
    /\ issued = [j \in Jobs |-> {}]

EndTask(t) == tasks' = tasks \ {t}

MoveTask(t, pc) == tasks' = (tasks \ {t}) \cup {[t EXCEPT !.pc = pc]}

SetRow(j, r) == row' = [row EXCEPT ![j] = r]

Fault ==
    /\ faults < MaxFaults
    /\ faults' = faults + 1

Tick ==
    /\ clock < MaxTime
    /\ clock' = clock + 1
    /\ UNCHANGED <<row, live, tasks, faults, issued>>

\* DownloadJobService.create: enqueue and admission, one transaction.  A Free
\* job reserves a slot unless the quota is switched off; Premium bypasses it.
Create(j) ==
    /\ row[j].state = "absent"
    /\ \E life \in 1..TtlTicks :
          \E admitted \in {<<"free", "reserved">>, <<"free", "none">>,
                          <<"premium", "none">>} :
             SetRow(j, NewRow(life, admitted[1], admitted[2]))
    /\ UNCHANGED <<clock, live, tasks, faults, issued>>

\* request_cancel: a queued job is cancelled at once, a running one is only
\* flagged; the others are left alone.
CancelRequested(r) ==
    IF r.state = "queued" THEN CancelledRow([r EXCEPT !.cancel = "yes"])
    ELSE IF r.state = "downloading" THEN [r EXCEPT !.cancel = "yes"]
    ELSE r

RequestCancel(j) ==
    /\ row[j].state # "absent"
    /\ SetRow(j, CancelRequested(row[j]))
    /\ UNCHANGED <<clock, live, tasks, faults, issued>>

\* DownloadPremiumUpgradeService.upgrade.  The reservation of a job that was
\* not completely delivered is released; a consumed one is kept.
Promote(j) ==
    LET r == row[j]
    IN  /\ r.state = "ready" /\ r.expires > clock /\ r.tier = "free"
        /\ j \notin live
        /\ r.slot \in {"none", "reserved", "consumed"}
        /\ SetRow(j, [r EXCEPT !.tier = "premium", !.slot = Freed(@, "released")])
        /\ UNCHANGED <<clock, live, tasks, faults, issued>>

\* DeliveryQuotaAccounting.begin: only a Free job whose slot is reserved has a
\* range ledger.
BeginDelivery(j) ==
    /\ row[j].state = "ready" /\ row[j].expires > clock
    /\ row[j].tier = "free" /\ row[j].slot = "reserved"
    /\ live' = live \cup {j}
    /\ UNCHANGED <<clock, row, tasks, faults, issued>>

\* A checkpoint or finalize that completes the coverage consumes the slot.
ConsumeDelivered(j) ==
    /\ j \in live /\ row[j].slot = "reserved"
    /\ SetRow(j, [row[j] EXCEPT !.slot = "consumed"])
    /\ UNCHANGED <<clock, live, tasks, faults, issued>>

\* finalize, or the ledger lease runs out.
EndDelivery(j) ==
    /\ j \in live
    /\ live' = live \ {j}
    /\ UNCHANGED <<clock, row, tasks, faults, issued>>

\* _hygiene_download_jobs: reclaim_expired_leases, then expire_due_jobs.
Hygiene ==
    /\ row' = [j \in Jobs |->
                 IF LeaseExpired(row[j]) THEN ReclaimedRow(row[j])
                 ELSE IF Due(row[j]) /\ ~Deferred(j) THEN ExpiredRow(row[j])
                 ELSE row[j]]
    /\ UNCHANGED <<clock, live, tasks, faults, issued>>

\* QuotaReconciler.run on the reserved entries: it repairs an entry whose job
\* is over and expires a running job past its TTL.
Reconcile ==
    /\ row' = [j \in Jobs |->
                 LET r == row[j]
                 IN  IF r.slot # "reserved" THEN r
                     ELSE IF r.state = "ready" /\ Compatibility
                     THEN [r EXCEPT !.slot = "consumed"]
                     ELSE IF r.state = "failed"
                     THEN [r EXCEPT !.slot = "released"]
                     ELSE IF r.state = "expired"
                     THEN [r EXCEPT !.slot = "expired"]
                     ELSE IF r.state # "ready" /\ r.expires <= clock
                     THEN ExpiredRow(r)
                     ELSE r]
    /\ UNCHANGED <<clock, live, tasks, faults, issued>>

\* _claim_download_jobs with one free slot: the oldest claimable row.
Claim(w) ==
    /\ ~\E t \in tasks : t.w = w
    /\ \E j \in Jobs, plan \in Plans :
          /\ Claimable(row[j])
          /\ \A k \in Jobs : Claimable(row[k]) => row[j].created <= row[k].created
          /\ SetRow(j, ClaimedRow(row[j], w))
          /\ tasks' = tasks \cup {[w |-> w, job |-> j, fence |-> row'[j].fence,
                                   pc |-> "check", todo |-> plan]}
          /\ issued' = [issued EXCEPT ![j] = @ \cup {row'[j].fence}]
    /\ UNCHANGED <<clock, live, faults>>

\* lease_still_owned between two stages: lost leaves the job to the
\* reclaimer, cancelled records the cancel, owned renews.
Check(t) ==
    /\ t.pc = "check"
    /\ \/ ~Leased(t) /\ EndTask(t) /\ UNCHANGED row
       \/ Leased(t) /\ ~Fenced(t) /\ MoveTask(t, "cancel") /\ UNCHANGED row
       \/ /\ Fenced(t)
          /\ SetRow(t.job, [row[t.job] EXCEPT !.lease = clock + LeaseTicks])
          /\ MoveTask(t, IF t.todo = <<>> THEN "complete" ELSE "advance")
    /\ UNCHANGED <<clock, live, faults, issued>>

StagedRow(r, stage) ==
    [r EXCEPT !.stage = stage,
              !.percent = IF r.stage # stage THEN Null ELSE r.percent]

\* _advance_progress: an update of a row that is no longer ours is skipped, an
\* edge that is not allowed fails the attempt with INTERNAL_ERROR.
Advance(t) ==
    LET r == row[t.job]
        mine == Owned(t) /\ r.cancel = "no"
    IN  /\ t.pc = "advance"
        /\ \/ /\ mine /\ Allowed(r.stage, t.todo[1])
              /\ SetRow(t.job, StagedRow(r, t.todo[1]))
              /\ MoveTask(t, "work")
           \/ mine /\ ~Allowed(r.stage, t.todo[1]) /\ MoveTask(t, "retry") /\ UNCHANGED row
           \/ ~mine /\ MoveTask(t, "work") /\ UNCHANGED row
        /\ UNCHANGED <<clock, live, faults, issued>>

\* The stage's work is done, or raises a retryable or a permanent error.
WorkEnds(t) ==
    /\ t.pc = "work"
    /\ \/ tasks' = (tasks \ {t}) \cup {[t EXCEPT !.pc = "check", !.todo = Tail(@)]}
       \/ MoveTask(t, "retry")
       \/ MoveTask(t, "permanent")
    /\ UNCHANGED <<clock, row, live, faults, issued>>

\* Mutant: any percent is written.
AnyPercent(stored, percent) == TRUE

Advances(stored, percent) == percent > stored

\* set_progress_percent from the byte observer of a running download.
Percent(t) ==
    /\ t.pc = "work" /\ t.todo[1] \in PercentStages
    /\ Fenced(t) /\ row[t.job].stage \in PercentStages
    /\ \E percent \in 0..MaxPercent :
          /\ Advances(row[t.job].percent, percent)
          /\ SetRow(t.job, [row[t.job] EXCEPT !.percent = percent])
    /\ UNCHANGED <<clock, live, tasks, faults, issued>>

\* _watch_lease_during_run: as Check, while the subprocess runs.
Watch(t) ==
    /\ t.pc = "work" /\ t.todo[1] \in Supervised
    /\ \/ ~Leased(t) /\ EndTask(t) /\ UNCHANGED row
       \/ Leased(t) /\ ~Fenced(t) /\ MoveTask(t, "cancel") /\ UNCHANGED row
       \/ /\ Fenced(t)
          /\ SetRow(t.job, [row[t.job] EXCEPT !.lease = clock + LeaseTicks])
          /\ UNCHANGED tasks
    /\ UNCHANGED <<clock, live, faults, issued>>

\* CancelledError in the executor.  The try body gives the job back; a
\* handler is cut short.  A cancel being recorded is recorded again when it
\* was found in the try body, and given up in the handler.
Interrupt(t) ==
    \/ t.pc \in BodyPcs \cup {"cancel"} /\ MoveTask(t, "release")
    \/ t.pc \in HandlerPcs /\ EndTask(t)

\* _download_lease_heartbeat: it renews under a pending cancel too; when no
\* row is renewed the executor is interrupted.
Heartbeat(t) ==
    /\ \/ /\ Leased(t)
          /\ SetRow(t.job, [row[t.job] EXCEPT !.lease = clock + LeaseTicks])
          /\ UNCHANGED tasks
       \/ ~Leased(t) /\ Interrupt(t) /\ UNCHANGED row
    /\ UNCHANGED <<clock, live, faults, issued>>

\* complete_ready; when it updates nothing the cancel path is probed.
CompleteReady(t) ==
    /\ t.pc = "complete"
    /\ \/ Fenced(t) /\ SetRow(t.job, ReadyRow(row[t.job], t.fence)) /\ EndTask(t)
       \/ ~Fenced(t) /\ MoveTask(t, "cancel") /\ UNCHANGED row
    /\ UNCHANGED <<clock, live, faults, issued>>

FailPermanent(t) ==
    /\ t.pc = "permanent"
    /\ row' = IF Fenced(t) THEN [row EXCEPT ![t.job] = FailedRow(@)] ELSE row
    /\ EndTask(t)
    /\ UNCHANGED <<clock, live, faults, issued>>

\* The read of fail_retry takes no lock.
FailRetryRead(t) ==
    /\ t.pc = "retry"
    /\ \/ ~Owned(t) /\ EndTask(t)
       \/ Owned(t) /\ MoveTask(t, IF row[t.job].cancel = "yes" THEN "cancel"
                                  ELSE IF Exhausted(row[t.job]) THEN "permanent"
                                  ELSE "requeue")
    /\ UNCHANGED <<clock, row, live, faults, issued>>

FailRetryWrite(t) ==
    /\ t.pc = "requeue"
    /\ row' = IF Fenced(t) THEN [row EXCEPT ![t.job] = RetriedRow(@)] ELSE row
    /\ EndTask(t)
    /\ UNCHANGED <<clock, live, faults, issued>>

\* _complete_user_cancel / complete_cancelled: no lease and no TTL predicate.
CompleteCancelled(t) ==
    /\ t.pc = "cancel"
    /\ row' = IF Owned(t) /\ row[t.job].cancel = "yes"
              THEN [row EXCEPT ![t.job] = CancelledRow(@)] ELSE row
    /\ EndTask(t)
    /\ UNCHANGED <<clock, live, faults, issued>>

\* _release_to_queued and _release_download_cancel.
Release(t) ==
    /\ t.pc = "release"
    /\ row' = IF Fenced(t) THEN [row EXCEPT ![t.job] = ReleasedRow(@)] ELSE row
    /\ EndTask(t)
    /\ UNCHANGED <<clock, live, faults, issued>>

\* A database error.  It is swallowed when a stage is recorded, retried when
\* the lease is verified or the job completed; in a handler, and in the
\* watchdog, the job is left to the reclaimer.
DatabaseFault(t) ==
    /\ Fault
    /\ \/ t.pc \in {"check", "complete"} /\ MoveTask(t, "retry")
       \/ t.pc = "advance" /\ MoveTask(t, "work")
       \/ t.pc \in HandlerPcs /\ EndTask(t)
       \/ t.pc = "work" /\ t.todo[1] \in Supervised /\ EndTask(t)
    /\ UNCHANGED <<clock, row, live, issued>>

\* The worker stops, or the heartbeat meets a database error.
Interrupted(t) ==
    /\ Fault
    /\ Interrupt(t)
    /\ UNCHANGED <<clock, row, live, issued>>

\* The process dies: its rows keep their leases.
Crash(t) ==
    /\ Fault
    /\ EndTask(t)
    /\ UNCHANGED <<clock, row, live, issued>>

TaskStep(t) ==
    \/ Check(t)
    \/ Advance(t)
    \/ WorkEnds(t)
    \/ Percent(t)
    \/ Watch(t)
    \/ Heartbeat(t)
    \/ CompleteReady(t)
    \/ FailPermanent(t)
    \/ FailRetryRead(t)
    \/ FailRetryWrite(t)
    \/ CompleteCancelled(t)
    \/ Release(t)
    \/ DatabaseFault(t)
    \/ Interrupted(t)
    \/ Crash(t)

JobStep(j) ==
    \/ Create(j)
    \/ RequestCancel(j)
    \/ Promote(j)
    \/ BeginDelivery(j)
    \/ ConsumeDelivered(j)
    \/ EndDelivery(j)

Next ==
    \/ Tick
    \/ Hygiene
    \/ Reconcile
    \/ \E j \in Jobs : JobStep(j)
    \/ \E w \in Workers : Claim(w)
    \/ \E t \in tasks : TaskStep(t)

Spec == Init /\ [][Next]_vars

\* Time passes, some worker polls, and a delivery ends or its lease runs out.
\* Nothing is assumed of the executors.
FairSpec ==
    /\ Spec
    /\ WF_vars(Tick)
    /\ WF_vars(Hygiene)
    /\ \A j \in Jobs : WF_vars(EndDelivery(j))

-----------------------------------------------------------------------------
(* GET /download-jobs/{id}: read only, so it is a function of the row.     *)

\* DownloadJobService.get and _to_view.  A row past its TTL is shown as
\* expired; a view whose percent or bytes do not fit its state is refused.
View(r) ==
    LET forced == r.state # "expired" /\ r.expires <= clock
        state == IF forced THEN "expired"
                 ELSE IF StoredCancelled(r) THEN "cancelled" ELSE r.state
        percentFits == r.percent # Null =>
                          /\ state = "downloading"
                          /\ ~forced /\ r.stage \in PercentStages
        bytesFit == (r.artifact # Null) <=> (state = "ready")
    IN  IF percentFits /\ bytesFit THEN state ELSE "internal_error"

\* Every authorized GET of a job answers with a state: service.py prefers "an
\* authorized expired view over making the job unobservable".
GetAlwaysAnswers ==
    \A j \in Jobs : row[j].state # "absent" => View(row[j]) # "internal_error"

\* A client that was told the job is over is never told later that it is
\* waiting or running.
OverIsOver ==
    [][\A j \in Jobs :
          /\ row[j].state # "absent"
          /\ View(row[j]) \in {"ready", "failed", "cancelled", "expired"}
          => View(row[j])' \notin {"queued", "downloading"}]_vars

-----------------------------------------------------------------------------
(* Properties.                                                             *)

\* Every variable has its type.
TypeOK ==
    /\ clock \in Nat
    /\ row \in [Jobs -> Rows]
    /\ live \in SUBSET Jobs
    /\ tasks \in SUBSET Tasks
    /\ faults \in Nat
    /\ issued \in [Jobs -> SUBSET Nat]

\* The CHECK constraints of media_download_jobs that tie columns together
\* (lease_state, result_state, progress_state, cancel_requested and
\* progress_percent): a statement that breaks one aborts its transaction, and
\* with it the reclaim and the expiry of every other job of the poll.
CheckConstraints ==
    \A j \in Jobs :
        LET r == row[j]
        IN  /\ (r.state = "downloading") <=> (r.owner # NoWorker)
            /\ (r.state = "downloading") <=> (r.lease # Null)
            /\ (r.state = "ready") <=> (r.artifact # Null)
            /\ (r.state = "failed") <=> (r.error # "none")
            /\ (r.stage \in ActiveStages) <=> (r.state = "downloading")
            /\ r.state = "queued" => r.stage \in WaitingStages
            /\ r.state \in {"ready", "failed"} => r.stage = r.state
            /\ r.state = "expired" => r.stage \in {"expired", "cancelled"}
            /\ r.cancel = "no" => r.stage # "cancelled"
            /\ r.cancel = "yes" => r.state = "downloading" \/ StoredCancelled(r)
            /\ r.percent # Null => r.stage \in PercentStages

\* The quota slot follows the job: reserved while the job may still become
\* ready, never kept by a failed, cancelled or expired job, and given back by
\* a ready job only when it was promoted to Premium.  consume_locked and
\* release_locked raise QuotaInvariantError otherwise, and reclaim has no
\* savepoint to isolate the error.
SlotFollowsJob ==
    \A j \in Jobs :
        LET r == row[j]
        IN  /\ r.state \in {"queued", "downloading"} => r.slot \in {"none", "reserved"}
            /\ r.state = "failed" => r.slot \in {"none", "released"}
            /\ r.state = "expired" => r.slot # "reserved"
            /\ r.state = "ready" /\ r.slot \in {"released", "expired"} => r.tier = "premium"

\* The artifact a ready job points to was published by the last claim of the
\* job, whatever stalled executors are still around.
ArtifactFromLastClaim ==
    \A j \in Jobs : row[j].state = "ready" =>
        /\ row[j].artifact \in issued[j]
        /\ \A f \in issued[j] : f <= row[j].artifact

\* A cancel request is never lost: from then on the job is running until it
\* is over, and it never becomes ready, failed or queued again.
CancelSticks ==
    [][\A j \in Jobs :
          row[j].cancel = "yes" =>
             \/ row'[j].state = "expired"
             \/ row'[j].state = "downloading" /\ row'[j].cancel = "yes"]_vars

\* The order of the stages within one attempt.
Rank(stage) ==
    CASE stage = "inspecting" -> 1
      [] stage = "downloading_video" -> 2
      [] stage = "downloading_audio" -> 3
      [] stage = "muxing" -> 4
      [] stage = "verifying" -> 5
      [] stage = "publishing" -> 6

\* Within one claim the progress shown never goes backwards, neither the stage
\* nor the percent of a stage, even when a stalled executor of an earlier
\* claim is still reporting.
ProgressNeverRewinds ==
    [][\A j \in Jobs :
          /\ row[j].state = "downloading"
          /\ row'[j].state = "downloading"
          /\ row'[j].fence = row[j].fence
          => \/ Rank(row'[j].stage) > Rank(row[j].stage)
             \/ /\ row'[j].stage = row[j].stage
                /\ row'[j].percent >= row[j].percent]_vars

\* A ready job that is being delivered against a reserved slot keeps its
\* artifact, past its TTL too, until the delivery has ended or is paid for.
DeliveryKeepsArtifact ==
    [][\A j \in Jobs :
          /\ j \in live
          /\ row[j].state = "ready" /\ row[j].slot = "reserved"
          => row'[j].artifact = row[j].artifact]_vars

\* The client's view of a stored state.
PhaseOf(s) ==
    CASE s = "absent"      -> "absent"
      [] s = "queued"      -> "waiting"
      [] s = "downloading" -> "running"
      [] s = "ready"       -> "succeeded"
      [] s = "failed"      -> "failed"
      [] s = "expired"     -> "gone"

Lifecycle == INSTANCE JobLifecycle WITH
    Budget <- MaxAttempts,
    phase <- [j \in Jobs |-> PhaseOf(row[j].state)],
    tries <- [j \in Jobs |-> row[j].attempt]

\* The download queue implements the same lifecycle as the inspection queue.
ImplementsLifecycle == Lifecycle!Spec

\* A row is one the schema accepts: types and the CHECK constraints.
WellFormed == TypeOK /\ CheckConstraints

\* What a client is shown of its job only moves forward: a stage and a percentage do
\* not rewind, and a job that was over is not running again.
ShownMovesForward == ProgressNeverRewinds /\ OverIsOver

\* A cancelled job is over, whatever became of its executor, and no slot is reserved
\* for a job past its TTL.  (Each premise, once true, stays true until its conclusion
\* holds.)
JobsAreSettled ==
    \A j \in Jobs : row[j].expires <= MaxTime =>
        /\ row[j].cancel = "yes" => row[j].state = "expired"
        /\ row[j].slot # "reserved"
=============================================================================
