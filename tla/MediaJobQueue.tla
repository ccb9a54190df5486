--------------------------- MODULE MediaJobQueue ---------------------------
(***************************************************************************)
(* The inspection job queue: the media_jobs table and the workers that     *)
(* claim, heartbeat, finish, lose and recover its rows.                    *)
(*                                                                         *)
(* Every repository method is one UPDATE, or one SELECT ... FOR UPDATE     *)
(* SKIP LOCKED and its flush, so it is one atomic step.  What is NOT       *)
(* atomic is kept apart: the work between a claim and its final write, the *)
(* read and the write of fail_retry, the heartbeat, a cancellation, and a  *)
(* crash at any point.  The database clock is the only clock.              *)
(***************************************************************************)
EXTENDS Integers, FiniteSets

CONSTANTS Jobs,          \* job ids (one per credential hash)
          Workers,       \* worker processes (MediaJobWorkerRunner)
          NoWorker,      \* NULL lease_owner
          MaxAttempts,   \* media_job_max_attempts
          LeaseTicks,    \* media_job_lease_seconds
          TtlTicks,      \* media_job_absolute_ttl_seconds
          RetryBase,     \* media_job_retry_base_seconds
          RetryMax,      \* media_job_retry_max_seconds
          Concurrency,   \* worker_concurrency
          MaxLag,        \* bound: ticks between database_now() and its use
          MaxTime,       \* bound: the clock stops here
          MaxFaults      \* bound: crashes, stops, cancels and faults injected

ASSUME QueueAssumption ==
    /\ NoWorker \notin Workers
    /\ MaxAttempts \in Nat \ {0}
    /\ LeaseTicks \in Nat \ {0}
    /\ TtlTicks \in Nat \ {0}
    /\ RetryBase \in Nat
    /\ RetryMax \in Nat /\ RetryBase <= RetryMax
    /\ Concurrency \in Nat \ {0}
    /\ MaxLag \in Nat
    /\ MaxTime \in Nat
    /\ MaxFaults \in Nat

VARIABLES clock,   \* clock_timestamp() of the database
          row,     \* the media_jobs table
          proc,    \* life of each worker process
          tasks,   \* in-memory _run_claimed tasks with their snapshots
          faults,  \* number of injected faults (bounded by MaxFaults)
          issued   \* history: every fence token a claim of the job was given

vars == <<clock, row, proc, tasks, faults, issued>>

States == {"absent", "queued", "inspecting", "inspected", "failed", "expired"}

\* public_error_code: NULL or a code.
Errors == {"none", "code"}

\* NULL for lease_expires_at and result_metadata.
Null == -1

\* result_metadata is identified with the fence of the claim that computed it.
Rows == [state : States, attempt : Nat, fence : Nat,
         owner : Workers \cup {NoWorker}, lease : Nat \cup {Null},
         available : Nat, created : Nat, expires : Nat,
         result : Nat \cup {Null}, error : Errors]

\* Where a task is in _run_claimed: running the inspection, about to call
\* complete, about to read in fail_retry, about to write in fail_retry, about
\* to call fail_permanent, about to call release_to_queued.
TaskPcs == {"working", "complete", "retry", "requeue", "permanent", "release"}

\* Running; stop event set; draining its tasks; not running.
ProcStates == {"up", "stopping", "draining", "down"}

Tasks == [w : Workers, job : Jobs, fence : Nat, attempt : Nat, pc : TaskPcs]

AbsentRow == [state |-> "absent", attempt |-> 0, fence |-> 0,
              owner |-> NoWorker, lease |-> Null, available |-> 0,
              created |-> 0, expires |-> 0, result |-> Null, error |-> "none"]

-----------------------------------------------------------------------------
(* Row updates: the value lists of the repository's statements.            *)

\* A `now` read by database_now() earlier in the same handler.
Nows == {n \in 0..clock : clock - n <= MaxLag}

\* min(maximum, max(base, base * 2^exp)): the doubled delay is never below
\* the base, so it is kept exactly when it lies in the configured range.
Backoff(n) ==
    LET delay == RetryBase * 2^(IF n > 1 THEN n - 1 ELSE 0)
    IN  IF delay \in RetryBase..RetryMax THEN delay ELSE RetryMax

NewRow(now) ==
    [AbsentRow EXCEPT !.state = "queued", !.available = now, !.created = now,
                      !.expires = now + TtlTicks]

ClaimedRow(r, w, now) ==
    [r EXCEPT !.state = "inspecting", !.owner = w,
              !.lease = now + LeaseTicks, !.fence = r.fence + 1,
              !.attempt = r.attempt + 1]

CompletedRow(r, fence) ==
    [r EXCEPT !.state = "inspected", !.result = fence, !.error = "none",
              !.owner = NoWorker, !.lease = Null]

FailedRow(r) ==
    [r EXCEPT !.state = "failed", !.result = Null, !.error = "code",
              !.owner = NoWorker, !.lease = Null]

RetriedRow(r, availableAt) ==
    [r EXCEPT !.state = "queued", !.error = "none", !.available = availableAt,
              !.owner = NoWorker, !.lease = Null]

\* Mutant: the release forgets the earlier attempts too.
ReleaseResetsAttempts(r, now) ==
    [r EXCEPT !.state = "queued", !.attempt = 0, !.available = now,
              !.owner = NoWorker, !.lease = Null]

ReleasedRow(r, now) ==
    [r EXCEPT !.state = "queued",
              !.attempt = IF r.attempt > 0 THEN r.attempt - 1 ELSE 0,
              !.available = now, !.owner = NoWorker, !.lease = Null]

RenewedRow(r) == [r EXCEPT !.lease = clock + LeaseTicks]

Exhausted(r) == r.attempt >= MaxAttempts

\* Mutant: reclaim requeues without looking at the attempt count.
ReclaimAlwaysRequeues(r, now) ==
    [r EXCEPT !.state = "queued", !.owner = NoWorker, !.lease = Null,
              !.fence = r.fence + 1, !.available = now]

ReclaimedRow(r, now) ==
    [r EXCEPT !.state = IF Exhausted(r) THEN "failed" ELSE "queued",
              !.error = IF Exhausted(r) THEN "code" ELSE r.error,
              !.owner = NoWorker, !.lease = Null, !.fence = r.fence + 1,
              !.available = now]

ExpiredRow(r) ==
    [r EXCEPT !.state = "expired", !.result = Null, !.error = "none",
              !.owner = NoWorker, !.lease = Null, !.fence = r.fence + 1]

-----------------------------------------------------------------------------
(* Row predicates: the WHERE clauses.                                      *)

Claimable(r) ==
    /\ r.state = "queued"
    /\ r.available <= clock
    /\ r.expires > clock
    /\ r.attempt < MaxAttempts

\* What the SELECT of fail_retry compares: no lease and no TTL predicate.
Current(t) ==
    /\ row[t.job].state = "inspecting"
    /\ row[t.job].owner = t.w
    /\ row[t.job].fence = t.fence

\* Mutant: the fence token is left out of the predicate.
FencedByOwnerOnly(t) ==
    /\ row[t.job].state = "inspecting"
    /\ row[t.job].owner = t.w
    /\ row[t.job].expires > clock

\* The predicate of complete, fail_permanent, fail_retry, release_to_queued
\* and renew_lease.
Fenced(t) ==
    /\ Current(t)
    /\ row[t.job].lease > clock
    /\ row[t.job].expires > clock

\* Mutant: the lease is compared the wrong way round.
LeaseStillLive(r) ==
    /\ r.state = "inspecting"
    /\ r.lease # Null
    /\ r.lease > clock
    /\ r.expires > clock

\* Mutant: a job without an attempt left is not taken back.
LeaseExpiredWithBudget(r) ==
    /\ r.state = "inspecting"
    /\ r.lease # Null
    /\ r.lease <= clock
    /\ r.expires > clock
    /\ ~Exhausted(r)

LeaseExpired(r) ==
    /\ r.state = "inspecting"
    /\ r.lease # Null
    /\ r.lease <= clock
    /\ r.expires > clock

\* Mutant: expiry drops settled jobs whether or not their TTL is over.
DueWithoutTtl(r) ==
    \/ r.expires <= clock /\ r.state \in {"queued", "inspecting"}
    \/ r.state \in {"inspected", "failed"}

Due(r) ==
    /\ r.expires <= clock
    /\ r.state \in {"queued", "inspecting", "inspected", "failed"}

-----------------------------------------------------------------------------
Init ==
    /\ clock = 0
    /\ row = [j \in Jobs |-> AbsentRow]
    /\ proc = [w \in Workers |-> "up"]
    /\ tasks = {}
    /\ faults = 0
    /\ issued = [j \in Jobs |-> {}]

\* The task's handler is over: its slot is free again (_on_inspection_done).
EndTask(t) == tasks' = tasks \ {t}

MoveTask(t, pc) == tasks' = (tasks \ {t}) \cup {[t EXCEPT !.pc = pc]}

\* A fenced UPDATE whose row count is 0 changes nothing; the handler ends
\* either way.
FencedUpdate(t, newRow) ==
    row' = IF Fenced(t) THEN [row EXCEPT ![t.job] = newRow] ELSE row

Tick ==
    /\ clock < MaxTime
    /\ clock' = clock + 1
    /\ UNCHANGED <<row, proc, tasks, faults, issued>>

\* enqueue_or_get, insert path.
Enqueue(j) ==
    /\ row[j].state = "absent"
    /\ \E now \in Nows : row' = [row EXCEPT ![j] = NewRow(now)]
    /\ UNCHANGED <<clock, proc, tasks, faults, issued>>

\* First transaction of _poll_once: reclaim_expired_leases, then
\* expire_due_jobs; the two WHERE clauses exclude each other.
PollHygiene(w) ==
    /\ proc[w] \in {"up", "stopping"}
    /\ \E now \in Nows :
          row' = [j \in Jobs |->
                    IF LeaseExpired(row[j]) THEN ReclaimedRow(row[j], now)
                    ELSE IF Due(row[j]) THEN ExpiredRow(row[j])
                    ELSE row[j]]
    /\ UNCHANGED <<clock, proc, tasks, faults, issued>>

FreeSlots(w) == Concurrency - Cardinality({t \in tasks : t.w = w})

\* The rows _claim_select returns: the oldest claimable ones, at most
\* `limit`; the order of rows created together is that of their random ids.
IsClaimBatch(batch, limit) ==
    LET open == {j \in Jobs : Claimable(row[j])}
    IN  /\ batch \subseteq open
        /\ \/ Cardinality(batch) = limit
           \/ Cardinality(batch) < limit /\ batch = open
        /\ \A j \in batch, k \in open \ batch :
              row[j].created <= row[k].created

\* A task that finds the stop event set releases its job at once.
ClaimTask(w, j, r) ==
    [w |-> w, job |-> j, fence |-> r.fence, attempt |-> r.attempt,
     pc |-> IF proc[w] = "up" THEN "working" ELSE "release"]

\* The claim phase ends a poll; the poll under way when the stop event is set
\* still claims, and is the last one.
ClaimInspectionJobs(w) ==
    /\ proc[w] \in {"up", "stopping"}
    /\ FreeSlots(w) >= 1
    /\ \E batch \in SUBSET Jobs, now \in Nows :
          /\ batch # {}
          /\ IsClaimBatch(batch, FreeSlots(w))
          /\ row' = [j \in Jobs |-> IF j \in batch
                                    THEN ClaimedRow(row[j], w, now)
                                    ELSE row[j]]
          /\ tasks' = tasks \cup {ClaimTask(w, j, row'[j]) : j \in batch}
          /\ issued' = [j \in Jobs |-> IF j \in batch
                                       THEN issued[j] \cup {row'[j].fence}
                                       ELSE issued[j]]
    /\ proc' = [proc EXCEPT ![w] = IF @ = "up" THEN "up" ELSE "draining"]
    /\ UNCHANGED <<clock, faults>>

\* The inspection returns a payload or raises.  The heartbeat is cancelled
\* before complete() but still runs while a failure is being recorded.
InspectionEnds(t) ==
    /\ t.pc = "working"
    /\ \E pc \in {"complete", "retry", "permanent"} : MoveTask(t, pc)
    /\ UNCHANGED <<clock, row, proc, faults, issued>>

\* InspectionError INSPECTION_CANCELLED.
InspectionCancelled(t) ==
    /\ t.pc = "working"
    /\ faults < MaxFaults
    /\ faults' = faults + 1
    /\ MoveTask(t, "release")
    /\ UNCHANGED <<clock, row, proc, issued>>

\* One beat of _lease_heartbeat.  A beat that updates no row makes a working
\* task discard its result; once the task records a failure nobody reads the
\* heartbeat's answer.
Heartbeat(t) ==
    /\ t.pc # "complete"
    /\ FencedUpdate(t, RenewedRow(row[t.job]))
    /\ IF ~Fenced(t) /\ t.pc = "working" THEN EndTask(t) ELSE tasks' = tasks
    /\ UNCHANGED <<clock, proc, faults, issued>>

Complete(t) ==
    /\ t.pc = "complete"
    /\ FencedUpdate(t, CompletedRow(row[t.job], t.fence))
    /\ EndTask(t)
    /\ UNCHANGED <<clock, proc, faults, issued>>

FailPermanent(t) ==
    /\ t.pc = "permanent"
    /\ FencedUpdate(t, FailedRow(row[t.job]))
    /\ EndTask(t)
    /\ UNCHANGED <<clock, proc, faults, issued>>

\* fail_retry, the SELECT: it takes no lock, so anything may happen before the
\* UPDATE that the value read here chooses.
FailRetryRead(t) ==
    /\ t.pc = "retry"
    /\ IF ~Current(t)               THEN EndTask(t)
       ELSE IF Exhausted(row[t.job]) THEN MoveTask(t, "permanent")
       ELSE                              MoveTask(t, "requeue")
    /\ UNCHANGED <<clock, row, proc, faults, issued>>

\* fail_retry, the UPDATE.
FailRetryWrite(t) ==
    /\ t.pc = "requeue"
    /\ \E now \in Nows :
          FencedUpdate(t, RetriedRow(row[t.job], now + Backoff(t.attempt)))
    /\ EndTask(t)
    /\ UNCHANGED <<clock, proc, faults, issued>>

\* _release_cancel.
Release(t) ==
    /\ t.pc = "release"
    /\ \E now \in Nows : FencedUpdate(t, ReleasedRow(row[t.job], now))
    /\ EndTask(t)
    /\ UNCHANGED <<clock, proc, faults, issued>>

\* A database error.  Raised by complete it is caught as an unexpected
\* failure, which is retryable; raised in the heartbeat of a working task it
\* counts as a lost lease; raised while recording a failure it ends the task.
DatabaseFault(t) ==
    /\ faults < MaxFaults
    /\ faults' = faults + 1
    /\ IF t.pc = "complete" THEN MoveTask(t, "retry") ELSE EndTask(t)
    /\ UNCHANGED <<clock, row, proc, issued>>

\* SIGTERM sets the stop event.
RequestStop(w) ==
    /\ proc[w] = "up"
    /\ faults < MaxFaults
    /\ faults' = faults + 1
    /\ proc' = [proc EXCEPT ![w] = "stopping"]
    /\ UNCHANGED <<clock, row, tasks, issued>>

\* The poll loop sees the event; _shutdown_active begins.
LoopExit(w) ==
    /\ proc[w] = "stopping"
    /\ proc' = [proc EXCEPT ![w] = "draining"]
    /\ UNCHANGED <<clock, row, tasks, faults, issued>>

\* CancelledError in a task: inside the try body it releases the job; inside
\* an except branch it leaves the row to the reclaimer.
CancelTask(t) ==
    /\ proc[t.w] = "draining"
    /\ IF t.pc \in {"working", "complete"}
       THEN MoveTask(t, "release") ELSE EndTask(t)
    /\ UNCHANGED <<clock, row, proc, faults, issued>>

\* aclose() after every task has been awaited.
Stopped(w) ==
    /\ proc[w] = "draining"
    /\ \A t \in tasks : t.w # w
    /\ proc' = [proc EXCEPT ![w] = "down"]
    /\ UNCHANGED <<clock, row, tasks, faults, issued>>

\* The process dies: its tasks are gone, its rows keep their leases.
Crash(w) ==
    /\ proc[w] # "down"
    /\ faults < MaxFaults
    /\ faults' = faults + 1
    /\ proc' = [proc EXCEPT ![w] = "down"]
    /\ tasks' = {t \in tasks : t.w # w}
    /\ UNCHANGED <<clock, row, issued>>

\* The container's restart policy.  The new process draws a new random
\* worker id; reusing w asks more of the fence tokens than the code does.
Restart(w) ==
    /\ proc[w] = "down"
    /\ proc' = [proc EXCEPT ![w] = "up"]
    /\ UNCHANGED <<clock, row, tasks, faults, issued>>

TaskStep(t) ==
    \/ InspectionEnds(t)
    \/ InspectionCancelled(t)
    \/ Heartbeat(t)
    \/ Complete(t)
    \/ FailPermanent(t)
    \/ FailRetryRead(t)
    \/ FailRetryWrite(t)
    \/ Release(t)
    \/ DatabaseFault(t)
    \/ CancelTask(t)

WorkerStep(w) ==
    \/ PollHygiene(w)
    \/ ClaimInspectionJobs(w)
    \/ RequestStop(w)
    \/ LoopExit(w)
    \/ Stopped(w)
    \/ Crash(w)
    \/ Restart(w)

Next ==
    \/ Tick
    \/ \E j \in Jobs : Enqueue(j)
    \/ \E w \in Workers : WorkerStep(w)
    \/ \E t \in tasks : TaskStep(t)

Spec == Init /\ [][Next]_vars

\* A worker told to stop stops, and the container restarts a dead one.  The steps
\* exclude each other or shorten what is left of the worker's tasks.
WindDown(w) ==
    \/ LoopExit(w) \/ Stopped(w) \/ Restart(w)
    \/ \E t \in tasks : t.w = w /\ (CancelTask(t) \/ Release(t))

\* Time passes, a live worker polls, a stopping one stops and is restarted.
\* Nothing is assumed of the inspections themselves.
Fairness ==
    /\ WF_vars(Tick)
    /\ \A w \in Workers : /\ WF_vars(PollHygiene(w))
                          /\ WF_vars(ClaimInspectionJobs(w))
                          /\ WF_vars(WindDown(w))

FairSpec == Spec /\ Fairness

-----------------------------------------------------------------------------
(* Properties.                                                             *)

\* Every variable has its type.
TypeOK ==
    /\ clock \in Nat
    /\ row \in [Jobs -> Rows]
    /\ proc \in [Workers -> ProcStates]
    /\ tasks \in SUBSET Tasks
    /\ faults \in Nat
    /\ issued \in [Jobs -> SUBSET Nat]

\* ck_media_jobs_lease_state and ck_media_jobs_result_state: a statement that
\* broke them would abort its transaction, and with it the reclaim and the
\* expiry of every other job of the poll.
CheckConstraints ==
    \A j \in Jobs :
        LET r == row[j]
        IN  /\ (r.state = "inspecting") <=> (r.owner # NoWorker)
            /\ (r.state = "inspecting") <=> (r.lease # Null)
            /\ (r.state = "inspected") <=> (r.result # Null)
            /\ (r.state = "failed") <=> (r.error # "none")

\* A queued row always has an attempt left: _claim_select skips an exhausted
\* one, so it would wait for its TTL with no worker able to fail it.
QueuedHasBudget ==
    \A j \in Jobs : /\ row[j].attempt <= MaxAttempts
                    /\ row[j].state = "queued" => row[j].attempt < MaxAttempts

\* The metadata of an inspected job was computed by the last claim made of it:
\* no stalled task, of another worker or of the same worker that has since
\* claimed the job again, ever writes its result over a newer claim.
ResultFromLastClaim ==
    \A j \in Jobs : row[j].state = "inspected" =>
        /\ row[j].result \in issued[j]
        /\ \A f \in issued[j] : f <= row[j].result

\* No two claims of one job, in its whole life, are given the same fence
\* token: what a worker keys by (job, fence) is never shared by two attempts.
FreshFences ==
    [][\A t \in tasks' : t.fence \in issued[t.job] =>
          \E u \in tasks : /\ u.job = t.job /\ u.fence = t.fence
                           /\ u.w = t.w]_vars

\* While the lease and the TTL of a claim are live, its row changes only by a
\* step of the task that holds the claim: neither the reclaimer nor a stalled
\* attempt takes it away.
LiveClaimIsExclusive ==
    [][\A j \in Jobs :
          /\ row[j].lease > clock
          /\ row[j].expires > clock
          /\ row'[j] # row[j]
          => /\ row'[j].fence = row[j].fence
             /\ \E t \in tasks : t.job = j /\ t.fence = row[j].fence]_vars

\* A settled outcome is not revised: an inspected or failed row keeps its
\* result until its TTL takes it, and an expired row never comes back.
OutcomeIsFinal ==
    [][\A j \in Jobs :
          /\ row[j].state \in {"inspected", "failed"} =>
                row'[j] = row[j] \/ (row'[j].state = "expired"
                                      /\ row[j].expires <= clock)
          /\ row[j].state = "expired" => row'[j] = row[j]]_vars

\* The client's view of a stored state.
PhaseOf(s) ==
    CASE s = "absent"     -> "absent"
      [] s = "queued"     -> "waiting"
      [] s = "inspecting" -> "running"
      [] s = "inspected"  -> "succeeded"
      [] s = "failed"     -> "failed"
      [] s = "expired"    -> "gone"

Lifecycle == INSTANCE JobLifecycle WITH
    Budget <- MaxAttempts,
    phase <- [j \in Jobs |-> PhaseOf(row[j].state)],
    tries <- [j \in Jobs |-> row[j].attempt]

\* The queue implements the abstract lifecycle: only listed edges, at most
\* MaxAttempts charged attempts, nothing comes back from "gone".
ImplementsLifecycle == Lifecycle!Spec

\* No job is left past its TTL, whatever state a crash left it in.
DueJobsAreExpired ==
    \A j \in Jobs : row[j].state # "absent" /\ row[j].expires <= MaxTime
                       => row[j].state = "expired"

\* No job is held by a worker that has lost it, once its lease is over and long before
\* its TTL (leases past the end of modelled time are left out).
OrphansAreRecovered ==
    \A j \in Jobs : row[j].state = "inspecting" /\ row[j].lease <= MaxTime
                       => \E t \in tasks : t.job = j /\ Current(t)
=============================================================================
