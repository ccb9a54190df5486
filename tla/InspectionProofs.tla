-------------------------- MODULE InspectionProofs --------------------------
(***************************************************************************)
(* Machine-checked safety of the inspection side: the queue, for any       *)
(* number of jobs and workers and any lease, TTL, budget and lag; the      *)
(* requests of the job API, for any number of requests, tokens and URLs;   *)
(* the resolution of a URL, for any registries, addresses, redirect limit  *)
(* and depth; and a run of an external tool, for any budget, size, scale   *)
(* and intervals.  Each part has an inductive invariant of its own (IInv,  *)
(* RequestInv, ResolutionInv, ToolInv) with one lemma per operation; the   *)
(* last theorem puts them together.                                        *)
(***************************************************************************)
EXTENDS MCInspection, FiniteSetTheorems, TLAPS

-----------------------------------------------------------------------------
(* The queue.  Its inductive invariant adds to the properties the          *)
(* bookkeeping that makes fencing work: a task carries a fence some claim  *)
(* was given, no issued fence is above the row's, and the value fail_retry *)
(* read still holds while the fence does.                                  *)

\* What holds of a row r that has been claimed with the fences iss.
RowInv(r, iss) ==
    /\ r \in Rows
    /\ (r.state = "inspecting") <=> (r.owner # NoWorker)
    /\ (r.state = "inspecting") <=> (r.lease # Null)
    /\ (r.state = "inspected") <=> (r.result # Null)
    /\ (r.state = "failed") <=> (r.error # "none")
    /\ r.attempt <= MaxAttempts
    /\ r.state = "queued" => r.attempt < MaxAttempts
    /\ r.state = "absent" => r.attempt = 0 /\ iss = {}
    /\ \A f \in iss : f <= r.fence
    /\ r.state = "inspected" => /\ r.result \in iss
                                /\ \A f \in iss : f <= r.result

TaskInv(t) ==
    /\ t.fence \in issued[t.job]
    /\ t.pc = "requeue" /\ Current(t) => row[t.job].attempt < MaxAttempts

IInv ==
    /\ TypeOK
    /\ \A j \in Jobs : RowInv(row[j], issued[j])
    /\ \A t \in tasks : TaskInv(t)

-----------------------------------------------------------------------------
\* A `now` of database_now() is a natural number.
LEMMA NowsAreNat ==
    ASSUME clock \in Nat, NEW now \in Nows
    PROVE  now \in Nat
  BY QueueAssumption DEF Nows

\* The retry delay of _retry_backoff_seconds is a natural number.
LEMMA BackoffIsNat ==
    ASSUME NEW n \in Nat
    PROVE  Backoff(n) \in Nat
  BY QueueAssumption DEF Backoff

-----------------------------------------------------------------------------
\* A job that was never requested.
LEMMA AbsentRowInv == RowInv(AbsentRow, {})
  BY QueueAssumption DEF RowInv, AbsentRow, Rows, States, Errors, Null

\* A freshly enqueued row.
LEMMA NewRowInv ==
    ASSUME NEW now \in Nat
    PROVE  RowInv(NewRow(now), {})
  <1> DEFINE c == NewRow(now)
             x == now + TtlTicks
  <1>1. x \in Nat
    BY QueueAssumption
  <1>2. c = [AbsentRow EXCEPT !.state = "queued", !.available = now,
                              !.created = now, !.expires = x]
    BY DEF NewRow
  <1> HIDE DEF x, c
  <1>3. c \in Rows
    BY <1>1, <1>2, AbsentRowInv DEF RowInv, Rows, States
  <1>4. /\ c.state = "queued" /\ c.attempt = 0 /\ c.fence = 0
        /\ c.owner = NoWorker /\ c.lease = Null /\ c.result = Null
        /\ c.error = "none"
    BY <1>2 DEF AbsentRow
  <1> QED
    BY <1>3, <1>4, QueueAssumption DEF RowInv, c

\* Claiming: the new fence is above every fence issued before.
LEMMA ClaimedRowInv ==
    ASSUME NEW r, NEW iss, RowInv(r, iss), iss \in SUBSET Nat,
           NEW w \in Workers, NEW now \in Nat,
           r.state = "queued",
           NEW c, c = ClaimedRow(r, w, now)
    PROVE  /\ RowInv(c, iss \cup {c.fence})
           /\ c.fence = r.fence + 1
           /\ c.state = "inspecting"
  <1> DEFINE a == r.attempt + 1
             f == r.fence + 1
             l == now + LeaseTicks
  <1>1. r \in Rows
    BY DEF RowInv
  <1>2. r.attempt \in Nat /\ r.fence \in Nat
    BY <1>1 DEF Rows
  <1>3. a \in Nat /\ f \in Nat /\ l \in Nat
    BY <1>2, QueueAssumption
  <1>4. c = [r EXCEPT !.state = "inspecting", !.owner = w, !.lease = l,
                      !.fence = f, !.attempt = a]
    BY DEF ClaimedRow
  <1> HIDE DEF a, f, l
  <1>5. c \in Rows
    BY <1>1, <1>3, <1>4 DEF Rows, States
  <1>6. /\ c.state = "inspecting" /\ c.attempt = a
        /\ c.fence = f /\ c.owner = w /\ c.lease = l
        /\ c.result = r.result /\ c.error = r.error
    BY <1>1, <1>4 DEF Rows
  <1>7. RowInv(c, iss \cup {c.fence})
    BY <1>2, <1>3, <1>5, <1>6, QueueAssumption DEF RowInv, Null, a, f
  <1> QED
    BY <1>6, <1>7 DEF f

\* The fenced writes: complete, fail_permanent, fail_retry, release_to_queued
\* and renew_lease on a row that is being inspected.  None moves the fence.
LEMMA FencedRowsInv ==
    ASSUME NEW r, NEW iss, RowInv(r, iss), iss \in SUBSET Nat,
           r.state = "inspecting", clock \in Nat
    PROVE  /\ r.fence \in iss => RowInv(CompletedRow(r, r.fence), iss)
           /\ RowInv(FailedRow(r), iss)
           /\ \A at \in Nat : r.attempt < MaxAttempts =>
                 RowInv(RetriedRow(r, at), iss)
           /\ \A now \in Nat : RowInv(ReleasedRow(r, now), iss)
           /\ RowInv(RenewedRow(r), iss)
  <1>1. r \in Rows
    BY DEF RowInv
  <1>2. r.attempt \in Nat /\ r.fence \in Nat
    BY <1>1 DEF Rows
  <1>3. r.fence \in iss => RowInv(CompletedRow(r, r.fence), iss)
    <2> DEFINE c == CompletedRow(r, r.fence)
               f == r.fence
    <2>1. c = [r EXCEPT !.state = "inspected", !.result = f, !.error = "none",
                        !.owner = NoWorker, !.lease = Null]
      BY DEF CompletedRow
    <2>2. f \in Nat
      BY <1>2
    <2> HIDE DEF c, f
    <2>3. c \in Rows
      BY <1>1, <2>1, <2>2 DEF Rows, States, Errors
    <2>4. /\ c.state = "inspected" /\ c.result = f /\ c.error = "none"
          /\ c.owner = NoWorker /\ c.lease = Null /\ c.attempt = r.attempt
          /\ c.fence = r.fence
      BY <1>1, <2>1 DEF Rows
    <2> QED
      BY <1>2, <2>3, <2>4, QueueAssumption DEF RowInv, Null, c, f
  <1>4. RowInv(FailedRow(r), iss)
    BY <1>1, QueueAssumption DEF RowInv, Rows, States, Errors, Null, FailedRow
  <1>5. ASSUME NEW at \in Nat, r.attempt < MaxAttempts
        PROVE  RowInv(RetriedRow(r, at), iss)
    BY <1>1, <1>5, QueueAssumption
       DEF RowInv, Rows, States, Errors, Null, RetriedRow
  <1>6. ASSUME NEW now \in Nat
        PROVE  RowInv(ReleasedRow(r, now), iss)
    <2> DEFINE c == ReleasedRow(r, now)
               a == IF r.attempt > 0 THEN r.attempt - 1 ELSE 0
    <2>1. c = [r EXCEPT !.state = "queued", !.attempt = a, !.available = now,
                        !.owner = NoWorker, !.lease = Null]
      BY DEF ReleasedRow
    <2>2. a \in Nat /\ a < MaxAttempts
      BY <1>2, QueueAssumption DEF RowInv
    <2> HIDE DEF c, a
    <2>3. c \in Rows
      BY <1>1, <2>1, <2>2 DEF Rows, States, Errors
    <2>4. /\ c.state = "queued" /\ c.result = r.result /\ c.error = r.error
          /\ c.owner = NoWorker /\ c.lease = Null /\ c.attempt = a
          /\ c.fence = r.fence
      BY <1>1, <2>1 DEF Rows
    <2>5. RowInv(c, iss)
      BY <1>2, <2>2, <2>3, <2>4, QueueAssumption DEF RowInv, Null
    <2> QED
      BY <2>5 DEF c
  <1>7. RowInv(RenewedRow(r), iss)
    BY <1>1, QueueAssumption DEF RowInv, Rows, States, Errors, Null, RenewedRow
  <1> QED
    BY <1>3, <1>4, <1>5, <1>6, <1>7

\* The two hygiene statements.
LEMMA HygieneRowsInv ==
    ASSUME NEW r, NEW iss, RowInv(r, iss), iss \in SUBSET Nat, NEW now \in Nat
    PROVE  /\ r.state = "inspecting" => RowInv(ReclaimedRow(r, now), iss)
           /\ RowInv(ExpiredRow(r), iss)
  <1> DEFINE f == r.fence + 1
  <1>1. r \in Rows
    BY DEF RowInv
  <1>2. r.attempt \in Nat /\ r.fence \in Nat /\ f \in Nat
    BY <1>1 DEF Rows
  <1>3. ASSUME r.state = "inspecting"
        PROVE  RowInv(ReclaimedRow(r, now), iss)
    <2> DEFINE c == ReclaimedRow(r, now)
               s == IF Exhausted(r) THEN "failed" ELSE "queued"
               e == IF Exhausted(r) THEN "code" ELSE r.error
    <2>1. c = [r EXCEPT !.state = s, !.error = e, !.owner = NoWorker,
                        !.lease = Null, !.fence = f, !.available = now]
      BY DEF ReclaimedRow
    <2>2. s \in {"failed", "queued"} /\ e \in Errors
      BY <1>1 DEF Rows, Errors
    <2>3. s = "failed" <=> e # "none"
      BY <1>3 DEF RowInv
    <2>4. s = "queued" => r.attempt < MaxAttempts
      BY <1>2, QueueAssumption DEF Exhausted
    <2> HIDE DEF c, s, e, f
    <2>5. c \in Rows
      BY <1>1, <1>2, <2>1, <2>2 DEF Rows, States
    <2>6. /\ c.state = s /\ c.result = r.result /\ c.error = e
          /\ c.owner = NoWorker /\ c.lease = Null /\ c.attempt = r.attempt
          /\ c.fence = f
      BY <1>1, <2>1 DEF Rows
    <2>7. RowInv(c, iss)
      BY <1>2, <1>3, <2>2, <2>3, <2>4, <2>5, <2>6, QueueAssumption
         DEF RowInv, Null, f
    <2> QED
      BY <2>7 DEF c
  <1>4. RowInv(ExpiredRow(r), iss)
    <2> DEFINE c == ExpiredRow(r)
    <2>1. c = [r EXCEPT !.state = "expired", !.result = Null, !.error = "none",
                        !.owner = NoWorker, !.lease = Null, !.fence = f]
      BY DEF ExpiredRow
    <2> HIDE DEF c, f
    <2>2. c \in Rows
      BY <1>1, <1>2, <2>1 DEF Rows, States, Errors
    <2>3. /\ c.state = "expired" /\ c.result = Null /\ c.error = "none"
          /\ c.owner = NoWorker /\ c.lease = Null /\ c.attempt = r.attempt
          /\ c.fence = f
      BY <1>1, <2>1 DEF Rows
    <2>4. RowInv(c, iss)
      BY <1>2, <2>2, <2>3, QueueAssumption DEF RowInv, Null, f
    <2> QED
      BY <2>4 DEF c
  <1> QED
    BY <1>3, <1>4

-----------------------------------------------------------------------------
\* The invariant holds initially.
LEMMA InitIInv == Init => IInv
  <1> SUFFICES ASSUME Init PROVE IInv
    OBVIOUS
  <1>1. \A j \in Jobs : RowInv(row[j], issued[j])
    BY AbsentRowInv DEF Init
  <1>2. TypeOK
    BY <1>1 DEF Init, TypeOK, ProcStates, RowInv
  <1> QED
    BY <1>1, <1>2 DEF Init, IInv

\* A fenced write of a task: if the written row is good, the invariant is kept
\* whether the statement matches the row or not.
LEMMA FencedWriteIInv ==
    ASSUME IInv, NEW t \in tasks, NEW newRow,
           Fenced(t) => RowInv(newRow, issued[t.job])
                        /\ newRow.fence = row[t.job].fence
                        /\ \/ newRow.attempt = row[t.job].attempt
                              /\ newRow.owner = row[t.job].owner
                           \/ newRow.state # "inspecting",
           FencedUpdate(t, newRow),
           UNCHANGED <<clock, proc, faults, issued>>,
           tasks' \subseteq tasks
    PROVE  IInv'
  <1>1. t \in Tasks /\ t.job \in Jobs
    BY DEF IInv, TypeOK, Tasks
  <1>2. \A j \in Jobs : RowInv(row'[j], issued[j])
    <2> TAKE j \in Jobs
    <2>1. RowInv(row[j], issued[j]) /\ row \in [Jobs -> Rows]
      BY DEF IInv, TypeOK
    <2>2. CASE Fenced(t) /\ j = t.job
      BY <1>1, <2>1, <2>2 DEF FencedUpdate
    <2>3. CASE ~(Fenced(t) /\ j = t.job)
      <3>1. row'[j] = row[j]
        BY <1>1, <2>1, <2>3 DEF FencedUpdate
      <3> QED
        BY <2>1, <3>1
    <2> QED
      BY <2>2, <2>3
  <1>3. TypeOK'
    <2>1. row' \in [Jobs -> Rows]
      BY <1>1, <1>2 DEF IInv, TypeOK, FencedUpdate, RowInv
    <2> QED
      BY <2>1 DEF IInv, TypeOK
  <1>4. \A u \in tasks' : TaskInv(u)'
    <2> TAKE u \in tasks'
    <2>1. u \in tasks /\ u \in Tasks /\ u.job \in Jobs /\ TaskInv(u)
      BY DEF IInv, TypeOK, Tasks
    <2>2. u.fence \in issued'[u.job]
      BY <2>1 DEF TaskInv
    <2>3. \/ row'[u.job] = row[u.job]
          \/ /\ row'[u.job].fence = row[u.job].fence
             /\ row[u.job].state = "inspecting"
             /\ row[u.job].owner = t.w
             /\ \/ row'[u.job].attempt = row[u.job].attempt
                   /\ row'[u.job].owner = row[u.job].owner
                \/ row'[u.job].state # "inspecting"
      BY <1>1, <2>1 DEF FencedUpdate, Fenced, Current, IInv, TypeOK
    <2>4. u.pc = "requeue" /\ Current(u)' => row'[u.job].attempt < MaxAttempts
      BY <2>1, <2>3 DEF TaskInv, Current
    <2> QED
      BY <2>2, <2>4 DEF TaskInv
  <1> QED
    BY <1>2, <1>3, <1>4 DEF IInv

\* A step that only moves or ends the task t, and gives it no "requeue" it has
\* not earned, keeps the invariant.
LEMMA TaskMoveIInv ==
    ASSUME IInv, NEW t \in tasks, NEW to \in TaskPcs,
           tasks' = (tasks \ {t}) \cup {[t EXCEPT !.pc = to]},
           to = "requeue" => row[t.job].attempt < MaxAttempts,
           faults' \in Nat,
           UNCHANGED <<clock, row, proc, issued>>
    PROVE  IInv'
  <1> DEFINE v == [t EXCEPT !.pc = to]
  <1>1. t \in Tasks /\ TaskInv(t)
    BY DEF IInv, TypeOK
  <1>2. v \in Tasks /\ v.fence = t.fence /\ v.job = t.job /\ v.pc = to
    BY <1>1 DEF Tasks
  <1>3. TypeOK'
    BY <1>2 DEF IInv, TypeOK
  <1> HIDE DEF v
  <1>4. TaskInv(v)'
    BY <1>1, <1>2 DEF TaskInv
  <1>5. \A u \in tasks : TaskInv(u)'
    BY DEF IInv, TaskInv, Current
  <1>6. tasks' \subseteq tasks \cup {v}
    BY DEF v
  <1> QED
    BY <1>3, <1>4, <1>5, <1>6 DEF IInv

\* A step that ends tasks and writes no row keeps the invariant.
LEMMA TaskEndIInv ==
    ASSUME IInv, tasks' \subseteq tasks, faults' \in Nat, clock' \in Nat,
           proc' \in [Workers -> ProcStates],
           UNCHANGED <<row, issued>>
    PROVE  IInv'
  <1>1. TypeOK'
    BY DEF IInv, TypeOK
  <1>2. \A u \in tasks : TaskInv(u)'
    BY DEF IInv, TaskInv, Current
  <1> QED
    BY <1>1, <1>2 DEF IInv

\* Every step of a task keeps the invariant.
LEMMA TaskStepIInv ==
    ASSUME IInv, NEW t \in tasks, TaskStep(t)
    PROVE  IInv'
  <1>1. t \in Tasks /\ t.job \in Jobs /\ t.pc \in TaskPcs /\ t.attempt \in Nat
        /\ TaskInv(t) /\ clock \in Nat /\ faults \in Nat
    BY DEF IInv, TypeOK, Tasks
  <1>2. RowInv(row[t.job], issued[t.job]) /\ issued[t.job] \in SUBSET Nat
        /\ row[t.job] \in Rows
    BY <1>1 DEF IInv, TypeOK
  <1>3. CASE InspectionEnds(t)
    BY <1>1, <1>3, TaskMoveIInv DEF InspectionEnds, MoveTask, TaskPcs
  <1>4. CASE InspectionCancelled(t)
    <2>1. faults' \in Nat
      BY <1>1, <1>4 DEF InspectionCancelled
    <2> QED
      BY <1>4, <2>1, TaskMoveIInv DEF InspectionCancelled, MoveTask, TaskPcs
  <1>5. CASE Heartbeat(t)
    <2>1. Fenced(t) => /\ RowInv(RenewedRow(row[t.job]), issued[t.job])
                       /\ RenewedRow(row[t.job]).fence = row[t.job].fence
                       /\ RenewedRow(row[t.job]).attempt = row[t.job].attempt
                       /\ RenewedRow(row[t.job]).owner = row[t.job].owner
      <3>1. Fenced(t) => RowInv(RenewedRow(row[t.job]), issued[t.job])
        BY <1>1, <1>2, FencedRowsInv DEF Fenced, Current
      <3> QED
        BY <1>2, <3>1 DEF RenewedRow, Rows
    <2>2. tasks' \subseteq tasks
      BY <1>5 DEF Heartbeat, EndTask
    <2> QED
      BY <1>5, <2>1, <2>2, FencedWriteIInv DEF Heartbeat
  <1>6. CASE Complete(t)
    <2>1. Fenced(t) =>
            LET c == CompletedRow(row[t.job], t.fence)
            IN  /\ RowInv(c, issued[t.job]) /\ c.fence = row[t.job].fence
                /\ c.state # "inspecting"
      <3>1. Fenced(t) => /\ row[t.job].fence = t.fence
                         /\ row[t.job].fence \in issued[t.job]
        BY <1>1 DEF Fenced, Current, TaskInv
      <3>2. Fenced(t) => RowInv(CompletedRow(row[t.job], t.fence), issued[t.job])
        BY <1>1, <1>2, <3>1, FencedRowsInv DEF Fenced, Current
      <3> QED
        BY <1>2, <3>2 DEF CompletedRow, Rows
    <2> QED
      BY <1>6, <2>1, FencedWriteIInv DEF Complete, EndTask
  <1>7. CASE FailPermanent(t)
    <2>1. Fenced(t) =>
            LET c == FailedRow(row[t.job])
            IN  /\ RowInv(c, issued[t.job]) /\ c.fence = row[t.job].fence
                /\ c.state # "inspecting"
      <3>1. Fenced(t) => RowInv(FailedRow(row[t.job]), issued[t.job])
        BY <1>1, <1>2, FencedRowsInv DEF Fenced, Current
      <3> QED
        BY <1>2, <3>1 DEF FailedRow, Rows
    <2> QED
      BY <1>7, <2>1, FencedWriteIInv DEF FailPermanent, EndTask
  <1>8. CASE FailRetryRead(t)
    <2>1. CASE ~Current(t)
      BY <1>1, <1>8, <2>1, TaskEndIInv DEF FailRetryRead, EndTask, IInv, TypeOK
    <2>2. CASE Current(t) /\ Exhausted(row[t.job])
      BY <1>1, <1>8, <2>2, TaskMoveIInv DEF FailRetryRead, MoveTask, TaskPcs
    <2>3. CASE Current(t) /\ ~Exhausted(row[t.job])
      <3>1. row[t.job].attempt < MaxAttempts
        BY <1>2, <2>3, QueueAssumption DEF Exhausted, Rows
      <3> QED
        BY <1>1, <1>8, <2>3, <3>1, TaskMoveIInv
           DEF FailRetryRead, MoveTask, TaskPcs
    <2> QED
      BY <2>1, <2>2, <2>3
  <1>9. CASE FailRetryWrite(t)
    <2> PICK now \in Nows :
          FencedUpdate(t, RetriedRow(row[t.job], now + Backoff(t.attempt)))
      BY <1>9 DEF FailRetryWrite
    <2> DEFINE at == now + Backoff(t.attempt)
    <2>1. at \in Nat
      BY <1>1, NowsAreNat, BackoffIsNat
    <2> HIDE DEF at
    <2>2. Fenced(t) =>
            LET c == RetriedRow(row[t.job], at)
            IN  /\ RowInv(c, issued[t.job]) /\ c.fence = row[t.job].fence
                /\ c.state # "inspecting"
      <3>1. Fenced(t) => row[t.job].attempt < MaxAttempts
        BY <1>1, <1>9 DEF FailRetryWrite, Fenced, TaskInv
      <3>2. Fenced(t) => RowInv(RetriedRow(row[t.job], at), issued[t.job])
        BY <1>1, <1>2, <2>1, <3>1, FencedRowsInv DEF Fenced, Current
      <3> QED
        BY <1>2, <3>2 DEF RetriedRow, Rows
    <2>3. FencedUpdate(t, RetriedRow(row[t.job], at))
      BY DEF at
    <2> QED
      BY <1>9, <2>2, <2>3, FencedWriteIInv DEF FailRetryWrite, EndTask
  <1>10. CASE Release(t)
    <2> PICK now \in Nows : FencedUpdate(t, ReleasedRow(row[t.job], now))
      BY <1>10 DEF Release
    <2>1. now \in Nat
      BY <1>1, NowsAreNat
    <2>2. Fenced(t) =>
            LET c == ReleasedRow(row[t.job], now)
            IN  /\ RowInv(c, issued[t.job]) /\ c.fence = row[t.job].fence
                /\ c.state # "inspecting"
      <3>1. Fenced(t) => RowInv(ReleasedRow(row[t.job], now), issued[t.job])
        BY <1>1, <1>2, <2>1, FencedRowsInv DEF Fenced, Current
      <3> QED
        BY <1>2, <3>1 DEF ReleasedRow, Rows
    <2> QED
      BY <1>10, <2>2, FencedWriteIInv DEF Release, EndTask
  <1>11. CASE DatabaseFault(t)
    <2>1. faults' \in Nat
      BY <1>1, <1>11 DEF DatabaseFault
    <2>2. CASE t.pc = "complete"
      BY <1>11, <2>1, <2>2, TaskMoveIInv DEF DatabaseFault, MoveTask, TaskPcs
    <2>3. CASE t.pc # "complete"
      BY <1>1, <1>11, <2>1, <2>3, TaskEndIInv
         DEF DatabaseFault, EndTask, IInv, TypeOK
    <2> QED
      BY <2>2, <2>3
  <1>12. CASE CancelTask(t)
    <2>1. CASE t.pc \in {"working", "complete"}
      BY <1>1, <1>12, <2>1, TaskMoveIInv DEF CancelTask, MoveTask, TaskPcs
    <2>2. CASE t.pc \notin {"working", "complete"}
      BY <1>1, <1>12, <2>2, TaskEndIInv DEF CancelTask, EndTask, IInv, TypeOK
    <2> QED
      BY <2>1, <2>2
  <1> QED
    BY <1>3, <1>4, <1>5, <1>6, <1>7, <1>8, <1>9, <1>10, <1>11, <1>12
       DEF TaskStep

\* Claiming a batch keeps the invariant: the new tasks carry fences nobody
\* holds, and every older task of a claimed job is fenced off.
LEMMA ClaimIInv ==
    ASSUME IInv, NEW w \in Workers, ClaimInspectionJobs(w)
    PROVE  IInv'
  <1>0. PICK batch \in SUBSET Jobs, now \in Nows :
        /\ IsClaimBatch(batch, FreeSlots(w))
        /\ row' = [j \in Jobs |-> IF j \in batch
                                  THEN ClaimedRow(row[j], w, now)
                                  ELSE row[j]]
        /\ tasks' = tasks \cup {ClaimTask(w, j, row'[j]) : j \in batch}
        /\ issued' = [j \in Jobs |-> IF j \in batch
                                     THEN issued[j] \cup {row'[j].fence}
                                     ELSE issued[j]]
    BY DEF ClaimInspectionJobs
  <1>1. now \in Nat /\ clock \in Nat
    BY NowsAreNat DEF IInv, TypeOK
  <1>2. \A j \in batch : row[j].state = "queued"
    BY <1>0 DEF IsClaimBatch, Claimable
  <1>3. \A j \in batch : /\ RowInv(row'[j], issued[j] \cup {row'[j].fence})
                         /\ row'[j].fence = row[j].fence + 1
                         /\ row'[j].state = "inspecting"
                         /\ issued'[j] = issued[j] \cup {row'[j].fence}
    <2> TAKE j \in batch
    <2>1. /\ RowInv(row[j], issued[j])
          /\ issued[j] \in SUBSET Nat
          /\ row'[j] = ClaimedRow(row[j], w, now)
          /\ issued'[j] = issued[j] \cup {row'[j].fence}
          /\ row[j].state = "queued"
      BY <1>0, <1>2 DEF IInv, TypeOK
    <2> DEFINE r == row[j]
               iss == issued[j]
               c == row'[j]
    <2>2. /\ RowInv(r, iss) /\ iss \in SUBSET Nat /\ r.state = "queued"
          /\ c = ClaimedRow(r, w, now)
      BY <2>1
    <2>3. issued'[j] = iss \cup {c.fence}
      BY <2>1
    <2> HIDE DEF r, iss, c
    <2>4. RowInv(c, iss \cup {c.fence})
      BY <1>1, <2>2, ClaimedRowInv
    <2>5. c.fence = r.fence + 1
      BY <1>1, <2>2, ClaimedRowInv
    <2>6. c.state = "inspecting"
      BY <1>1, <2>2, ClaimedRowInv
    <2> QED
      BY <2>3, <2>4, <2>5, <2>6 DEF r, iss, c
  <1>4. \A j \in Jobs : RowInv(row'[j], issued'[j])
    <2> TAKE j \in Jobs
    <2>1. CASE j \in batch
      BY <1>3, <2>1
    <2>2. CASE j \notin batch
      <3>1. row'[j] = row[j] /\ issued'[j] = issued[j]
        BY <1>0, <2>2
      <3> QED
        BY <3>1 DEF IInv
    <2> QED
      BY <2>1, <2>2
  <1>5. \A j \in Jobs : row'[j] \in Rows
    BY <1>4 DEF RowInv
  <1>6. \A j \in batch : ClaimTask(w, j, row'[j]) \in Tasks
    BY <1>5, QueueAssumption DEF ClaimTask, Tasks, TaskPcs, Rows, RowInv
  <1>7. TypeOK'
    <2>1. row' \in [Jobs -> Rows]
      BY <1>0, <1>5
    <2>2. tasks' \in SUBSET Tasks
      BY <1>0, <1>6 DEF IInv, TypeOK
    <2>3. issued' \in [Jobs -> SUBSET Nat]
      <3>1. \A j \in Jobs : row'[j].fence \in Nat
        BY <1>5 DEF Rows
      <3>2. issued \in [Jobs -> SUBSET Nat]
        BY DEF IInv, TypeOK
      <3> QED
        BY <1>0, <3>1, <3>2
    <2>4. proc' \in [Workers -> ProcStates]
      BY DEF IInv, TypeOK, ClaimInspectionJobs, ProcStates
    <2> QED
      BY <2>1, <2>2, <2>3, <2>4 DEF IInv, TypeOK, ClaimInspectionJobs
  <1>8. \A u \in tasks' : TaskInv(u)'
    <2> TAKE u \in tasks'
    <2>1. CASE u \in tasks
      <3>1. u.job \in Jobs /\ TaskInv(u) /\ u.fence \in issued[u.job]
        BY <2>1 DEF IInv, TypeOK, Tasks, TaskInv
      <3>2. u.fence \in issued'[u.job]
        BY <1>0, <3>1
      <3>3. CASE u.job \in batch
        <4>0. RowInv(row[u.job], issued[u.job]) /\ u \in Tasks
          BY <2>1, <3>1 DEF IInv, TypeOK
        <4>1. u.fence <= row[u.job].fence /\ row[u.job].fence \in Nat
              /\ u.fence \in Nat
          BY <3>1, <4>0 DEF RowInv, Rows, Tasks
        <4>2. row'[u.job].fence = row[u.job].fence + 1
          BY <1>3, <3>3
        <4>3. row'[u.job].fence # u.fence
          BY <4>1, <4>2
        <4> QED
          BY <3>2, <4>3 DEF TaskInv, Current
      <3>4. CASE u.job \notin batch
        <4>1. row'[u.job] = row[u.job]
          BY <1>0, <3>1, <3>4
        <4> QED
          BY <3>1, <3>2, <4>1 DEF TaskInv, Current
      <3> QED
        BY <3>3, <3>4
    <2>2. CASE u \notin tasks
      <3> PICK j \in batch : u = ClaimTask(w, j, row'[j])
        BY <1>0, <2>2
      <3>1. u.job = j /\ u.fence = row'[j].fence /\ u.pc # "requeue"
        BY DEF ClaimTask
      <3> QED
        BY <1>3, <3>1 DEF TaskInv
    <2> QED
      BY <2>1, <2>2
  <1> QED
    BY <1>4, <1>7, <1>8 DEF IInv

\* The hygiene transaction keeps the invariant: it moves the fence of every
\* row it touches, so a task that held the row holds it no longer.
LEMMA HygieneIInv ==
    ASSUME IInv, NEW w \in Workers, PollHygiene(w)
    PROVE  IInv'
  <1> PICK now \in Nows :
        row' = [j \in Jobs |->
                  IF LeaseExpired(row[j]) THEN ReclaimedRow(row[j], now)
                  ELSE IF Due(row[j]) THEN ExpiredRow(row[j])
                  ELSE row[j]]
    BY DEF PollHygiene
  <1>1. now \in Nat
    BY NowsAreNat DEF IInv, TypeOK
  <1>2. ASSUME NEW j \in Jobs
        PROVE  /\ RowInv(row'[j], issued[j])
               /\ row'[j] = row[j] \/ row'[j].state # "inspecting"
    <2>1. RowInv(row[j], issued[j]) /\ issued[j] \in SUBSET Nat
      BY DEF IInv, TypeOK
    <2>2. row[j] \in Rows
      BY <2>1 DEF RowInv
    <2>3. CASE LeaseExpired(row[j])
      <3>1. row'[j] = ReclaimedRow(row[j], now)
        BY <2>3
      <3>2. RowInv(row'[j], issued[j])
        BY <1>1, <2>1, <2>3, <3>1, HygieneRowsInv DEF LeaseExpired
      <3>3. row'[j].state # "inspecting"
        BY <2>2, <3>1 DEF ReclaimedRow, Rows
      <3> QED
        BY <3>2, <3>3
    <2>4. CASE ~LeaseExpired(row[j]) /\ Due(row[j])
      <3>1. row'[j] = ExpiredRow(row[j])
        BY <2>4
      <3>2. RowInv(row'[j], issued[j])
        BY <1>1, <2>1, <3>1, HygieneRowsInv
      <3>3. row'[j].state # "inspecting"
        BY <2>2, <3>1 DEF ExpiredRow, Rows
      <3> QED
        BY <3>2, <3>3
    <2>5. CASE ~LeaseExpired(row[j]) /\ ~Due(row[j])
      BY <2>1, <2>5
    <2> QED
      BY <2>3, <2>4, <2>5
  <1>3. TypeOK'
    <2>1. row' \in [Jobs -> Rows]
      BY <1>2 DEF RowInv
    <2> QED
      BY <2>1 DEF IInv, TypeOK, PollHygiene
  <1>4. \A u \in tasks' : TaskInv(u)'
    <2> TAKE u \in tasks'
    <2>1. u \in tasks /\ u.job \in Jobs /\ TaskInv(u) /\ issued' = issued
      BY DEF IInv, TypeOK, Tasks, PollHygiene
    <2> QED
      BY <1>2, <2>1 DEF TaskInv, Current
  <1> QED
    BY <1>2, <1>3, <1>4 DEF IInv, PollHygiene

\* Enqueueing a new job keeps the invariant: it was never claimed.
LEMMA EnqueueIInv ==
    ASSUME IInv, NEW j \in Jobs, Enqueue(j)
    PROVE  IInv'
  <1> PICK now \in Nows : row' = [row EXCEPT ![j] = NewRow(now)]
    BY DEF Enqueue
  <1>1. RowInv(NewRow(now), {})
    BY NowsAreNat, NewRowInv DEF IInv, TypeOK
  <1>2. issued[j] = {} /\ row[j].state = "absent"
    BY DEF Enqueue, IInv, RowInv
  <1>3. NewRow(now).state # "inspecting"
    BY DEF NewRow, AbsentRow
  <1>4. \A k \in Jobs : RowInv(row'[k], issued[k])
    BY <1>1, <1>2 DEF IInv, TypeOK
  <1>5. TypeOK'
    <2>1. row' \in [Jobs -> Rows]
      BY <1>1 DEF RowInv, IInv, TypeOK
    <2> QED
      BY <2>1 DEF IInv, TypeOK, Enqueue
  <1>6. \A u \in tasks : u.job # j
    BY <1>2 DEF IInv, TaskInv
  <1>7. \A u \in tasks' : TaskInv(u)'
    BY <1>6 DEF IInv, TypeOK, Tasks, TaskInv, Current, Enqueue
  <1> QED
    BY <1>4, <1>5, <1>7 DEF IInv, Enqueue

\* The invariant is inductive: one case per disjunct of Next.
LEMMA StepIInv ==
    ASSUME IInv, [Next]_vars
    PROVE  IInv'
  <1> USE DEF IInv, TypeOK
  <1>1. CASE Tick
    BY <1>1, TaskEndIInv DEF Tick
  <1>2. CASE \E j \in Jobs : Enqueue(j)
    BY <1>2, EnqueueIInv
  <1>3. ASSUME NEW w \in Workers, WorkerStep(w)
        PROVE  IInv'
    <2>1. CASE PollHygiene(w)
      BY <2>1, HygieneIInv
    <2>2. CASE ClaimInspectionJobs(w)
      BY <2>2, ClaimIInv
    <2>3. CASE RequestStop(w)
      BY <2>3, TaskEndIInv DEF RequestStop, ProcStates
    <2>4. CASE LoopExit(w)
      BY <2>4, TaskEndIInv DEF LoopExit, ProcStates
    <2>5. CASE Stopped(w)
      BY <2>5, TaskEndIInv DEF Stopped, ProcStates
    <2>6. CASE Crash(w)
      BY <2>6, TaskEndIInv DEF Crash, ProcStates
    <2>7. CASE Restart(w)
      BY <2>7, TaskEndIInv DEF Restart, ProcStates
    <2> QED
      BY <1>3, <2>1, <2>2, <2>3, <2>4, <2>5, <2>6, <2>7 DEF WorkerStep
  <1>4. CASE \E t \in tasks : TaskStep(t)
    BY <1>4, TaskStepIInv
  <1>5. CASE UNCHANGED vars
    BY <1>5, TaskEndIInv DEF vars
  <1> QED
    BY <1>1, <1>2, <1>3, <1>4, <1>5 DEF Next

-----------------------------------------------------------------------------
\* The inductive invariant holds in every reachable state.
THEOREM Invariance == Spec => []IInv
  BY InitIInv, StepIInv, PTL DEF Spec

\* Every reachable state of the queue is well typed.
THEOREM TypeCorrect == Spec => []TypeOK
  <1>1. IInv => TypeOK
    BY DEF IInv
  <1> QED
    BY <1>1, Invariance, PTL

\* No statement of the repository ever breaks the table's check constraints,
\* a queued job always has an attempt left, and a stored result always comes
\* from the last claim of its job.
THEOREM Safety ==
    Spec => [](CheckConstraints /\ QueuedHasBudget /\ ResultFromLastClaim)
  <1>1. IInv => CheckConstraints /\ QueuedHasBudget /\ ResultFromLastClaim
    BY DEF IInv, RowInv, CheckConstraints, QueuedHasBudget,
           ResultFromLastClaim
  <1> QED
    BY <1>1, Invariance, PTL

-----------------------------------------------------------------------------
(* Action properties.                                                      *)

\* The ways one step can change one row.
FencedWrite(j) ==
    \E t \in tasks :
        /\ t.job = j /\ Fenced(t)
        /\ \/ t.pc = "complete" /\ row'[j] = CompletedRow(row[j], t.fence)
           \/ t.pc = "permanent" /\ row'[j] = FailedRow(row[j])
           \/ /\ t.pc = "requeue"
              /\ \E at \in Nat : row'[j] = RetriedRow(row[j], at)
           \/ t.pc = "release" /\ \E now \in Nat : row'[j] = ReleasedRow(row[j], now)
           \/ row'[j] = RenewedRow(row[j])

RowStep(j) ==
    \/ row'[j] = row[j]
    \/ row[j].state = "absent" /\ \E now \in Nat : row'[j] = NewRow(now)
    \/ LeaseExpired(row[j]) /\ \E now \in Nat : row'[j] = ReclaimedRow(row[j], now)
    \/ Due(row[j]) /\ row'[j] = ExpiredRow(row[j])
    \/ /\ Claimable(row[j])
       /\ \E w \in Workers, now \in Nat : row'[j] = ClaimedRow(row[j], w, now)
    \/ FencedWrite(j)

\* Every step changes every row in one of these ways.
LEMMA RowSteps ==
    ASSUME IInv, Next, NEW j \in Jobs
    PROVE  RowStep(j)
  <1>1. row \in [Jobs -> Rows] /\ clock \in Nat /\ \A now \in Nows : now \in Nat
    BY NowsAreNat DEF IInv, TypeOK
  <1>2. ASSUME NEW t \in tasks, NEW newRow, FencedUpdate(t, newRow)
        PROVE  row'[j] = row[j] \/ (t.job = j /\ Fenced(t) /\ row'[j] = newRow)
    BY <1>1, <1>2 DEF FencedUpdate
  <1>3. CASE Tick
    BY <1>3 DEF Tick, RowStep
  <1>4. CASE \E k \in Jobs : Enqueue(k)
    BY <1>1, <1>4 DEF Enqueue, RowStep
  <1>5. ASSUME NEW w \in Workers, WorkerStep(w)
        PROVE  RowStep(j)
    <2>1. CASE PollHygiene(w)
      BY <1>1, <2>1 DEF PollHygiene, RowStep
    <2>2. CASE ClaimInspectionJobs(w)
      <3> PICK batch \in SUBSET Jobs, now \in Nows :
            /\ IsClaimBatch(batch, FreeSlots(w))
            /\ row' = [k \in Jobs |-> IF k \in batch
                                      THEN ClaimedRow(row[k], w, now)
                                      ELSE row[k]]
        BY <2>2 DEF ClaimInspectionJobs
      <3>1. CASE j \in batch
        BY <1>1, <3>1 DEF IsClaimBatch, RowStep
      <3>2. CASE j \notin batch
        BY <3>2 DEF RowStep
      <3> QED
        BY <3>1, <3>2
    <2>3. CASE RequestStop(w) \/ LoopExit(w) \/ Stopped(w) \/ Crash(w) \/ Restart(w)
      BY <2>3 DEF RequestStop, LoopExit, Stopped, Crash, Restart, RowStep
    <2> QED
      BY <1>5, <2>1, <2>2, <2>3 DEF WorkerStep
  <1>6. ASSUME NEW t \in tasks, TaskStep(t)
        PROVE  RowStep(j)
    <2>1. CASE Heartbeat(t)
      BY <1>2, <2>1 DEF Heartbeat, RowStep, FencedWrite
    <2>2. CASE Complete(t)
      BY <1>2, <2>2 DEF Complete, RowStep, FencedWrite
    <2>3. CASE FailPermanent(t)
      BY <1>2, <2>3 DEF FailPermanent, RowStep, FencedWrite
    <2>4. CASE FailRetryWrite(t)
      <3>1. t.attempt \in Nat
        BY DEF IInv, TypeOK, Tasks
      <3> PICK now \in Nows :
            FencedUpdate(t, RetriedRow(row[t.job], now + Backoff(t.attempt)))
        BY <2>4 DEF FailRetryWrite
      <3>2. now + Backoff(t.attempt) \in Nat
        BY <1>1, <3>1, BackoffIsNat
      <3> QED
        BY <1>2, <2>4, <3>2 DEF FailRetryWrite, RowStep, FencedWrite
    <2>5. CASE Release(t)
      BY <1>1, <1>2, <2>5 DEF Release, RowStep, FencedWrite
    <2>6. CASE \/ InspectionEnds(t) \/ InspectionCancelled(t)
               \/ FailRetryRead(t) \/ DatabaseFault(t) \/ CancelTask(t)
      BY <2>6 DEF InspectionEnds, InspectionCancelled, FailRetryRead,
                  DatabaseFault, CancelTask, RowStep
    <2> QED
      BY <1>6, <2>1, <2>2, <2>3, <2>4, <2>5, <2>6 DEF TaskStep
  <1> QED
    BY <1>3, <1>4, <1>5, <1>6 DEF Next

\* Settling, retrying, giving back and renewing move the state and the attempt
\* count along an edge of the lifecycle, or not at all.
MovesAlongEdge(r, c) ==
    \/ c.state = r.state /\ c.attempt = r.attempt
    \/ Lifecycle!Move(PhaseOf(r.state), r.attempt, PhaseOf(c.state), c.attempt)

\* A live claim is changed by its own task only; see LiveClaimIsExclusive.
THEOREM LiveClaim == Spec => LiveClaimIsExclusive
  <1> DEFINE Excl == \A j \in Jobs :
                       /\ row[j].lease > clock
                       /\ row[j].expires > clock
                       /\ row'[j] # row[j]
                       => /\ row'[j].fence = row[j].fence
                          /\ \E t \in tasks : t.job = j /\ t.fence = row[j].fence
  <1>1. ASSUME IInv, Next PROVE Excl
    <2> SUFFICES ASSUME NEW j \in Jobs, row[j].lease > clock,
                        row[j].expires > clock, row'[j] # row[j]
                 PROVE  /\ row'[j].fence = row[j].fence
                        /\ \E t \in tasks : t.job = j /\ t.fence = row[j].fence
      OBVIOUS
    <2>1. row[j] \in Rows /\ clock \in Nat /\ RowInv(row[j], issued[j])
      BY <1>1 DEF IInv, TypeOK
    <2>2. /\ row[j].lease \in Int /\ row[j].expires \in Nat
          /\ row[j].lease # Null
      BY <2>1 DEF Rows, Null
    <2>3. row[j].state = "inspecting"
      BY <2>1, <2>2 DEF RowInv
    <2>4. ~LeaseExpired(row[j]) /\ ~Due(row[j]) /\ ~Claimable(row[j])
      BY <2>1, <2>2, <2>3 DEF LeaseExpired, Due, Claimable
    <2>5. FencedWrite(j)
      BY <1>1, <2>3, <2>4, RowSteps DEF RowStep
    <2>6. PICK t \in tasks :
            /\ t.job = j /\ Fenced(t)
            /\ \/ row'[j] = CompletedRow(row[j], t.fence)
               \/ row'[j] = FailedRow(row[j])
               \/ \E n \in Nat : row'[j] = RetriedRow(row[j], n)
               \/ \E n \in Nat : row'[j] = ReleasedRow(row[j], n)
               \/ row'[j] = RenewedRow(row[j])
      BY <2>5 DEF FencedWrite
    <2>7. row'[j].fence = row[j].fence
      BY <2>1, <2>6 DEF CompletedRow, FailedRow, RetriedRow, ReleasedRow,
                        RenewedRow, Rows
    <2> QED
      BY <2>6, <2>7 DEF Fenced, Current
  <1> QED
    BY <1>1, Invariance, PTL DEF Spec, LiveClaimIsExclusive

\* Settled jobs stay settled until their TTL; see OutcomeIsFinal.
THEOREM FinalOutcome == Spec => OutcomeIsFinal
  <1> DEFINE Final == \A j \in Jobs :
                /\ row[j].state \in {"inspected", "failed"} =>
                      row'[j] = row[j] \/ (row'[j].state = "expired"
                                            /\ row[j].expires <= clock)
                /\ row[j].state = "expired" => row'[j] = row[j]
  <1>1. ASSUME IInv, Next PROVE Final
    <2> SUFFICES ASSUME NEW j \in Jobs,
                        row[j].state \in {"inspected", "failed", "expired"},
                        row'[j] # row[j]
                 PROVE  /\ row'[j].state = "expired" /\ row[j].expires <= clock
                        /\ row[j].state # "expired"
      OBVIOUS
    <2>1. row[j] \in Rows
      BY <1>1 DEF IInv, TypeOK
    <2>2. ~FencedWrite(j)
      BY DEF FencedWrite, Fenced, Current
    <2>3. Due(row[j]) /\ row'[j] = ExpiredRow(row[j])
      BY <1>1, <2>2, RowSteps DEF RowStep, LeaseExpired, Claimable
    <2> QED
      BY <2>1, <2>3 DEF Due, ExpiredRow, Rows
  <1> QED
    BY <1>1, Invariance, PTL DEF Spec, OutcomeIsFinal

\* No fence token is ever given to two claims of a job; see FreshFences.
THEOREM FencesAreFresh == Spec => FreshFences
  <1> DEFINE Known(t) == \E u \in tasks : /\ u.job = t.job /\ u.fence = t.fence
                                          /\ u.w = t.w
             GivenOnce == \A t \in tasks' : t.fence \in issued[t.job] => Known(t)
  <1>1. ASSUME IInv, Next PROVE GivenOnce
    <2>1. tasks \subseteq Tasks
      BY <1>1 DEF IInv, TypeOK
    <2>2. CASE tasks' \subseteq tasks
      BY <2>2
    <2>3. ASSUME NEW t \in tasks, NEW to, MoveTask(t, to) PROVE GivenOnce
      <3> DEFINE v == [t EXCEPT !.pc = to]
      <3>1. v.job = t.job /\ v.fence = t.fence /\ v.w = t.w
        BY <2>1 DEF Tasks
      <3>2. Known(v)
        BY <3>1
      <3>3. tasks' \subseteq tasks \cup {v}
        BY <2>3 DEF MoveTask
      <3> HIDE DEF v
      <3> QED
        BY <3>2, <3>3
    <2>4. ASSUME NEW w \in Workers, ClaimInspectionJobs(w) PROVE GivenOnce
      <3>1. PICK batch \in SUBSET Jobs, now \in Nows :
              /\ IsClaimBatch(batch, FreeSlots(w))
              /\ row' = [j \in Jobs |-> IF j \in batch
                                        THEN ClaimedRow(row[j], w, now)
                                        ELSE row[j]]
              /\ tasks' = tasks \cup {ClaimTask(w, j, row'[j]) : j \in batch}
        BY <2>4 DEF ClaimInspectionJobs
      <3>2. SUFFICES ASSUME NEW j \in batch
                     PROVE  ClaimTask(w, j, row'[j]).fence
                              \notin issued[ClaimTask(w, j, row'[j]).job]
        BY <3>1
      <3>3. RowInv(row[j], issued[j]) /\ row[j] \in Rows
        BY <1>1 DEF IInv, TypeOK
      <3>4. row'[j].fence = row[j].fence + 1
        BY <3>1, <3>3 DEF ClaimedRow, Rows
      <3>5. row[j].fence \in Nat /\ \A f \in issued[j] : f <= row[j].fence
        BY <3>3 DEF RowInv, Rows
      <3>6. row[j].fence + 1 \notin issued[j]
        BY <3>5
      <3> QED
        BY <3>4, <3>6 DEF ClaimTask
    <2>5. CASE Tick \/ \E j \in Jobs : Enqueue(j)
      BY <2>2, <2>5 DEF Tick, Enqueue
    <2>6. CASE \E w \in Workers : WorkerStep(w)
      BY <2>2, <2>4, <2>6 DEF WorkerStep, PollHygiene, RequestStop, LoopExit,
                              Stopped, Crash, Restart
    <2>7. CASE \E t \in tasks : TaskStep(t)
      BY <2>2, <2>3, <2>7
         DEF TaskStep, InspectionEnds, InspectionCancelled, Heartbeat,
             Complete, FailPermanent, FailRetryRead, FailRetryWrite, Release,
             DatabaseFault, CancelTask, EndTask
    <2> QED
      BY <1>1, <2>5, <2>6, <2>7 DEF Next
  <1> QED
    BY <1>1, Invariance, PTL DEF Spec, FreshFences

-----------------------------------------------------------------------------
\* Every change of a row is an edge of the abstract lifecycle.
LEMMA RowStepIsEdge ==
    ASSUME IInv, NEW j \in Jobs, RowStep(j)
    PROVE  MovesAlongEdge(row[j], row'[j])
  <1> DEFINE r == row[j]
             c == row'[j]
  <1>1. r \in Rows /\ RowInv(r, issued[j])
    BY DEF IInv, TypeOK
  <1>2. /\ r.attempt \in Nat /\ r.attempt <= MaxAttempts
        /\ r.state = "queued" => r.attempt < MaxAttempts
        /\ r.state = "absent" => r.attempt = 0
    BY <1>1 DEF RowInv, Rows
  <1> USE DEF MovesAlongEdge, PhaseOf, Lifecycle!Move
  <1>3. CASE c = r
    BY <1>3
  <1>4. CASE r.state = "absent" /\ \E now \in Nat : c = NewRow(now)
    <2>1. c.state = "queued" /\ c.attempt = 0
      BY <1>4 DEF NewRow, AbsentRow
    <2> QED
      BY <1>4, <2>1 DEF Lifecycle!Submit
  <1>5. CASE LeaseExpired(r) /\ \E now \in Nat : c = ReclaimedRow(r, now)
    <2>1. /\ c.state = (IF Exhausted(r) THEN "failed" ELSE "queued")
          /\ c.attempt = r.attempt /\ r.state = "inspecting"
      BY <1>1, <1>5 DEF ReclaimedRow, LeaseExpired, Rows
    <2> QED
      BY <1>2, <2>1, QueueAssumption
         DEF Exhausted, Lifecycle!Settle, Lifecycle!Retry
  <1>6. CASE Due(r) /\ c = ExpiredRow(r)
    <2>1. c.state = "expired" /\ c.attempt = r.attempt
      BY <1>1, <1>6 DEF ExpiredRow, Rows
    <2> QED
      BY <1>6, <2>1 DEF Due, Lifecycle!Discard
  <1>7. CASE /\ Claimable(r)
             /\ \E w \in Workers, now \in Nat : c = ClaimedRow(r, w, now)
    <2>1. c.state = "inspecting" /\ c.attempt = r.attempt + 1
      BY <1>1, <1>7 DEF ClaimedRow, Rows
    <2> QED
      BY <1>2, <1>7, <2>1, QueueAssumption DEF Claimable, Lifecycle!Start
  <1>8. CASE FencedWrite(j)
    <2>1. PICK t \in tasks :
            /\ t.job = j /\ Fenced(t)
            /\ \/ c = CompletedRow(r, t.fence)
               \/ c = FailedRow(r)
               \/ t.pc = "requeue" /\ \E n \in Nat : c = RetriedRow(r, n)
               \/ \E n \in Nat : c = ReleasedRow(r, n)
               \/ c = RenewedRow(r)
      BY <1>8 DEF FencedWrite
    <2>2. r.state = "inspecting" /\ t.fence \in issued[j] /\ r.fence = t.fence
      BY <2>1 DEF Fenced, Current, IInv, TaskInv
    <2>3. CASE c = CompletedRow(r, t.fence) \/ c = FailedRow(r)
      <3>1. c.state \in {"inspected", "failed"} /\ c.attempt = r.attempt
        BY <1>1, <2>3 DEF CompletedRow, FailedRow, Rows
      <3> QED
        BY <2>2, <3>1 DEF Lifecycle!Settle
    <2>4. CASE t.pc = "requeue" /\ \E n \in Nat : c = RetriedRow(r, n)
      <3>1. c.state = "queued" /\ c.attempt = r.attempt
        BY <1>1, <2>4 DEF RetriedRow, Rows
      <3>2. r.attempt < MaxAttempts
        BY <2>1, <2>4 DEF IInv, TaskInv, Fenced
      <3> QED
        BY <2>2, <3>1, <3>2 DEF Lifecycle!Retry
    <2>5. CASE \E n \in Nat : c = ReleasedRow(r, n)
      <3>1. c.state = "queued"
            /\ c.attempt = IF r.attempt > 0 THEN r.attempt - 1 ELSE 0
        BY <1>1, <2>5 DEF ReleasedRow, Rows
      <3>2. CASE r.attempt > 0
        BY <1>2, <2>2, <3>1, <3>2, QueueAssumption DEF Lifecycle!GiveBack
      <3>3. CASE r.attempt = 0
        BY <2>2, <3>1, <3>3, QueueAssumption DEF Lifecycle!Retry
      <3>4. r.attempt > 0 \/ r.attempt = 0
        BY <1>2
      <3> QED
        BY <3>2, <3>3, <3>4
    <2>6. CASE c = RenewedRow(r)
      BY <1>1, <2>6 DEF RenewedRow, Rows
    <2> QED
      BY <2>1, <2>3, <2>4, <2>5, <2>6
  <1> QED
    BY <1>3, <1>4, <1>5, <1>6, <1>7, <1>8 DEF RowStep

\* The queue implements JobLifecycle; see ImplementsLifecycle.
THEOREM Refinement == Spec => ImplementsLifecycle
  <1>1. Init => Lifecycle!Init
    BY DEF Init, Lifecycle!Init, AbsentRow, PhaseOf
  <1>2. ASSUME IInv, [Next]_vars
        PROVE  [Lifecycle!Next]_<<[j \in Jobs |-> PhaseOf(row[j].state)],
                                  [j \in Jobs |-> row[j].attempt]>>
    <2>1. CASE UNCHANGED vars
      BY <2>1 DEF vars
    <2>2. CASE Next
      <3>1. \A j \in Jobs : MovesAlongEdge(row[j], row'[j])
        BY <1>2, <2>2, RowSteps, RowStepIsEdge
      <3> QED
        BY <3>1 DEF MovesAlongEdge, Lifecycle!Next
    <2> QED
      BY <1>2, <2>1, <2>2
  <1> QED
    BY <1>1, <1>2, Invariance, PTL DEF Spec, ImplementsLifecycle, Lifecycle!Spec

-----------------------------------------------------------------------------
(* The requests of the job API.                                            *)

\* Shapes of answers, rows and requests.
Kinds == {"none", "job", "conflict", "error", "lost", "not_found", "expired"}
Answers == [kind : Kinds, job : Requests \cup {NoJob}]
JobRows == [by : Requests \cup {NoJob}, link : Links \cup {NoJob}]
Posts == [pc : {"idle", "lookup", "resolve", "insert", "commit", "done"},
          token : Tokens \cup {NoJob}, link : Links \cup {NoJob}]

\* Types of the API and its table.
RequestTypes ==
    /\ post \in [Requests -> Posts] /\ answer \in [Requests -> Answers]
    /\ jobs \in [Tokens -> JobRows] /\ pending \in [Tokens -> Requests \cup {NoJob}]
    /\ read \in [token : Tokens \cup {NoJob}, told : Answers]

\* What a request may rely on: its token and URL, the row it is about to commit, and
\* the row it was told of.
RequestOK(r) ==
    /\ post[r].pc # "idle" => post[r].token \in Tokens /\ post[r].link \in Links
    /\ (post[r].pc = "done") <=> (answer[r].kind # "none")
    /\ answer[r].kind = "none" => answer[r] = Silence
    /\ post[r].pc = "commit" => pending[post[r].token] = r
    /\ answer[r].kind \in {"job", "lost"} =>
          /\ answer[r].job \in Requests
          /\ jobs[post[r].token] = [by |-> answer[r].job, link |-> post[r].link]
    /\ answer[r].kind = "conflict" => Row(r) # NoRow /\ Row(r).link # post[r].link

\* A row is committed once, by the request whose pending row it was.
TokenOK(t) ==
    /\ jobs[t] # NoRow => jobs[t].by \in Requests
    /\ pending[t] # NoJob =>
          /\ post[pending[t]].pc = "commit" /\ post[pending[t]].token = t
          /\ jobs[t] = NoRow

\* What get_job was told is the row of its token.
ReadOK ==
    read.told.kind = "job" =>
        /\ read.token \in Tokens /\ jobs[read.token] # NoRow
        /\ jobs[read.token].by = read.told.job

\* The inductive invariant of the requests.
RequestInv ==
    /\ RequestTypes /\ ReadOK
    /\ \A r \in Requests : RequestOK(r)
    /\ \A t \in Tokens : TokenOK(t)

\* A request that another one's step leaves alone: rows are never changed, only made.
LEMMA RequestKept ==
    ASSUME RequestInv, NEW r \in Requests,
           post'[r] = post[r], answer'[r] = answer[r],
           \A t \in Tokens : jobs[t] # NoRow => jobs'[t] = jobs[t],
           post[r].pc = "commit" => pending'[post[r].token] = pending[post[r].token]
    PROVE  RequestOK(r)'
  <1>1. RequestOK(r) /\ post[r] \in Posts /\ answer[r] \in Answers
    BY DEF RequestInv, RequestTypes
  <1>2. answer[r].kind \in {"job", "lost"} =>
           /\ post[r].token \in Tokens /\ jobs[post[r].token] # NoRow
    BY <1>1, RequestAssumption DEF RequestOK, NoRow
  <1>3. answer[r].kind = "conflict" => post[r].token \in Tokens /\ Row(r) # NoRow
    BY <1>1 DEF RequestOK
  <1> QED
    BY <1>1, <1>2, <1>3 DEF RequestOK, Row

\* What a GET said stays true: rows are never changed, only made.
LEMMA ReadKept ==
    ASSUME ReadOK, read' = read, \A t \in Tokens : jobs[t] # NoRow => jobs'[t] = jobs[t]
    PROVE  ReadOK'
  BY DEF ReadOK

\* The answer of a request that made nothing.
LEMMA AnsweredOK ==
    ASSUME RequestInv, NEW r \in Requests, post[r].pc \notin {"idle", "done", "commit"},
           NEW told \in Answers, Tell(r, told), told.kind # "none",
           told.kind \in {"job", "lost"} =>
              told.job \in Requests /\ Row(r) = [by |-> told.job, link |-> post[r].link],
           told.kind = "conflict" => Row(r) # NoRow /\ Row(r).link # post[r].link,
           jobs' = jobs, pending' = pending, read' = read
    PROVE  RequestInv'
  <1>1. /\ RequestTypes /\ ReadOK /\ RequestOK(r) /\ post[r] \in Posts
    BY DEF RequestInv, RequestTypes
  <1>2. /\ post' = [post EXCEPT ![r].pc = "done"] /\ answer' = [answer EXCEPT ![r] = told]
    BY DEF Tell, Go
  <1>3. /\ post' \in [Requests -> Posts] /\ answer' \in [Requests -> Answers]
        /\ post'[r].pc = "done" /\ post'[r].token = post[r].token
        /\ post'[r].link = post[r].link /\ answer'[r] = told
        /\ \A q \in Requests \ {r} : post'[q] = post[q] /\ answer'[q] = answer[q]
    BY <1>1, <1>2 DEF RequestTypes, Posts
  <1>4. RequestOK(r)'
    BY <1>1, <1>3 DEF RequestOK, Row
  <1>5. \A q \in Requests \ {r} : RequestOK(q)'
    BY <1>3, RequestKept
  <1>6. ASSUME NEW t \in Tokens
        PROVE  TokenOK(t)'
    <2>1. TokenOK(t) /\ pending[t] \in Requests \cup {NoJob}
      BY <1>1 DEF RequestInv, RequestTypes
    <2> QED
      BY <1>3, <2>1 DEF TokenOK
  <1>7. ReadOK'
    BY <1>1, ReadKept
  <1> QED
    BY <1>1, <1>3, <1>4, <1>5, <1>6, <1>7 DEF RequestInv, RequestTypes

\* A request that moves on.
LEMMA MovedOnOK ==
    ASSUME RequestInv, NEW r \in Requests, post[r].pc \notin {"idle", "done", "commit"},
           NEW at \in {"resolve", "insert"}, Go(r, at),
           answer' = answer, jobs' = jobs, pending' = pending, read' = read
    PROVE  RequestInv'
  <1>1. /\ RequestTypes /\ ReadOK /\ RequestOK(r) /\ post[r] \in Posts
    BY DEF RequestInv, RequestTypes
  <1>2. /\ post' \in [Requests -> Posts]
        /\ post'[r].pc = at /\ post'[r].token = post[r].token
        /\ post'[r].link = post[r].link
        /\ \A q \in Requests \ {r} : post'[q] = post[q]
    BY <1>1 DEF RequestTypes, Posts, Go
  <1>3. RequestOK(r)'
    BY <1>1, <1>2 DEF RequestOK, Row
  <1>4. \A q \in Requests \ {r} : RequestOK(q)'
    BY <1>2, RequestKept
  <1>5. ASSUME NEW t \in Tokens
        PROVE  TokenOK(t)'
    <2>1. TokenOK(t) /\ pending[t] \in Requests \cup {NoJob}
      BY <1>1 DEF RequestInv, RequestTypes
    <2> QED
      BY <1>2, <2>1 DEF TokenOK
  <1>6. ReadOK'
    BY <1>1, ReadKept
  <1> QED
    BY <1>1, <1>2, <1>3, <1>4, <1>5, <1>6 DEF RequestInv, RequestTypes

\* What an existing row makes of a request with its token.
LEMMA ExistingFacts ==
    ASSUME RequestInv, NEW r \in Requests, post[r].pc # "idle", Row(r) # NoRow
    PROVE  /\ Existing(r) \in Answers /\ Existing(r).kind \in {"job", "conflict"}
           /\ Existing(r).kind = "job" =>
                 /\ Existing(r).job \in Requests
                 /\ Row(r) = [by |-> Existing(r).job, link |-> post[r].link]
           /\ Existing(r).kind = "conflict" => Row(r) # NoRow /\ Row(r).link # post[r].link
  <1>1. post[r].token \in Tokens
    BY DEF RequestInv, RequestOK
  <1>2. Row(r) \in JobRows /\ Row(r).by \in Requests
    BY <1>1 DEF RequestInv, RequestTypes, Row, TokenOK
  <1>3. CASE Row(r).link = post[r].link
    <2>1. Existing(r) = [kind |-> "job", job |-> Row(r).by]
      BY <1>3 DEF Existing, Told
    <2>2. Row(r) = [by |-> Row(r).by, link |-> post[r].link]
      BY <1>2, <1>3 DEF JobRows
    <2> QED
      BY <1>2, <2>1, <2>2 DEF Answers, Kinds
  <1>4. CASE Row(r).link # post[r].link
    <2>1. Existing(r) = [kind |-> "conflict", job |-> NoJob]
      BY <1>4 DEF Existing, Told
    <2> QED
      BY <1>4, <2>1 DEF Answers, Kinds
  <1> QED
    BY <1>3, <1>4

\* An error tells of no job.
LEMMA ErrorType ==
    /\ Told("error", NoJob) \in Answers /\ Told("error", NoJob).kind = "error"
  BY DEF Told, Answers, Kinds

\* get_by_token finds the row, or nothing yet.
LEMMA LookupOK ==
    ASSUME RequestInv, NEW r \in Requests, Lookup(r)
    PROVE  RequestInv'
  <1>1. CASE Row(r) # NoRow
    BY <1>1, ExistingFacts, AnsweredOK DEF Lookup
  <1>2. CASE Row(r) = NoRow
    BY <1>2, MovedOnOK DEF Lookup
  <1> QED
    BY <1>1, <1>2

\* The URL is resolved, or refused.
LEMMA ResolvedOK ==
    ASSUME RequestInv, NEW r \in Requests, Resolved(r)
    PROVE  RequestInv'
  BY ErrorType, AnsweredOK, MovedOnOK DEF Resolved

\* The INSERT waits for a pending row of the token, finds a committed one, or is the first.
LEMMA InsertOK ==
    ASSUME RequestInv, NEW r \in Requests, Insert(r)
    PROVE  RequestInv'
  <1> DEFINE t == post[r].token
  <1>1. /\ RequestTypes /\ ReadOK /\ RequestOK(r) /\ post[r] \in Posts /\ t \in Tokens
        /\ post[r].pc = "insert"
    BY DEF RequestInv, RequestTypes, Insert, RequestOK
  <1>2. CASE Row(r) # NoRow
    BY <1>2, ExistingFacts, AnsweredOK DEF Insert
  <1>3. CASE Row(r) = NoRow
    <2>1. /\ pending[t] = NoJob /\ pending' = [pending EXCEPT ![t] = r]
          /\ post' = [post EXCEPT ![r].pc = "commit"]
          /\ answer' = answer /\ jobs' = jobs /\ read' = read
      BY <1>3 DEF Insert, Go
    <2>2. /\ post' \in [Requests -> Posts]
          /\ post'[r].pc = "commit" /\ post'[r].token = t
          /\ post'[r].link = post[r].link
          /\ \A q \in Requests \ {r} : post'[q] = post[q]
      BY <1>1, <2>1 DEF RequestTypes, Posts
    <2>3. /\ pending' \in [Tokens -> Requests \cup {NoJob}] /\ pending'[t] = r
          /\ \A s \in Tokens \ {t} : pending'[s] = pending[s]
      BY <1>1, <2>1 DEF RequestTypes
    <2>4. RequestOK(r)'
      BY <1>1, <2>1, <2>2, <2>3 DEF RequestOK, Row
    <2>5. ASSUME NEW q \in Requests \ {r}
          PROVE  RequestOK(q)'
      <3>1. post[q].pc = "commit" => post[q].token # t /\ post[q].token \in Tokens
        <4>1. RequestOK(q) /\ q # NoJob
          BY RequestAssumption DEF RequestInv
        <4> QED
          BY <2>1, <4>1 DEF RequestOK
      <3> QED
        BY <2>1, <2>2, <2>3, <3>1, RequestKept
    <2>6. ASSUME NEW s \in Tokens
          PROVE  TokenOK(s)'
      <3>1. TokenOK(s) /\ pending[s] \in Requests \cup {NoJob}
        BY <1>1 DEF RequestInv, RequestTypes
      <3>2. CASE s = t
        BY <1>3, <2>1, <2>2, <2>3, <3>1, <3>2 DEF TokenOK, Row
      <3>3. CASE s # t
        BY <1>1, <2>1, <2>2, <2>3, <3>1, <3>3 DEF TokenOK
      <3> QED
        BY <3>2, <3>3
    <2>7. ReadOK'
      BY <1>1, <2>1, ReadKept
    <2> QED
      BY <1>1, <2>1, <2>2, <2>3, <2>4, <2>5, <2>6, <2>7 DEF RequestInv, RequestTypes
  <1> QED
    BY <1>2, <1>3

\* The transaction of a pending row ends, with the row or without it.
LEMMA TransactionEnds ==
    ASSUME RequestInv, NEW r \in Requests, post[r].pc = "commit",
           NEW told \in Answers, Tell(r, told),
           \/ /\ told.kind \in {"job", "lost"} /\ told.job = r
              /\ jobs' = [jobs EXCEPT ![post[r].token] = [by |-> r, link |-> post[r].link]]
           \/ told.kind = "error" /\ jobs' = jobs,
           pending' = [pending EXCEPT ![post[r].token] = NoJob], read' = read
    PROVE  RequestInv'
  <1> DEFINE t == post[r].token
             n == [by |-> r, link |-> post[r].link]
  <1>1. /\ RequestTypes /\ ReadOK /\ RequestOK(r) /\ post[r] \in Posts /\ t \in Tokens
        /\ post[r].link \in Links /\ pending[t] = r /\ jobs[t] = NoRow
    BY RequestAssumption DEF RequestInv, RequestTypes, RequestOK, TokenOK
  <1>2. /\ post' \in [Requests -> Posts] /\ answer' \in [Requests -> Answers]
        /\ post'[r].pc = "done" /\ post'[r].token = t
        /\ post'[r].link = post[r].link /\ answer'[r] = told
        /\ \A q \in Requests \ {r} : post'[q] = post[q] /\ answer'[q] = answer[q]
    BY <1>1 DEF RequestTypes, Posts, Tell, Go
  <1>3. /\ pending' \in [Tokens -> Requests \cup {NoJob}] /\ pending'[t] = NoJob
        /\ \A s \in Tokens \ {t} : pending'[s] = pending[s]
    BY <1>1 DEF RequestTypes
  <1>4. n \in JobRows /\ n.by = r
    BY <1>1 DEF JobRows
  <1>5. /\ jobs' \in [Tokens -> JobRows]
        /\ \A s \in Tokens \ {t} : jobs'[s] = jobs[s]
        /\ told.kind \in {"job", "lost"} => jobs'[t] = n
        /\ told.kind = "error" => jobs'[t] = NoRow
    BY <1>1, <1>4 DEF RequestTypes
  <1> HIDE DEF t
  <1>6. \A s \in Tokens : jobs[s] # NoRow => jobs'[s] = jobs[s]
    BY <1>1, <1>5
  <1>7. RequestOK(r)'
    BY <1>1, <1>2, <1>3, <1>5 DEF RequestOK, Row
  <1>8. ASSUME NEW q \in Requests \ {r}
        PROVE  RequestOK(q)'
    <2>1. post[q].pc = "commit" => post[q].token # t /\ post[q].token \in Tokens
      BY <1>1 DEF RequestInv, RequestOK
    <2> QED
      BY <1>2, <1>3, <1>6, <2>1, RequestKept
  <1>9. ASSUME NEW s \in Tokens
        PROVE  TokenOK(s)'
    <2>1. TokenOK(s) /\ pending[s] \in Requests \cup {NoJob}
      BY <1>1 DEF RequestInv, RequestTypes
    <2>2. CASE s = t
      BY <1>3, <1>4, <1>5, <2>2 DEF TokenOK
    <2>3. CASE s # t
      BY <1>1, <1>2, <1>3, <1>5, <2>1, <2>3 DEF TokenOK
    <2> QED
      BY <2>2, <2>3
  <1>10. ReadOK'
    BY <1>1, <1>6, ReadKept
  <1> QED
    BY <1>1, <1>2, <1>3, <1>5, <1>7, <1>8, <1>9, <1>10 DEF RequestInv, RequestTypes

\* The row is committed, and the answer may be lost.
LEMMA CommitOK ==
    ASSUME RequestInv, NEW r \in Requests, Commit(r)
    PROVE  RequestInv'
  <1>1. /\ Told("job", r) \in Answers /\ Told("job", r).kind = "job"
        /\ Told("job", r).job = r
        /\ Told("lost", r) \in Answers /\ Told("lost", r).kind = "lost"
        /\ Told("lost", r).job = r
    BY DEF Told, Answers, Kinds
  <1>2. CASE Tell(r, Told("job", r))
    BY <1>1, <1>2, TransactionEnds DEF Commit
  <1>3. CASE Tell(r, Told("lost", r))
    BY <1>1, <1>3, TransactionEnds DEF Commit
  <1> QED
    BY <1>2, <1>3 DEF Commit

\* The transaction is rolled back.
LEMMA RollbackOK ==
    ASSUME RequestInv, NEW r \in Requests, Rollback(r)
    PROVE  RequestInv'
  BY ErrorType, TransactionEnds DEF Rollback

\* A request begins.
LEMMA PostOK ==
    ASSUME RequestInv, NEW r \in Requests, NEW t \in Tokens, NEW u \in Links, Post(r, t, u)
    PROVE  RequestInv'
  <1> DEFINE n == [pc |-> "lookup", token |-> t, link |-> u]
  <1>1. /\ RequestTypes /\ ReadOK /\ RequestOK(r) /\ post[r].pc = "idle"
        /\ answer' = answer /\ jobs' = jobs /\ pending' = pending /\ read' = read
        /\ post' = [post EXCEPT ![r] = n]
    BY DEF RequestInv, Post
  <1>2. n \in Posts /\ n.pc = "lookup" /\ n.token = t /\ n.link = u
    BY DEF Posts
  <1> HIDE DEF n
  <1>3. /\ post' \in [Requests -> Posts] /\ post'[r] = n
        /\ \A q \in Requests \ {r} : post'[q] = post[q]
    BY <1>1, <1>2 DEF RequestTypes
  <1>4. RequestOK(r)'
    BY <1>1, <1>2, <1>3 DEF RequestOK, Row
  <1>5. \A q \in Requests \ {r} : RequestOK(q)'
    BY <1>1, <1>3, RequestKept
  <1>6. ASSUME NEW s \in Tokens
        PROVE  TokenOK(s)'
    <2>1. TokenOK(s) /\ pending[s] \in Requests \cup {NoJob}
      BY <1>1 DEF RequestInv, RequestTypes
    <2> QED
      BY <1>1, <1>3, <2>1 DEF TokenOK
  <1>7. ReadOK'
    BY <1>1, ReadKept
  <1> QED
    BY <1>1, <1>3, <1>4, <1>5, <1>6, <1>7 DEF RequestInv, RequestTypes

\* get_job tells what the row says.
LEMMA GetOK ==
    ASSUME RequestInv, NEW t \in Tokens, NEW id \in Requests, Get(t, id)
    PROVE  RequestInv'
  <1> DEFINE a == IF ~Owns(t, id) THEN Told("not_found", NoJob)
                  ELSE IF t \in expired THEN Told("expired", NoJob)
                  ELSE Told("job", id)
  <1>1. /\ read' = [token |-> t, told |-> a] /\ RequestTypes
        /\ answer' = answer /\ jobs' = jobs /\ pending' = pending /\ post' = post
    BY DEF Get, RequestInv
  <1>2. a \in Answers /\ (a.kind = "job" => Owns(t, id) /\ a.job = id)
    BY DEF Told, Answers, Kinds
  <1> HIDE DEF a
  <1>3. ReadOK'
    BY <1>1, <1>2 DEF ReadOK, Owns
  <1>4. RequestTypes'
    BY <1>1, <1>2 DEF RequestTypes
  <1>5. \A r \in Requests : RequestOK(r)'
    BY <1>1, RequestKept
  <1>6. \A s \in Tokens : TokenOK(s)'
    BY <1>1 DEF RequestInv, TokenOK
  <1> QED
    BY <1>3, <1>4, <1>5, <1>6 DEF RequestInv

\* The invariant holds at first.
LEMMA RequestInitOK ==
    ASSUME RequestInit
    PROVE  RequestInv
  BY DEF RequestInit, RequestInv, RequestTypes, RequestOK, TokenOK, ReadOK, Posts,
         Answers, Kinds, JobRows, NoRow, Silence

\* Every step of the API keeps it.
LEMMA RequestStepOK ==
    ASSUME RequestInv, [RequestNext]_requestVars
    PROVE  RequestInv'
  <1>1. ASSUME NEW r \in Requests, Serve(r)
        PROVE  RequestInv'
    BY <1>1, LookupOK, ResolvedOK, InsertOK, CommitOK, RollbackOK DEF Serve
  <1>2. ASSUME NEW r \in Requests, NEW t \in Tokens, NEW u \in Links, Post(r, t, u)
        PROVE  RequestInv'
    BY <1>2, PostOK
  <1>3. ASSUME NEW t \in Tokens, NEW id \in Requests, Get(t, id)
        PROVE  RequestInv'
    BY <1>3, GetOK
  <1>4. ASSUME post' = post, answer' = answer, jobs' = jobs, pending' = pending, read' = read
        PROVE  RequestInv'
    BY <1>4 DEF RequestInv, RequestTypes, RequestOK, TokenOK, ReadOK, Row
  <1> QED
    BY <1>1, <1>2, <1>3, <1>4 DEF RequestNext, Served, PastTtl, requestVars

\* A token buys one job, whatever interleaving of requests with it, lost answers and
\* rolled back transactions (create_job, enqueue_or_get), and a job is only shown to
\* its token (get_job).
THEOREM OneJob == RequestSpec => []OneJobPerToken
  <1>1. RequestInit => RequestInv
    BY RequestInitOK
  <1>2. RequestInv /\ [RequestNext]_requestVars => RequestInv'
    BY RequestStepOK
  <1>3. RequestInv => OneJobPerToken
    BY DEF RequestInv, RequestOK, ReadOK, OneJobPerToken
  <1> QED
    BY <1>1, <1>2, <1>3, PTL DEF RequestSpec

-----------------------------------------------------------------------------
(* From a submitted URL to the URL a tool is given.                        *)

\* Awaits of the client, URLs that can be named, requests and links of a chain.
LoopPcs == {"validate", "connect", "headers", "body"}
Named == Urls \cup {Canonical(u) : u \in Urls}
Requested == [url : Urls, method : {"HEAD", "GET"}]
Hops == [from : Urls, to : Named]

\* Types, and which awaits belong to which task.
ResolutionTypes ==
    /\ task \in {"none", "probe", "resolve", "inspect"}
    /\ pc \in LoopPcs \cup {"idle", "wrapper", "provider", "extract"}
    /\ (task = "none") <=> (pc = "idle")
    /\ task = "probe" => pc \in LoopPcs
    /\ task = "resolve" => pc \in LoopPcs \cup {"wrapper", "provider"}
    /\ task = "inspect" => pc = "extract"
    /\ submitted \in Urls \cup {NoUrl} /\ wrapper \in Urls \cup {NoUrl}
    /\ fetch \in [url : Urls \cup {NoUrl}, method : {"HEAD", "GET"}, hops : Nat]
    /\ fetch.hops <= MaxRedirects
    /\ sent \in Seq(Requested) /\ chain \in Seq(Hops) /\ seen \subseteq Urls
    /\ response \in BOOLEAN
    /\ response <=> (pc \in {"headers", "body"} \/ (pc = "validate" /\ fetch.hops > 0))
    /\ pc \in LoopPcs \cup {"provider"} => submitted \in Urls /\ fetch.url \in Urls
    /\ pc = "wrapper" => submitted \in Urls /\ wrapper \in Urls

\* A HEAD request of this loop, and the fallback it may have led to.
HeadSent == \E i \in DOMAIN sent : sent[i].method = "HEAD"
Fallback == IF HeadSent /\ fetch.method = "GET" THEN 1 ELSE 0

\* What the client's loop has sent, and what it may send next.
LoopOK ==
    pc \in LoopPcs =>
        /\ task = "probe" =>
              /\ ProviderOf[submitted.host] # NoOwner
              /\ pc # "validate" => ProviderOf[fetch.url.host] = ProviderOf[submitted.host]
        /\ task = "resolve" =>
              /\ ProviderOf[submitted.host] = NoOwner /\ wrapper \in seen
              /\ ResolverOf[fetch.url.host] = ResolverOf[wrapper.host]
        /\ \A i \in DOMAIN sent : sent[i].url.scheme = "https" => fetch.url.scheme = "https"
        /\ pc = "connect" => Fresh(fetch)
        /\ pc \in {"headers", "body"} =>
              /\ \E i \in DOMAIN sent : sent[i].method = fetch.method
              /\ Len(sent) <= fetch.hops + 1 + Fallback
        /\ pc \in {"validate", "connect"} => Len(sent) <= fetch.hops + Fallback

\* No request is sent twice, and no more than the limit allows.
SentOK ==
    /\ RequestsAreVetted
    /\ \A i, j \in DOMAIN sent : sent[i] = sent[j] => i = j
    /\ Len(sent) <= MaxRedirects + (IF HeadSent THEN 2 ELSE 1)

\* The chain behind the wrapper that is being fetched.
ChainOK ==
    /\ Len(chain) <= MaxDepth
    /\ chain # <<>> => chain[1].from = submitted
    /\ \A i \in 1..(Len(chain) - 1) : chain[i].to = chain[i + 1].from
    /\ \A i \in DOMAIN chain : chain[i].from \in seen
    /\ \A i, j \in DOMAIN chain : chain[i].from = chain[j].from => i = j
    /\ task = "resolve" /\ pc # "provider" =>
          /\ ProviderOf[submitted.host] = NoOwner
          /\ Len(chain) < MaxDepth
          /\ chain = <<>> => wrapper = submitted
          /\ chain # <<>> => chain[Len(chain)].to = wrapper
          /\ pc # "wrapper" => \A i \in DOMAIN chain : chain[i].from # wrapper
    /\ pc = "provider" =>
          /\ chain = <<>> => fetch.url = submitted
          /\ chain # <<>> => chain[Len(chain)].to = fetch.url

\* A result is the canonical URL of the last one fetched, at the end of the chain.
OutcomeOK ==
    /\ task # "none" => outcome = Failed
    /\ outcome.kind = "resolved" =>
          /\ fetch.url \in Urls /\ outcome.url = Canonical(fetch.url)
          /\ chain = <<>> => fetch.url = submitted
          /\ chain # <<>> => chain[Len(chain)].to = outcome.url
    /\ task \in {"probe", "resolve"} => target = NoUrl
    /\ ToolGetsTheCanonicalUrl

\* The inductive invariant of a resolution.
ResolutionInv == ResolutionTypes /\ LoopOK /\ SentOK /\ ChainOK /\ OutcomeOK

\* Nothing has been sent yet.
LEMMA NothingSent ==
    ASSUME sent' = <<>>, response' = FALSE,
           \A n \in {1, 2} : lookups'[n] \subseteq PublicAddrs
    PROVE  SentOK' /\ ~HeadSent'
  BY ResolutionAssumption DEF SentOK, RequestsAreVetted, HeadSent

\* A task that ends leaves what it sent and the chain it followed.
LEMMA EndOK ==
    ASSUME ResolutionInv, NEW result, End(result),
           result = Failed \/ result.kind = "probed"
           \/ (result.kind = "inspected" /\ result.url = target)
    PROVE  ResolutionInv'
  <1>1. /\ ResolutionTypes /\ SentOK /\ ChainOK /\ OutcomeOK
        /\ task' = "none" /\ pc' = "idle" /\ outcome' = result /\ response' = FALSE
        /\ submitted' = submitted /\ wrapper' = wrapper /\ chain' = chain /\ seen' = seen
        /\ fetch' = fetch /\ sent' = sent /\ lookups' = lookups /\ target' = target
    BY DEF ResolutionInv, End
  <1>2. ResolutionTypes'
    BY <1>1 DEF ResolutionTypes, LoopPcs
  <1>3. LoopOK'
    BY <1>1 DEF LoopOK, LoopPcs
  <1>4. SentOK'
    BY <1>1 DEF SentOK, RequestsAreVetted, HeadSent
  <1>5. ChainOK'
    BY <1>1 DEF ChainOK
  <1>6. OutcomeOK'
    BY <1>1 DEF OutcomeOK, ToolGetsTheCanonicalUrl, Failed
  <1> QED
    BY <1>2, <1>3, <1>4, <1>5, <1>6 DEF ResolutionInv

\* A task that begins.
LEMMA BeginOK ==
    ASSUME ResolutionInv, NEW name, NEW at, NEW u \in Urls, NEW w, NEW f,
           Begin(name, at, u, w, f),
           f \in [url : Urls \cup {NoUrl}, method : {"HEAD", "GET"}, hops : Nat], f.hops = 0,
           \/ name = "none" /\ at = "idle" /\ w = NoUrl
           \/ /\ name = "probe" /\ at = "validate" /\ w = NoUrl /\ f.url = u
              /\ ProviderOf[u.host] # NoOwner
           \/ name = "resolve" /\ at = "provider" /\ w = NoUrl /\ f.url = u
           \/ name = "resolve" /\ at = "wrapper" /\ w = u /\ ProviderOf[u.host] = NoOwner
    PROVE  ResolutionInv'
  <1>1. /\ task' = name /\ pc' = at /\ submitted' = u /\ wrapper' = w
        /\ chain' = <<>> /\ seen' = {} /\ fetch' = f /\ sent' = <<>> /\ response' = FALSE
        /\ outcome' = Failed /\ target' = NoUrl /\ lookups' = <<{}, {}>>
    BY DEF Begin
  <1>2. ResolutionTypes'
    <2>1. sent' \in Seq(Requested) /\ chain' \in Seq(Hops) /\ seen' \subseteq Urls
      BY <1>1
    <2>2. MaxRedirects \in Nat /\ f.hops <= MaxRedirects /\ ~(f.hops > 0)
      BY ResolutionAssumption
    <2>3. /\ submitted' \in Urls \cup {NoUrl} /\ wrapper' \in Urls \cup {NoUrl}
          /\ fetch' \in [url : Urls \cup {NoUrl}, method : {"HEAD", "GET"}, hops : Nat]
      BY <1>1
    <2> QED
      BY <1>1, <2>1, <2>2, <2>3 DEF ResolutionTypes, LoopPcs
  <1>3. SentOK' /\ ~HeadSent'
    <2>1. \A n \in {1, 2} : lookups'[n] = {}
      BY <1>1
    <2> QED
      BY <1>1, <2>1, NothingSent
  <1>4. Fallback' = 0
    BY <1>3 DEF Fallback
  <1>5. LoopOK'
    BY <1>1, <1>4 DEF LoopOK, LoopPcs
  <1>6. ChainOK'
    BY <1>1, ResolutionAssumption DEF ChainOK
  <1>7. OutcomeOK'
    BY <1>1 DEF OutcomeOK, ToolGetsTheCanonicalUrl, Failed
  <1> QED
    BY <1>2, <1>3, <1>5, <1>6, <1>7 DEF ResolutionInv

\* A probe begins.
LEMMA ProbeOK ==
    ASSUME ResolutionInv, NEW u \in Urls, NEW m \in {"HEAD", "GET"}, Probe(u, m)
    PROVE  ResolutionInv'
  <1>1. CASE u.host \in Barred \/ ProviderOf[u.host] = NoOwner
    <2>1. Begin("none", "idle", u, NoUrl, NoFetch)
      BY <1>1 DEF Probe
    <2>2. NoFetch \in [url : Urls \cup {NoUrl}, method : {"HEAD", "GET"}, hops : Nat]
          /\ NoFetch.hops = 0
      BY DEF NoFetch
    <2> QED
      BY <2>1, <2>2, BeginOK
  <1>2. CASE ~(u.host \in Barred \/ ProviderOf[u.host] = NoOwner)
    <2> DEFINE f == [url |-> u, method |-> m, hops |-> 0]
    <2>1. Begin("probe", "validate", u, NoUrl, f)
      BY <1>2 DEF Probe
    <2>2. f \in [url : Urls \cup {NoUrl}, method : {"HEAD", "GET"}, hops : Nat]
          /\ f.hops = 0 /\ f.url = u
      OBVIOUS
    <2> HIDE DEF f
    <2> QED
      BY <1>2, <2>1, <2>2, BeginOK
  <1> QED
    BY <1>1, <1>2

\* A resolution begins.
LEMMA ResolveOK ==
    ASSUME ResolutionInv, NEW u \in Urls, Resolve(u)
    PROVE  ResolutionInv'
  <1> DEFINE f == [NoFetch EXCEPT !.url = u]
  <1>1. /\ NoFetch \in [url : Urls \cup {NoUrl}, method : {"HEAD", "GET"}, hops : Nat]
        /\ NoFetch.hops = 0
        /\ f \in [url : Urls \cup {NoUrl}, method : {"HEAD", "GET"}, hops : Nat]
        /\ f.hops = 0 /\ f.url = u
    BY DEF NoFetch
  <1>2. \/ Begin("none", "idle", u, NoUrl, NoFetch)
        \/ Begin("resolve", "provider", u, NoUrl, f)
        \/ Begin("resolve", "wrapper", u, u, NoFetch) /\ ProviderOf[u.host] = NoOwner
    BY DEF Resolve
  <1> HIDE DEF f
  <1> QED
    BY <1>1, <1>2, BeginOK

\* The loop goes on to another request, new to it.
LEMMA LoopTopOK ==
    ASSUME ResolutionInv, NEW f, LoopTop(f), task \in {"probe", "resolve"}, pc \in LoopPcs,
           f.url = fetch.url, f.hops = fetch.hops,
           f \in [url : Urls \cup {NoUrl}, method : {"HEAD", "GET"}, hops : Nat],
           task = "probe" => ProviderOf[fetch.url.host] = ProviderOf[submitted.host],
           Len(sent) <= f.hops + (IF HeadSent /\ f.method = "GET" THEN 1 ELSE 0)
    PROVE  ResolutionInv'
  <1>1. CASE ~Fresh(f)
    BY <1>1, EndOK DEF LoopTop
  <1>2. CASE Fresh(f)
    <2>1. /\ ResolutionTypes /\ LoopOK /\ SentOK /\ ChainOK /\ OutcomeOK
          /\ pc' = "connect" /\ fetch' = f /\ response' = FALSE
          /\ task' = task /\ submitted' = submitted /\ wrapper' = wrapper
          /\ chain' = chain /\ seen' = seen /\ sent' = sent /\ lookups' = lookups
          /\ outcome' = outcome /\ target' = target
      BY <1>2 DEF ResolutionInv, LoopTop
    <2>2. ResolutionTypes'
      BY <2>1 DEF ResolutionTypes, LoopPcs
    <2>3. Len(sent)' <= fetch'.hops + Fallback'
      BY <2>1 DEF Fallback, HeadSent
    <2>4. LoopOK'
      BY <1>2, <2>1, <2>3 DEF LoopOK, LoopPcs, Fresh
    <2>5. SentOK'
      BY <2>1 DEF SentOK, RequestsAreVetted, HeadSent
    <2>6. ChainOK'
      BY <2>1 DEF ChainOK, ResolutionTypes, LoopPcs
    <2>7. OutcomeOK'
      BY <2>1 DEF OutcomeOK, ToolGetsTheCanonicalUrl, Failed
    <2> QED
      BY <2>2, <2>4, <2>5, <2>6, <2>7 DEF ResolutionInv
  <1> QED
    BY <1>1, <1>2

\* Only the two tasks with a client loop are at its awaits.
LEMMA LoopTasks ==
    ASSUME ResolutionTypes, pc \in LoopPcs
    PROVE  task \in {"probe", "resolve"}
  BY DEF ResolutionTypes, LoopPcs

\* The validator has answered.
LEMMA ValidatedOK ==
    ASSUME ResolutionInv, NEW addrs, Validated(addrs)
    PROVE  ResolutionInv'
  <1>1. /\ ResolutionTypes /\ LoopOK /\ pc = "validate" /\ pc \in LoopPcs
    BY DEF ResolutionInv, Validated, At, LoopPcs
  <1>2. CASE End(Failed)
    BY <1>2, EndOK
  <1>3. CASE LoopTop(fetch) /\ (task = "probe" =>
               ProviderOf[fetch.url.host] = ProviderOf[submitted.host])
    <2>1. Len(sent) <= fetch.hops + Fallback
      BY <1>1 DEF LoopOK
    <2>2. fetch \in [url : Urls \cup {NoUrl}, method : {"HEAD", "GET"}, hops : Nat]
      BY <1>1 DEF ResolutionTypes
    <2> QED
      BY <1>1, <1>3, <2>1, <2>2, LoopTasks, LoopTopOK DEF Fallback
  <1> QED
    BY <1>2, <1>3 DEF Validated

\* HEAD falls back to GET, once.
LEMMA HeadRefusedOK ==
    ASSUME ResolutionInv, HeadRefused
    PROVE  ResolutionInv'
  <1> DEFINE f == [fetch EXCEPT !.method = "GET"]
  <1>1. /\ ResolutionTypes /\ LoopOK /\ pc = "headers" /\ pc \in LoopPcs
        /\ task = "probe" /\ fetch.method = "HEAD" /\ LoopTop(f)
    BY DEF ResolutionInv, HeadRefused, At, LoopPcs
  <1>2. /\ fetch \in [url : Urls \cup {NoUrl}, method : {"HEAD", "GET"}, hops : Nat]
        /\ f \in [url : Urls \cup {NoUrl}, method : {"HEAD", "GET"}, hops : Nat]
        /\ f.url = fetch.url /\ f.hops = fetch.hops /\ f.method = "GET"
    BY <1>1 DEF ResolutionTypes
  <1> HIDE DEF f
  <1>3. HeadSent /\ Len(sent) <= fetch.hops + 1 + Fallback
    BY <1>1 DEF LoopOK, HeadSent
  <1>4. Fallback = 0
    BY <1>1 DEF Fallback
  <1>5. Len(sent) <= f.hops + 1
    BY <1>2, <1>3, <1>4
  <1>6. ProviderOf[fetch.url.host] = ProviderOf[submitted.host]
    BY <1>1 DEF LoopOK
  <1> QED
    BY <1>1, <1>2, <1>3, <1>5, <1>6, LoopTopOK

\* Two public answers that agree, and the request is sent.
LEMMA ConnectedOK ==
    ASSUME ResolutionInv, NEW pre, NEW con, Connected(pre, con)
    PROVE  ResolutionInv'
  <1> DEFINE e == [url |-> fetch.url, method |-> fetch.method]
  <1>1. CASE End(Failed)
    BY <1>1, EndOK
  <1>2. CASE /\ Allowed(pre) /\ Allowed(con) /\ pre \cap con # {}
             /\ sent' = Append(sent, e)
             /\ lookups' = <<pre, con>> /\ response' = TRUE /\ pc' = "headers"
             /\ UNCHANGED <<task, submitted, wrapper, chain, seen, fetch, outcome, target>>
    <2>1. /\ ResolutionTypes /\ LoopOK /\ SentOK /\ ChainOK /\ OutcomeOK
          /\ pc = "connect" /\ pc \in LoopPcs /\ task \in {"probe", "resolve"}
          /\ sent \in Seq(Requested) /\ fetch.url \in Urls /\ fetch.hops \in Nat
          /\ fetch.hops <= MaxRedirects /\ MaxRedirects \in Nat
          /\ fetch.method \in {"HEAD", "GET"}
      BY LoopTasks, ResolutionAssumption
      DEF ResolutionInv, Connected, At, LoopPcs, ResolutionTypes
    <2>2. e \in Requested /\ e.url = fetch.url /\ e.method = fetch.method
      BY <2>1 DEF Requested
    <2>3. \A i \in DOMAIN sent : sent[i] # e
      BY <2>1 DEF LoopOK, Fresh
    <2> HIDE DEF e
    <2>4. /\ sent' \in Seq(Requested) /\ Len(sent') = Len(sent) + 1 /\ Len(sent) \in Nat
          /\ DOMAIN sent = 1..Len(sent) /\ DOMAIN sent' = 1..(Len(sent) + 1)
          /\ \A i \in DOMAIN sent : i \in DOMAIN sent' /\ sent'[i] = sent[i]
          /\ sent'[Len(sent) + 1] = e
      BY <1>2, <2>1, <2>2
    <2>5. \A i \in DOMAIN sent' : (i \in DOMAIN sent /\ sent'[i] = sent[i] /\ i <= Len(sent))
                                  \/ (i = Len(sent) + 1 /\ sent'[i] = e)
      BY <2>4
    <2>6. ResolutionTypes'
      BY <1>2, <2>1, <2>4 DEF ResolutionTypes, LoopPcs
    <2>7. HeadSent' <=> HeadSent \/ fetch.method = "HEAD"
      BY <2>2, <2>4, <2>5 DEF HeadSent
    <2>8. /\ Fallback \in Nat /\ Fallback' \in Nat /\ Fallback <= Fallback'
          /\ Len(sent) <= fetch.hops + Fallback
      BY <1>2, <2>1, <2>7 DEF Fallback, LoopOK
    <2>9. Len(sent') <= fetch.hops + 1 + Fallback'
      BY <2>1, <2>4, <2>8
    <2>10. LoopOK'
      <3>1. \A i \in DOMAIN sent' :
               sent'[i].url.scheme = "https" => fetch.url.scheme = "https"
        BY <2>1, <2>2, <2>5 DEF LoopOK
      <3>2. \E i \in DOMAIN sent' : sent'[i].method = fetch.method
        BY <2>1, <2>2, <2>4
      <3>3. task' = task /\ submitted' = submitted /\ wrapper' = wrapper /\ seen' = seen
            /\ fetch' = fetch /\ pc' = "headers"
        BY <1>2
      <3>4. /\ task = "probe" =>
                  /\ ProviderOf[submitted.host] # NoOwner
                  /\ ProviderOf[fetch.url.host] = ProviderOf[submitted.host]
            /\ task = "resolve" =>
                  /\ ProviderOf[submitted.host] = NoOwner /\ wrapper \in seen
                  /\ ResolverOf[fetch.url.host] = ResolverOf[wrapper.host]
        BY <2>1 DEF LoopOK
      <3> QED
        BY <2>9, <3>1, <3>2, <3>3, <3>4 DEF LoopOK
    <2>11. RequestsAreVetted'
      <3>1. RequestsAreVetted /\ submitted' = submitted /\ seen' = seen
        BY <1>2, <2>1 DEF SentOK
      <3>2. ASSUME NEW i \in DOMAIN sent'
            PROVE  IF ProviderOf[submitted.host] # NoOwner
                   THEN ProviderOf[sent'[i].url.host] = ProviderOf[submitted.host]
                   ELSE ResolverOf[sent'[i].url.host] \in {ResolverOf[w.host] : w \in seen}
        <4>1. CASE i \in DOMAIN sent /\ sent'[i] = sent[i]
          BY <3>1, <4>1 DEF RequestsAreVetted
        <4>2. CASE sent'[i] = e
          BY <2>1, <2>2, <4>2 DEF LoopOK
        <4> QED
          BY <2>5, <4>1, <4>2
      <3>3. ASSUME NEW i \in DOMAIN sent', NEW j \in DOMAIN sent', j < i,
                   sent'[j].url.scheme = "https"
            PROVE  sent'[i].url.scheme = "https"
        <4>1. j \in DOMAIN sent /\ sent'[j] = sent[j]
          BY <2>4, <2>5, <3>3
        <4>2. CASE i \in DOMAIN sent /\ sent'[i] = sent[i]
          BY <3>1, <3>3, <4>1, <4>2 DEF RequestsAreVetted
        <4>3. CASE sent'[i] = e
          BY <2>1, <2>2, <3>3, <4>1, <4>3 DEF LoopOK
        <4> QED
          BY <2>5, <4>2, <4>3
      <3>4. /\ lookups'[1] = pre /\ lookups'[2] = con
            /\ pre \subseteq PublicAddrs /\ con \subseteq PublicAddrs /\ pre \cap con # {}
        BY <1>2 DEF Allowed
      <3> QED
        BY <3>1, <3>2, <3>3, <3>4 DEF RequestsAreVetted
    <2>12. SentOK'
      <3>1. \A i, j \in DOMAIN sent' : sent'[i] = sent'[j] => i = j
        BY <2>1, <2>3, <2>5 DEF SentOK
      <3>2. Len(sent') <= MaxRedirects + (IF HeadSent' THEN 2 ELSE 1)
        BY <1>2, <2>1, <2>4, <2>9 DEF Fallback
      <3> QED
        BY <2>11, <3>1, <3>2 DEF SentOK
    <2>13. ChainOK'
      BY <1>2, <2>1 DEF ChainOK
    <2>14. OutcomeOK'
      BY <1>2, <2>1 DEF OutcomeOK, ToolGetsTheCanonicalUrl
    <2> QED
      BY <2>6, <2>10, <2>12, <2>13, <2>14 DEF ResolutionInv
  <1> QED
    BY <1>1, <1>2 DEF Connected

\* A redirect keeps the scheme, the confines and the bound.
LEMMA RedirectedOK ==
    ASSUME ResolutionInv, NEW u \in Urls, NEW seeOther \in BOOLEAN, Redirected(u, seeOther)
    PROVE  ResolutionInv'
  <1> DEFINE m == IF seeOther THEN "GET" ELSE fetch.method
             h == fetch.hops + 1
             f == [url |-> u, hops |-> h, method |-> m]
  <1>1. CASE End(Failed)
    BY <1>1, EndOK
  <1>2. CASE /\ UnderLimit /\ Followable(u)
             /\ pc' = "validate" /\ fetch' = f
             /\ UNCHANGED <<task, submitted, wrapper, chain, seen, sent, lookups, response,
                            outcome, target>>
    <2>1. /\ ResolutionTypes /\ LoopOK /\ SentOK /\ ChainOK /\ OutcomeOK
          /\ pc = "headers" /\ pc \in LoopPcs /\ task \in {"probe", "resolve"}
          /\ sent \in Seq(Requested) /\ fetch.url \in Urls /\ fetch.hops \in Nat
          /\ MaxRedirects \in Nat /\ fetch.method \in {"HEAD", "GET"} /\ response
          /\ submitted \in Urls
      BY LoopTasks, ResolutionAssumption
      DEF ResolutionInv, Redirected, At, LoopPcs, ResolutionTypes
    <2>2. /\ h \in Nat /\ h <= MaxRedirects /\ h > 0 /\ m \in {"HEAD", "GET"}
          /\ m = "HEAD" => fetch.method = "HEAD"
      BY <1>2, <2>1 DEF UnderLimit
    <2>3. h = fetch.hops + 1
      OBVIOUS
    <2> HIDE DEF h, m
    <2>4. /\ f \in [url : Urls \cup {NoUrl}, method : {"HEAD", "GET"}, hops : Nat]
          /\ f.url = u /\ f.hops = h /\ f.method = m
      BY <2>2
    <2> HIDE DEF f
    <2>5. ResolutionTypes'
      BY <1>2, <2>1, <2>2, <2>4 DEF ResolutionTypes, LoopPcs
    <2>6. Fallback <= Fallback' /\ Fallback \in Nat /\ Fallback' \in Nat
      BY <1>2, <2>1, <2>2, <2>4 DEF Fallback, HeadSent
    <2>7. Len(sent) <= h + Fallback'
      <3>1. Len(sent) <= fetch.hops + 1 + Fallback /\ Len(sent) \in Nat
        BY <2>1 DEF LoopOK
      <3> QED
        BY <2>1, <2>3, <2>6, <3>1
    <2>8. LoopOK'
      <3>1. \A i \in DOMAIN sent : sent[i].url.scheme = "https" => u.scheme = "https"
        <4>1. fetch.url.scheme = "https" => u.scheme = "https"
          BY <1>2, ResolutionAssumption DEF Followable
        <4> QED
          BY <2>1, <4>1 DEF LoopOK
      <3>2. task = "resolve" => ResolverOf[u.host] = ResolverOf[wrapper.host]
        BY <1>2 DEF Followable, Scope
      <3>3. /\ task = "probe" => ProviderOf[submitted.host] # NoOwner
            /\ task = "resolve" => ProviderOf[submitted.host] = NoOwner /\ wrapper \in seen
        BY <2>1 DEF LoopOK
      <3>4. /\ task' = task /\ submitted' = submitted /\ wrapper' = wrapper /\ seen' = seen
            /\ sent' = sent /\ pc' = "validate" /\ fetch' = f
        BY <1>2
      <3> QED
        BY <2>4, <2>7, <3>1, <3>2, <3>3, <3>4 DEF LoopOK
    <2>9. SentOK'
      BY <1>2, <2>1 DEF SentOK, RequestsAreVetted, HeadSent
    <2>10. ChainOK'
      BY <1>2, <2>1 DEF ChainOK
    <2>11. OutcomeOK'
      BY <1>2, <2>1 DEF OutcomeOK, ToolGetsTheCanonicalUrl, Failed
    <2> QED
      BY <2>5, <2>8, <2>9, <2>10, <2>11 DEF ResolutionInv
  <1> QED
    BY <1>1, <1>2 DEF Redirected

\* The headers end a HEAD, or lead to the body.
LEMMA HeadersReadOK ==
    ASSUME ResolutionInv, HeadersRead
    PROVE  ResolutionInv'
  <1>1. CASE End(Answer("probed", fetch.url))
    BY <1>1, EndOK DEF Answer
  <1>2. CASE /\ pc' = "body"
             /\ UNCHANGED <<task, submitted, wrapper, chain, seen, fetch, sent, lookups,
                            response, outcome, target>>
    <2>1. /\ ResolutionTypes /\ LoopOK /\ SentOK /\ ChainOK /\ OutcomeOK /\ pc = "headers"
      BY DEF ResolutionInv, HeadersRead, At
    <2>2. ResolutionTypes'
      BY <1>2, <2>1 DEF ResolutionTypes, LoopPcs
    <2>3. LoopOK'
      BY <1>2, <2>1 DEF LoopOK, LoopPcs, Fallback, HeadSent
    <2>4. SentOK'
      BY <1>2, <2>1 DEF SentOK, RequestsAreVetted, HeadSent
    <2>5. ChainOK'
      BY <1>2, <2>1 DEF ChainOK
    <2>6. OutcomeOK'
      BY <1>2, <2>1 DEF OutcomeOK, ToolGetsTheCanonicalUrl, Failed
    <2> QED
      BY <2>2, <2>3, <2>4, <2>5, <2>6 DEF ResolutionInv
  <1> QED
    BY <1>1, <1>2 DEF HeadersRead

\* A new wrapper starts a new loop.
LEMMA WrapperValidatedOK ==
    ASSUME ResolutionInv, NEW addrs, WrapperValidated(addrs)
    PROVE  ResolutionInv'
  <1> DEFINE f == [url |-> wrapper, method |-> "GET", hops |-> 0]
  <1>1. CASE End(Failed)
    BY <1>1, EndOK
  <1>2. CASE /\ NewWrapper(wrapper)
             /\ seen' = seen \cup {wrapper} /\ pc' = "connect" /\ fetch' = f /\ sent' = <<>>
             /\ UNCHANGED <<task, submitted, wrapper, chain, lookups, response, outcome, target>>
    <2>1. /\ ResolutionTypes /\ SentOK /\ ChainOK /\ OutcomeOK /\ pc = "wrapper"
          /\ task = "resolve" /\ wrapper \in Urls /\ submitted \in Urls /\ response = FALSE
          /\ MaxRedirects \in Nat
      BY ResolutionAssumption
      DEF ResolutionInv, WrapperValidated, At, ResolutionTypes, LoopPcs
    <2>2. /\ f \in [url : Urls \cup {NoUrl}, method : {"HEAD", "GET"}, hops : Nat]
          /\ f.url = wrapper /\ f.hops = 0 /\ f.method = "GET"
      BY <2>1
    <2> HIDE DEF f
    <2>3. sent' \in Seq(Requested)
      BY <1>2
    <2>4. ResolutionTypes'
      BY <1>2, <2>1, <2>2, <2>3 DEF ResolutionTypes, LoopPcs
    <2>5. SentOK' /\ ~HeadSent'
      BY <1>2, <2>1, NothingSent DEF SentOK, RequestsAreVetted
    <2>6. LoopOK'
      <3>1. Fallback' = 0
        BY <2>5 DEF Fallback
      <3>2. Len(sent') = 0 /\ DOMAIN sent' = {}
        BY <1>2
      <3>3. ProviderOf[submitted.host] = NoOwner
        BY <2>1 DEF ChainOK
      <3> QED
        BY <1>2, <2>1, <2>2, <3>1, <3>2, <3>3 DEF LoopOK, Fresh
    <2>7. ChainOK'
      <3>1. wrapper \notin seen
        BY <1>2 DEF NewWrapper
      <3> QED
        BY <1>2, <2>1, <3>1 DEF ChainOK
    <2>8. OutcomeOK'
      BY <1>2, <2>1 DEF OutcomeOK, ToolGetsTheCanonicalUrl, Failed
    <2> QED
      BY <2>4, <2>5, <2>6, <2>7, <2>8 DEF ResolutionInv
  <1> QED
    BY <1>1, <1>2 DEF WrapperValidated

\* The chain with one more link.
LEMMA LinkedOK ==
    ASSUME ResolutionInv, task = "resolve", pc = "body", NEW u \in Urls,
           chain' = Append(chain, [from |-> wrapper, to |-> u]),
           submitted' = submitted, seen' = seen
    PROVE  /\ chain' \in Seq(Hops) /\ chain' # <<>>
           /\ Len(chain') = Len(chain) + 1 /\ Len(chain) \in Nat /\ Len(chain) < MaxDepth
           /\ chain'[Len(chain')].to = u /\ chain'[1].from = submitted
           /\ \A i \in 1..(Len(chain') - 1) : chain'[i].to = chain'[i + 1].from
           /\ \A i \in DOMAIN chain' : chain'[i].from \in seen
           /\ \A i, j \in DOMAIN chain' : chain'[i].from = chain'[j].from => i = j
  <1> DEFINE e == [from |-> wrapper, to |-> u]
             n == Len(chain)
  <1>1. /\ ChainOK /\ chain \in Seq(Hops) /\ wrapper \in seen /\ wrapper \in Urls
        /\ n < MaxDepth /\ MaxDepth \in Nat
        /\ \A i \in DOMAIN chain : chain[i].from # wrapper
        /\ chain = <<>> => wrapper = submitted
        /\ chain # <<>> => chain[n].to = wrapper
    BY ResolutionAssumption DEF ResolutionInv, LoopOK, LoopPcs, ChainOK, ResolutionTypes
  <1>2. e \in Hops /\ e.from = wrapper /\ e.to = u
    BY <1>1 DEF Hops, Named
  <1> HIDE DEF e
  <1>3. chain' = Append(chain, e)
    BY DEF e
  <1>4. /\ chain' \in Seq(Hops) /\ Len(chain') = n + 1 /\ n \in Nat
        /\ DOMAIN chain = 1..n /\ DOMAIN chain' = 1..(n + 1)
        /\ \A i \in 1..n : chain'[i] = chain[i]
        /\ chain'[n + 1] = e
    BY <1>1, <1>2, <1>3
  <1>5. (chain = <<>>) <=> (n = 0)
    BY <1>1
  <1> HIDE DEF n
  <1>6. chain'[1].from = submitted
    BY <1>1, <1>2, <1>4, <1>5 DEF ChainOK
  <1>7. ASSUME NEW i \in 1..n
        PROVE  chain'[i].to = chain'[i + 1].from
    <2>1. CASE i = n
      BY <1>1, <1>2, <1>4, <1>5, <1>7, <2>1 DEF n
    <2>2. CASE i # n
      <3>1. i \in 1..(n - 1) /\ i + 1 \in 1..n
        BY <1>4, <1>7, <2>2
      <3> QED
        BY <1>1, <1>4, <3>1 DEF ChainOK, n
    <2> QED
      BY <2>1, <2>2
  <1>8. \A i \in DOMAIN chain' : chain'[i].from \in seen
    BY <1>1, <1>2, <1>4 DEF ChainOK
  <1>9. ASSUME NEW i \in DOMAIN chain', NEW j \in DOMAIN chain', chain'[i].from = chain'[j].from
        PROVE  i = j
    <2>1. \A k \in DOMAIN chain' : k \in DOMAIN chain \/ k = n + 1
      BY <1>4
    <2> QED
      BY <1>1, <1>2, <1>4, <1>9, <2>1 DEF ChainOK
  <1>10. chain' # <<>>
    BY <1>4
  <1> QED
    BY <1>1, <1>2, <1>4, <1>6, <1>7, <1>8, <1>9, <1>10 DEF n

\* A document names the next URL.
LEMMA CandidateOK ==
    ASSUME ResolutionInv, NEW u \in Urls, Candidate(u)
    PROVE  ResolutionInv'
  <1> DEFINE links == Append(chain, [from |-> wrapper, to |-> u])
             f == [NoFetch EXCEPT !.url = u]
  <1>1. /\ ResolutionTypes /\ LoopOK /\ SentOK /\ ChainOK /\ OutcomeOK
        /\ pc = "body" /\ task = "resolve" /\ submitted \in Urls
        /\ ProviderOf[submitted.host] = NoOwner /\ MaxDepth \in Nat /\ MaxRedirects \in Nat
    BY ResolutionAssumption
    DEF ResolutionInv, Candidate, At, ResolutionTypes, LoopOK, LoopPcs
  <1>2. CASE End(Failed)
    BY <1>2, EndOK
  <1>3. CASE /\ pc' = "provider" /\ chain' = links /\ response' = FALSE /\ fetch' = f
             /\ UNCHANGED <<task, submitted, wrapper, seen, sent, lookups, outcome, target>>
    <2>1. /\ f \in [url : Urls \cup {NoUrl}, method : {"HEAD", "GET"}, hops : Nat]
          /\ f.url = u /\ f.hops = 0
      BY DEF NoFetch
    <2> HIDE DEF f
    <2>2. /\ chain' \in Seq(Hops) /\ chain' # <<>>
          /\ Len(chain') = Len(chain) + 1 /\ Len(chain) \in Nat /\ Len(chain) < MaxDepth
          /\ chain'[Len(chain')].to = u /\ chain'[1].from = submitted
          /\ \A i \in 1..(Len(chain') - 1) : chain'[i].to = chain'[i + 1].from
          /\ \A i \in DOMAIN chain' : chain'[i].from \in seen
          /\ \A i, j \in DOMAIN chain' : chain'[i].from = chain'[j].from => i = j
      BY <1>1, <1>3, LinkedOK
    <2> HIDE DEF links
    <2>3. ResolutionTypes'
      <3>1. f.hops <= MaxRedirects
        BY <1>1, <2>1
      <3>2. /\ task' = task /\ submitted' = submitted /\ wrapper' = wrapper /\ seen' = seen
            /\ sent' = sent /\ pc' = "provider" /\ fetch' = f /\ response' = FALSE
        BY <1>3
      <3>3. /\ wrapper \in Urls \cup {NoUrl} /\ sent \in Seq(Requested) /\ seen \subseteq Urls
        BY <1>1 DEF ResolutionTypes
      <3> QED
        BY <1>1, <2>1, <2>2, <3>1, <3>2, <3>3 DEF ResolutionTypes, LoopPcs
    <2>4. LoopOK'
      BY <1>3 DEF LoopOK, LoopPcs
    <2>5. SentOK'
      BY <1>1, <1>3 DEF SentOK, RequestsAreVetted, HeadSent
    <2>6. Len(chain') <= MaxDepth
      BY <1>1, <2>2
    <2>7. ChainOK'
      BY <1>1, <1>3, <2>1, <2>2, <2>6 DEF ChainOK
    <2>8. OutcomeOK'
      BY <1>1, <1>3 DEF OutcomeOK, ToolGetsTheCanonicalUrl, Failed
    <2> QED
      BY <2>3, <2>4, <2>5, <2>7, <2>8 DEF ResolutionInv
  <1>4. CASE /\ NewWrapper(u) /\ ~DeepEnough(links)
             /\ pc' = "wrapper" /\ chain' = links /\ response' = FALSE /\ wrapper' = u
             /\ UNCHANGED <<task, submitted, seen, fetch, sent, lookups, outcome, target>>
    <2>2. /\ chain' \in Seq(Hops) /\ chain' # <<>>
          /\ Len(chain') = Len(chain) + 1 /\ Len(chain) \in Nat /\ Len(chain) < MaxDepth
          /\ chain'[Len(chain')].to = u /\ chain'[1].from = submitted
          /\ \A i \in 1..(Len(chain') - 1) : chain'[i].to = chain'[i + 1].from
          /\ \A i \in DOMAIN chain' : chain'[i].from \in seen
          /\ \A i, j \in DOMAIN chain' : chain'[i].from = chain'[j].from => i = j
      BY <1>1, <1>4, LinkedOK
    <2>6. Len(chain') < MaxDepth
      BY <1>1, <1>4, <2>2 DEF DeepEnough
    <2> HIDE DEF links
    <2>3. ResolutionTypes'
      BY <1>1, <1>4, <2>2 DEF ResolutionTypes, LoopPcs
    <2>4. LoopOK'
      BY <1>4 DEF LoopOK, LoopPcs
    <2>5. SentOK'
      BY <1>1, <1>4 DEF SentOK, RequestsAreVetted, HeadSent
    <2>7. ChainOK'
      BY <1>1, <1>4, <2>2, <2>6 DEF ChainOK
    <2>8. OutcomeOK'
      BY <1>1, <1>4 DEF OutcomeOK, ToolGetsTheCanonicalUrl, Failed
    <2> QED
      BY <2>3, <2>4, <2>5, <2>7, <2>8 DEF ResolutionInv
  <1> QED
    BY <1>2, <1>3, <1>4 DEF Candidate

\* The canonical form of a canonical URL is itself, of the same provider.
LEMMA CanonicalFacts ==
    ASSUME NEW u \in Urls
    PROVE  /\ Canonical(u) \in Named
           /\ ProviderOf[Canonical(u).host] = ProviderOf[u.host]
           /\ ProviderOf[ToolUrl(Canonical(u)).host] = ProviderOf[u.host]
           /\ Canonical(u).shape # "other" =>
                 /\ ToolUrl(Canonical(u)).scheme = "https"
                 /\ ToolUrl(Canonical(u)).shape = "main"
                 /\ Canonical(ToolUrl(Canonical(u))) = ToolUrl(Canonical(u))
  <1>1. /\ u \in [host : DOMAIN ProviderOf, scheme : {"https", "http"},
                  shape : {"main", "alias", "other"}]
        /\ ProviderOf[ApexOf[u.host]] = ProviderOf[u.host]
        /\ ApexOf[ApexOf[u.host]] = ApexOf[u.host]
    BY ResolutionAssumption
  <1>2. Canonical(u) \in Named
    BY DEF Named
  <1>3. CASE u.shape = "other"
    <2>1. Canonical(u) = u
      BY <1>3 DEF Canonical
    <2>2. ToolUrl(u) = [u EXCEPT !.scheme = "https"]
      BY <2>1 DEF ToolUrl
    <2> QED
      BY <1>1, <1>2, <1>3, <2>1, <2>2
  <1>4. CASE u.shape # "other"
    <2> DEFINE c == [host |-> ApexOf[u.host], scheme |-> u.scheme, shape |-> "main"]
               t == [host |-> ApexOf[u.host], scheme |-> "https", shape |-> "main"]
    <2>1. Canonical(u) = c
      BY <1>1, <1>4 DEF Canonical
    <2>2. Canonical(c) = c
      BY <1>1 DEF Canonical
    <2>3. ToolUrl(c) = t
      BY <1>1, <2>2 DEF ToolUrl
    <2>4. Canonical(t) = t
      BY <1>1 DEF Canonical
    <2>5. t.host = ApexOf[u.host] /\ c.host = ApexOf[u.host]
          /\ t.scheme = "https" /\ t.shape = "main"
      OBVIOUS
    <2> HIDE DEF c, t
    <2> QED
      BY <1>1, <1>2, <2>1, <2>3, <2>4, <2>5
  <1> QED
    BY <1>3, <1>4

\* One element of a sequence is replaced.
LEMMA ReplacedElement ==
    ASSUME NEW S, NEW s \in Seq(S), NEW n \in 1..Len(s), NEW e \in S
    PROVE  /\ [s EXCEPT ![n] = e] \in Seq(S) /\ Len([s EXCEPT ![n] = e]) = Len(s)
           /\ DOMAIN [s EXCEPT ![n] = e] = 1..Len(s)
           /\ [s EXCEPT ![n] = e][n] = e
           /\ \A i \in 1..Len(s) : i # n => [s EXCEPT ![n] = e][i] = s[i]
  OBVIOUS

\* The last link is made to agree with the result.
LEMMA ProviderValidatedOK ==
    ASSUME ResolutionInv, NEW addrs, ProviderValidated(addrs)
    PROVE  ResolutionInv'
  <1> DEFINE c == Canonical(fetch.url)
             n == Len(chain)
  <1>1. CASE End(Failed)
    BY <1>1, EndOK
  <1>2. CASE /\ task' = "none" /\ pc' = "idle" /\ outcome' = Answer("resolved", c)
             /\ chain' = IF chain = <<>> THEN chain ELSE [chain EXCEPT ![n].to = c]
             /\ UNCHANGED <<submitted, wrapper, seen, fetch, sent, lookups, response, target>>
    <2>1. /\ ResolutionTypes /\ SentOK /\ ChainOK /\ OutcomeOK
          /\ pc = "provider" /\ task = "resolve" /\ submitted \in Urls /\ fetch.url \in Urls
          /\ chain \in Seq(Hops) /\ n \in Nat /\ response = FALSE /\ target = NoUrl
      BY DEF ResolutionInv, ProviderValidated, At, ResolutionTypes, LoopPcs, OutcomeOK
    <2>2. c \in Named
      BY <2>1, CanonicalFacts
    <2> HIDE DEF c
    <2>3. /\ chain' \in Seq(Hops) /\ Len(chain') = n /\ DOMAIN chain' = DOMAIN chain
          /\ \A i \in DOMAIN chain : chain'[i].from = chain[i].from
          /\ \A i \in 1..(n - 1) : chain'[i].to = chain[i].to
          /\ chain # <<>> => chain' # <<>> /\ chain'[n].to = c
          /\ chain = <<>> => chain' = <<>>
      <3>1. CASE chain = <<>>
        BY <1>2, <2>1, <3>1
      <3>2. CASE chain # <<>>
        <4>1. n \in 1..n /\ DOMAIN chain = 1..n /\ chain[n] \in Hops
          BY <2>1, <3>2
        <4> DEFINE e == [chain[n] EXCEPT !.to = c]
        <4>2. e \in Hops /\ e.from = chain[n].from /\ e.to = c
          BY <2>2, <4>1 DEF Hops
        <4>3. chain' = [chain EXCEPT ![n] = e]
          BY <1>2, <3>2
        <4> HIDE DEF e
        <4>4. /\ chain' \in Seq(Hops) /\ Len(chain') = n /\ DOMAIN chain' = 1..n
              /\ chain'[n] = e /\ \A i \in 1..n : i # n => chain'[i] = chain[i]
          <5>1. chain \in Seq(Hops) /\ n \in 1..Len(chain) /\ n = Len(chain)
            BY <2>1, <4>1
          <5> HIDE DEF n
          <5> QED
            BY <4>2, <4>3, <5>1, ReplacedElement
        <4>5. chain' # <<>>
          <5>1. n \in DOMAIN chain'
            BY <4>1, <4>4, Zenon
          <5>2. DOMAIN <<>> = {}
            OBVIOUS
          <5> QED
            BY <5>1, <5>2, Zenon
        <4>6. \A i \in 1..(n - 1) : i \in 1..n /\ i # n
          BY <2>1
        <4> QED
          BY <3>2, <4>1, <4>2, <4>4, <4>5, <4>6
      <3> QED
        BY <3>1, <3>2
    <2>4. ResolutionTypes'
      BY <1>2, <2>1, <2>3 DEF ResolutionTypes, LoopPcs
    <2>5. LoopOK'
      BY <1>2 DEF LoopOK, LoopPcs
    <2>6. SentOK'
      BY <1>2, <2>1 DEF SentOK, RequestsAreVetted, HeadSent
    <2>7. ChainOK'
      <3>1. chain' # <<>> => 1 \in DOMAIN chain
        BY <2>1, <2>3
      <3>2. \A i \in 1..(n - 1) : i \in DOMAIN chain /\ i + 1 \in DOMAIN chain
        BY <2>1
      <3>3. \A i \in 1..(n - 1) : chain'[i].to = chain'[i + 1].from
        BY <2>1, <2>3, <3>2 DEF ChainOK
      <3>4. /\ submitted' = submitted /\ seen' = seen /\ task' = "none" /\ pc' = "idle"
        BY <1>2
      <3> QED
        BY <2>1, <2>3, <3>1, <3>3, <3>4 DEF ChainOK
    <2>8. OutcomeOK'
      <3>1. /\ chain = <<>> => fetch.url = submitted
        BY <2>1 DEF ChainOK
      <3>2. outcome'.kind = "resolved" /\ outcome'.url = c
        BY <1>2 DEF Answer
      <3>3. task' = "none" /\ fetch' = fetch /\ submitted' = submitted /\ target' = NoUrl
        BY <1>2, <2>1
      <3>4. c = Canonical(fetch.url)
        BY DEF c
      <3> QED
        BY <2>1, <2>3, <3>1, <3>2, <3>3, <3>4
        DEF OutcomeOK, ToolGetsTheCanonicalUrl, Canonical
    <2> QED
      BY <2>4, <2>5, <2>6, <2>7, <2>8 DEF ResolutionInv
  <1> QED
    BY <1>1, <1>2 DEF ProviderValidated

\* The target is bound.
LEMMA InspectOK ==
    ASSUME ResolutionInv, Inspect
    PROVE  ResolutionInv'
  <1>1. CASE End(Failed)
    BY <1>1, EndOK
  <1>2. CASE /\ outcome.url.shape # "other"
             /\ task' = "inspect" /\ pc' = "extract" /\ target' = ToolUrl(outcome.url)
             /\ outcome' = Failed
             /\ UNCHANGED <<submitted, wrapper, chain, seen, fetch, sent, lookups, response>>
    <2>1. /\ ResolutionTypes /\ SentOK /\ ChainOK /\ OutcomeOK
          /\ pc = "idle" /\ task = "none" /\ outcome.kind = "resolved" /\ response = FALSE
      BY DEF ResolutionInv, Inspect, ResolutionTypes
    <2>2. /\ fetch.url \in Urls /\ outcome.url = Canonical(fetch.url)
          /\ chain = <<>> => fetch.url = submitted
          /\ chain # <<>> => chain[Len(chain)].to = Canonical(fetch.url)
      BY <2>1 DEF OutcomeOK
    <2>3. ResolutionTypes'
      BY <1>2, <2>1 DEF ResolutionTypes, LoopPcs
    <2>4. LoopOK'
      BY <1>2 DEF LoopOK, LoopPcs
    <2>5. SentOK'
      BY <1>2, <2>1 DEF SentOK, RequestsAreVetted, HeadSent
    <2>6. ChainOK'
      BY <1>2, <2>1 DEF ChainOK
    <2>7. ToolGetsTheCanonicalUrl'
      <3> DEFINE t == target'
      <3>1. /\ t.scheme = "https" /\ t.shape = "main" /\ Canonical(t) = t
            /\ ProviderOf[t.host] = ProviderOf[fetch.url.host]
            /\ ProviderOf[Canonical(fetch.url).host] = ProviderOf[fetch.url.host]
        BY <1>2, <2>2, CanonicalFacts
      <3>2. chain' = chain /\ submitted' = submitted /\ outcome'.kind = "error"
        BY <1>2 DEF Failed
      <3>3. Canonical(target)' = Canonical(t)
        BY DEF Canonical
      <3> QED
        BY <2>2, <3>1, <3>2, <3>3 DEF ToolGetsTheCanonicalUrl
    <2>8. OutcomeOK'
      BY <1>2, <2>7 DEF OutcomeOK, Failed
    <2> QED
      BY <2>3, <2>4, <2>5, <2>6, <2>8 DEF ResolutionInv
  <1> QED
    BY <1>1, <1>2 DEF Inspect

\* The other ends of a task.
LEMMA OtherEndsOK ==
    ASSUME ResolutionInv, ProbeRead \/ FetchFails \/ \E u \in Urls : Extracted(u)
    PROVE  ResolutionInv'
  BY EndOK DEF ProbeRead, FetchFails, Extracted, Answer

\* The invariant holds at first.
LEMMA ResolutionInitOK ==
    ASSUME ResolutionInit
    PROVE  ResolutionInv
  <1>1. /\ task = "none" /\ pc = "idle" /\ submitted = NoUrl
        /\ wrapper = NoUrl /\ chain = <<>> /\ seen = {}
        /\ fetch = NoFetch /\ sent = <<>> /\ lookups = <<{}, {}>> /\ response = FALSE
        /\ outcome = Failed /\ target = NoUrl
    BY DEF ResolutionInit
  <1>2. sent \in Seq(Requested) /\ chain \in Seq(Hops) /\ Len(sent) = 0 /\ Len(chain) = 0
        /\ DOMAIN sent = {} /\ DOMAIN chain = {}
    BY <1>1
  <1>3. fetch.hops = 0 /\ fetch.hops <= MaxRedirects
        /\ fetch \in [url : Urls \cup {NoUrl}, method : {"HEAD", "GET"}, hops : Nat]
    BY <1>1, ResolutionAssumption DEF NoFetch
  <1>4. ResolutionTypes
    BY <1>1, <1>2, <1>3 DEF ResolutionTypes, LoopPcs
  <1>5. LoopOK
    BY <1>1 DEF LoopOK, LoopPcs
  <1>6. SentOK
    <2>1. \A n \in {1, 2} : lookups[n] = {}
      BY <1>1
    <2> QED
      BY <1>1, <1>2, <2>1, ResolutionAssumption DEF SentOK, RequestsAreVetted, HeadSent
  <1>7. ChainOK
    BY <1>1, <1>2, ResolutionAssumption DEF ChainOK
  <1>8. OutcomeOK
    BY <1>1 DEF OutcomeOK, ToolGetsTheCanonicalUrl, Failed
  <1> QED
    BY <1>4, <1>5, <1>6, <1>7, <1>8 DEF ResolutionInv

\* Every step of the resolution keeps it.
LEMMA ResolutionStepOK ==
    ASSUME ResolutionInv, [ResolutionNext]_resolutionVars
    PROVE  ResolutionInv'
  <1>1. CASE UNCHANGED resolutionVars
    BY <1>1 DEF resolutionVars, ResolutionInv, ResolutionTypes, LoopOK, SentOK, ChainOK,
       OutcomeOK, RequestsAreVetted, HeadSent, Fallback, Fresh, ToolGetsTheCanonicalUrl, Canonical
  <1>2. CASE ResolutionNext
    BY <1>2, ProbeOK, ResolveOK, InspectOK, ValidatedOK, WrapperValidatedOK,
       ProviderValidatedOK, ConnectedOK, RedirectedOK, HeadRefusedOK, HeadersReadOK,
       CandidateOK, OtherEndsOK
    DEF ResolutionNext, Working
  <1> QED
    BY <1>1, <1>2

\* As many values as places, when no two are the same.
LEMMA DistinctCount ==
    ASSUME NEW n \in Nat, NEW f, NEW T,
           \A i \in 1..n : f[i] \in T,
           \A x \in T : \E i \in 1..n : x = f[i],
           \A i, j \in 1..n : f[i] = f[j] => i = j
    PROVE  Cardinality(T) = n
  <1> DEFINE g == [i \in 1..n |-> f[i]]
  <1>1. g \in Bijection(1..n, T)
    BY DEF Bijection, Injection, Surjection, IsInjective
  <1>2. ExistsBijection(1..n, T)
    BY <1>1 DEF ExistsBijection
  <1>3. IsFiniteSet(1..n) /\ Cardinality(1..n) = n
    BY FS_Interval
  <1> QED
    BY <1>2, <1>3, FS_Bijection

\* Whatever servers answer, requests stay with the provider or the resolver, never
\* turn to http, and only follow two public answers that agree; and a loop sends no
\* request twice and no more than its bound (SafeHTTPClient).
THEOREM RequestsAreConfined == ResolutionSpec => []LookupsAreConfined
  <1>1. ResolutionInit => ResolutionInv
    BY ResolutionInitOK
  <1>2. ResolutionInv /\ [ResolutionNext]_resolutionVars => ResolutionInv'
    BY ResolutionStepOK
  <1>3. ResolutionInv => LookupsAreConfined
    <2> SUFFICES ASSUME ResolutionInv
                 PROVE  LookupsAreConfined
      OBVIOUS
    <2>1. sent \in Seq(Requested) /\ Len(sent) \in Nat /\ DOMAIN sent = 1..Len(sent)
      BY DEF ResolutionInv, ResolutionTypes
    <2>2. Cardinality({sent[i] : i \in DOMAIN sent}) = Len(sent)
      <3> DEFINE T == {sent[i] : i \in DOMAIN sent}
                 n == Len(sent)
      <3>1. n \in Nat /\ DOMAIN sent = 1..n
        BY <2>1
      <3>2. (\A i \in 1..n : sent[i] \in T) /\ \A x \in T : \E i \in 1..n : x = sent[i]
        BY <3>1
      <3>3. \A i, j \in 1..n : sent[i] = sent[j] => i = j
        BY <3>1 DEF ResolutionInv, SentOK
      <3> HIDE DEF T, n
      <3>4. Cardinality(T) = n
        BY <3>1, <3>2, <3>3, DistinctCount
      <3> QED
        BY <3>4 DEF T, n
    <2> QED
      BY <2>2 DEF ResolutionInv, SentOK, LookupsAreConfined, HopsAreBounded, HeadSent
  <1> QED
    BY <1>1, <1>2, <1>3, PTL DEF ResolutionSpec

\* The chain is a path of different wrappers from the submitted URL to the result, and
\* the extractor is given the canonical https URL of that result (ResolutionService,
\* inspect_draft).
THEOREM ToolUrlIsResolved == ResolutionSpec => []ToolGetsTheResolvedUrl
  <1>1. ResolutionInit => ResolutionInv
    BY ResolutionInitOK
  <1>2. ResolutionInv /\ [ResolutionNext]_resolutionVars => ResolutionInv'
    BY ResolutionStepOK
  <1>3. ResolutionInv => ToolGetsTheResolvedUrl
    <2> SUFFICES ASSUME ResolutionInv
                 PROVE  ToolGetsTheResolvedUrl
      OBVIOUS
    <2>4. Cardinality({chain[i].from : i \in DOMAIN chain}) = Len(chain)
      <3> DEFINE n == Len(chain)
                 f == [i \in 1..n |-> chain[i].from]
                 T == {chain[i].from : i \in DOMAIN chain}
      <3>1. n \in Nat /\ DOMAIN chain = 1..n
        BY DEF ResolutionInv, ResolutionTypes
      <3>2. (\A i \in 1..n : f[i] \in T) /\ \A x \in T : \E i \in 1..n : x = f[i]
        BY <3>1
      <3>3. \A i, j \in 1..n : f[i] = f[j] => i = j
        BY <3>1 DEF ResolutionInv, ChainOK
      <3> HIDE DEF T, n, f
      <3>4. Cardinality(T) = n
        BY <3>1, <3>2, <3>3, DistinctCount
      <3> QED
        BY <3>4 DEF T, n
    <2>5. ChainIsAPath
      BY <2>4 DEF ResolutionInv, ChainOK, OutcomeOK, ChainIsAPath
    <2> QED
      BY <2>5 DEF ResolutionInv, OutcomeOK, ToolGetsTheResolvedUrl
  <1> QED
    BY <1>1, <1>2, <1>3, PTL DEF ResolutionSpec

-----------------------------------------------------------------------------
(* A run of an external tool.                                              *)

\* Percentages, backoffs, and the records of the gate and of the writer.
Percents == Unset..(Scale - 1)
Backoffs == BackoffMin..BackoffMax

GateRecords == [seen : Percents, stored : Percents, sinceWrite : Nat, sinceTry : Nat,
                tryFailed : BOOLEAN, backoff : Backoffs, lost : BOOLEAN]

WriterRecords == [latest : Unset..TopOutput, task : {"none", "pending", "writing"},
                  value : Percents, closed : BOOLEAN]

\* Types of the run.
ToolTypes ==
    /\ leader \in {"none", "alive", "dying", "ok", "failed"}
    /\ helper \in {"none", "holding", "detached"}
    /\ output \in 0..TopOutput /\ diskLow \in BOOLEAN
    /\ stage \in {"idle", "read", "kill", "flush", "flushed", "last", "lastWrite", "over"}
    /\ failing \in BOOLEAN /\ limit \in {"none", "too_large", "storage"}
    /\ final \in Unset..TopOutput /\ monitor \in {"off", "sleep"}
    /\ writer \in WriterRecords /\ gate \in GateRecords
    /\ percent \in Percents /\ owned \in BOOLEAN /\ errors \in Nat

\* The stages in which the monitor and the writer may be at work.
Watched == stage \in {"read", "flush", "flushed"}

\* The monitor and the writer's task live while the tool is read or the progress is
\* flushed; a failure leaves nobody of the group; and why the run ends fits its stage.
StageInv ==
    /\ ~Watched => monitor = "off" /\ writer.task = "none"
    /\ failing => leader # "alive" /\ helper = "none"
    /\ failing => stage \in {"kill", "last", "lastWrite", "over"}
    /\ stage \in {"idle", "read"} => why = "none"
    /\ stage = "kill" => why \in {"limit", "timeout", "cancelled", "overflow"}
    /\ why = "ok" => /\ stage \in {"flush", "flushed", "last", "lastWrite", "over"}
                     /\ final <= MaxOutput
                     /\ ~Watched => limit = "none"

\* The row is between what the gate stored and what it saw, a write under way carries
\* what was seen, and the last write leaves nothing behind.
GateInv ==
    /\ gate.lost => ~owned
    /\ gate.stored <= percent /\ percent <= gate.seen
    /\ writer.task = "writing" => writer.value = gate.seen
    /\ LastPercentIsShown

\* The inductive invariant of a run.
ToolInv == ToolTypes /\ StageInv /\ GateInv

\* A percentage is below 100 and not below the previous one.
LEMMA PercentFacts ==
    ASSUME NEW bytes \in Nat, NEW previous \in Percents
    PROVE  PercentOf(bytes, previous) \in Percents /\ previous <= PercentOf(bytes, previous)
  <1> DEFINE m == bytes * Scale
             q == m \div ExpectedSize
  <1>1. Scale \in Nat /\ ExpectedSize \in Nat /\ ExpectedSize > 0 /\ Scale > 0
    BY ToolRunAssumption
  <1>2. m \in Nat
    BY <1>1
  <1> HIDE DEF m
  <1>3. q \in Nat
    BY <1>1, <1>2
  <1>4. PercentOf(bytes, previous) = Larger(previous, Smaller(Scale - 1, q))
    BY DEF PercentOf, q, m
  <1> HIDE DEF q
  <1> QED
    BY <1>1, <1>3, <1>4 DEF Percents, Larger, Smaller, Unset

\* What the gate makes of a sample.
LEMMA SeenFacts ==
    ASSUME ToolTypes, NEW bytes \in Nat
    PROVE  /\ Seen(bytes) \in GateRecords /\ gate.seen <= Seen(bytes).seen
           /\ Seen(bytes).stored = gate.stored /\ Seen(bytes).lost = gate.lost
  <1> DEFINE p == PercentOf(bytes, gate.seen)
  <1>1. gate \in GateRecords /\ gate.seen \in Percents
    BY DEF ToolTypes, GateRecords
  <1>2. p \in Percents /\ gate.seen <= p
    BY <1>1, PercentFacts
  <1>3. Seen(bytes) = [gate EXCEPT !.seen = p]
    BY DEF Seen
  <1> HIDE DEF p
  <1> QED
    BY <1>1, <1>2, <1>3 DEF GateRecords

\* A failed attempt is recorded.
LEMMA BackedOff ==
    ASSUME NEW g \in GateRecords, NEW b \in Backoffs
    PROVE  [g EXCEPT !.sinceTry = 0, !.tryFailed = TRUE, !.backoff = b] \in GateRecords
  <1>1. [g EXCEPT !.tryFailed = TRUE] \in GateRecords
    BY DEF GateRecords
  <1>2. \A h \in GateRecords : [h EXCEPT !.sinceTry = 0] \in GateRecords
    BY DEF GateRecords
  <1>3. \A h \in GateRecords : [h EXCEPT !.backoff = b] \in GateRecords
    BY DEF GateRecords
  <1> QED
    BY <1>1, <1>2, <1>3 DEF GateRecords

\* What the gate makes of an reply.
LEMMA AnsweredFacts ==
    ASSUME ToolTypes, NEW reply \in Persists, NEW value \in Percents
    PROVE  /\ Answered(reply, value) \in GateRecords
           /\ Answered(reply, value).seen = gate.seen
           /\ Answered(reply, value).stored = IF reply = "written" THEN value ELSE gate.stored
           /\ Answered(reply, value).lost = (gate.lost \/ reply = "refused")
  <1> DEFINE b == Smaller(2 * gate.backoff, BackoffMax)
  <1>1. gate \in GateRecords /\ gate.lost \in BOOLEAN
    BY DEF ToolTypes, GateRecords
  <1>2. b \in Backoffs /\ BackoffMin \in Backoffs
    BY <1>1, ToolRunAssumption DEF GateRecords, Smaller, Backoffs
  <1>3. CASE reply = "written"
    BY <1>1, <1>2, <1>3 DEF Answered, GateRecords
  <1>4. CASE reply = "refused"
    BY <1>1, <1>2, <1>4 DEF Answered, GateRecords
  <1>5. CASE reply = "error"
    <2>1. Answered(reply, value) = [gate EXCEPT !.sinceTry = 0, !.tryFailed = TRUE, !.backoff = b]
      BY <1>5 DEF Answered
    <2> HIDE DEF b
    <2>4. Answered(reply, value) \in GateRecords
      BY <1>1, <1>2, <2>1, BackedOff
    <2>3. /\ Answered(reply, value).seen = gate.seen
          /\ Answered(reply, value).stored = gate.stored
          /\ Answered(reply, value).lost = gate.lost
      BY <1>1, <2>1 DEF GateRecords
    <2> QED
      BY <1>1, <1>5, <2>3, <2>4
  <1> QED
    BY <1>3, <1>4, <1>5 DEF Persists

\* The end of a write of what was seen: the row stays below it.
LEMMA PersistedFacts ==
    ASSUME ToolTypes, GateInv, NEW reply \in Persists, Persisted(gate.seen, reply)
    PROVE  /\ percent' \in Percents /\ errors' \in Nat /\ owned' = owned
           /\ percent' \in {percent, gate.seen}
           /\ reply = "written" => percent' = gate.seen
           /\ reply = "refused" => ~owned /\ percent' = percent
           /\ reply = "error" => errors' # 0
  <1>1. /\ percent \in Percents /\ gate.seen \in Percents /\ errors \in Nat /\ owned \in BOOLEAN
        /\ percent <= gate.seen
    BY DEF ToolTypes, GateInv, GateRecords
  <1>2. percent \in Int /\ gate.seen \in Int
    BY <1>1, ToolRunAssumption DEF Percents, Unset
  <1>3. Applies(gate.seen) <=> owned
    BY <1>1, <1>2 DEF Applies
  <1>4. errors' \in Nat /\ (reply = "error" => errors' # 0) /\ owned' = owned
    BY <1>1 DEF Persisted
  <1>5. CASE reply = "written"
    BY <1>1, <1>3, <1>4, <1>5 DEF Persisted
  <1>6. CASE reply = "refused"
    BY <1>1, <1>3, <1>4, <1>6 DEF Persisted
  <1>7. CASE reply = "error"
    BY <1>1, <1>3, <1>4, <1>7 DEF Persisted
  <1> QED
    BY <1>5, <1>6, <1>7 DEF Persists

\* The tool's own steps.
LEMMA ChildOK ==
    ASSUME ToolInv, ToolWrites \/ ToolTrims \/ ToolForks \/ ToolExits \/ HelperExits \/ ChildDies
                    \/ DiskFills
    PROVE  ToolInv'
  <1>1. ToolTypes'
    <2>1. output' \in 0..TopOutput
      BY ToolRunAssumption DEF ToolInv, ToolTypes, ToolWrites, ToolTrims, ToolForks, ToolExits,
         HelperExits, ChildDies, DiskFills
    <2>2. diskLow' \in BOOLEAN
      BY DEF ToolInv, ToolTypes, ToolWrites, ToolTrims, ToolForks, ToolExits,
         HelperExits, ChildDies, DiskFills
    <2>3. /\ leader' \in {"none", "alive", "dying", "ok", "failed"}
          /\ helper' \in {"none", "holding", "detached"}
          /\ UNCHANGED <<runVars, percentVars>>
      BY DEF ToolInv, ToolTypes, ToolWrites, ToolTrims, ToolForks, ToolExits,
         HelperExits, ChildDies, DiskFills
    <2> QED
      BY <2>1, <2>2, <2>3 DEF ToolInv, ToolTypes, runVars, percentVars
  <1>2. StageInv'
    BY DEF ToolInv, StageInv, Watched, ToolWrites, ToolTrims, ToolForks, ToolExits, HelperExits,
       ChildDies, DiskFills, runVars, percentVars
  <1>3. GateInv'
    BY DEF ToolInv, GateInv, LastPercentIsShown, ToolWrites, ToolTrims, ToolForks, ToolExits, HelperExits,
       ChildDies, DiskFills, runVars, percentVars
  <1> QED
    BY <1>1, <1>2, <1>3 DEF ToolInv

\* The job is lost to another worker.
LEMMA LosesJobOK ==
    ASSUME ToolInv, LosesJob
    PROVE  ToolInv'
  <1>1. ToolTypes'
    BY DEF ToolInv, ToolTypes, LosesJob, childVars, runVars
  <1>2. StageInv'
    BY DEF ToolInv, StageInv, Watched, LosesJob, childVars, runVars
  <1>3. GateInv'
    BY DEF ToolInv, GateInv, LastPercentIsShown, LosesJob, childVars, runVars
  <1> QED
    BY <1>1, <1>2, <1>3 DEF ToolInv

\* Time passes for the gate.
LEMMA ElapseOK ==
    ASSUME ToolInv, Elapse
    PROVE  ToolInv'
  <1> DEFINE a == Smaller(gate.sinceWrite + 1, WriteInterval)
             b == Smaller(gate.sinceTry + 1, BackoffMax)
  <1>1. gate \in GateRecords /\ a \in Nat /\ b \in Nat
    BY ToolRunAssumption DEF ToolInv, ToolTypes, GateRecords, Smaller
  <1>2. gate' = [gate EXCEPT !.sinceWrite = a, !.sinceTry = b]
    BY DEF Elapse
  <1> HIDE DEF a, b
  <1>3. /\ gate' \in GateRecords /\ gate'.seen = gate.seen /\ gate'.stored = gate.stored
        /\ gate'.lost = gate.lost
    BY <1>1, <1>2 DEF GateRecords
  <1>4. ToolTypes'
    BY <1>3 DEF ToolInv, ToolTypes, Elapse, childVars, runVars
  <1>5. StageInv'
    BY DEF ToolInv, StageInv, Watched, Elapse, childVars, runVars
  <1>6. GateInv'
    BY <1>3 DEF ToolInv, GateInv, LastPercentIsShown, Elapse, childVars, runVars
  <1> QED
    BY <1>4, <1>5, <1>6 DEF ToolInv

\* Percentages are integers.
LEMMA PercentOrder ==
    ASSUME ToolTypes
    PROVE  percent \in Int /\ gate.seen \in Int /\ gate.stored \in Int /\ Percents \subseteq Int
  BY ToolRunAssumption DEF ToolTypes, GateRecords, Percents, Unset

\* The writer takes a sample.
LEMMA ObservedFacts ==
    ASSUME ToolTypes
    PROVE  /\ Observed(output) \in WriterRecords
           /\ Observed(output).task = "writing" => /\ writer.task = "writing"
                                                   /\ Observed(output).value = writer.value
  <1> DEFINE l == Larger(writer.latest, output)
             t == IF writer.task = "none" THEN "pending" ELSE writer.task
  <1>1. writer \in WriterRecords /\ output \in 0..TopOutput
    BY DEF ToolTypes
  <1>2. l \in Unset..TopOutput /\ t \in {"none", "pending", "writing"}
    BY <1>1, ToolRunAssumption DEF WriterRecords, Larger, Unset
  <1>3. Observed(output) = IF writer.closed THEN writer ELSE [writer EXCEPT !.latest = l, !.task = t]
    BY DEF Observed
  <1>4. t = "writing" => writer.task = "writing"
    OBVIOUS
  <1> HIDE DEF l, t
  <1> QED
    BY <1>1, <1>2, <1>3, <1>4 DEF WriterRecords

\* The readers, the monitor and the writer are cancelled: a write under way carried
\* what was seen.
LEMMA CancelFacts ==
    ASSUME ToolInv, CancelAux
    PROVE  /\ writer' \in WriterRecords /\ writer'.task = "none" /\ monitor' = "off"
           /\ percent' \in Percents /\ percent <= percent' /\ percent' <= gate.seen
           /\ UNCHANGED <<gate, owned, errors>>
  <1>1. /\ writer \in WriterRecords /\ percent \in Percents /\ gate.seen \in Percents
        /\ percent <= gate.seen /\ (writer.task = "writing" => writer.value = gate.seen)
    BY DEF ToolInv, ToolTypes, GateInv, GateRecords
  <1>2. Unset \in Percents /\ Unset \in Unset..TopOutput
    BY ToolRunAssumption DEF Percents, Unset
  <1>3. writer' \in WriterRecords /\ writer'.task = "none"
    BY <1>1, <1>2 DEF CancelAux, Closed, WriterRecords
  <1>4. percent \in Int /\ gate.seen \in Int
    BY <1>1, ToolRunAssumption DEF Percents, Unset
  <1>5. percent' \in {percent, gate.seen}
    BY <1>1 DEF CancelAux
  <1> QED
    BY <1>1, <1>3, <1>4, <1>5 DEF CancelAux

\* The child is started, or not.
LEMMA SpawnOK ==
    ASSUME ToolInv, Spawn
    PROVE  ToolInv'
  <1>1. ToolTypes'
    BY DEF ToolInv, ToolTypes, Spawn, percentVars
  <1>2. StageInv'
    BY DEF ToolInv, StageInv, Watched, Spawn, percentVars
  <1>3. GateInv'
    BY DEF ToolInv, GateInv, LastPercentIsShown, Spawn, percentVars
  <1> QED
    BY <1>1, <1>2, <1>3 DEF ToolInv

\* The monitor kills the group, or hands a sample over.
LEMMA MonitorOK ==
    ASSUME ToolInv, Monitor
    PROVE  ToolInv'
  <1>1. Watched
    BY DEF Monitor, ToolInv, StageInv
  <1>2. CASE output > MaxOutput \/ diskLow
    <2>1. ToolTypes'
      BY <1>2 DEF Monitor, Killed, ToolInv, ToolTypes, percentVars
    <2>2. StageInv'
      BY <1>1, <1>2 DEF Monitor, Killed, ToolInv, StageInv, Watched, percentVars
    <2>3. GateInv'
      BY <1>2 DEF Monitor, Killed, ToolInv, GateInv, LastPercentIsShown, percentVars
    <2> QED
      BY <2>1, <2>2, <2>3 DEF ToolInv
  <1>3. CASE ~(output > MaxOutput \/ diskLow)
    <2>1. writer' = Observed(output) /\ UNCHANGED <<childVars, runVars, gate, percent, owned, errors>>
      BY <1>3 DEF Monitor
    <2>2. writer' \in WriterRecords /\ (writer'.task = "writing" => /\ writer.task = "writing"
                                                                  /\ writer'.value = writer.value)
      BY <2>1, ObservedFacts DEF ToolInv
    <2>3. ToolTypes'
      BY <2>1, <2>2 DEF ToolInv, ToolTypes, childVars, runVars
    <2>4. StageInv'
      BY <1>1, <2>1 DEF ToolInv, StageInv, Watched, childVars, runVars
    <2>5. GateInv'
      BY <2>1, <2>2 DEF ToolInv, GateInv, LastPercentIsShown, runVars
    <2> QED
      BY <2>3, <2>4, <2>5 DEF ToolInv
  <1> QED
    BY <1>2, <1>3

\* The tool has ended: over its limits it fails, else its progress is flushed.
LEMMA ReadEndsOK ==
    ASSUME ToolInv, ReadEnds
    PROVE  ToolInv'
  <1>1. /\ limit' = LimitAtExit /\ LimitAtExit \in {"none", "too_large", "storage"}
        /\ final' = output /\ output \in 0..TopOutput /\ 0..TopOutput \subseteq Unset..TopOutput
        /\ stage = "read" /\ leader \in {"ok", "failed"} /\ MaxOutput \in Nat
    BY ToolRunAssumption DEF ToolInv, ToolTypes, ReadEnds, LimitAtExit, Unset
  <1>2. CASE LimitAtExit # "none"
    <2>1. /\ failing' = TRUE /\ stage' = "kill" /\ why' = "limit" /\ Killed /\ CancelAux
          /\ UNCHANGED <<output, diskLow>>
      BY <1>2 DEF ReadEnds
    <2>2. /\ writer' \in WriterRecords /\ writer'.task = "none" /\ monitor' = "off"
          /\ percent' \in Percents /\ percent <= percent' /\ percent' <= gate.seen
          /\ UNCHANGED <<gate, owned, errors>>
      BY <2>1, CancelFacts
    <2>3. leader' \in {"ok", "failed"} /\ helper' = "none"
      BY <1>1, <2>1 DEF Killed
    <2>4. ToolTypes'
      BY <1>1, <2>1, <2>2, <2>3 DEF ToolInv, ToolTypes
    <2>5. StageInv'
      BY <2>1, <2>2, <2>3 DEF StageInv, Watched
    <2>6. GateInv'
      BY <2>1, <2>2, PercentOrder DEF ToolInv, GateInv, LastPercentIsShown
    <2> QED
      BY <2>4, <2>5, <2>6 DEF ToolInv
  <1>3. CASE LimitAtExit = "none"
    <2>1. /\ stage' = "flush" /\ why' = leader /\ writer' = Observed(output)
          /\ UNCHANGED <<childVars, failing, monitor, gate, percent, owned, errors>>
      BY <1>3 DEF ReadEnds
    <2>2. writer' \in WriterRecords /\ (writer'.task = "writing" => /\ writer.task = "writing"
                                                                  /\ writer'.value = writer.value)
      BY <2>1, ObservedFacts DEF ToolInv
    <2>3. ToolTypes'
      BY <1>1, <2>1, <2>2 DEF ToolInv, ToolTypes, childVars
    <2>4. output <= MaxOutput
      BY <1>1, <1>3, ToolRunAssumption DEF LimitAtExit
    <2>5. StageInv'
      BY <1>1, <1>3, <2>1, <2>4 DEF ToolInv, StageInv, Watched, childVars
    <2>6. GateInv'
      BY <2>1, <2>2 DEF ToolInv, GateInv, LastPercentIsShown
    <2> QED
      BY <2>3, <2>5, <2>6 DEF ToolInv
  <1> QED
    BY <1>2, <1>3

\* A timeout, a cancellation or too much output leaves nobody of the group.
LEMMA ReadFailsOK ==
    ASSUME ToolInv, NEW reason \in {"timeout", "cancelled", "overflow"}, ReadFails(reason)
    PROVE  ToolInv'
  <1>1. /\ failing' = TRUE /\ stage' = "kill" /\ why' = reason /\ Killed /\ CancelAux
        /\ UNCHANGED <<output, diskLow, limit, final>>
    BY DEF ReadFails
  <1>2. /\ writer' \in WriterRecords /\ writer'.task = "none" /\ monitor' = "off"
        /\ percent' \in Percents /\ percent <= percent' /\ percent' <= gate.seen
        /\ UNCHANGED <<gate, owned, errors>>
    BY <1>1, CancelFacts
  <1>3. leader' \in {"none", "dying", "ok", "failed"} /\ helper' = "none"
    BY <1>1 DEF Killed, ToolInv, ToolTypes
  <1>4. ToolTypes'
    BY <1>1, <1>2, <1>3 DEF ToolInv, ToolTypes
  <1>5. StageInv'
    BY <1>1, <1>2, <1>3 DEF StageInv, Watched
  <1>6. GateInv'
    BY <1>1, <1>2, PercentOrder DEF ToolInv, GateInv, LastPercentIsShown
  <1> QED
    BY <1>4, <1>5, <1>6 DEF ToolInv

\* The group is killed again, or the kill is over.
LEMMA KillOK ==
    ASSUME ToolInv, CancelledAgain \/ KillEnds
    PROVE  ToolInv'
  <1>1. ToolTypes'
    BY DEF ToolInv, ToolTypes, CancelledAgain, KillEnds, Killed, childVars, percentVars
  <1>2. StageInv'
    BY DEF ToolInv, StageInv, Watched, CancelledAgain, KillEnds, Killed, childVars, percentVars
  <1>3. GateInv'
    <2>1. UNCHANGED percentVars /\ ~(stage' = "over" /\ why' \in {"ok", "failed", "timeout"})
      BY DEF ToolInv, StageInv, CancelledAgain, KillEnds
    <2> QED
      BY <2>1 DEF ToolInv, GateInv, LastPercentIsShown, percentVars
  <1> QED
    BY <1>1, <1>2, <1>3 DEF ToolInv

\* The flush is over or cancelled.
LEMMA FlushOK ==
    ASSUME ToolInv, FlushEnds \/ FlushCancelled
    PROVE  ToolInv'
  <1>1. /\ CancelAux /\ UNCHANGED <<childVars, failing, limit, final>>
        /\ stage \in {"flush", "flushed"}
        /\ \/ stage' = "over" /\ why' \in {"limit", "cancelled"}
           \/ stage' = "last" /\ why' = why /\ limit = "none"
    BY DEF FlushEnds, FlushCancelled
  <1>2. /\ writer' \in WriterRecords /\ writer'.task = "none" /\ monitor' = "off"
        /\ percent' \in Percents /\ percent <= percent' /\ percent' <= gate.seen
        /\ UNCHANGED <<gate, owned, errors>>
    BY <1>1, CancelFacts
  <1>3. ToolTypes'
    BY <1>1, <1>2 DEF ToolInv, ToolTypes, childVars
  <1>4. StageInv'
    BY <1>1, <1>2 DEF ToolInv, StageInv, Watched, childVars
  <1>5. GateInv'
    BY <1>1, <1>2, PercentOrder DEF ToolInv, GateInv, LastPercentIsShown
  <1> QED
    BY <1>3, <1>4, <1>5 DEF ToolInv

\* The writer takes its sample to the gate.
LEMMA DrainOK ==
    ASSUME ToolInv, Drain
    PROVE  ToolInv'
  <1> DEFINE g == Seen(writer.latest)
             sampled == writer.latest # Unset /\ ~gate.lost
  <1>1. /\ writer \in WriterRecords /\ gate \in GateRecords /\ writer.task = "pending" /\ Watched
        /\ writer.latest \in Unset..TopOutput
    BY DEF ToolInv, ToolTypes, Drain, StageInv, WriterRecords
  <1>2. Unset \in Percents /\ Unset \in Unset..TopOutput
    BY ToolRunAssumption DEF Percents, Unset
  <1>3. sampled => writer.latest \in Nat
    BY <1>1, ToolRunAssumption DEF Unset
  <1>4. sampled => g \in GateRecords /\ gate.seen <= g.seen /\ g.stored = gate.stored /\ g.lost = gate.lost
    BY <1>3, SeenFacts DEF ToolInv
  <1>5. gate' = IF sampled THEN g ELSE gate
    BY DEF Drain
  <1>6. /\ gate' \in GateRecords /\ gate.seen <= gate'.seen /\ gate'.stored = gate.stored
        /\ gate'.lost = gate.lost /\ gate.seen \in Int
    BY <1>1, <1>4, <1>5, PercentOrder DEF ToolInv
  <1>7. UNCHANGED <<childVars, failing, why, limit, final, monitor, percent, owned, errors>>
    BY DEF Drain
  <1>8. \/ /\ writer' = [writer EXCEPT !.latest = Unset, !.task = "writing", !.value = g.seen]
           /\ stage' = stage /\ sampled
        \/ /\ writer' = [writer EXCEPT !.latest = Unset, !.task = "none"]
           /\ stage' = IF stage = "flush" THEN "flushed" ELSE stage
    BY DEF Drain
  <1>9. sampled => g.seen \in Percents
    BY <1>4 DEF GateRecords
  <1> HIDE DEF g, sampled
  <1>10. /\ writer' \in WriterRecords
         /\ writer'.task = "writing" => writer'.value = gate'.seen
    BY <1>1, <1>2, <1>5, <1>8, <1>9 DEF WriterRecords
  <1>11. stage' \in {"read", "flush", "flushed"} /\ (stage' # stage => stage' = "flushed" /\ stage = "flush")
    BY <1>1, <1>8 DEF Watched
  <1>12. ToolTypes'
    BY <1>6, <1>7, <1>10, <1>11 DEF ToolInv, ToolTypes, childVars
  <1>13. StageInv'
    BY <1>1, <1>7, <1>11 DEF ToolInv, StageInv, Watched, childVars
  <1>14. GateInv'
    <2>1. percent <= gate'.seen
      BY <1>6, PercentOrder DEF ToolInv, GateInv, ToolTypes, GateRecords
    <2> QED
      BY <1>6, <1>7, <1>10, <1>11, <2>1 DEF ToolInv, GateInv, LastPercentIsShown
  <1> QED
    BY <1>12, <1>13, <1>14 DEF ToolInv

\* A write of the writer ends.
LEMMA WriteEndsOK ==
    ASSUME ToolInv, NEW reply \in Persists, WriteEnds(reply)
    PROVE  ToolInv'
  <1>1. /\ writer \in WriterRecords /\ gate \in GateRecords /\ writer.task = "writing"
        /\ writer.value = gate.seen /\ gate.seen \in Percents
        /\ Watched
    BY DEF ToolInv, ToolTypes, WriteEnds, StageInv, GateInv, GateRecords
  <1>2. Unset \in Percents
    BY ToolRunAssumption DEF Percents, Unset
  <1>3. Persisted(gate.seen, reply) /\ gate' = Answered(reply, gate.seen) /\ UNCHANGED <<childVars, runVars>>
    BY <1>1 DEF WriteEnds
  <1>4. writer' \in WriterRecords /\ writer'.task = "pending"
    BY <1>1, <1>2 DEF WriteEnds, WriterRecords
  <1>5. /\ gate' \in GateRecords /\ gate'.seen = gate.seen
        /\ gate'.stored = (IF reply = "written" THEN gate.seen ELSE gate.stored)
        /\ gate'.lost = (gate.lost \/ reply = "refused")
    BY <1>1, <1>3, AnsweredFacts DEF ToolInv
  <1>6. /\ percent' \in Percents /\ errors' \in Nat /\ owned' = owned
        /\ percent' \in {percent, gate.seen}
        /\ reply = "written" => percent' = gate.seen
        /\ reply = "refused" => ~owned /\ percent' = percent
    BY <1>3, PersistedFacts DEF ToolInv
  <1>7. ToolTypes'
    BY <1>3, <1>4, <1>5, <1>6 DEF ToolInv, ToolTypes, childVars, runVars
  <1>8. StageInv'
    BY <1>1, <1>3 DEF ToolInv, StageInv, Watched, childVars, runVars
  <1>9. GateInv'
    <2>1. gate'.stored <= percent' /\ percent' <= gate'.seen
      BY <1>5, <1>6, PercentOrder DEF ToolInv, GateInv
    <2>2. gate'.lost => ~owned'
      BY <1>5, <1>6 DEF ToolInv, GateInv
    <2>3. LastPercentIsShown'
      BY <1>1, <1>3 DEF LastPercentIsShown, Watched, runVars
    <2> QED
      BY <1>4, <2>1, <2>2, <2>3 DEF GateInv
  <1> QED
    BY <1>7, <1>8, <1>9 DEF ToolInv

\* The last sample goes to the gate.
LEMMA LastSampleOK ==
    ASSUME ToolInv, LastSample
    PROVE  ToolInv'
  <1> DEFINE g == Seen(output)
  <1>1. /\ stage = "last" /\ writer.task = "none" /\ monitor = "off" /\ output \in Nat
        /\ gate \in GateRecords
    BY ToolRunAssumption DEF ToolInv, ToolTypes, LastSample, StageInv, Watched
  <1>2. g \in GateRecords /\ gate.seen <= g.seen /\ g.stored = gate.stored /\ g.lost = gate.lost
    BY <1>1, SeenFacts DEF ToolInv
  <1>3. UNCHANGED <<childVars, failing, why, limit, final, monitor, writer, percent, owned, errors>>
    BY DEF LastSample
  <1>4. \/ gate.lost /\ stage' = "over" /\ gate' = gate
        \/ gate' = g /\ stage' = "lastWrite"
        \/ gate' = g /\ stage' = "over" /\ ~(g.seen > g.stored)
    BY DEF LastSample, LastIsNew
  <1> HIDE DEF g
  <1>5. ToolTypes'
    BY <1>1, <1>2, <1>3, <1>4 DEF ToolInv, ToolTypes, childVars
  <1>6. StageInv'
    BY <1>1, <1>3, <1>4 DEF ToolInv, StageInv, Watched, childVars
  <1>7. GateInv'
    <2>1. /\ gate.stored <= percent /\ percent <= gate.seen /\ (gate.lost => ~owned)
          /\ percent \in Int /\ gate.seen \in Int /\ gate.stored \in Int /\ g.seen \in Int
      BY <1>2, PercentOrder DEF ToolInv, GateInv, GateRecords
    <2>2. gate'.stored <= percent /\ percent <= gate'.seen /\ (gate'.lost => ~owned)
      BY <1>2, <1>4, <2>1
    <2>3. stage' = "over" /\ owned => percent = gate'.seen
      BY <1>2, <1>4, <2>1
    <2> QED
      BY <1>1, <1>3, <2>2, <2>3 DEF GateInv, LastPercentIsShown
  <1> QED
    BY <1>5, <1>6, <1>7 DEF ToolInv

\* The last write ends.
LEMMA LastWriteEndsOK ==
    ASSUME ToolInv, NEW reply \in Persists, LastWriteEnds(reply)
    PROVE  ToolInv'
  <1>1. /\ stage = "lastWrite" /\ stage' = "over" /\ writer.task = "none" /\ monitor = "off"
        /\ gate \in GateRecords /\ gate.seen \in Percents
    BY DEF ToolInv, ToolTypes, LastWriteEnds, StageInv, Watched, GateRecords
  <1>2. /\ Persisted(gate.seen, reply) /\ gate' = Answered(reply, gate.seen)
        /\ UNCHANGED <<childVars, failing, why, limit, final, monitor, writer>>
    BY DEF LastWriteEnds
  <1>3. /\ gate' \in GateRecords /\ gate'.seen = gate.seen
        /\ gate'.stored = (IF reply = "written" THEN gate.seen ELSE gate.stored)
        /\ gate'.lost = (gate.lost \/ reply = "refused")
    BY <1>1, <1>2, AnsweredFacts DEF ToolInv
  <1>4. /\ percent' \in Percents /\ errors' \in Nat /\ owned' = owned
        /\ percent' \in {percent, gate.seen}
        /\ reply = "written" => percent' = gate.seen
        /\ reply = "refused" => ~owned /\ percent' = percent
        /\ reply = "error" => errors' # 0
    BY <1>2, PersistedFacts DEF ToolInv
  <1>5. ToolTypes'
    BY <1>1, <1>2, <1>3, <1>4 DEF ToolInv, ToolTypes, childVars
  <1>6. StageInv'
    BY <1>1, <1>2 DEF ToolInv, StageInv, Watched, childVars
  <1>7. GateInv'
    <2>1. gate'.stored <= percent' /\ percent' <= gate'.seen
      BY <1>3, <1>4, PercentOrder DEF ToolInv, GateInv
    <2>2. gate'.lost => ~owned'
      BY <1>3, <1>4 DEF ToolInv, GateInv
    <2>3. LastPercentIsShown'
      BY <1>3, <1>4 DEF LastPercentIsShown, Persists
    <2>4. writer'.task = "none"
      BY <1>1, <1>2
    <2> QED
      BY <2>1, <2>2, <2>3, <2>4 DEF GateInv
  <1> QED
    BY <1>5, <1>6, <1>7 DEF ToolInv

\* The invariant holds at first.
LEMMA ToolInitOK == ToolInit => ToolInv
  <1> SUFFICES ASSUME ToolInit
               PROVE  ToolInv
    OBVIOUS
  <1>1. ToolTypes
    <2>1. /\ Unset \in Percents /\ Unset \in Unset..TopOutput /\ 0 \in 0..TopOutput
          /\ BackoffMin \in Backoffs
      BY ToolRunAssumption DEF Percents, Unset, Backoffs
    <2>2. writer \in WriterRecords
      BY <2>1 DEF ToolInit, NoWriter, WriterRecords
    <2>3. gate \in GateRecords
      BY <2>1 DEF ToolInit, GateRecords
    <2> QED
      BY <2>1, <2>2, <2>3 DEF ToolInit, ToolTypes
  <1>2. StageInv
    BY DEF ToolInit, StageInv, Watched, NoWriter
  <1>3. GateInv
    BY DEF ToolInit, GateInv, LastPercentIsShown, NoWriter, Unset
  <1> QED
    BY <1>1, <1>2, <1>3 DEF ToolInv

\* Every step of a run keeps it.
LEMMA ToolStepOK ==
    ASSUME ToolInv, [ToolNext]_toolVars
    PROVE  ToolInv'
  <1>1. CASE Runner
    BY <1>1, SpawnOK, ReadEndsOK, ReadFailsOK, KillOK, FlushOK, LastSampleOK, LastWriteEndsOK DEF Runner
  <1>2. CASE Writer
    BY <1>2, DrainOK, WriteEndsOK DEF Writer
  <1>3. CASE Monitor \/ ChildDies
    BY <1>3, MonitorOK, ChildOK
  <1>4. CASE Outside
    BY <1>4, ChildOK, LosesJobOK, ElapseOK, ReadFailsOK, KillOK, FlushOK DEF Outside
  <1>5. CASE UNCHANGED toolVars
    BY <1>5 DEF toolVars, childVars, runVars, percentVars, ToolInv, ToolTypes, StageInv, GateInv, Watched,
       LastPercentIsShown
  <1> QED
    BY <1>1, <1>2, <1>3, <1>4, <1>5 DEF ToolNext

\* The invariant of a run says what the executor relies on.
LEMMA ToolInvImplies ==
    ASSUME ToolInv
    PROVE  RunIsAccountedFor /\ ToolTypeOK
  <1>1. NothingOutlivesTheRun
    BY DEF ToolInv, StageInv, Watched, NothingOutlivesTheRun, Member
  <1>2. OversizeIsNotAccepted
    BY DEF ToolInv, StageInv, Watched, OversizeIsNotAccepted
  <1>3. GateKnowsTheRow /\ LastPercentIsShown
    BY DEF ToolInv, GateInv, GateKnowsTheRow
  <1>4. ToolTypeOK
    BY DEF ToolInv, ToolTypes, ToolTypeOK, GateRecords, WriterRecords, Percents, Backoffs
  <1> QED
    BY <1>1, <1>2, <1>3, <1>4 DEF RunIsAccountedFor

\* However the tool, its descendants, the monitor, the writer, a timeout and a
\* cancellation interleave, a run that is over is accounted for
\* (DownloadProcessRunner.run, ProgressPersistGate).
THEOREM RunAccounting == ToolSpec => []RunIsAccountedFor
  <1>1. ToolInit => ToolInv
    BY ToolInitOK
  <1>2. ToolInv /\ [ToolNext]_toolVars => ToolInv'
    BY ToolStepOK
  <1>3. ToolInv => RunIsAccountedFor
    BY ToolInvImplies
  <1> QED
    BY <1>1, <1>2, <1>3, PTL DEF ToolSpec

-----------------------------------------------------------------------------
(* The inspection side as a whole.                                         *)

\* The invariants of the four parts.
InspectionInv == IInv /\ RequestInv /\ ResolutionInv /\ ToolInv

\* A step of one part is a step or a stutter of each.
LEMMA PartSteps ==
    ASSUME [MCNext]_allVars
    PROVE  /\ [Next]_vars /\ [RequestNext]_requestVars
           /\ [ResolutionNext]_resolutionVars /\ [ToolNext]_toolVars
  BY DEF MCNext, Queue, Api, Resolution, Tool, allVars

\* What the invariants say of the types of the parts.
LEMMA PartTypes ==
    ASSUME InspectionInv
    PROVE  WellFormed
  <1>1. TypeOK /\ CheckConstraints /\ QueuedHasBudget
    BY DEF InspectionInv, IInv, RowInv, CheckConstraints, QueuedHasBudget
  <1>2. RequestTypeOK
    <2>1. RequestInv /\ RequestTypes
      BY DEF InspectionInv, RequestInv
    <2>2. ASSUME NEW r \in Requests
          PROVE  /\ post[r].pc \in {"idle", "lookup", "resolve", "insert", "commit", "done"}
                 /\ (post[r].pc = "done") <=> (answer[r] # Silence)
      <3>1. RequestOK(r) /\ post[r] \in Posts /\ answer[r] \in Answers
        BY <2>1 DEF RequestInv, RequestTypes
      <3>2. Silence.kind = "none"
        BY DEF Silence
      <3> QED
        BY <3>1, <3>2 DEF RequestOK, Posts
    <2>3. \A t \in Tokens : pending[t] # NoJob =>
              /\ post[pending[t]].pc = "commit" /\ post[pending[t]].token = t
              /\ jobs[t] = NoRow
      BY <2>1 DEF RequestInv, TokenOK
    <2> QED
      BY <2>2, <2>3 DEF RequestTypeOK
  <1>3. ResolutionTypeOK
    BY ResolutionAssumption DEF InspectionInv, ResolutionInv, ResolutionTypes, ResolutionTypeOK, LoopPcs
  <1>4. ToolTypeOK
    BY ToolInvImplies DEF InspectionInv
  <1> QED
    BY <1>1, <1>2, <1>3, <1>4 DEF WellFormed

\* Every state of every part is well formed: types, the CHECK constraints of
\* media_jobs, an attempt left for every queued row, an unanswered request for every
\* row about to be committed, and an open response exactly where the client's loop
\* has one (media/models.py, network/client.py, downloads/progress.py).
THEOREM InspectionIsWellFormed == MCSpec => []WellFormed
  <1>1. MCInit => InspectionInv
    BY InitIInv, RequestInitOK, ResolutionInitOK, ToolInitOK DEF MCInit, InspectionInv
  <1>2. InspectionInv /\ [MCNext]_allVars => InspectionInv'
    BY PartSteps, StepIInv, RequestStepOK, ResolutionStepOK, ToolStepOK DEF InspectionInv
  <1>3. InspectionInv => WellFormed
    BY PartTypes
  <1> QED
    BY <1>1, <1>2, <1>3, PTL DEF MCSpec
=============================================================================
