------------------------------- MODULE ToolRun -------------------------------
(***************************************************************************)
(* One tool stage of a download: DownloadProcessRunner.run with its size   *)
(* monitor and its CoalescingProgressWriter, and the ProgressPersistGate   *)
(* between the observed sizes and the percentage in the database.          *)
(*                                                                         *)
(* The tool may start a descendant of its process group, which may hold    *)
(* the inherited pipes or not, outlive it and keep writing.  A step runs   *)
(* from one await to the next.  The gate's clock is kept as the time since *)
(* the last write and since the last attempt.                              *)
(***************************************************************************)
EXTENDS Integers

CONSTANTS MaxOutput,     \* max_output_bytes
          TopOutput,     \* bound: the tool writes no more than this
          ExpectedSize,  \* expected_bytes
          Scale,         \* 100 in the code
          WriteInterval, \* PROGRESS_WRITE_INTERVAL_SECONDS
          BackoffMin,    \* PROGRESS_BACKOFF_INITIAL_SECONDS
          BackoffMax,    \* PROGRESS_BACKOFF_MAX_SECONDS
          MaxErrors      \* bound: database errors

ASSUME ToolRunAssumption ==
    /\ MaxOutput \in Nat /\ TopOutput \in Nat /\ MaxOutput < TopOutput
    /\ ExpectedSize \in Nat \ {0} /\ Scale \in Nat \ {0}
    /\ WriteInterval \in Nat /\ BackoffMin \in Nat \ {0} /\ BackoffMax \in Nat
    /\ BackoffMin <= BackoffMax /\ MaxErrors \in Nat

VARIABLES leader,   \* the direct child; "dying" has a SIGKILL pending
          helper,   \* a descendant of its group: "none", "holding" the pipes, "detached"
          output,   \* bytes below the watched directories
          diskLow,  \* free < min_free_bytes
          stage,    \* where run() is, and then the executor
          failing,  \* failure_path
          why,      \* how the tool's stage ended
          limit,    \* limit_code
          final,    \* final_watched
          monitor,  \* _size_monitor
          writer,   \* CoalescingProgressWriter
          gate,     \* ProgressPersistGate
          percent,  \* progress_percent of the job's row
          owned,    \* the fence of set_progress_percent holds
          errors    \* database errors so far

childVars == <<leader, helper, output, diskLow>>
runVars == <<stage, failing, why, limit, final, monitor>>
percentVars == <<writer, gate, percent, owned, errors>>
toolVars == <<childVars, runVars, percentVars>>

Unset == -1
Larger(a, b) == IF a > b THEN a ELSE b
Smaller(a, b) == IF a < b THEN a ELSE b

-----------------------------------------------------------------------------
(* The gate *)

\* progress_percent: below 100 and never below the previous one.
PercentOf(bytes, previous) ==
    Larger(previous, Smaller(Scale - 1, (bytes * Scale) \div ExpectedSize))

\* _should_attempt_persist: more than is stored, no write in the last interval, and
\* no failed attempt in the last backoff.
MayWrite(g) ==
    /\ g.seen > g.stored
    /\ g.stored # Unset => g.sinceWrite >= WriteInterval
    /\ g.tryFailed => g.sinceTry >= g.backoff

Seen(bytes) == [gate EXCEPT !.seen = PercentOf(bytes, gate.seen)]

\* What the gate makes of persist's answer.
Answered(answer, value) ==
    CASE answer = "written" -> [gate EXCEPT !.stored = value, !.sinceWrite = 0, !.sinceTry = 0,
                                            !.tryFailed = FALSE, !.backoff = BackoffMin]
      [] answer = "refused" -> [gate EXCEPT !.lost = TRUE]
      [] answer = "error"   -> [gate EXCEPT !.sinceTry = 0, !.tryFailed = TRUE,
                                            !.backoff = Smaller(2 * gate.backoff, BackoffMax)]

\* set_progress_percent under its row lock.
Applies(value) == owned /\ value >= percent

\* persist ends: the row is written, it is refused, or the database fails and
\* the value may have been committed all the same.
Persisted(value, answer) ==
    /\ answer = "error" => errors < MaxErrors
    /\ errors' = IF answer = "error" THEN errors + 1 ELSE errors
    /\ CASE answer = "written" -> Applies(value) /\ percent' = value
         [] answer = "refused" -> ~Applies(value) /\ UNCHANGED percent
         [] answer = "error"   -> percent' \in {percent} \cup (IF Applies(value) THEN {value} ELSE {})
    /\ UNCHANGED owned

-----------------------------------------------------------------------------
(* The writer *)

NoWriter == [latest |-> Unset, task |-> "none", value |-> Unset, closed |-> FALSE]

\* observe: the latest size replaces the pending one; at most one task.
Observed(bytes) ==
    IF writer.closed THEN writer
    ELSE [writer EXCEPT !.latest = Larger(@, bytes),
                        !.task = IF @ = "none" THEN "pending" ELSE @]

\* The loop of _drain: one sample through the gate, which may start a write.  The
\* end of the task is what flush waits for.
Drain ==
    LET g == Seen(writer.latest)
    IN /\ writer.task = "pending"
       /\ gate' = IF writer.latest = Unset \/ gate.lost THEN gate ELSE g
       /\ IF writer.latest # Unset /\ ~gate.lost /\ MayWrite(g)
          THEN /\ writer' = [writer EXCEPT !.latest = Unset, !.task = "writing", !.value = g.seen]
               /\ UNCHANGED stage
          ELSE /\ writer' = [writer EXCEPT !.latest = Unset, !.task = "none"]
               /\ stage' = IF stage = "flush" THEN "flushed" ELSE stage
       /\ UNCHANGED <<childVars, failing, why, limit, final, monitor, percent, owned, errors>>

\* The write ends and the loop goes on.
WriteEnds(answer) ==
    /\ writer.task = "writing"
    /\ Persisted(writer.value, answer)
    /\ gate' = Answered(answer, writer.value)
    /\ writer' = [writer EXCEPT !.task = "pending", !.value = Unset]
    /\ UNCHANGED <<childVars, runVars>>

\* aclose: the task is cancelled and waited for.
Closed(w) == [w EXCEPT !.closed = TRUE, !.latest = Unset, !.task = "none", !.value = Unset]

\* _cancel_aux: readers, monitor and writer.  A write under way may be committed
\* although its task is cancelled.
CancelAux ==
    /\ monitor' = "off"
    /\ writer' = Closed(writer)
    /\ percent' \in {percent} \cup (IF writer.task = "writing" /\ Applies(writer.value)
                                    THEN {writer.value} ELSE {})
    /\ UNCHANGED <<gate, owned, errors>>

-----------------------------------------------------------------------------
(* The process group *)

ToolInit ==
    /\ leader = "none" /\ helper = "none" /\ output = 0 /\ diskLow = FALSE
    /\ stage = "idle" /\ failing = FALSE /\ why = "none" /\ limit = "none" /\ final = Unset
    /\ monitor = "off" /\ writer = NoWriter
    /\ gate = [seen |-> Unset, stored |-> Unset, sinceWrite |-> 0, sinceTry |-> 0,
               tryFailed |-> FALSE, backoff |-> BackoffMin, lost |-> FALSE]
    /\ percent = Unset /\ owned = TRUE /\ errors = 0

Member == leader = "alive" \/ helper # "none"

\* What tools do.
ToolWrites == /\ Member /\ output < TopOutput /\ output' = output + 1
              /\ UNCHANGED <<leader, helper, diskLow, runVars, percentVars>>
ToolTrims == /\ Member /\ output > 0 /\ output' = output - 1
             /\ UNCHANGED <<leader, helper, diskLow, runVars, percentVars>>
ToolForks == /\ leader = "alive" /\ helper = "none" /\ helper' \in {"holding", "detached"}
             /\ UNCHANGED <<leader, output, diskLow, runVars, percentVars>>
ToolExits == /\ leader = "alive" /\ leader' \in {"ok", "failed"}
             /\ UNCHANGED <<helper, output, diskLow, runVars, percentVars>>
HelperExits == /\ helper # "none" /\ helper' = "none"
               /\ UNCHANGED <<leader, output, diskLow, runVars, percentVars>>
DiskFills == /\ stage \notin {"idle", "over"} /\ diskLow' = ~diskLow
             /\ UNCHANGED <<leader, helper, output, runVars, percentVars>>
LosesJob == /\ owned /\ stage # "over" /\ owned' = FALSE
            /\ UNCHANGED <<childVars, runVars, writer, gate, percent, errors>>
Elapse == /\ stage \notin {"idle", "over"}
          /\ gate' = [gate EXCEPT !.sinceWrite = Smaller(@ + 1, WriteInterval),
                                  !.sinceTry = Smaller(@ + 1, BackoffMax)]
          /\ UNCHANGED <<childVars, runVars, writer, percent, owned, errors>>

\* The group is left alone once the direct child has exited.
KilledUnlessExited ==
    IF leader = "alive" THEN leader' = "dying" /\ helper' = "none"
    ELSE UNCHANGED <<leader, helper>>

\* killpg: every member gets SIGKILL; the direct child may take its time to die.
Killed ==
    /\ leader' = IF leader = "alive" THEN "dying" ELSE leader
    /\ helper' = "none"

-----------------------------------------------------------------------------
(* DownloadProcessRunner.run *)

Spawn ==
    /\ stage = "idle"
    /\ \/ /\ leader' = "alive" /\ stage' = "read" /\ monitor' = "sleep" /\ UNCHANGED why
       \/ /\ stage' = "over" /\ why' = "spawn" /\ UNCHANGED <<leader, monitor>>
    /\ UNCHANGED <<helper, output, diskLow, failing, limit, final, percentVars>>

\* The monitor wakes: over the budget or short of disk it kills the group, otherwise
\* it hands the size to the writer, for which it never waits.
Monitor ==
    /\ monitor = "sleep"
    /\ IF output > MaxOutput \/ diskLow
       THEN /\ limit' = IF output > MaxOutput THEN "too_large" ELSE "storage"
            /\ monitor' = "off" /\ Killed
            /\ UNCHANGED <<output, diskLow, stage, failing, why, final, percentVars>>
       ELSE /\ writer' = Observed(output)
            /\ UNCHANGED <<childVars, runVars, gate, percent, owned, errors>>

\* After the kill of the monitor or of the runner, the child dies.
ChildDies == /\ leader = "dying" /\ leader' = "failed"
             /\ UNCHANGED <<helper, output, diskLow, runVars, percentVars>>

\* The budget check after the tool's exit; it adds to what the monitor found.
LimitAtExit == IF diskLow THEN "storage" ELSE IF output > MaxOutput THEN "too_large" ELSE limit

\* Both pipes are at their end and the child is reaped.
ReadEnds ==
    /\ stage = "read" /\ leader \in {"ok", "failed"} /\ helper # "holding"
    /\ limit' = LimitAtExit /\ final' = output
    /\ IF LimitAtExit # "none"
       THEN /\ failing' = TRUE /\ stage' = "kill" /\ why' = "limit"
            /\ Killed /\ CancelAux
            /\ UNCHANGED <<output, diskLow>>
       ELSE /\ stage' = "flush" /\ why' = leader /\ writer' = Observed(output)
            /\ UNCHANGED <<childVars, failing, monitor, gate, percent, owned, errors>>

\* wait_for's timeout, a cancellation, or too much output of the tool.
ReadFails(reason) ==
    /\ stage = "read"
    /\ failing' = TRUE /\ stage' = "kill" /\ why' = reason
    /\ Killed /\ CancelAux
    /\ UNCHANGED <<output, diskLow, limit, final>>

\* A cancellation while the group is being killed: the finally kills it again.
CancelledAgain ==
    /\ stage = "kill" /\ why' = "cancelled" /\ Killed
    /\ UNCHANGED <<output, diskLow, stage, failing, limit, final, monitor, percentVars>>

\* _terminate_process_group is over: the child is reaped, or five rounds were not
\* enough.  A timeout without a limit is an ordinary result.
KillEnds ==
    /\ stage = "kill"
    /\ why' = IF leader = "dying" THEN "reap_failed"
              ELSE IF limit # "none" /\ why # "cancelled" THEN "limit" ELSE why
    /\ stage' = IF why' = "timeout" THEN "last" ELSE "over"
    /\ UNCHANGED <<childVars, failing, limit, final, monitor, percentVars>>

\* flush has waited for the writer's task; the monitor has run all the while, and
\* may have started another.
FlushEnds ==
    /\ stage = "flushed" /\ CancelAux
    /\ IF limit # "none" THEN why' = "limit" /\ stage' = "over"
                         ELSE stage' = "last" /\ UNCHANGED why
    /\ UNCHANGED <<childVars, failing, limit, final>>

\* A cancellation during flush: the child has been reaped, so nothing is killed.
FlushCancelled ==
    /\ stage \in {"flush", "flushed"} /\ CancelAux
    /\ why' = "cancelled" /\ stage' = "over"
    /\ UNCHANGED <<childVars, failing, limit, final>>

\* force=True: more than is stored is enough.
LastIsNew(g) == g.seen > g.stored

\* _run_exact_ytdlp after run(): the last size is written without throttle.
LastSample ==
    LET g == Seen(output)
    IN /\ stage = "last"
       /\ IF gate.lost THEN stage' = "over" /\ UNCHANGED gate
          ELSE gate' = g /\ stage' = IF LastIsNew(g) THEN "lastWrite" ELSE "over"
       /\ UNCHANGED <<childVars, failing, why, limit, final, monitor, writer, percent, owned, errors>>

LastWriteEnds(answer) ==
    /\ stage = "lastWrite" /\ stage' = "over"
    /\ Persisted(gate.seen, answer)
    /\ gate' = Answered(answer, gate.seen)
    /\ UNCHANGED <<childVars, failing, why, limit, final, monitor, writer>>

-----------------------------------------------------------------------------
Persists == {"written", "refused", "error"}

Runner == \/ Spawn \/ ReadEnds \/ ReadFails("timeout") \/ KillEnds \/ FlushEnds \/ LastSample
          \/ \E a \in Persists : LastWriteEnds(a)
Writer == Drain \/ \E a \in Persists : WriteEnds(a)
Outside == \/ ToolWrites \/ ToolTrims \/ ToolForks \/ ToolExits \/ HelperExits
           \/ DiskFills \/ LosesJob \/ Elapse
           \/ ReadFails("cancelled") \/ ReadFails("overflow") \/ CancelledAgain \/ FlushCancelled

ToolNext == Runner \/ Writer \/ Monitor \/ ChildDies \/ Outside

\* The event loop runs what is ready, wait_for's timer fires, and the driver ends
\* every statement.  Tools, users and the clock owe nothing.
ToolSpec == /\ ToolInit /\ [][ToolNext]_toolVars
            /\ WF_toolVars(Runner) /\ WF_toolVars(Writer)

-----------------------------------------------------------------------------
(* Properties *)

\* Types: a stored percentage is below 100 (chk on media_download_jobs), and there
\* is at most one write at a time (CoalescingProgressWriter).
ToolTypeOK ==
    /\ leader \in {"none", "alive", "dying", "ok", "failed"} /\ helper \in {"none", "holding", "detached"}
    /\ output \in 0..TopOutput
    /\ stage \in {"idle", "read", "kill", "flush", "flushed", "last", "lastWrite", "over"}
    /\ limit \in {"none", "too_large", "storage"}
    /\ {percent, gate.seen, gate.stored} \subseteq Unset..(Scale - 1)
    /\ gate.backoff \in BackoffMin..BackoffMax
    /\ writer.task \in {"none", "pending", "writing"}

\* Nothing outlives the run: when it is over its monitor and writer are too, and
\* after a failure no member of the group survives, the direct child having exited
\* first or not, unless it could not be reaped.
NothingOutlivesTheRun ==
    stage \in {"last", "lastWrite", "over"} =>
        /\ monitor = "off" /\ writer.task = "none"
        /\ failing /\ why # "reap_failed" => ~Member

\* A tool that ended well kept its budget: what it wrote after the last sample of the
\* monitor, or while the progress was flushed, counts.
OversizeIsNotAccepted ==
    stage = "over" /\ why = "ok" => final <= MaxOutput /\ limit = "none"

\* The gate gives up for lost ownership alone: while the job is owned the row never
\* refuses a percentage, whatever was committed behind a cancelled or failed write.
GateKnowsTheRow ==
    /\ gate.lost => ~owned
    /\ gate.stored <= percent /\ percent <= gate.seen

\* When the stage is over the row shows the largest size seen, unless the database
\* failed or the job was lost.
LastPercentIsShown ==
    stage = "over" /\ why \in {"ok", "failed", "timeout"} /\ owned /\ errors = 0
        => percent = gate.seen

\* When the run is over the executor can rely on what it is told: no process is left
\* behind after a failure, the output was within its budget, and the percentage in the
\* row is the last one seen, in whatever order the tool, its descendants, the monitor,
\* the writer, the timeout and a cancellation came.
RunIsAccountedFor ==
    NothingOutlivesTheRun /\ OversizeIsNotAccepted /\ GateKnowsTheRow /\ LastPercentIsShown

\* The run is over, whatever the tool does with its pipes.
RunIsOver == stage \in {"idle", "over"}
=============================================================================
