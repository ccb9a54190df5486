--------------------------- MODULE BoundedProcess ---------------------------
(***************************************************************************)
(* One call of run_bounded (scripts/fetchnow_release/bounded_subprocess):  *)
(* the calling thread, the two reader threads of the pipes, and the        *)
(* process group of the command, which is its leader and one descendant    *)
(* that may keep the pipes open, ignore SIGTERM and outlive its leader.    *)
(* Time is what may have passed: the deadline, a join or a wait that gives *)
(* up.  A descendant that leaves the group is outside the runner's         *)
(* guarantee and not modelled.                                             *)
(***************************************************************************)
EXTENDS Naturals

Streams == {"stdout", "stderr"}

VARIABLES caller,     \* the calling thread: where it is and what it decided
          readers,    \* the reader thread of each stream
          abort,      \* the threading.Event they share
          leader,     \* the direct child
          heir,       \* the descendant in the leader's group
          late,       \* the deadline has passed
          cancelled   \* the token has been cancelled

processVars == <<caller, readers, abort, leader, heir, late, cancelled>>

\* `holds' is the set of streams the process may still write to.
Member(s, holds, deaf) == [state |-> s, holds |-> holds, deaf |-> deaf]
Alive(m) == m.state \in {"alive", "dying"}

Reports == {"none", "ok", "cancelled", "timeout", "limit", "error", "forced"}

\* Popen with start_new_session and the two threads started.
ProcessInit ==
    /\ caller = [pc |-> "loop", cause |-> "none", cleanup |-> FALSE, report |-> "none"]
    /\ readers = [s \in Streams |-> "reading"]
    /\ abort = FALSE
    /\ \E deaf \in BOOLEAN : leader = Member("alive", Streams, deaf)
    /\ \E holds \in SUBSET Streams, deaf \in BOOLEAN : heir = Member("alive", holds, deaf)
    /\ late = FALSE /\ cancelled = FALSE

CallerAt(pc) == caller.pc = pc
Proceed(pc) == caller' = [caller EXCEPT !.pc = pc]

-----------------------------------------------------------------------------
(* The kernel, the clock and the canceller *)

DeadlinePasses == ~ late /\ late' = TRUE /\ UNCHANGED <<caller, readers, abort, leader, heir, cancelled>>

CancelIsCalled == ~ cancelled /\ cancelled' = TRUE /\ UNCHANGED <<caller, readers, abort, leader, heir, late>>

\* A process ends by itself, or a signal takes effect.
LeaderExits ==
    /\ Alive(leader)
    /\ leader' = [leader EXCEPT !.state = IF @ = "dying" THEN "killed" ELSE "exited", !.holds = {}]
    /\ UNCHANGED <<caller, readers, abort, heir, late, cancelled>>

HeirExits ==
    /\ Alive(heir)
    /\ heir' = [heir EXCEPT !.state = "exited", !.holds = {}]
    /\ UNCHANGED <<caller, readers, abort, leader, late, cancelled>>

\* _kill_process_group: the members still there, also after the leader has
\* been reaped.  SIGTERM may be ignored, SIGKILL not.
Signalled(m, forced) ==
    IF m.state = "alive" /\ (forced \/ ~ m.deaf) THEN [m EXCEPT !.state = "dying"] ELSE m

Kill(forced) ==
    /\ leader' = Signalled(leader, forced)
    /\ heir' = Signalled(heir, forced)

-----------------------------------------------------------------------------
(* The reader threads *)

Open(s) == s \in leader.holds \cup heir.holds

\* read(64 KiB) blocks until data or the end of the file; the event is looked
\* at between two reads only.
ReadData(s) ==
    /\ readers[s] = "reading" /\ Open(s)
    /\ \/ /\ abort
          /\ readers' = [readers EXCEPT ![s] = "stopped"]
          /\ UNCHANGED abort
       \/ /\ readers' = [readers EXCEPT ![s] = "limit"]
          /\ abort' = TRUE
       \/ /\ readers' = [readers EXCEPT ![s] = "error"]
          /\ abort' = TRUE
    /\ UNCHANGED <<caller, leader, heir, late, cancelled>>

ReadEof(s) ==
    /\ readers[s] = "reading" /\ ~ Open(s)
    /\ readers' = [readers EXCEPT ![s] = "eof"]
    /\ UNCHANGED <<caller, abort, leader, heir, late, cancelled>>

Finished(s) == readers[s] # "reading"

-----------------------------------------------------------------------------
(* The calling thread *)

\* poll() has reaped the leader.
Gone == leader.state \in {"exited", "killed"}

Stop(cause) == caller' = [caller EXCEPT !.pc = "decide", !.cause = cause, !.cleanup = TRUE]

\* One turn of the loop, its checks in their order.
Poll ==
    /\ CallerAt("loop")
    /\ CASE cancelled -> Stop("cancelled")
         [] ~ cancelled /\ late -> Stop("timeout")
         [] ~ cancelled /\ ~ late /\ \E s \in Streams : readers[s] = "limit" -> Stop("limit")
         [] OTHER -> Gone /\ Proceed("join")
    /\ UNCHANGED <<readers, abort, leader, heir, late, cancelled>>

\* The readers joined without a timeout.
JoinForEver ==
    /\ CallerAt("join") /\ \A s \in Streams : Finished(s)
    /\ Proceed("decide")
    /\ UNCHANGED <<readers, abort, leader, heir, late, cancelled>>

\* The leader has exited: the readers are joined for READER_JOIN_SECONDS each,
\* and a descendant that keeps a pipe open makes a clean-up necessary.
JoinReaders ==
    /\ CallerAt("join")
    /\ \E gaveUp \in BOOLEAN :
         /\ gaveUp \/ \A s \in Streams : Finished(s)
         /\ caller' = [caller EXCEPT !.pc = "decide", !.cleanup = \E s \in Streams : ~ Finished(s)]
    /\ UNCHANGED <<readers, abort, leader, heir, late, cancelled>>

\* A clean-up that is decided without the event of the readers.
NeedsCleanupByFlag == caller.cleanup

\* failure_cleanup or _needs_group_cleanup()
NeedsCleanup == caller.cleanup \/ abort

\* SIGTERM, or nothing when the group ended by itself.
Decide ==
    /\ CallerAt("decide")
    /\ \/ /\ NeedsCleanup
          /\ abort' = TRUE /\ Kill(FALSE) /\ Proceed("grace")
       \/ /\ ~ NeedsCleanup
          /\ Proceed("close") /\ UNCHANGED <<abort, leader, heir>>
    /\ UNCHANGED <<readers, late, cancelled>>

\* _terminate_group after the grace: SIGKILL twice, then the leader is waited
\* for, killed again and waited for; the wait may give up.
ForceKill ==
    /\ CallerAt("grace")
    /\ Kill(TRUE) /\ Proceed("reap")
    /\ UNCHANGED <<readers, abort, late, cancelled>>

Reap ==
    /\ CallerAt("reap")
    /\ Kill(TRUE) /\ Proceed("close")
    /\ UNCHANGED <<readers, abort, late, cancelled>>

\* The finally clause: the joins may give up, but closing a pipe waits for a
\* reader that is inside read; a leader that is still there is terminated once
\* more.
CloseStreams ==
    /\ CallerAt("close")
    /\ \A s \in Streams : Finished(s)
    /\ abort' = TRUE
    /\ IF Gone THEN Proceed("report") /\ UNCHANGED <<leader, heir>> ELSE Kill(FALSE) /\ Proceed("last_grace")
    /\ UNCHANGED <<readers, late, cancelled>>

LastKill ==
    /\ CallerAt("last_grace")
    /\ Kill(TRUE) /\ Proceed("report")
    /\ UNCHANGED <<readers, abort, late, cancelled>>

\* The original cause before the side effects of the clean-up.
Verdict ==
    CASE caller.cause \in {"cancelled", "timeout"} -> {caller.cause}
      [] caller.cause \notin {"cancelled", "timeout"} /\ \E s \in Streams : readers[s] \in {"limit", "error"} ->
           {readers[s] : s \in {t \in Streams : readers[t] \in {"limit", "error"}}}
      [] OTHER -> {IF caller.cleanup THEN "forced" ELSE "ok"}

Report ==
    /\ CallerAt("report")
    /\ \E v \in Verdict : caller' = [caller EXCEPT !.pc = "done", !.report = v]
    /\ UNCHANGED <<readers, abort, leader, heir, late, cancelled>>

CallerStep == Poll \/ JoinReaders \/ Decide \/ ForceKill \/ Reap \/ CloseStreams \/ LastKill \/ Report

\* A killed process ends and a reader reaches the end of its file; whether an
\* unharmed process ever ends is its own affair.
KernelStep ==
    \/ leader.state = "dying" /\ LeaderExits
    \/ heir.state = "dying" /\ HeirExits
    \/ \E s \in Streams : ReadEof(s)

ProcessNext ==
    \/ CallerStep \/ DeadlinePasses \/ CancelIsCalled \/ LeaderExits \/ HeirExits
    \/ \E s \in Streams : ReadData(s) \/ ReadEof(s)

-----------------------------------------------------------------------------
(* Properties *)

\* A clean result is the command's own: it was not signalled, and both readers
\* saw the end of the output.  Every other report, a failed reader included,
\* comes after the SIGKILL of the whole group, so that nothing of a command
\* that failed, timed out or was cancelled goes on beside its caller's recovery.
ReportIsHonest ==
    caller.pc = "done" =>
        /\ caller.report = "ok" =>
             leader.state = "exited" /\ \A s \in Streams : readers[s] = "eof"
        /\ caller.report # "ok" => leader.state # "alive" /\ heir.state # "alive"
=============================================================================
