---------------------------- MODULE ReleaseProofs ----------------------------
(***************************************************************************)
(* Machine-checked safety of the tools of a deployment host, first half:   *)
(* the runner of external commands (BoundedProcess) and the backup root    *)
(* (BackupVault), which are models of their own; then, for the release     *)
(* tools (ReleaseHost), the invariant HostInv, the lemmas on how a step    *)
(* moves a process and rewrites a journal, and the steps of a deployment.  *)
(* The other tools and the theorems about all of them are in HostProofs.   *)
(*                                                                         *)
(* HostInv has four kinds of parts: the types; who holds the two locks and *)
(* which journal is whose (LockInv, JournalsAreOwned); what the journals   *)
(* and the saved state say whoever runs (SavedOK); and for each tool what  *)
(* it may rely on at each of its steps (ProcOK).  There is one lemma per   *)
(* action; a step of one tool keeps what the others rely on because these  *)
(* hold a lock it does not have, or rely only on facts that no step takes  *)
(* away.                                                                   *)
(***************************************************************************)
EXTENDS MCReleaseHost, SequenceTheorems, FiniteSetTheorems, TLAPS

ProcessSpec == ProcessInit /\ [][ProcessNext]_processVars

-----------------------------------------------------------------------------
(* The runner *)

Members == [state : {"alive", "dying", "exited", "killed"}, holds : SUBSET Streams, deaf : BOOLEAN]

Callers == [pc : {"loop", "join", "decide", "grace", "reap", "close", "last_grace", "report", "done"},
            cause : {"none", "cancelled", "timeout", "limit"}, cleanup : BOOLEAN, report : Reports]

ProcessTypes ==
    /\ caller \in Callers
    /\ readers \in [Streams -> {"reading", "eof", "stopped", "limit", "error"}]
    /\ abort \in BOOLEAN /\ late \in BOOLEAN /\ cancelled \in BOOLEAN
    /\ leader \in Members /\ heir \in Members

\* A reader hit its limit or an error.
Bad == \E s \in Streams : readers[s] \in {"limit", "error"}

\* The event is set by a bad reader, or by the caller once it has decided; a
\* reader stops without a verdict of its own only when it is set.
EventInv ==
    /\ Bad \/ (\E s \in Streams : readers[s] = "stopped") => abort
    /\ caller.pc \in {"loop", "join", "decide"} => (abort => Bad)

\* Where the caller is tells whether the group may have been signalled: not
\* before the decision, and by SIGKILL before the pipes are closed unless the
\* group ended by itself with both readers at the end of their files.
GroupInv ==
    /\ caller.pc \in {"loop", "join", "decide"} => leader.state \in {"alive", "exited"}
    /\ caller.pc \in {"loop", "join"} => caller.cause = "none" /\ ~ caller.cleanup
    /\ caller.pc = "join" => Gone
    /\ caller.pc \notin {"loop", "join"} /\ ~ caller.cleanup =>
         (\A s \in Streams : Finished(s)) /\ caller.cause = "none" /\ Gone
    /\ caller.pc \notin {"loop", "join"} /\ ~ caller.cleanup /\ ~ Bad =>
         leader.state = "exited" /\ \A s \in Streams : readers[s] = "eof"
    /\ caller.pc \in {"last_grace", "report", "done"} => \A s \in Streams : Finished(s)
    /\ caller.pc \in {"reap", "close", "last_grace", "report", "done"} /\ (caller.cleanup \/ Bad) =>
         leader.state # "alive" /\ heir.state # "alive"
    /\ caller.pc = "done" => (caller.report = "ok" <=> ~ caller.cleanup /\ ~ Bad)

ProcessInv == ProcessTypes /\ EventInv /\ GroupInv


\* What a field update does to a record of the caller.
LEMMA CallerRecord ==
    ASSUME NEW c \in Callers, NEW x \in {"loop", "join", "decide", "grace", "reap", "close", "last_grace", "report", "done"}
    PROVE  [c EXCEPT !.pc = x] \in Callers
BY DEF Callers

\* A signal to a member of the process group leaves a member.
LEMMA SignalledMember ==
    ASSUME NEW m \in Members, NEW forced \in BOOLEAN
    PROVE  /\ Signalled(m, forced) \in Members
           /\ Signalled(m, TRUE).state # "alive"
           /\ m.state # "alive" => Signalled(m, forced) = m
<1>1. [m EXCEPT !.state = "dying"] \in Members
    BY DEF Members
<1>2. m.state = "alive" => [m EXCEPT !.state = "dying"].state = "dying"
    BY DEF Members
<1> QED BY <1>1, <1>2 DEF Signalled

\* The first state of the runner.
LEMMA ProcessStarts == ProcessInit => ProcessInv
<1> SUFFICES ASSUME ProcessInit PROVE ProcessInv
    OBVIOUS
<1>1. caller \in Callers
    BY DEF ProcessInit, Callers, Reports
<1>2. leader \in Members /\ heir \in Members /\ leader.state = "alive"
    BY DEF ProcessInit, Members, Member
<1>3. ProcessTypes
    BY <1>1, <1>2 DEF ProcessInit, ProcessTypes
<1>4. ~ Bad
    BY DEF ProcessInit, Bad
<1>5. EventInv /\ GroupInv
    BY <1>2, <1>4 DEF ProcessInit, EventInv, GroupInv, Streams
<1> QED BY <1>3, <1>5 DEF ProcessInv

\* The clock and the canceller touch nothing of the invariant.
LEMMA OutsideKeeps ==
    ASSUME ProcessInv, DeadlinePasses \/ CancelIsCalled \/ UNCHANGED processVars
    PROVE  ProcessInv'
<1>1. UNCHANGED <<caller, readers, abort, leader, heir>> /\ late' \in BOOLEAN /\ cancelled' \in BOOLEAN
    BY DEF ProcessInv, ProcessTypes, DeadlinePasses, CancelIsCalled, processVars
<1> QED BY <1>1 DEF ProcessInv, ProcessTypes, EventInv, GroupInv, Bad, Finished, Gone

\* A process that ends was not signalled before the decision.
LEMMA LeaderExitsKeeps == ASSUME ProcessInv, LeaderExits PROVE ProcessInv'
<1> DEFINE x == IF leader.state = "dying" THEN "killed" ELSE "exited"
<1>1. leader' = [leader EXCEPT !.state = x, !.holds = {}] /\ UNCHANGED <<caller, readers, abort, heir, late, cancelled>>
    BY DEF LeaderExits
<1>2. leader' \in Members /\ leader'.state \in {"exited", "killed"} /\ (leader.state = "alive" => leader'.state = "exited")
    BY <1>1 DEF ProcessInv, ProcessTypes, Members
<1>3. leader.state \in {"alive", "dying"}
    BY DEF LeaderExits, Alive
<1>4. ProcessTypes' /\ EventInv'
    BY <1>1, <1>2 DEF ProcessInv, ProcessTypes, EventInv, Bad
<1>5. GroupInv'
    BY <1>1, <1>2, <1>3 DEF ProcessInv, GroupInv, Bad, Finished, Gone
<1> QED BY <1>4, <1>5 DEF ProcessInv

\* The descendant ends.
LEMMA HeirExitsKeeps == ASSUME ProcessInv, HeirExits PROVE ProcessInv'
<1>1. heir' = [heir EXCEPT !.state = "exited", !.holds = {}] /\ UNCHANGED <<caller, readers, abort, leader, late, cancelled>>
    BY DEF HeirExits
<1>2. heir' \in Members /\ heir'.state = "exited"
    BY <1>1 DEF ProcessInv, ProcessTypes, Members
<1>3. ProcessTypes' /\ EventInv'
    BY <1>1, <1>2 DEF ProcessInv, ProcessTypes, EventInv, Bad
<1>4. GroupInv'
    BY <1>1, <1>2 DEF ProcessInv, GroupInv, Bad, Finished, Gone
<1> QED BY <1>3, <1>4 DEF ProcessInv

\* A reader that ends: only before the caller has seen both of them finished.
LEMMA ReaderKeeps ==
    ASSUME ProcessInv, NEW s \in Streams, ReadData(s) \/ ReadEof(s)
    PROVE  ProcessInv'
<1>1. readers[s] = "reading" /\ UNCHANGED <<caller, leader, heir, late, cancelled>>
    BY DEF ReadData, ReadEof
<1>2. PICK x \in {"eof", "stopped", "limit", "error"} :
        /\ readers' = [readers EXCEPT ![s] = x]
        /\ x = "stopped" => abort /\ abort' = abort
        /\ x = "eof" => abort' = abort
        /\ x \in {"limit", "error"} => abort'
        /\ abort => abort'
        /\ abort' \in BOOLEAN
    BY DEF ReadData, ReadEof, ProcessInv, ProcessTypes
<1>3. readers'[s] = x /\ \A t \in Streams : t # s => readers'[t] = readers[t]
    BY <1>2 DEF ProcessInv, ProcessTypes
<1>4. ProcessTypes'
    BY <1>1, <1>2 DEF ProcessInv, ProcessTypes
<1>5. Bad => Bad'
    BY <1>1, <1>3 DEF Bad
<1>6. Bad' => Bad \/ x \in {"limit", "error"}
    BY <1>3 DEF Bad
<1>7. x \in {"limit", "error"} => Bad'
    BY <1>3 DEF Bad
<1>8. EventInv'
    BY <1>1, <1>2, <1>3, <1>5, <1>6, <1>7 DEF ProcessInv, EventInv
<1>9. caller.pc \notin {"last_grace", "report", "done"} /\ (caller.pc \notin {"loop", "join"} => caller.cleanup)
    BY <1>1 DEF ProcessInv, GroupInv, Finished
<1>10. GroupInv'
    BY <1>1, <1>9 DEF ProcessInv, GroupInv, Gone
<1> QED BY <1>4, <1>8, <1>10 DEF ProcessInv

\* A signal, gentle or not, after the decision to clean up or a leader that is gone.
LEMMA KillFacts ==
    ASSUME ProcessInv, NEW forced \in BOOLEAN, Kill(forced)
    PROVE  /\ leader' \in Members /\ heir' \in Members
           /\ leader.state # "alive" => leader' = leader
           /\ heir.state # "alive" => heir' = heir
           /\ forced => leader'.state # "alive" /\ heir'.state # "alive"
BY SignalledMember DEF Kill, ProcessInv, ProcessTypes

\* A step of the caller that moves on and changes nothing else of its record.
LEMMA Moved ==
    ASSUME ProcessInv, NEW x \in {"loop", "join", "decide", "grace", "reap", "close", "last_grace", "report", "done"}, Proceed(x)
    PROVE  caller' \in Callers /\ caller'.pc = x /\ caller'.cause = caller.cause /\ caller'.cleanup = caller.cleanup
<1>1. caller \in Callers /\ caller' = [caller EXCEPT !.pc = x]
    BY DEF Proceed, ProcessInv, ProcessTypes
<1>2. caller' \in Callers
    BY <1>1, CallerRecord
<1>3. caller'.pc = x /\ caller'.cause = caller.cause
    BY <1>1 DEF Callers
<1>4. caller'.cleanup = caller.cleanup
    BY <1>1, Zenon DEF Callers
<1> QED BY <1>2, <1>3, <1>4

\* The steps of run_bounded.
LEMMA PollKeeps == ASSUME ProcessInv, Poll PROVE ProcessInv'
<1>1. caller.pc = "loop" /\ UNCHANGED <<readers, abort, leader, heir, late, cancelled>>
    BY DEF Poll, CallerAt
<1>2. CASE \E x \in {"cancelled", "timeout", "limit"} : Stop(x)
  <2> PICK x \in {"cancelled", "timeout", "limit"} : Stop(x)
      BY <1>2
  <2>1. caller' \in Callers
      BY DEF Stop, ProcessInv, ProcessTypes, Callers
  <2>2. caller'.pc = "decide" /\ caller'.cleanup
      BY DEF Stop, ProcessInv, ProcessTypes, Callers
  <2> QED BY <1>1, <2>1, <2>2 DEF ProcessInv, ProcessTypes, EventInv, GroupInv, Bad, Finished, Gone
<1>3. CASE Gone /\ Proceed("join")
  <2>1. caller' \in Callers /\ caller'.pc = "join" /\ caller'.cause = caller.cause /\ caller'.cleanup = caller.cleanup
      BY <1>3, Moved
  <2> QED BY <1>1, <1>3, <2>1 DEF ProcessInv, ProcessTypes, EventInv, GroupInv, Bad, Finished, Gone
<1> QED BY <1>2, <1>3 DEF Poll, ProcessInv, ProcessTypes

LEMMA JoinKeeps == ASSUME ProcessInv, JoinReaders PROVE ProcessInv'
<1>1. caller.pc = "join" /\ UNCHANGED <<readers, abort, leader, heir, late, cancelled>>
    BY DEF JoinReaders, CallerAt
<1> DEFINE x == \E s \in Streams : ~ Finished(s)
<1>2. caller' = [caller EXCEPT !.pc = "decide", !.cleanup = x]
    BY DEF JoinReaders
<1>3. x \in BOOLEAN
    OBVIOUS
<1> HIDE DEF x
<1>4. caller' \in Callers
    BY <1>2, <1>3 DEF ProcessInv, ProcessTypes, Callers
<1>5. caller'.pc = "decide" /\ caller'.cause = caller.cause /\ caller'.cleanup = x
    BY <1>2, <1>3 DEF ProcessInv, ProcessTypes, Callers
<1>6. ~ x => \A s \in Streams : Finished(s)
    BY DEF x
<1>7. ProcessTypes' /\ EventInv'
    BY <1>1, <1>4, <1>5 DEF ProcessInv, ProcessTypes, EventInv, Bad
<1>8. Gone /\ leader.state = "exited" /\ caller.cause = "none" /\ (~ Bad => ~ abort)
    BY <1>1 DEF ProcessInv, GroupInv, EventInv, Gone
<1>9. ~ x /\ ~ Bad => \A s \in Streams : readers[s] = "eof"
    BY <1>6, <1>8 DEF ProcessInv, ProcessTypes, EventInv, Finished, Bad
<1>10. GroupInv'
    BY <1>1, <1>5, <1>6, <1>8, <1>9 DEF GroupInv, Bad, Finished, Gone
<1> QED BY <1>7, <1>10 DEF ProcessInv

LEMMA DecideKeeps == ASSUME ProcessInv, Decide PROVE ProcessInv'
<1>1. caller.pc = "decide" /\ UNCHANGED <<readers, late, cancelled>>
    BY DEF Decide, CallerAt
<1>2. CASE NeedsCleanup /\ abort' = TRUE /\ Kill(FALSE) /\ Proceed("grace")
  <2>1. caller' \in Callers /\ caller'.pc = "grace" /\ caller'.cause = caller.cause /\ caller'.cleanup = caller.cleanup
      BY <1>2, Moved
  <2>2. leader' \in Members /\ heir' \in Members /\ (leader.state # "alive" => leader' = leader)
      BY <1>2, KillFacts
  <2> QED BY <1>1, <1>2, <2>1, <2>2 DEF ProcessInv, ProcessTypes, EventInv, GroupInv, Bad, Finished, Gone
<1>3. CASE ~ NeedsCleanup /\ Proceed("close") /\ UNCHANGED <<abort, leader, heir>>
  <2>1. caller' \in Callers /\ caller'.pc = "close" /\ caller'.cause = caller.cause /\ caller'.cleanup = caller.cleanup
      BY <1>3, Moved
  <2>2. ~ caller.cleanup /\ ~ abort /\ ~ Bad
      BY <1>3 DEF NeedsCleanup, ProcessInv, EventInv
  <2> QED BY <1>1, <1>3, <2>1, <2>2 DEF ProcessInv, ProcessTypes, EventInv, GroupInv, Bad, Finished, Gone
<1> QED BY <1>2, <1>3 DEF Decide

\* The forced kills.
LEMMA ForcedKeeps ==
    ASSUME ProcessInv, ForceKill \/ Reap \/ LastKill
    PROVE  ProcessInv'
<1>1. UNCHANGED <<readers, abort, late, cancelled>> /\ Kill(TRUE)
    BY DEF ForceKill, Reap, LastKill
<1>2. PICK x \in {"reap", "close", "report"} :
        Proceed(x) /\ (x = "report" => caller.pc = "last_grace") /\ caller.pc \in {"grace", "reap", "last_grace"}
    BY DEF ForceKill, Reap, LastKill, CallerAt
<1>3. caller' \in Callers /\ caller'.pc = x /\ caller'.cause = caller.cause /\ caller'.cleanup = caller.cleanup
    BY <1>2, Moved
<1>4. leader' \in Members /\ heir' \in Members /\ (leader.state # "alive" => leader' = leader)
      /\ leader'.state # "alive" /\ heir'.state # "alive"
    BY <1>1, KillFacts
<1>5. x = "report" => \A s \in Streams : Finished(s)
    BY <1>2 DEF ProcessInv, GroupInv
<1> QED BY <1>1, <1>2, <1>3, <1>4, <1>5 DEF ProcessInv, ProcessTypes, EventInv, GroupInv, Bad, Finished, Gone

LEMMA CloseKeeps == ASSUME ProcessInv, CloseStreams PROVE ProcessInv'
<1>1. caller.pc = "close" /\ (\A s \in Streams : Finished(s)) /\ abort' /\ UNCHANGED <<readers, late, cancelled>>
    BY DEF CloseStreams, CallerAt
<1>2. CASE Gone /\ Proceed("report") /\ UNCHANGED <<leader, heir>>
  <2>1. caller' \in Callers /\ caller'.pc = "report" /\ caller'.cause = caller.cause /\ caller'.cleanup = caller.cleanup
      BY <1>2, Moved
  <2> QED BY <1>1, <1>2, <2>1 DEF CloseStreams, ProcessInv, ProcessTypes, EventInv, GroupInv, Bad, Finished, Gone
<1>3. CASE Kill(FALSE) /\ Proceed("last_grace")
  <2>1. caller' \in Callers /\ caller'.pc = "last_grace" /\ caller'.cause = caller.cause /\ caller'.cleanup = caller.cleanup
      BY <1>3, Moved
  <2>2. leader' \in Members /\ heir' \in Members /\ (leader.state # "alive" => leader' = leader) /\ (heir.state # "alive" => heir' = heir)
      BY <1>3, KillFacts
  <2> QED BY <1>1, <1>3, <2>1, <2>2 DEF CloseStreams, ProcessInv, ProcessTypes, EventInv, GroupInv, Bad, Finished, Gone
<1> QED BY <1>2, <1>3 DEF CloseStreams

LEMMA ReportKeeps == ASSUME ProcessInv, Report PROVE ProcessInv'
<1>1. caller.pc = "report" /\ UNCHANGED <<readers, abort, leader, heir, late, cancelled>>
    BY DEF Report, CallerAt
<1>2. PICK v \in Verdict : caller' = [caller EXCEPT !.pc = "done", !.report = v]
    BY DEF Report
<1>3. v \in Reports /\ (v = "ok" <=> ~ caller.cleanup /\ ~ Bad)
    BY <1>1 DEF Verdict, Reports, Bad, ProcessInv, ProcessTypes, Callers, GroupInv
<1>4. caller' \in Callers
    BY <1>2, <1>3 DEF ProcessInv, ProcessTypes, Callers
<1>5. caller'.pc = "done" /\ caller'.cause = caller.cause /\ caller'.cleanup = caller.cleanup /\ caller'.report = v
    BY <1>2 DEF ProcessInv, ProcessTypes, Callers
<1>6. ProcessTypes' /\ EventInv'
    BY <1>1, <1>4, <1>5 DEF ProcessInv, ProcessTypes, EventInv, Bad
<1>7. GroupInv'
    BY <1>1, <1>3, <1>5 DEF ProcessInv, GroupInv, Bad, Finished, Gone
<1> QED BY <1>6, <1>7 DEF ProcessInv

\* However the command, its heir, the two readers and the caller of run_bounded are
\* interleaved, with cancellation and the deadline at any moment, their states are
\* those of the invariant.
THEOREM ProcessInvariance == ProcessSpec => []ProcessInv
<1>1. ASSUME ProcessInv, [ProcessNext]_processVars PROVE ProcessInv'
  <2>1. CASE UNCHANGED processVars
      BY <1>1, <2>1, OutsideKeeps
  <2>2. CASE ProcessNext
      BY <1>1, <2>2, OutsideKeeps, LeaderExitsKeeps, HeirExitsKeeps, ReaderKeeps, PollKeeps, JoinKeeps, DecideKeeps, ForcedKeeps, CloseKeeps, ReportKeeps DEF ProcessNext, CallerStep
  <2> QED BY <1>1, <2>1, <2>2
<1> QED BY <1>1, ProcessStarts, PTL DEF ProcessSpec

\* Whatever the command's process group does with its pipes and with SIGTERM, a clean
\* result is the command's own and any other report comes after its SIGKILL.
THEOREM HonestReport == ProcessSpec => []ReportIsHonest
<1>1. ProcessInv => ReportIsHonest
    BY DEF ProcessInv, GroupInv, ReportIsHonest
<1> QED BY <1>1, ProcessInvariance, PTL

-----------------------------------------------------------------------------
(* The backup root *)

Heads == Schemas \cup {Unread}

SessionPcs == {"none", "mkdir", "dump", "manifest", "publish", "load", "createdb", "restore", "heads",
               "checks", "drop", "attest_passed", "attest_failed", "hold", "release", "delete", "remove"}

Proofs == [result : {"passed", "failed"}, expected : Heads, static : Heads, restored : Heads,
           checks : BOOLEAN, cleanup : BOOLEAN, database : Nat]

Dirs == [name : {"none", "incomplete", "final"}, files : SUBSET Parts, schema : Heads,
         intact : BOOLEAN, proofs : Seq(Proofs)]

Sessions == [op : {"none", "create", "migrate", "verify", "prune", "release"}, pc : SessionPcs, b : Nat,
             expected : Heads, static : Heads, restored : Heads, checks : BOOLEAN, cleanup : BOOLEAN,
             database : Nat, todo : SUBSET Backups]

Holds == [b : Backups, state : {"acquired", "released"}, proof : Nat]

VaultTypes ==
    /\ vault \in [Backups -> Dirs]
    /\ holds \subseteq Holds /\ restores \subseteq Nat
    /\ session \in Sessions
    /\ condemned \subseteq Backups
    /\ sessions \in Nat /\ troubles \in Nat

\* An attestation names a database of a session that was; if it says that the database
\* was dropped, it was; if it says passed, it is a proof of the dump it lies beside.
ProofOK(a, schema) ==
    /\ a.database <= sessions
    /\ a.cleanup => a.database \notin restores
    /\ a.result = "passed" =>
         a.expected = a.static /\ a.restored = a.expected /\ a.restored = schema /\ a.checks /\ a.cleanup

DirOK(b) ==
    /\ vault[b].name = "final" /\ b \notin condemned => vault[b].files = Parts /\ vault[b].schema \in Schemas
    /\ \A i \in 1..Len(vault[b].proofs) : ProofOK(vault[b].proofs[i], vault[b].schema)

DirInv == \A b \in Backups : DirOK(b)

HoldOK(h) ==
    h.state = "acquired" =>
        /\ vault[h.b].name = "final" /\ vault[h.b].files = Parts
        /\ h.proof \in 1..Len(vault[h.b].proofs)
        /\ vault[h.b].proofs[h.proof].result = "passed"

HoldInv == \A h \in holds : HoldOK(h)

\* No attestation is of the session that is open.
Fresh == \A b \in Backups : \A i \in 1..Len(vault[b].proofs) : vault[b].proofs[i].database < sessions

Making == {"dump", "manifest", "publish"}
Verifying == {"createdb", "restore", "heads", "checks", "drop", "attest_passed", "attest_failed", "hold"}

\* What the open session may rely on.  Nobody else changes the root while it has the
\* lock, save that a dump may decay.
MakingOK ==
    session.pc \in Making =>
        /\ session.b \in Backups /\ session.b \notin condemned
        /\ vault[session.b].name = "incomplete" /\ vault[session.b].proofs = <<>>
        /\ session.pc \in {"manifest", "publish"} => vault[session.b].schema \in Schemas
        /\ session.pc = "publish" => vault[session.b].files = Parts

VerifyingOK ==
    /\ session.pc \in {"load"} \cup Verifying => session.b \in Backups
    /\ session.pc \in Verifying => vault[session.b].name = "final" /\ vault[session.b].files = Parts
    /\ session.pc \in {"createdb", "restore", "heads", "checks"} => session.expected = session.static
    /\ session.pc = "checks" => session.restored = session.expected /\ session.restored = vault[session.b].schema
    /\ session.pc = "hold" =>
         /\ Len(vault[session.b].proofs) > 0
         /\ vault[session.b].proofs[Len(vault[session.b].proofs)].result = "passed"

\* The flags the attestation is written from.
FlagsOK ==
    /\ session.checks =>
         /\ session.pc \in {"drop", "attest_passed", "attest_failed", "hold"}
         /\ session.expected = session.static /\ session.restored = session.expected
         /\ session.restored = vault[session.b].schema
    /\ session.cleanup =>
         session.pc \in {"attest_passed", "attest_failed", "hold"} /\ session.database \notin restores
    /\ session.pc = "attest_passed" => session.checks /\ session.cleanup
    /\ session.database <= sessions

SessionInv ==
    /\ session.pc \in {"mkdir", "load"} \cup Making \cup (Verifying \ {"hold"}) => Fresh
    /\ MakingOK /\ VerifyingOK /\ FlagsOK
    /\ session.pc = "remove" => session.b \in condemned /\ HoldOf(session.b) = {}

VaultInv == VaultTypes /\ DirInv /\ HoldInv /\ SessionInv

-----------------------------------------------------------------------------
(* Records *)

\* No session, and no directory.
LEMMA ClosedRecord ==
    /\ Closed \in Sessions /\ Closed.pc = "none" /\ ~ Closed.checks /\ ~ Closed.cleanup /\ Closed.database = 0
    /\ NoDir \in Dirs /\ NoDir.name = "none" /\ NoDir.proofs = <<>>
<1>1. Closed \in Sessions
    BY DEF Closed, Sessions, Heads, SessionPcs
<1>2. Closed.pc = "none" /\ Closed.database = 0
    BY DEF Closed
<1>3. ~ Closed.checks /\ ~ Closed.cleanup
    BY Zenon DEF Closed
<1>4. NoDir \in Dirs
    BY DEF NoDir, Dirs, Heads, Parts
<1>5. NoDir.name = "none" /\ NoDir.proofs = <<>>
    BY DEF NoDir
<1> QED BY <1>1, <1>2, <1>3, <1>4, <1>5, Zenon

\* What a step to another statement leaves of the session.
LEMMA StepRecord ==
    ASSUME NEW s \in Sessions, NEW x \in SessionPcs, NEW t, t = [s EXCEPT !.pc = x]
    PROVE  /\ t \in Sessions /\ t.pc = x
           /\ t.op = s.op /\ t.b = s.b /\ t.expected = s.expected /\ t.static = s.static /\ t.restored = s.restored
           /\ t.checks = s.checks /\ t.cleanup = s.cleanup /\ t.database = s.database /\ t.todo = s.todo
<1>1. t \in Sessions
    BY DEF Sessions
<1>2. t.pc = x /\ t.op = s.op /\ t.b = s.b /\ t.expected = s.expected /\ t.static = s.static /\ t.restored = s.restored
           /\ t.database = s.database /\ t.todo = s.todo
    BY DEF Sessions
<1>3. t.checks = s.checks
    BY Zenon DEF Sessions
<1>4. t.cleanup = s.cleanup
    BY Zenon DEF Sessions
<1> QED BY <1>1, <1>2, <1>3, <1>4, Zenon

\* One directory changes.
LEMMA DirChange ==
    ASSUME VaultTypes, NEW b \in Backups, NEW d \in Dirs, Dir(b, d)
    PROVE  vault' \in [Backups -> Dirs] /\ vault'[b] = d /\ \A c \in Backups : c # b => vault'[c] = vault[c]
BY DEF Dir, VaultTypes

\* A sequence with one more element.
LEMMA Appended ==
    ASSUME NEW S, NEW q \in Seq(S), NEW a \in S, NEW r, r = Append(q, a)
    PROVE  /\ r \in Seq(S) /\ Len(r) = Len(q) + 1 /\ Len(q) \in Nat
           /\ r[Len(r)] = a
           /\ \A i \in 1..Len(q) : r[i] = q[i]
           /\ \A i \in 1..Len(r) : i = Len(r) \/ i \in 1..Len(q)
OBVIOUS

-----------------------------------------------------------------------------
(* Frames *)

\* Fewer databases, more backups condemned: what is written stays true.
LEMMA DirsStay ==
    ASSUME VaultInv, vault' = vault, condemned \subseteq condemned', restores' \subseteq restores, sessions' = sessions
    PROVE  DirInv' /\ (Fresh => Fresh')
<1>1. \A b \in Backups : DirOK(b)'
    BY DEF VaultInv, DirInv, DirOK, ProofOK
<1> QED BY <1>1 DEF DirInv, Fresh

\* Holds stay when neither they nor the vault change.
LEMMA HoldsStay ==
    ASSUME VaultInv, vault' = vault, holds' = holds
    PROVE  HoldInv' /\ \A b \in Backups : HoldOf(b)' = HoldOf(b)
BY DEF VaultInv, HoldInv, HoldOK, HoldOf

\* A session that ends leaves nothing behind.
LEMMA ClosedInv ==
    ASSUME session' = Closed, sessions' \in Nat
    PROVE  SessionInv'
BY ClosedRecord DEF SessionInv, MakingOK, VerifyingOK, FlagsOK, Making, Verifying

\* The session of another statement, with the root as it was.
LEMMA StepTypes ==
    ASSUME VaultInv, session' \in Sessions, vault' = vault, holds' = holds, restores' = restores, condemned' = condemned,
           sessions' = sessions, troubles' \in Nat
    PROVE  VaultTypes' /\ DirInv' /\ HoldInv' /\ (Fresh => Fresh') /\ \A b \in Backups : HoldOf(b)' = HoldOf(b)
BY DirsStay, HoldsStay DEF VaultInv, VaultTypes

\* The number of failures stays a number.
LEMMA TroubleCount == ASSUME VaultInv, Trouble \/ UNCHANGED troubles PROVE troubles' \in Nat
BY DEF VaultInv, VaultTypes, Trouble

\* A session that ends with the root as it was.
LEMMA ClosesKeeps ==
    ASSUME VaultInv, Close, vault' = vault, holds' = holds, restores' = restores, condemned' = condemned,
           sessions' = sessions, Trouble \/ UNCHANGED troubles
    PROVE  VaultInv'
<1>1. session' \in Sessions
    BY ClosedRecord DEF Close
<1>2. SessionInv'
    BY ClosedInv DEF Close, VaultInv, VaultTypes
<1> QED BY <1>1, <1>2, StepTypes, TroubleCount DEF VaultInv

-----------------------------------------------------------------------------
(* Sessions *)

\* A session begins.
LEMMA OpenKeeps ==
    ASSUME VaultInv, NEW op \in {"create", "migrate", "verify", "prune", "release"}, NEW b \in Nat,
           NEW e \in Heads, NEW f \in Heads, op = "verify" => b \in Backups, OpenSession(op, b, e, f)
    PROVE  VaultInv'
<1> DEFINE pc == FirstPc[op]
           todo == IF op = "prune" THEN Candidates ELSE {}
<1>1. pc \in {"mkdir", "load", "delete", "release"} /\ (pc = "load" => op = "verify")
    BY DEF FirstPc
<1>2. todo \in SUBSET Backups
    BY DEF Candidates, Valid
<1>3. session' = [Closed EXCEPT !.op = op, !.pc = pc, !.b = b, !.expected = e, !.static = f, !.todo = todo]
      /\ UNCHANGED <<vault, holds, restores, condemned, troubles>> /\ sessions' = sessions + 1
    BY DEF OpenSession
<1> HIDE DEF pc, todo
<1>4. Closed \in Sessions
    BY ClosedRecord
<1>5. session' \in Sessions
    BY <1>1, <1>2, <1>3, <1>4 DEF Sessions, SessionPcs
<1>6. session'.pc = pc /\ session'.b = b /\ session'.database = 0
    BY <1>3, <1>4, ClosedRecord DEF Sessions
<1>7. session'.checks = Closed.checks
    BY <1>3, <1>4, Zenon DEF Sessions
<1>8. session'.cleanup = Closed.cleanup
    BY <1>3, <1>4, Zenon DEF Sessions
<1>9. ~ session'.checks /\ ~ session'.cleanup
    BY <1>7, <1>8, ClosedRecord
<1>10. VaultTypes'
    BY <1>3, <1>5 DEF VaultInv, VaultTypes
<1>11. \A c \in Backups : DirOK(c)' /\ \A i \in 1..Len(vault[c].proofs) : vault[c].proofs[i].database < sessions + 1
  <2> TAKE c \in Backups
  <2>1. DirOK(c)
      BY DEF VaultInv, DirInv
  <2>2. \A i \in 1..Len(vault[c].proofs) : vault[c].proofs[i] \in Proofs
      BY DEF VaultInv, VaultTypes, Dirs
  <2>3. \A i \in 1..Len(vault[c].proofs) : vault[c].proofs[i].database \in Nat /\ sessions \in Nat
      BY <2>2 DEF Proofs, VaultInv, VaultTypes
  <2>4. \A i \in 1..Len(vault[c].proofs) :
          vault[c].proofs[i].database <= sessions + 1 /\ vault[c].proofs[i].database < sessions + 1
      BY <2>1, <2>3 DEF DirOK, ProofOK
  <2> QED BY <1>3, <2>1, <2>4 DEF DirOK, ProofOK
<1>12. DirInv' /\ Fresh'
    BY <1>3, <1>11 DEF DirInv, Fresh
<1>13. HoldInv'
    BY <1>3, HoldsStay
<1>14. SessionInv'
    BY <1>1, <1>6, <1>9, <1>10, <1>12 DEF SessionInv, MakingOK, VerifyingOK, FlagsOK, Making, Verifying, VaultTypes
<1> QED BY <1>10, <1>12, <1>13, <1>14 DEF VaultInv

\* The process of a session dies.
LEMMA KillKeeps == ASSUME VaultInv, KillSession PROVE VaultInv'
BY ClosesKeeps DEF KillSession, history

-----------------------------------------------------------------------------
(* create *)

\* A directory without proofs and without holds is replaced.
LEMMA BareDirChanges ==
    ASSUME VaultInv, NEW b \in Backups, NEW d \in Dirs, Dir(b, d), holds' = holds, restores' = restores,
           condemned' = condemned, sessions' = sessions,
           vault[b].name # "final", d.proofs = <<>>,
           d.name = "final" /\ b \notin condemned => d.files = Parts /\ d.schema \in Schemas
    PROVE  vault' \in [Backups -> Dirs] /\ vault'[b] = d /\ DirInv' /\ HoldInv' /\ (Fresh => Fresh')
<1>1. vault' \in [Backups -> Dirs] /\ vault'[b] = d /\ \A c \in Backups : c # b => vault'[c] = vault[c]
    BY DirChange DEF VaultInv
<1>2. Len(d.proofs) = 0
    OBVIOUS
<1>3. \A c \in Backups : DirOK(c)'
    BY <1>1, <1>2 DEF VaultInv, DirInv, DirOK, ProofOK
<1>4. \A h \in holds : HoldOK(h)'
    BY <1>1 DEF VaultInv, VaultTypes, HoldInv, HoldOK, Holds
<1>5. Fresh => Fresh'
    BY <1>1, <1>2 DEF Fresh
<1> QED BY <1>1, <1>3, <1>4, <1>5 DEF DirInv, HoldInv

\* The steps of pg_backup create.
LEMMA MakeDirKeeps == ASSUME VaultInv, MakeDir PROVE VaultInv'
<1>1. CASE Trouble /\ Close /\ UNCHANGED vault
    BY <1>1, ClosesKeeps DEF MakeDir, history
<1>2. ASSUME NEW b \in Backups, Free(b), Dir(b, [NoDir EXCEPT !.name = "incomplete"]),
             session' = [session EXCEPT !.pc = "dump", !.b = b], UNCHANGED troubles
      PROVE  VaultInv'
  <2>1. session.pc = "mkdir" /\ UNCHANGED <<holds, restores, condemned, sessions>>
      BY DEF MakeDir, SessionAt, history
  <2> DEFINE d == [NoDir EXCEPT !.name = "incomplete"]
  <2>2. d \in Dirs /\ d.name = "incomplete" /\ d.proofs = <<>>
      BY ClosedRecord DEF Dirs
  <2> HIDE DEF d
  <2>3. vault[b].name = "none" /\ b \notin condemned
      BY <1>2, ClosedRecord DEF Free
  <2>4. vault' \in [Backups -> Dirs] /\ vault'[b] = d /\ DirInv' /\ HoldInv' /\ (Fresh => Fresh')
      BY <1>2, <2>1, <2>2, <2>3, BareDirChanges DEF d
  <2>5. session \in Sessions /\ b \in Nat
      BY DEF VaultInv, VaultTypes, Backups
  <2>6. session' \in Sessions
      BY <1>2, <2>5 DEF Sessions, SessionPcs
  <2>7. session'.pc = "dump" /\ session'.b = b /\ session'.database = session.database
      BY <1>2, <2>5 DEF Sessions
  <2>8. session'.checks = session.checks
      BY <1>2, <2>5, Zenon DEF Sessions
  <2>9. session'.cleanup = session.cleanup
      BY <1>2, <2>5, Zenon DEF Sessions
  <2>10. ~ session.checks /\ ~ session.cleanup /\ Fresh /\ session.database <= sessions
      BY <2>1 DEF VaultInv, SessionInv, FlagsOK
  <2>11. VaultTypes'
      BY <1>2, <2>1, <2>4, <2>6 DEF VaultInv, VaultTypes
  <2>12. SessionInv'
      BY <2>1, <2>2, <2>3, <2>4, <2>7, <2>8, <2>9, <2>10
         DEF SessionInv, MakingOK, VerifyingOK, FlagsOK, Making, Verifying
  <2> QED BY <2>4, <2>11, <2>12 DEF VaultInv
<1> QED BY <1>1, <1>2 DEF MakeDir

\* The finally clause removes a directory that is not yet published.
LEMMA UndoKeeps ==
    ASSUME VaultInv, Undo, session.pc \in Making, UNCHANGED <<holds, restores, history>>
    PROVE  VaultInv'
<1>1. session.b \in Backups /\ vault[session.b].name = "incomplete"
    BY DEF VaultInv, SessionInv, MakingOK
<1>2. vault' \in [Backups -> Dirs] /\ DirInv' /\ HoldInv'
    BY <1>1, ClosedRecord, BareDirChanges DEF Undo, history
<1>3. VaultTypes' /\ SessionInv'
    BY <1>2, ClosedRecord, ClosedInv, TroubleCount DEF Undo, Close, VaultInv, VaultTypes, history
<1> QED BY <1>2, <1>3 DEF VaultInv

LEMMA DumpKeeps == ASSUME VaultInv, Dump PROVE VaultInv'
<1>1. session.pc = "dump" /\ UNCHANGED <<holds, restores, history>>
    BY DEF Dump, SessionAt
<1>2. CASE Undo
    BY <1>1, <1>2, UndoKeeps DEF Making
<1>3. ASSUME NEW h \in Schemas, Dir(session.b, [vault[session.b] EXCEPT !.files = {"dump"}, !.schema = h]),
             Step("manifest"), UNCHANGED troubles
      PROVE  VaultInv'
  <2> DEFINE b == session.b
             d == [vault[b] EXCEPT !.files = {"dump"}, !.schema = h]
  <2>1. b \in Backups /\ b \notin condemned /\ vault[b].name = "incomplete" /\ vault[b].proofs = <<>> /\ Fresh
        /\ ~ session.checks /\ ~ session.cleanup /\ session.database <= sessions
      BY <1>1 DEF VaultInv, SessionInv, MakingOK, FlagsOK, Making
  <2>2. vault[b] \in Dirs /\ session \in Sessions
      BY <2>1 DEF VaultInv, VaultTypes
  <2>3. d \in Dirs /\ d.name = "incomplete" /\ d.schema = h /\ d.proofs = <<>>
      BY <2>1, <2>2 DEF Dirs, Parts, Heads
  <2>4. Dir(b, d)
      BY <1>3
  <2> HIDE DEF d
  <2>5. vault' \in [Backups -> Dirs] /\ vault'[b] = d /\ DirInv' /\ HoldInv' /\ (Fresh => Fresh')
      BY <1>1, <2>1, <2>3, <2>4, BareDirChanges DEF history
  <2>6. session' \in Sessions /\ session'.pc = "manifest" /\ session'.b = b /\ session'.checks = session.checks
        /\ session'.cleanup = session.cleanup /\ session'.database = session.database
      BY <1>3, <2>2, StepRecord DEF Step, SessionPcs
  <2>7. VaultTypes'
      BY <1>1, <1>3, <2>5, <2>6 DEF VaultInv, VaultTypes, history
  <2>8. SessionInv'
      BY <1>1, <2>1, <2>3, <2>5, <2>6 DEF SessionInv, MakingOK, VerifyingOK, FlagsOK, Making, Verifying, history
  <2> QED BY <2>5, <2>7, <2>8 DEF VaultInv
<1> QED BY <1>2, <1>3 DEF Dump

LEMMA WriteManifestKeeps == ASSUME VaultInv, WriteManifest PROVE VaultInv'
<1>1. session.pc = "manifest" /\ UNCHANGED <<holds, restores, history>>
    BY DEF WriteManifest, SessionAt
<1>2. CASE Undo
    BY <1>1, <1>2, UndoKeeps DEF Making
<1>3. CASE Dir(session.b, [vault[session.b] EXCEPT !.files = Parts]) /\ Step("publish") /\ UNCHANGED troubles
  <2> DEFINE b == session.b
             d == [vault[b] EXCEPT !.files = Parts]
  <2>1. b \in Backups /\ b \notin condemned /\ vault[b].name = "incomplete" /\ vault[b].proofs = <<>> /\ Fresh
        /\ vault[b].schema \in Schemas
        /\ ~ session.checks /\ ~ session.cleanup /\ session.database <= sessions
      BY <1>1 DEF VaultInv, SessionInv, MakingOK, FlagsOK, Making
  <2>2. vault[b] \in Dirs /\ session \in Sessions
      BY <2>1 DEF VaultInv, VaultTypes
  <2>3. d \in Dirs /\ d.name = "incomplete" /\ d.schema = vault[b].schema /\ d.files = Parts /\ d.proofs = <<>>
      BY <2>1, <2>2 DEF Dirs, Heads
  <2>4. Dir(b, d)
      BY <1>3
  <2> HIDE DEF d
  <2>5. vault' \in [Backups -> Dirs] /\ vault'[b] = d /\ DirInv' /\ HoldInv' /\ (Fresh => Fresh')
      BY <1>1, <2>1, <2>3, <2>4, BareDirChanges DEF history
  <2>6. session' \in Sessions /\ session'.pc = "publish" /\ session'.b = b /\ session'.checks = session.checks
        /\ session'.cleanup = session.cleanup /\ session'.database = session.database
      BY <1>3, <2>2, StepRecord DEF Step, SessionPcs
  <2>7. VaultTypes'
      BY <1>1, <1>3, <2>5, <2>6 DEF VaultInv, VaultTypes, history
  <2>8. SessionInv'
      BY <1>1, <2>1, <2>3, <2>5, <2>6 DEF SessionInv, MakingOK, VerifyingOK, FlagsOK, Making, Verifying, history
  <2> QED BY <2>5, <2>7, <2>8 DEF VaultInv
<1> QED BY <1>2, <1>3 DEF WriteManifest

LEMMA PublishKeeps == ASSUME VaultInv, Publish PROVE VaultInv'
<1>1. session.pc = "publish" /\ UNCHANGED <<holds, restores, history>>
    BY DEF Publish, SessionAt
<1>2. CASE Undo
    BY <1>1, <1>2, UndoKeeps DEF Making
<1>3. CASE Dir(session.b, [vault[session.b] EXCEPT !.name = "final"])
           /\ (session' = [session EXCEPT !.pc = "load"] \/ session' = Closed)
           /\ (Trouble \/ UNCHANGED troubles)
  <2> DEFINE b == session.b
             d == [vault[b] EXCEPT !.name = "final"]
  <2>1. b \in Backups /\ b \notin condemned /\ vault[b].name = "incomplete" /\ vault[b].proofs = <<>> /\ Fresh
        /\ vault[b].schema \in Schemas /\ vault[b].files = Parts
        /\ ~ session.checks /\ ~ session.cleanup /\ session.database <= sessions
      BY <1>1 DEF VaultInv, SessionInv, MakingOK, FlagsOK, Making
  <2>2. vault[b] \in Dirs /\ session \in Sessions
      BY <2>1 DEF VaultInv, VaultTypes
  <2>3. d \in Dirs /\ d.schema = vault[b].schema /\ d.files = Parts /\ d.proofs = <<>>
      BY <2>1, <2>2 DEF Dirs, Heads
  <2>4. Dir(b, d)
      BY <1>3
  <2> HIDE DEF d
  <2>5. vault' \in [Backups -> Dirs] /\ vault'[b] = d /\ DirInv' /\ HoldInv' /\ (Fresh => Fresh')
      BY <1>1, <2>1, <2>3, <2>4, BareDirChanges DEF history
  <2>6. CASE session' = [session EXCEPT !.pc = "load"]
    <3>1. session' \in Sessions /\ session'.pc = "load" /\ session'.b = b /\ session'.checks = session.checks
          /\ session'.cleanup = session.cleanup /\ session'.database = session.database
        BY <2>2, <2>6, StepRecord DEF SessionPcs
    <3>2. VaultTypes'
        BY <1>1, <1>3, <2>5, <3>1, TroubleCount DEF VaultInv, VaultTypes, history
    <3>3. SessionInv'
        BY <1>1, <2>1, <2>5, <3>1 DEF SessionInv, MakingOK, VerifyingOK, FlagsOK, Making, Verifying, history
    <3> QED BY <2>5, <3>2, <3>3 DEF VaultInv
  <2>7. CASE session' = Closed
    <3>1. VaultTypes' /\ SessionInv'
        BY <1>1, <1>3, <2>5, <2>7, ClosedRecord, ClosedInv, TroubleCount DEF VaultInv, VaultTypes, history
    <3> QED BY <2>5, <3>1 DEF VaultInv
  <2> QED BY <1>3, <2>6, <2>7
<1> QED BY <1>2, <1>3 DEF Publish, Close

\* A dump decays: nothing that the invariant speaks of.
LEMMA DecayKeeps == ASSUME VaultInv, NEW b \in Backups, Decay(b) PROVE VaultInv'
<1> DEFINE d == [vault[b] EXCEPT !.intact = FALSE]
<1>1. vault[b] \in Dirs
    BY DEF VaultInv, VaultTypes
<1>2. d \in Dirs /\ d.name = vault[b].name /\ d.files = vault[b].files /\ d.schema = vault[b].schema
      /\ d.proofs = vault[b].proofs
    BY <1>1 DEF Dirs
<1>3. Dir(b, d) /\ UNCHANGED <<holds, restores, session, history>> /\ Trouble
    BY DEF Decay
<1> HIDE DEF d
<1>4. vault' \in [Backups -> Dirs] /\ \A c \in Backups :
        /\ vault'[c].name = vault[c].name /\ vault'[c].files = vault[c].files
        /\ vault'[c].schema = vault[c].schema /\ vault'[c].proofs = vault[c].proofs
    BY <1>2, <1>3, DirChange DEF VaultInv
<1>5. VaultTypes'
    BY <1>3, <1>4, TroubleCount DEF VaultInv, VaultTypes, history
<1>6. \A c \in Backups : DirOK(c)'
    BY <1>3, <1>4 DEF VaultInv, DirInv, DirOK, ProofOK, history
<1>7. \A h \in holds : HoldOK(h)'
    BY <1>4 DEF VaultInv, VaultTypes, HoldInv, HoldOK, Holds
<1>8. Fresh => Fresh'
    BY <1>3, <1>4 DEF Fresh, history
<1>9. MakingOK'
    BY <1>3, <1>4 DEF VaultInv, SessionInv, MakingOK, history
<1>10. VerifyingOK'
    BY <1>3, <1>4 DEF VaultInv, SessionInv, VerifyingOK, Verifying
<1>11. session.pc \in {"drop", "attest_passed", "attest_failed", "hold"} => session.b \in Backups
    BY DEF VaultInv, SessionInv, VerifyingOK, Verifying
<1>12. FlagsOK'
    BY <1>3, <1>4, <1>11 DEF VaultInv, SessionInv, FlagsOK, history
<1>13. SessionInv'
    BY <1>3, <1>8, <1>9, <1>10, <1>12 DEF VaultInv, SessionInv, HoldOf, history
<1> QED BY <1>3, <1>5, <1>6, <1>7, <1>13 DEF VaultInv, DirInv, HoldInv

-----------------------------------------------------------------------------
(* verify *)

\* A step to another statement that records nothing new.
LEMMA StepKeeps ==
    ASSUME VaultInv, NEW x \in {"createdb", "heads", "drop", "attest_failed"}, Step(x),
           UNCHANGED <<vault, holds, restores, history>>, Trouble \/ UNCHANGED troubles,
           session.pc \in {"load"} \cup (Verifying \ {"hold"}),
           vault[session.b].name = "final" /\ vault[session.b].files = Parts,
           x \in {"createdb", "heads"} => session.expected = session.static,
           x \in {"createdb", "heads", "drop"} => ~ session.cleanup,
           x \in {"createdb", "heads"} => ~ session.checks
    PROVE  VaultInv'
<1>1. session \in Sessions /\ x \in SessionPcs
    BY DEF VaultInv, VaultTypes, SessionPcs
<1>2. session' \in Sessions /\ session'.pc = x /\ session'.b = session.b /\ session'.expected = session.expected
      /\ session'.static = session.static /\ session'.restored = session.restored /\ session'.database = session.database
      /\ session'.checks = session.checks /\ session'.cleanup = session.cleanup
    BY <1>1, StepRecord DEF Step
<1>3. VaultTypes' /\ DirInv' /\ HoldInv' /\ (Fresh => Fresh')
    BY <1>2, StepTypes, TroubleCount DEF history
<1>4. session.b \in Backups /\ Fresh
    BY DEF VaultInv, SessionInv, VerifyingOK, Verifying
<1>5. MakingOK'
    BY <1>2 DEF MakingOK, Making
<1>6. VerifyingOK'
    BY <1>2, <1>4 DEF VerifyingOK, Verifying
<1>7. FlagsOK'
    BY <1>2 DEF VaultInv, SessionInv, FlagsOK, history
<1>8. SessionInv'
    BY <1>2, <1>3, <1>4, <1>5, <1>6, <1>7 DEF SessionInv
<1> QED BY <1>3, <1>8 DEF VaultInv

\* The steps of pg_backup verify.
LEMMA LoadKeeps == ASSUME VaultInv, Load PROVE VaultInv'
<1>1. session.pc = "load" /\ UNCHANGED <<vault, holds, restores, history, troubles>>
    BY DEF Load, SessionAt
<1>2. CASE Close
    BY <1>1, <1>2, ClosesKeeps DEF history
<1>3. CASE ~ Close
  <2>1. session.b \in Valid /\ "dump" \in vault[session.b].files
        /\ Step(IF session.expected = session.static /\ vault[session.b].intact THEN "createdb" ELSE "attest_failed")
      BY <1>3 DEF Load
  <2>2. PICK x \in {"createdb", "attest_failed"} : Step(x) /\ (x = "createdb" => session.expected = session.static)
      BY <2>1
  <2>3. vault[session.b] \in Dirs
      BY <2>1 DEF Valid, VaultInv, VaultTypes
  <2>4. vault[session.b].name = "final" /\ vault[session.b].files = Parts
      BY <2>1, <2>3 DEF Valid, Dirs, Parts
  <2>5. ~ session.checks /\ ~ session.cleanup
      BY <1>1 DEF VaultInv, SessionInv, FlagsOK
  <2> QED BY <1>1, <2>2, <2>4, <2>5, StepKeeps
<1> QED BY <1>2, <1>3

\* The new database has the number of the open session, which no attestation names yet.
LEMMA CreateDatabaseKeeps == ASSUME VaultInv, CreateDatabase PROVE VaultInv'
<1>1. session.pc = "createdb" /\ UNCHANGED <<vault, holds, history>>
    BY DEF CreateDatabase, SessionAt
<1>2. session.b \in Backups /\ Fresh /\ vault[session.b].name = "final" /\ vault[session.b].files = Parts
      /\ session.expected = session.static /\ ~ session.checks /\ ~ session.cleanup
    BY <1>1 DEF VaultInv, SessionInv, VerifyingOK, FlagsOK, Verifying
<1>3. CASE Step("attest_failed") /\ UNCHANGED restores
    BY <1>1, <1>2, <1>3, StepKeeps DEF CreateDatabase, Verifying
<1>4. ASSUME NEW x \in {"restore", "attest_failed"}, session' = [session EXCEPT !.pc = x, !.database = sessions],
             restores' \in {restores, restores \cup {sessions}}, Trouble \/ UNCHANGED troubles
      PROVE  VaultInv'
  <2>1. session \in Sessions /\ sessions \in Nat
      BY DEF VaultInv, VaultTypes
  <2>2. session' \in Sessions
      BY <1>4, <2>1 DEF Sessions, SessionPcs
  <2>3. session'.pc = x /\ session'.b = session.b /\ session'.expected = session.expected
        /\ session'.static = session.static /\ session'.database = sessions
      BY <1>4, <2>1 DEF Sessions
  <2>4. session'.checks = session.checks
      BY <1>4, <2>1, Zenon DEF Sessions
  <2>5. session'.cleanup = session.cleanup
      BY <1>4, <2>1, Zenon DEF Sessions
  <2>6. VaultTypes'
      BY <1>1, <1>4, <2>2, TroubleCount DEF VaultInv, VaultTypes, history
  <2>7. \A c \in Backups : DirOK(c)'
    <3> TAKE c \in Backups
    <3>1. \A i \in 1..Len(vault[c].proofs) : vault[c].proofs[i] \in Proofs
        BY DEF VaultInv, VaultTypes, Dirs
    <3>2. \A i \in 1..Len(vault[c].proofs) : vault[c].proofs[i].database # sessions
        BY <1>2, <2>1, <3>1 DEF Fresh, Proofs
    <3> QED BY <1>1, <1>4, <3>2 DEF VaultInv, DirInv, DirOK, ProofOK, history
  <2>8. HoldInv' /\ Fresh'
      BY <1>1, <1>2, HoldsStay DEF Fresh, history
  <2>9. MakingOK' /\ VerifyingOK'
      BY <1>1, <1>2, <2>3 DEF MakingOK, VerifyingOK, Making, Verifying
  <2>10. FlagsOK'
      BY <1>1, <1>2, <2>1, <2>3, <2>4, <2>5 DEF FlagsOK, history
  <2>11. SessionInv'
      BY <2>3, <2>8, <2>9, <2>10 DEF SessionInv
  <2> QED BY <2>6, <2>7, <2>8, <2>11 DEF VaultInv, DirInv
<1> QED BY <1>3, <1>4 DEF CreateDatabase

LEMMA RestoreKeeps == ASSUME VaultInv, Restore PROVE VaultInv'
<1>1. session.pc = "restore" /\ UNCHANGED <<vault, holds, restores, history>>
    BY DEF Restore, SessionAt
<1>2. vault[session.b].name = "final" /\ vault[session.b].files = Parts
      /\ session.expected = session.static /\ ~ session.checks /\ ~ session.cleanup
    BY <1>1 DEF VaultInv, SessionInv, VerifyingOK, FlagsOK, Verifying
<1>3. PICK x \in {"heads", "drop"} : Step(x) /\ (Trouble \/ UNCHANGED troubles)
    BY DEF Restore, Fails
<1> QED BY <1>1, <1>2, <1>3, StepKeeps DEF Verifying

LEMMA ReadHeadsKeeps == ASSUME VaultInv, ReadHeads PROVE VaultInv'
<1>1. session.pc = "heads" /\ UNCHANGED <<vault, holds, restores, history>>
    BY DEF ReadHeads, SessionAt
<1>2. session.b \in Backups /\ Fresh /\ vault[session.b].name = "final" /\ vault[session.b].files = Parts
      /\ session.expected = session.static /\ ~ session.checks /\ ~ session.cleanup
    BY <1>1 DEF VaultInv, SessionInv, VerifyingOK, FlagsOK, Verifying
<1>3. CASE Fails
    BY <1>1, <1>2, <1>3, StepKeeps DEF Fails, Verifying
<1>4. CASE UNCHANGED troubles /\
           session' = [session EXCEPT !.restored = vault[session.b].schema,
                        !.pc = IF vault[session.b].schema = session.expected THEN "checks" ELSE "drop"]
  <2> DEFINE x == IF vault[session.b].schema = session.expected THEN "checks" ELSE "drop"
             h == vault[session.b].schema
  <2>1. session \in Sessions /\ h \in Heads
      BY <1>2 DEF VaultInv, VaultTypes, Dirs
  <2>2. x \in {"checks", "drop"} /\ (x = "checks" => h = session.expected)
      OBVIOUS
  <2>3. session' = [session EXCEPT !.restored = h, !.pc = x]
      BY <1>4
  <2> HIDE DEF x
  <2>4. session' \in Sessions
      BY <2>1, <2>2, <2>3 DEF Sessions, SessionPcs
  <2>5. session'.pc = x /\ session'.b = session.b /\ session'.expected = session.expected
        /\ session'.static = session.static /\ session'.restored = h /\ session'.database = session.database
      BY <2>1, <2>3 DEF Sessions
  <2>6. session'.checks = session.checks
      BY <2>1, <2>3, Zenon DEF Sessions
  <2>7. session'.cleanup = session.cleanup
      BY <2>1, <2>3, Zenon DEF Sessions
  <2>8. VaultTypes' /\ DirInv' /\ HoldInv' /\ Fresh'
      BY <1>1, <1>2, <1>4, <2>4, StepTypes, TroubleCount DEF history
  <2>9. MakingOK' /\ VerifyingOK'
      BY <1>1, <1>2, <2>2, <2>5 DEF MakingOK, VerifyingOK, Making, Verifying
  <2>10. FlagsOK'
      BY <1>1, <1>2, <2>2, <2>5, <2>6, <2>7 DEF VaultInv, SessionInv, FlagsOK, history
  <2>11. SessionInv'
      BY <2>2, <2>5, <2>8, <2>9, <2>10 DEF SessionInv
  <2> QED BY <2>8, <2>11 DEF VaultInv
<1> QED BY <1>3, <1>4 DEF ReadHeads

LEMMA ChecksKeeps == ASSUME VaultInv, Checks PROVE VaultInv'
<1>1. session.pc = "checks" /\ UNCHANGED <<vault, holds, restores, history>>
    BY DEF Checks, SessionAt
<1>2. session.b \in Backups /\ Fresh /\ vault[session.b].name = "final" /\ vault[session.b].files = Parts
      /\ session.expected = session.static /\ ~ session.cleanup /\ ~ session.checks
      /\ session.restored = session.expected /\ session.restored = vault[session.b].schema
    BY <1>1 DEF VaultInv, SessionInv, VerifyingOK, FlagsOK, Verifying
<1>3. CASE Fails
    BY <1>1, <1>2, <1>3, StepKeeps DEF Fails, Verifying
<1>4. CASE session' = [session EXCEPT !.pc = "drop", !.checks = TRUE] /\ UNCHANGED troubles
  <2>1. session \in Sessions
      BY DEF VaultInv, VaultTypes
  <2>2. session' \in Sessions
      BY <1>4, <2>1 DEF Sessions, SessionPcs
  <2>3. session'.pc = "drop" /\ session'.b = session.b /\ session'.expected = session.expected
        /\ session'.static = session.static /\ session'.restored = session.restored /\ session'.database = session.database
      BY <1>4, <2>1 DEF Sessions
  <2>4. session'.cleanup = session.cleanup
      BY <1>4, <2>1, Zenon DEF Sessions
  <2>5. VaultTypes' /\ DirInv' /\ HoldInv' /\ Fresh'
      BY <1>1, <1>2, <1>4, <2>2, StepTypes, TroubleCount DEF history
  <2>6. MakingOK' /\ VerifyingOK'
      BY <1>1, <1>2, <2>3 DEF MakingOK, VerifyingOK, Making, Verifying
  <2>7. FlagsOK'
      BY <1>1, <1>2, <2>3, <2>4 DEF VaultInv, SessionInv, FlagsOK, history
  <2>8. SessionInv'
      BY <2>3, <2>5, <2>6, <2>7 DEF SessionInv
  <2> QED BY <2>5, <2>8 DEF VaultInv
<1> QED BY <1>3, <1>4 DEF Checks

LEMMA DropKeeps == ASSUME VaultInv, DropDatabase PROVE VaultInv'
<1>1. session.pc = "drop" /\ UNCHANGED <<vault, holds, history>>
    BY DEF DropDatabase, SessionAt
<1>2. session.b \in Backups /\ Fresh /\ vault[session.b].name = "final" /\ vault[session.b].files = Parts
      /\ ~ session.cleanup /\ session.database <= sessions
    BY <1>1 DEF VaultInv, SessionInv, VerifyingOK, FlagsOK, Verifying
<1>3. restores' \subseteq restores /\ (Trouble \/ UNCHANGED troubles)
    BY DEF DropDatabase
<1>4. DirInv' /\ HoldInv' /\ Fresh'
    BY <1>1, <1>2, <1>3, DirsStay, HoldsStay DEF history
<1>5. session \in Sessions
    BY DEF VaultInv, VaultTypes
<1>6. CASE Step("attest_failed")
  <2>1. session' \in Sessions /\ session'.pc = "attest_failed" /\ session'.b = session.b /\ session'.expected = session.expected
        /\ session'.static = session.static /\ session'.restored = session.restored /\ session'.database = session.database
        /\ session'.checks = session.checks /\ session'.cleanup = session.cleanup
      BY <1>5, <1>6, StepRecord DEF Step, SessionPcs
  <2>2. VaultTypes'
      BY <1>1, <1>3, <2>1, TroubleCount DEF VaultInv, VaultTypes, history
  <2>3. MakingOK' /\ VerifyingOK'
      BY <1>1, <1>2, <2>1 DEF MakingOK, VerifyingOK, Making, Verifying
  <2>4. FlagsOK'
      BY <1>1, <1>2, <2>1 DEF VaultInv, SessionInv, FlagsOK, history
  <2>5. SessionInv'
      BY <1>4, <2>1, <2>3, <2>4 DEF SessionInv
  <2> QED BY <1>4, <2>2, <2>5 DEF VaultInv
<1>7. CASE /\ restores' = restores \ {session.database}
           /\ session' = [session EXCEPT !.cleanup = TRUE,
                           !.pc = IF session.checks THEN "attest_passed" ELSE "attest_failed"]
  <2> DEFINE x == IF session.checks THEN "attest_passed" ELSE "attest_failed"
  <2>1. x \in {"attest_passed", "attest_failed"} /\ (x = "attest_passed" => session.checks)
      OBVIOUS
  <2>2. session' = [session EXCEPT !.cleanup = TRUE, !.pc = x]
      BY <1>7
  <2> HIDE DEF x
  <2>3. session' \in Sessions
      BY <1>5, <2>1, <2>2 DEF Sessions, SessionPcs
  <2>4. session'.pc = x /\ session'.b = session.b /\ session'.expected = session.expected
        /\ session'.static = session.static /\ session'.restored = session.restored /\ session'.database = session.database
      BY <1>5, <2>2 DEF Sessions
  <2>5. session'.checks = session.checks
      BY <1>5, <2>2, Zenon DEF Sessions
  <2>6. session'.cleanup
      BY <1>5, <2>2, Zenon DEF Sessions
  <2>7. VaultTypes'
      BY <1>1, <1>3, <2>3, TroubleCount DEF VaultInv, VaultTypes, history
  <2>8. MakingOK' /\ VerifyingOK'
      BY <1>1, <1>2, <2>1, <2>4 DEF MakingOK, VerifyingOK, Making, Verifying
  <2>9. FlagsOK'
      BY <1>1, <1>2, <1>7, <2>1, <2>4, <2>5, <2>6 DEF VaultInv, SessionInv, FlagsOK, history
  <2>10. SessionInv'
      BY <1>4, <2>1, <2>4, <2>8, <2>9 DEF SessionInv
  <2> QED BY <1>4, <2>7, <2>10 DEF VaultInv
<1> QED BY <1>6, <1>7 DEF DropDatabase

\* The attestation says what the session has found out.
LEMMA RecordKeeps ==
    ASSUME VaultInv, NEW result \in {"passed", "failed"}, Record(result), UNCHANGED <<holds, restores, history>>,
           session.pc \in {"attest_passed", "attest_failed"}, result = "passed" => session.pc = "attest_passed"
    PROVE  /\ vault' \in [Backups -> Dirs] /\ DirInv' /\ HoldInv' /\ session.b \in Backups
           /\ vault'[session.b].name = "final" /\ vault'[session.b].files = Parts
           /\ vault'[session.b].schema = vault[session.b].schema
           /\ Len(vault'[session.b].proofs) > 0
           /\ vault'[session.b].proofs[Len(vault'[session.b].proofs)].result = result
<1> DEFINE b == session.b
           a == Attestation(session, result)
           q == vault[b].proofs
           r == Append(q, a)
           d == [vault[b] EXCEPT !.proofs = r]
<1>1. b \in Backups /\ vault[b].name = "final" /\ vault[b].files = Parts /\ session \in Sessions
    BY DEF VaultInv, VaultTypes, SessionInv, VerifyingOK, Verifying
<1>2. vault[b] \in Dirs /\ q \in Seq(Proofs)
    BY <1>1 DEF VaultInv, VaultTypes, Dirs
<1>3. a \in Proofs
    BY <1>1 DEF Attestation, Proofs, Sessions
<1>4. a.result = result /\ a.expected = session.expected /\ a.static = session.static /\ a.restored = session.restored
      /\ a.database = session.database
    BY DEF Attestation
<1>5. a.checks = session.checks
    BY Zenon DEF Attestation
<1>6. a.cleanup = session.cleanup
    BY Zenon DEF Attestation
<1> HIDE DEF a
<1>7. ProofOK(a, vault[b].schema)
    BY <1>4, <1>5, <1>6 DEF ProofOK, VaultInv, SessionInv, FlagsOK
<1>8. /\ r \in Seq(Proofs) /\ Len(r) = Len(q) + 1 /\ Len(q) \in Nat /\ r[Len(r)] = a
      /\ \A i \in 1..Len(q) : r[i] = q[i]
      /\ \A i \in 1..Len(r) : i = Len(r) \/ i \in 1..Len(q)
    BY <1>2, <1>3, Appended
<1> HIDE DEF r
<1>9. d \in Dirs /\ d.name = "final" /\ d.files = Parts /\ d.schema = vault[b].schema /\ d.proofs = r
    BY <1>1, <1>2, <1>8 DEF Dirs
<1>10. Dir(b, d)
    BY DEF Record, a, r
<1> HIDE DEF d
<1>11. vault' \in [Backups -> Dirs] /\ vault'[b] = d /\ \A c \in Backups : c # b => vault'[c] = vault[c]
    BY <1>1, <1>9, <1>10, DirChange DEF VaultInv
<1>12. \A c \in Backups : c = b => DirOK(c)'
  <2>1. \A i \in 1..Len(q) : ProofOK(q[i], vault[b].schema)
      BY <1>1 DEF VaultInv, DirInv, DirOK
  <2>2. \A i \in 1..Len(r) : ProofOK(r[i], vault[b].schema)
      BY <1>7, <1>8, <2>1
  <2>3. vault[b].name = "final" /\ b \notin condemned => vault[b].schema \in Schemas
      BY <1>1 DEF VaultInv, DirInv, DirOK
  <2> QED BY <1>1, <1>9, <1>11, <2>2, <2>3 DEF DirOK, ProofOK, history
<1>13. \A c \in Backups : DirOK(c)'
  <2>1. \A c \in Backups : c # b => DirOK(c)'
      BY <1>11 DEF VaultInv, DirInv, DirOK, ProofOK, history
  <2> QED BY <1>12, <2>1
<1>14. \A h \in holds : HoldOK(h)'
  <2> TAKE h \in holds
  <2>1. h.b \in Backups /\ HoldOK(h)
      BY DEF VaultInv, VaultTypes, HoldInv, Holds
  <2>2. CASE h.b = b
    <3>1. h.proof \in 1..Len(q) => h.proof \in 1..Len(r) /\ r[h.proof] = q[h.proof]
        BY <1>8
    <3> QED BY <1>1, <1>9, <1>11, <2>1, <2>2, <3>1 DEF HoldOK
  <2>3. CASE h.b # b
      BY <1>11, <2>1, <2>3 DEF HoldOK
  <2> QED BY <2>2, <2>3
<1>15. Len(d.proofs) > 0 /\ d.proofs[Len(d.proofs)].result = result
    BY <1>4, <1>8, <1>9
<1> QED BY <1>1, <1>9, <1>11, <1>13, <1>14, <1>15 DEF DirInv, HoldInv

LEMMA AttestPassedKeeps == ASSUME VaultInv, AttestPassed PROVE VaultInv'
<1>1. session.pc = "attest_passed" /\ UNCHANGED <<holds, restores, history>>
    BY DEF AttestPassed, SessionAt
<1>2. CASE Trouble /\ Close /\ UNCHANGED vault
    BY <1>1, <1>2, ClosesKeeps DEF history
<1>3. CASE Record("passed") /\ UNCHANGED troubles /\ (Step("hold") \/ Close)
  <2>1. /\ vault' \in [Backups -> Dirs] /\ DirInv' /\ HoldInv' /\ session.b \in Backups
        /\ vault'[session.b].name = "final" /\ vault'[session.b].files = Parts
        /\ vault'[session.b].schema = vault[session.b].schema
        /\ Len(vault'[session.b].proofs) > 0
        /\ vault'[session.b].proofs[Len(vault'[session.b].proofs)].result = "passed"
      BY <1>1, <1>3, RecordKeeps
  <2>2. CASE Close
    <3>1. VaultTypes' /\ SessionInv'
        BY <1>1, <1>3, <2>1, <2>2, ClosedRecord, ClosedInv DEF Close, VaultInv, VaultTypes, history
    <3> QED BY <2>1, <3>1 DEF VaultInv
  <2>3. CASE Step("hold")
    <3>1. session \in Sessions
        BY DEF VaultInv, VaultTypes
    <3>2. session' \in Sessions /\ session'.pc = "hold" /\ session'.b = session.b /\ session'.expected = session.expected
          /\ session'.static = session.static /\ session'.restored = session.restored /\ session'.database = session.database
          /\ session'.checks = session.checks /\ session'.cleanup = session.cleanup
        BY <2>3, <3>1, StepRecord DEF Step, SessionPcs
    <3>3. VaultTypes'
        BY <1>1, <1>3, <2>1, <3>2 DEF VaultInv, VaultTypes, history
    <3>4. MakingOK' /\ VerifyingOK'
        BY <2>1, <3>2 DEF MakingOK, VerifyingOK, Making, Verifying
    <3>5. FlagsOK'
        BY <1>1, <2>1, <3>2 DEF VaultInv, SessionInv, FlagsOK, history
    <3>6. SessionInv'
        BY <3>2, <3>4, <3>5 DEF SessionInv, Making
    <3> QED BY <2>1, <3>3, <3>6 DEF VaultInv
  <2> QED BY <1>3, <2>2, <2>3
<1> QED BY <1>2, <1>3 DEF AttestPassed

LEMMA AttestFailedKeeps == ASSUME VaultInv, AttestFailed PROVE VaultInv'
<1>1. session.pc = "attest_failed" /\ Close /\ UNCHANGED <<holds, restores, history>>
    BY DEF AttestFailed, SessionAt
<1>2. CASE Trouble /\ UNCHANGED vault
    BY <1>1, <1>2, ClosesKeeps DEF history
<1>3. CASE Record("failed") /\ UNCHANGED troubles
  <2>1. vault' \in [Backups -> Dirs] /\ DirInv' /\ HoldInv'
      BY <1>1, <1>3, RecordKeeps
  <2>2. VaultTypes' /\ SessionInv'
      BY <1>1, <1>3, <2>1, ClosedRecord, ClosedInv DEF Close, VaultInv, VaultTypes, history
  <2> QED BY <2>1, <2>2 DEF VaultInv
<1> QED BY <1>2, <1>3 DEF AttestFailed

-----------------------------------------------------------------------------
(* Holds *)

\* A session that ends with other holds.
LEMMA HoldsChange ==
    ASSUME VaultInv, Close, UNCHANGED <<vault, restores, history>>, Trouble \/ UNCHANGED troubles,
           holds' \subseteq Holds, \A h \in holds' : HoldOK(h)
    PROVE  VaultInv'
<1>1. DirInv'
    BY DirsStay DEF history
<1>2. HoldInv'
    BY DEF HoldInv, HoldOK
<1>3. VaultTypes' /\ SessionInv'
    BY ClosedRecord, ClosedInv, TroubleCount DEF Close, VaultInv, VaultTypes, history
<1> QED BY <1>1, <1>2, <1>3 DEF VaultInv

\* A hold is taken, or given back.
LEMMA AcquireKeeps == ASSUME VaultInv, AcquireHold PROVE VaultInv'
<1>1. session.pc = "hold" /\ Close /\ UNCHANGED <<vault, restores, history>>
    BY DEF AcquireHold, SessionAt
<1>2. CASE Trouble /\ UNCHANGED holds
    BY <1>1, <1>2, ClosesKeeps DEF history
<1>3. CASE /\ holds' = holds \cup {[b |-> session.b, state |-> "acquired", proof |-> Len(vault[session.b].proofs)]}
           /\ UNCHANGED troubles
  <2> DEFINE h == [b |-> session.b, state |-> "acquired", proof |-> Len(vault[session.b].proofs)]
  <2>1. /\ session.b \in Backups /\ vault[session.b].name = "final" /\ vault[session.b].files = Parts
        /\ Len(vault[session.b].proofs) > 0
        /\ vault[session.b].proofs[Len(vault[session.b].proofs)].result = "passed"
      BY <1>1 DEF VaultInv, SessionInv, VerifyingOK, Verifying
  <2>2. Len(vault[session.b].proofs) \in Nat
      BY <2>1 DEF VaultInv, VaultTypes, Dirs
  <2>3. h \in Holds /\ HoldOK(h)
      BY <2>1, <2>2 DEF Holds, HoldOK
  <2> HIDE DEF h
  <2>4. holds' = holds \cup {h}
      BY <1>3 DEF h
  <2> QED BY <1>1, <1>3, <2>3, <2>4, HoldsChange DEF VaultInv, VaultTypes, HoldInv
<1> QED BY <1>2, <1>3 DEF AcquireHold

LEMMA ReleaseKeeps == ASSUME VaultInv, ReleaseHold PROVE VaultInv'
<1>1. Close /\ UNCHANGED <<vault, restores, history>>
    BY DEF ReleaseHold
<1>2. CASE Trouble /\ UNCHANGED holds
    BY <1>1, <1>2, ClosesKeeps DEF history
<1>3. ASSUME NEW h \in holds, holds' = (holds \ {h}) \cup {[h EXCEPT !.state = "released"]}, UNCHANGED troubles
      PROVE  VaultInv'
  <2>1. h \in Holds
      BY DEF VaultInv, VaultTypes
  <2>2. [h EXCEPT !.state = "released"] \in Holds /\ HoldOK([h EXCEPT !.state = "released"])
      BY <2>1 DEF Holds, HoldOK
  <2> QED BY <1>1, <1>3, <2>2, HoldsChange DEF VaultInv, VaultTypes, HoldInv
<1> QED BY <1>2, <1>3 DEF ReleaseHold, HoldOf

-----------------------------------------------------------------------------
(* prune *)

\* The prune pass takes its next victim.
LEMMA PickKeeps == ASSUME VaultInv, PickBackup PROVE VaultInv'
<1>1. session.pc = "delete" /\ UNCHANGED <<vault, holds, restores, sessions, troubles>>
    BY DEF PickBackup, SessionAt
<1>2. PICK b \in NewestOf(session.todo) :
        \/ /\ HoldOf(b) = {} /\ condemned' = condemned \cup {b}
           /\ session' = [session EXCEPT !.pc = "remove", !.b = b, !.todo = session.todo \ {b}]
        \/ /\ UNCHANGED condemned
           /\ session' = [session EXCEPT !.todo = session.todo \ {b}]
    BY DEF PickBackup
<1>3. session \in Sessions /\ b \in Backups /\ b \in Nat /\ session.todo \ {b} \in SUBSET Backups
    BY <1>2 DEF VaultInv, VaultTypes, NewestOf, Sessions, Backups
<1>4. ~ session.checks /\ ~ session.cleanup /\ session.database <= sessions
    BY <1>1 DEF VaultInv, SessionInv, FlagsOK
<1> DEFINE t == session.todo \ {b}
<1>5. session' \in Sessions
    BY <1>2, <1>3 DEF Sessions, SessionPcs
<1>6. session'.database = session.database /\ session'.pc \in {"delete", "remove"}
    BY <1>1, <1>2, <1>3 DEF Sessions
<1>7. session'.checks = session.checks
    BY <1>2, <1>3, Zenon DEF Sessions
<1>8. session'.cleanup = session.cleanup
    BY <1>2, <1>3, Zenon DEF Sessions
<1>9. session'.pc = "remove" => session'.b = b /\ b \in condemned' /\ HoldOf(b) = {}
    BY <1>1, <1>2, <1>3 DEF Sessions
<1>10. condemned \subseteq condemned' /\ condemned' \subseteq Backups
    BY <1>2, <1>3 DEF VaultInv, VaultTypes
<1>11. DirInv' /\ HoldInv' /\ \A c \in Backups : HoldOf(c)' = HoldOf(c)
    BY <1>1, <1>10, DirsStay, HoldsStay
<1>12. VaultTypes'
    BY <1>1, <1>5, <1>10 DEF VaultInv, VaultTypes
<1>13. MakingOK' /\ VerifyingOK'
    BY <1>6 DEF MakingOK, VerifyingOK, Making, Verifying
<1>14. FlagsOK'
    BY <1>1, <1>4, <1>6, <1>7, <1>8 DEF FlagsOK
<1>15. SessionInv'
    BY <1>3, <1>6, <1>9, <1>11, <1>13, <1>14 DEF SessionInv, Making, Verifying
<1> QED BY <1>11, <1>12, <1>15 DEF VaultInv

\* A condemned directory that nobody holds loses a part.
LEMMA RemoveKeeps == ASSUME VaultInv, RemoveEntry PROVE VaultInv'
<1> DEFINE b == session.b
<1>1. session.pc = "remove" /\ UNCHANGED <<holds, restores, history>>
    BY DEF RemoveEntry, SessionAt
<1>2. b \in Backups /\ b \in condemned /\ HoldOf(b) = {} /\ ~ session.checks /\ ~ session.cleanup
      /\ session.database <= sessions
    BY <1>1 DEF VaultInv, VaultTypes, SessionInv, FlagsOK
<1>3. session \in Sessions /\ vault[b] \in Dirs
    BY <1>2 DEF VaultInv, VaultTypes
<1>4. (session' = session \/ Step("delete")) /\ (Trouble \/ UNCHANGED troubles)
    BY DEF RemoveEntry
<1>5. session' \in Sessions /\ session'.pc \in {"delete", "remove"} /\ session'.b = b
      /\ session'.database = session.database /\ session'.checks = session.checks /\ session'.cleanup = session.cleanup
    BY <1>1, <1>3, <1>4, StepRecord DEF Step, SessionPcs
<1>6. UNCHANGED vault \/ \E d \in Dirs :
        Dir(b, d) /\ (d.proofs = <<>> \/ (d.proofs = vault[b].proofs /\ d.schema = vault[b].schema))
  <2>1. ASSUME NEW f \in vault[b].files, Dir(b, [vault[b] EXCEPT !.files = vault[b].files \ {f}]) PROVE <1>6!2
    <3> DEFINE d == [vault[b] EXCEPT !.files = vault[b].files \ {f}]
    <3>1. d \in Dirs /\ d.proofs = vault[b].proofs /\ d.schema = vault[b].schema
        BY <1>3 DEF Dirs
    <3> QED BY <2>1, <3>1
  <2>2. CASE Dir(b, [vault[b] EXCEPT !.proofs = <<>>])
    <3> DEFINE d == [vault[b] EXCEPT !.proofs = <<>>]
    <3>1. << >> \in Seq(Proofs)
        OBVIOUS
    <3>2. d \in Dirs /\ d.proofs = <<>>
        BY <1>3, <3>1 DEF Dirs
    <3> QED BY <2>2, <3>2
  <2>3. CASE Dir(b, NoDir)
      BY <2>3, ClosedRecord
  <2> QED BY <2>1, <2>2, <2>3 DEF RemoveEntry
<1>7. vault' \in [Backups -> Dirs] /\ DirInv' /\ HoldInv'
  <2>1. CASE UNCHANGED vault
      BY <1>1, <2>1, DirsStay, HoldsStay DEF VaultInv, VaultTypes, history
  <2>2. ASSUME NEW d \in Dirs, Dir(b, d), d.proofs = <<>> \/ (d.proofs = vault[b].proofs /\ d.schema = vault[b].schema)
        PROVE  vault' \in [Backups -> Dirs] /\ DirInv' /\ HoldInv'
    <3>1. vault' \in [Backups -> Dirs] /\ vault'[b] = d /\ \A c \in Backups : c # b => vault'[c] = vault[c]
        BY <1>2, <2>2, DirChange DEF VaultInv
    <3>2. \A c \in Backups : c = b => DirOK(c)'
      <4>1. CASE d.proofs = <<>>
        <5>1. Len(d.proofs) = 0
            BY <4>1
        <5> QED BY <1>1, <1>2, <3>1, <5>1 DEF DirOK, history
      <4>2. CASE d.proofs = vault[b].proofs /\ d.schema = vault[b].schema
          BY <1>1, <1>2, <3>1, <4>2 DEF VaultInv, DirInv, DirOK, ProofOK, history
      <4> QED BY <2>2, <4>1, <4>2
    <3>3. \A c \in Backups : DirOK(c)'
      <4>1. \A c \in Backups : c # b => DirOK(c)'
          BY <1>1, <3>1 DEF VaultInv, DirInv, DirOK, ProofOK, history
      <4> QED BY <3>2, <4>1
    <3>4. \A h \in holds : HoldOK(h)'
        BY <1>2, <3>1 DEF VaultInv, VaultTypes, HoldInv, HoldOK, Holds, HoldOf
    <3> QED BY <1>1, <3>1, <3>3, <3>4 DEF DirInv, HoldInv
  <2> QED BY <1>6, <2>1, <2>2
<1>8. VaultTypes'
    BY <1>1, <1>4, <1>5, <1>7, TroubleCount DEF VaultInv, VaultTypes, history
<1>9. SessionInv'
  <2>1. MakingOK' /\ VerifyingOK'
      BY <1>5 DEF MakingOK, VerifyingOK, Making, Verifying
  <2>2. FlagsOK'
      BY <1>1, <1>2, <1>5 DEF FlagsOK, history
  <2> QED BY <1>1, <1>2, <1>5, <2>1, <2>2 DEF SessionInv, Making, Verifying, HoldOf, history
<1> QED BY <1>7, <1>8, <1>9 DEF VaultInv

-----------------------------------------------------------------------------

\* The first state of the vault.
LEMMA VaultStarts == VaultInit => VaultInv
<1> SUFFICES ASSUME VaultInit PROVE VaultInv
    OBVIOUS
<1>1. VaultTypes /\ session = Closed /\ holds = {} /\ \A b \in Backups : vault[b] = NoDir
    BY ClosedRecord DEF VaultInit, VaultTypes
<1>2. DirInv /\ HoldInv
    BY <1>1, ClosedRecord DEF DirInv, DirOK, HoldInv
<1>3. SessionInv
    BY <1>1, ClosedRecord DEF SessionInv, MakingOK, VerifyingOK, FlagsOK, Making, Verifying, VaultTypes
<1> QED BY <1>1, <1>2, <1>3 DEF VaultInv

\* Every step of a session.
LEMMA VaultStepKeeps == ASSUME VaultInv, VaultStep PROVE VaultInv'
<1>1. CASE PruneDone
    BY <1>1, ClosesKeeps DEF PruneDone, history
<1> QED BY <1>1, MakeDirKeeps, DumpKeeps, WriteManifestKeeps, PublishKeeps, LoadKeeps, CreateDatabaseKeeps, RestoreKeeps,
           ReadHeadsKeeps, ChecksKeeps, DropKeeps, AttestPassedKeeps, AttestFailedKeeps, AcquireKeeps, ReleaseKeeps,
           PickKeeps, RemoveKeeps DEF VaultStep

\* Every step of the vault.
LEMMA VaultNextKeeps == ASSUME VaultInv, VaultNext PROVE VaultInv'
<1>1. Unread \in Heads /\ 0 \in Nat /\ Backups \subseteq Nat /\ \A e \in Schemas : e \in Heads
    BY DEF Heads, Backups
<1>2. CASE OpenSession("create", 0, Unread, Unread) \/ OpenSession("prune", 0, Unread, Unread)
    BY <1>1, <1>2, OpenKeeps
<1>3. ASSUME NEW b \in Backups, NEW e \in Schemas, NEW f \in Schemas, OpenSession("verify", b, e, f) PROVE VaultInv'
    BY <1>1, <1>3, OpenKeeps
<1>4. ASSUME NEW e \in Schemas, NEW f \in Schemas, OpenSession("migrate", 0, e, f) PROVE VaultInv'
    BY <1>1, <1>4, OpenKeeps
<1>5. ASSUME NEW b \in Backups, OpenSession("release", b, Unread, Unread) PROVE VaultInv'
    BY <1>1, <1>5, OpenKeeps
<1> QED BY <1>2, <1>3, <1>4, <1>5, VaultStepKeeps, KillKeeps, DecayKeeps DEF VaultNext

\* Every session of the backup command, killed or failing at any statement, leaves the
\* backup root, its holds and its restore databases within the invariant.
THEOREM VaultInvariance == VaultSpec => []VaultInv
<1>1. ASSUME VaultInv, [VaultNext]_vaultVars PROVE VaultInv'
  <2>1. CASE UNCHANGED vaultVars
    <3>1. VaultTypes' /\ DirInv' /\ HoldInv' /\ (Fresh => Fresh') /\ \A b \in Backups : HoldOf(b)' = HoldOf(b)
        BY <1>1, <2>1, StepTypes DEF vaultVars, VaultInv, VaultTypes
    <3>2. SessionInv'
        BY <1>1, <2>1, <3>1 DEF vaultVars, VaultInv, SessionInv, MakingOK, VerifyingOK, FlagsOK, HoldOf
    <3> QED BY <3>1, <3>2 DEF VaultInv
  <2> QED BY <1>1, <2>1, VaultNextKeeps
<1> QED BY <1>1, VaultStarts, PTL DEF VaultSpec

\* For any number of backups, schemas and sessions: a published backup is whole, a passed
\* attestation proves the dump beside it, and a hold names a proof that passed.
THEOREM SoundVault == VaultSpec => []VaultIsSound
<1>1. ASSUME VaultInv PROVE VaultIsSound
  <2>1. \A b \in Backups : DOMAIN vault[b].proofs = 1..Len(vault[b].proofs)
      BY <1>1 DEF VaultInv, VaultTypes, Dirs
  <2>2. \A b \in Backups : DirOK(b)
      BY <1>1 DEF VaultInv, DirInv
  <2>3. PublishedIsWhole
      BY <2>2 DEF DirOK, PublishedIsWhole
  <2>4. PassedIsProof
      BY <2>1, <2>2 DEF DirOK, ProofOK, PassedIsProof
  <2>5. LeftoversAreReported
      BY <2>1, <2>2 DEF DirOK, ProofOK, LeftoversAreReported
  <2>6. HeldBackupStays
      BY <1>1, <2>1 DEF VaultInv, VaultTypes, HoldInv, HoldOK, Holds, HeldBackupStays
  <2> QED BY <2>3, <2>4, <2>5, <2>6 DEF VaultIsSound
<1> QED BY <1>1, VaultInvariance, PTL

-----------------------------------------------------------------------------
(* The host: the inductive invariant *)

\* Values of the runtime configuration, the first of which is chosen in Init.
Values == Settings \cup {CHOOSE s \in Settings : TRUE}
Schemata == AllHeads \cup {NoSchema, Partial}

MigStatus ==
    {MigrationLine[i] : i \in 1..11} \cup {"none", "failed", "migration_requires_recovery"}
MigrationJournals ==
    [target : Releases, from : AllHeads, before : {"indented"} \X CurrentStates,
     after : {"compact"} \X CurrentStates, status : MigStatus,
     result : {"none", "committed", "failed", "migration_requires_recovery"},
     resolved : BOOLEAN, hold : {"none", "active", "released"}, backup : Nat]
BootstrapJournals ==
    [target : Releases,
     status : {"none", "planned", "postgres_started", "freshness_verified", "schema_started",
               "schema_completed", "target_heads_verified", "committed", "failed",
               "requires_recovery"},
     result : {"none", "committed", "failed", "requires_recovery"}]
ConfigJournals ==
    [target : Values, old : Values,
     status : {"none", "planned", "activating", "stabilizing", "committed", "failed",
               "rollback_started", "rolled_back", "rollback_failed"},
     result : {"none", "committed", "failed", "rolled_back", "rollback_failed"}]
Runtimes ==
    [env : Values, running : Values, state : [values : Values, deployment : Nat] \cup {None}]
Dumps == [n : Nat \ {0}, heads : Schemata, verify : {"none", "passed", "failed"}]

\* A process is a record of these six fields; what `saw' holds depends on the tool.
ProcShape ==
    /\ proc = [p \in Procs |-> proc[p]]
    /\ \A p \in Procs :
         proc[p] = [op |-> proc[p].op, pc |-> proc[p].pc, rel |-> proc[p].rel,
                    act |-> proc[p].act, id |-> proc[p].id, saw |-> proc[p].saw]

HostTypes ==
    /\ current \in CurrentStates \cup {None}
    /\ live \in Schemata
    /\ app \in Tiers /\ gateway \in Releases \cup {None}
    /\ deployments \in Seq(DeploymentJournals)
    /\ migrations \in Seq(MigrationJournals)
    /\ bootstraps \in Seq(BootstrapJournals)
    /\ configs \in Seq(ConfigJournals)
    /\ config \in Runtimes
    /\ backups \subseteq Dumps /\ made \in Nat
    /\ rolloutLock \in Procs \cup {None} /\ backupLock \in Procs \cup {None}
    /\ ProcShape

\* The steps a tool takes under the rollout lock, and those under the lock of the
\* backup root.
Locked(p) ==
    \/ proc[p].op \in {"rollout", "recover", "bootstrap", "config"} /\ proc[p].pc # "lock"
    \/ proc[p].op = "recover_migration" /\ proc[p].pc # "lock"
    \/ /\ proc[p].op = "migrate"
       /\ proc[p].pc \in {"run", "backup", "verify", "hold", "upgrade", "check", "commit", "result"}
BackupLocked(p) ==
    \/ proc[p].op = "migrate" /\ proc[p].pc \in {"verify", "hold"}
    \/ proc[p].op \in {"backup", "verify", "prune"} /\ proc[p].pc # "lock"

LockInv ==
    \A p \in Procs : (Locked(p) => rolloutLock = p) /\ (BackupLocked(p) => backupLock = p)

-----------------------------------------------------------------------------
(* What each tool may rely on at each of its steps *)

\* The release is in the saved envelope.
Vouched(r) == current # None /\ r \in current.envelope

\* What the gates of a rollout established still holds when it publishes.
GatesHold(dep) ==
    IF current = None THEN dep.heads = live
    ELSE live = current.heads /\ Compatible(dep.target, SourceHeads[dep.target], current)

Going == {"none", "planned", "initializing_storage", "activating_app", "app_healthy",
          "activating_gateway", "stabilizing"}

RolloutOK(p) ==
    /\ proc[p].rel \in Releases
    /\ proc[p].pc # "lock" =>
         /\ proc[p].id \in DOMAIN deployments /\ proc[p].id = Len(deployments)
         /\ Dep(p).result = "none"
    /\ proc[p].pc = "run" => Dep(p).status \in Going /\ GatesHold(Dep(p))
    /\ proc[p].pc = "publish" => Dep(p).status = "stabilizing" /\ GatesHold(Dep(p)) /\ Runs(Dep(p).target)
    /\ proc[p].pc \in {"commit", "result"} => Vouched(Dep(p).target) /\ Runs(Dep(p).target)
    /\ proc[p].pc = "cleaned" => app = None /\ gateway = None
    /\ proc[p].pc = "rollback_gateway" => Dep(p).prev # None /\ app = Dep(p).prev
    /\ proc[p].pc = "rollback_result" => Dep(p).prev # None /\ Runs(Dep(p).prev)

\* The release a recovery leaves running.
Kept(p) == IF proc[p].act = "accept_target" THEN Dep(p).target ELSE Dep(p).prev

RecoverOK(p) ==
    /\ proc[p].id \in DOMAIN deployments
    /\ proc[p].act \in {"accept_target", "rollback"}
    /\ proc[p].pc # "lock" => Recoverable(Dep(p))
    /\ proc[p].pc \in {"accept_target", "rollback"} => proc[p].act = proc[p].pc
    /\ proc[p].pc \in {"rollback_gateway", "rollback_publish"} =>
         proc[p].act = "rollback" /\ Vouched(Dep(p).prev) /\ Dep(p).prev # None /\ app = Dep(p).prev
    /\ proc[p].pc = "rollback_publish" => gateway = Dep(p).prev
    /\ proc[p].pc \in {"resolve", "result"} => Kept(p) # None /\ Vouched(Kept(p)) /\ Runs(Kept(p))
    /\ proc[p].pc = "result" => Dep(p).result = "none"

Migrates(p) == proc[p].op = "migrate" /\ proc[p].pc # "lock"

\* A migration that has published its result, or is about to.
Late == {"state_committed", "committed"}

MigrateOK(p) ==
    /\ proc[p].rel \in Releases
    /\ proc[p].pc # "lock" => proc[p].id \in DOMAIN migrations
    /\ Locked(p) => Mig(p).result = "none"
    /\ proc[p].pc = "run" => Mig(p).status \in {"none", "planned"}
    /\ proc[p].pc \in {"backup", "verify"} => Mig(p).status = "backup_started"
    /\ proc[p].pc = "verify" => proc[p].saw \in 1..made
    /\ proc[p].pc = "hold" =>
         /\ Mig(p).status = "backup_verified"
         /\ \E b \in backups : b.n = Mig(p).backup /\ b.heads = Mig(p).from
    /\ proc[p].pc = "upgrade" => Mig(p).status \in {"hold_acquired", "pre_migration_revalidated"}
    /\ proc[p].pc = "check" => Mig(p).status \in PostMutation /\ live = SourceHeads[Mig(p).target]
    /\ proc[p].pc = "commit" => Mig(p).status \in {"application_stabilized", "state_committed"}
    /\ proc[p].pc = "result" => Mig(p).status = "committed"
    /\ proc[p].pc \in {"commit", "result"} => current # None /\ live = current.heads
    /\ proc[p].pc = "release" => Mig(p).result \in {"committed", "failed"}

MigrationRecoverOK(p) ==
    /\ proc[p].id \in DOMAIN migrations
    /\ proc[p].act \in {"accept_source", "accept_target", "release_hold"}
    /\ proc[p].act = "release_hold" => Mig(p).result = "committed"
    /\ proc[p].act # "release_hold" => Mig(p).status \in Late \/ Mig(p).result = "migration_requires_recovery"
    /\ proc[p].pc = "resolve" => proc[p].act # "release_hold" /\ current # None /\ live = current.heads
    /\ proc[p].pc = "release" => Mig(p).status \in Late \/ proc[p].id \notin UnresolvedMigrations

BootstrapOK(p) ==
    /\ proc[p].rel \in Releases
    /\ proc[p].pc # "lock" => proc[p].id \in DOMAIN bootstraps /\ current = None
    /\ proc[p].pc \in {"schema_done", "verify", "commit", "result"} => live # NoSchema

ConfigOK(p) ==
    /\ proc[p].saw.target \in Values
    /\ proc[p].pc # "lock" => proc[p].id \in DOMAIN configs /\ current # None
    /\ proc[p].pc = "lock" => proc[p].id = 0
    /\ proc[p].pc = "run" /\ Cfg(p).status = "stabilizing" => config.running = Cfg(p).target
    /\ proc[p].pc \in {"commit", "result", "state"} => config.running = Cfg(p).target
    /\ proc[p].pc = "rollback_result" =>
         /\ Cfg(p).status \in {"rolled_back", "rollback_failed"}
         /\ Cfg(p).status = "rolled_back" => config.running = Cfg(p).old

\* What prune is about to delete is not held and not the best there is.
PruneOK(p) ==
    proc[p].pc # "lock" =>
      \A b \in proc[p].saw :
        b \in backups /\ ~ Held(b.n) /\ b \notin Newest(backups) /\ b \notin Newest(PassedBackups)

ProcOK(p) ==
    /\ proc[p].op = "rollout" => RolloutOK(p)
    /\ proc[p].op = "recover" => RecoverOK(p)
    /\ proc[p].op = "migrate" => MigrateOK(p)
    /\ proc[p].op = "recover_migration" => MigrationRecoverOK(p)
    /\ proc[p].op = "bootstrap" => BootstrapOK(p)
    /\ proc[p].op = "config" => ConfigOK(p)
    /\ proc[p].op = "prune" => PruneOK(p)

-----------------------------------------------------------------------------
(* What the journals and the saved state say, whoever runs *)

\* One transaction at most is unresolved, and no deployment but the last.
OneUnresolved ==
    /\ \A i, j \in UnresolvedDeployments : i = j
    /\ \A i, j \in UnresolvedMigrations : i = j
    /\ \A i, j \in UnresolvedBootstraps : i = j
    /\ UnresolvedDeployments = {} \/ UnresolvedMigrations = {}
    /\ UnresolvedDeployments = {} \/ UnresolvedBootstraps = {}
    /\ UnresolvedMigrations = {} \/ UnresolvedBootstraps = {}
LastUnresolved == \A i \in UnresolvedDeployments : i = Len(deployments)

\* Only a failed rollback is resolved by its sub-journal.
DeploymentsOK ==
    \A i \in DOMAIN deployments :
      deployments[i].resolved => deployments[i].result = "rollback_failed"

\* Applications that may have to run again are in the envelope.
EnvelopeInv ==
    /\ current # None => current.app \in current.envelope
    /\ \A i \in DOMAIN deployments : deployments[i].prev # None => Vouched(deployments[i].prev)

\* The tier that runs when no transaction has touched it is vouched for.
TierInv ==
    (\A i \in UnresolvedDeployments : deployments[i].status \in BeforeMutation) =>
      (current # None /\ app \in Releases => app \in current.envelope)

\* Status and result of a migration fit, and it starts from what its plan has read.
MigrationsOK ==
    \A i \in DOMAIN migrations :
      /\ (migrations[i].result = "failed") <=> (migrations[i].status = "failed")
      /\ (migrations[i].result = "migration_requires_recovery")
           <=> (migrations[i].status = "migration_requires_recovery")
      /\ migrations[i].result = "committed" => migrations[i].status \in Late
      /\ migrations[i].backup <= made
      /\ migrations[i].before[2].heads = migrations[i].from
      /\ migrations[i].resolved => migrations[i].status \in Late \cup {"migration_requires_recovery"}
      /\ migrations[i].status = "none" => migrations[i].hold = "none"

\* No two live migrations write the same journal.
JournalsAreOwned ==
    \A p, q \in Procs :
      p # q /\ Migrates(p) /\ Migrates(q) => proc[p].id # proc[q].id

\* Until a migration reaches Alembic the database is as saved.
BaseInv ==
    (\A i \in UnresolvedMigrations : migrations[i].status \in PreMutation \cup {"none"}) =>
      (current # None => live = current.heads)

\* From its hold to its end a migration has its backup.
HeldFrom ==
    {"hold_acquired", "pre_migration_revalidated", "migration_requires_recovery"} \cup PostMutation
RestoreInv ==
    \A i \in UnresolvedMigrations :
      migrations[i].status \in HeldFrom =>
        /\ migrations[i].hold = "active"
        /\ \E b \in backups : b.n = migrations[i].backup /\ b.heads = migrations[i].from

\* A database that was bootstrapped has a schema.
BootInv == \A i \in DOMAIN bootstraps : bootstraps[i].result = "committed" => live # NoSchema

BackupsInv == \A b \in backups : b.n <= made

\* All that does not mention the running tools.
SavedOK ==
    /\ OneUnresolved /\ LastUnresolved /\ DeploymentsOK /\ EnvelopeInv /\ TierInv
    /\ TiersMatchJournal
    /\ MigrationsOK /\ BaseInv /\ RestoreInv /\ BootInv /\ BackupsInv

HostInv ==
    /\ HostTypes /\ LockInv /\ JournalsAreOwned /\ SavedOK
    /\ \A p \in Procs : ProcOK(p)
-----------------------------------------------------------------------------
(* The host: how a step moves a process and rewrites a journal *)

\* A step of p leaves the memory of every other process alone.
Moves(p) == ProcShape' /\ \A q \in Procs \ {p} : proc'[q] = proc[q]

\* Only the program counter of p changes.
Advances(p, pc) ==
    /\ proc'[p].pc = pc /\ proc'[p].op = proc[p].op /\ proc'[p].rel = proc[p].rel
    /\ proc'[p].act = proc[p].act /\ proc'[p].id = proc[p].id /\ proc'[p].saw = proc[p].saw

\* The process goes on with this in its memory.
Becomes(p, pc, act, id, saw) ==
    /\ proc'[p].pc = pc /\ proc'[p].op = proc[p].op /\ proc'[p].rel = proc[p].rel
    /\ proc'[p].act = act /\ proc'[p].id = id /\ proc'[p].saw = saw

\* Any update of one process's record.
LEMMA SetProc ==
    ASSUME ProcShape, NEW p \in Procs, NEW r, r = [op |-> r.op, pc |-> r.pc, rel |-> r.rel, act |-> r.act, id |-> r.id, saw |-> r.saw],
           proc' = [proc EXCEPT ![p] = r]
    PROVE  Moves(p) /\ proc'[p] = r
<1>1. DOMAIN proc = Procs
  BY DEF ProcShape
<1>2. proc'[p] = r /\ \A q \in Procs \ {p} : proc'[q] = proc[q]
  BY <1>1
<1>3. proc' = [q \in Procs |-> proc'[q]]
  BY <1>1
<1>4. \A q \in Procs : proc'[q] = [op |-> proc'[q].op, pc |-> proc'[q].pc, rel |-> proc'[q].rel,
                    act |-> proc'[q].act, id |-> proc'[q].id, saw |-> proc'[q].saw]
  BY <1>2 DEF ProcShape
<1> QED
  BY <1>2, <1>3, <1>4 DEF Moves, ProcShape

\* The same with the fields given.
LEMMA SetFields ==
    ASSUME ProcShape, NEW p \in Procs, NEW op, NEW pc, NEW rel, NEW act, NEW id, NEW saw,
           proc' = [proc EXCEPT ![p] = [op |-> op, pc |-> pc, rel |-> rel, act |-> act,
                                        id |-> id, saw |-> saw]]
    PROVE  /\ Moves(p)
           /\ proc'[p].op = op /\ proc'[p].pc = pc /\ proc'[p].rel = rel
           /\ proc'[p].act = act /\ proc'[p].id = id /\ proc'[p].saw = saw
<1> DEFINE r == [op |-> op, pc |-> pc, rel |-> rel, act |-> act, id |-> id, saw |-> saw]
<1>1. r = [op |-> r.op, pc |-> r.pc, rel |-> r.rel, act |-> r.act, id |-> r.id, saw |-> r.saw]
  OBVIOUS
<1>2. /\ r.op = op /\ r.pc = pc /\ r.rel = rel /\ r.act = act /\ r.id = id /\ r.saw = saw
  OBVIOUS
<1>3. proc' = [proc EXCEPT ![p] = r]
  OBVIOUS
<1> HIDE DEF r
<1> QED
  BY <1>1, <1>2, <1>3, SetProc

\* Records of processes with one field replaced.
LEMMA PutPc ==
    ASSUME NEW r, r = [op |-> r.op, pc |-> r.pc, rel |-> r.rel, act |-> r.act, id |-> r.id, saw |-> r.saw], NEW pc
    PROVE  [r EXCEPT !.pc = pc] = [op |-> r.op, pc |-> pc, rel |-> r.rel, act |-> r.act, id |-> r.id, saw |-> r.saw]
<1>1. r \in [op : {r.op}, pc : {r.pc}, rel : {r.rel}, act : {r.act}, id : {r.id}, saw : {r.saw}]
  OBVIOUS
<1> QED
  BY <1>1

\* The same for its number.
LEMMA PutId ==
    ASSUME NEW r, r = [op |-> r.op, pc |-> r.pc, rel |-> r.rel, act |-> r.act, id |-> r.id, saw |-> r.saw], NEW id
    PROVE  [r EXCEPT !.id = id] = [op |-> r.op, pc |-> r.pc, rel |-> r.rel, act |-> r.act, id |-> id, saw |-> r.saw]
<1>1. r \in [op : {r.op}, pc : {r.pc}, rel : {r.rel}, act : {r.act}, id : {r.id}, saw : {r.saw}]
  OBVIOUS
<1> QED
  BY <1>1

\* The same for what it has read.
LEMMA PutSaw ==
    ASSUME NEW r, r = [op |-> r.op, pc |-> r.pc, rel |-> r.rel, act |-> r.act, id |-> r.id, saw |-> r.saw], NEW saw
    PROVE  [r EXCEPT !.saw = saw] = [op |-> r.op, pc |-> r.pc, rel |-> r.rel, act |-> r.act, id |-> r.id, saw |-> saw]
<1>1. r \in [op : {r.op}, pc : {r.pc}, rel : {r.rel}, act : {r.act}, id : {r.id}, saw : {r.saw}]
  OBVIOUS
<1> QED
  BY <1>1

\* The same for its variant.
LEMMA PutAct ==
    ASSUME NEW r, r = [op |-> r.op, pc |-> r.pc, rel |-> r.rel, act |-> r.act, id |-> r.id, saw |-> r.saw], NEW act
    PROVE  [r EXCEPT !.act = act] = [op |-> r.op, pc |-> r.pc, rel |-> r.rel, act |-> act, id |-> r.id, saw |-> r.saw]
<1>1. r \in [op : {r.op}, pc : {r.pc}, rel : {r.rel}, act : {r.act}, id : {r.id}, saw : {r.saw}]
  OBVIOUS
<1> QED
  BY <1>1

\* A step that only moves on.
LEMMA SetPc ==
    ASSUME ProcShape, NEW p \in Procs, NEW pc, proc' = [proc EXCEPT ![p].pc = pc]
    PROVE  Moves(p) /\ Advances(p, pc)
<1> DEFINE r == proc[p]
           e == [op |-> r.op, pc |-> pc, rel |-> r.rel, act |-> r.act, id |-> r.id, saw |-> r.saw]
           m == [op |-> r.op, pc |-> pc, rel |-> r.rel, act |-> r.act, id |-> r.id, saw |-> r.saw]
<1>1. r = [op |-> r.op, pc |-> r.pc, rel |-> r.rel, act |-> r.act, id |-> r.id, saw |-> r.saw]
  BY DEF ProcShape
<1>2. e = [op |-> e.op, pc |-> e.pc, rel |-> e.rel, act |-> e.act, id |-> e.id, saw |-> e.saw] /\ e.op = r.op /\ e.pc = pc /\ e.rel = r.rel /\ e.act = r.act /\ e.id = r.id /\ e.saw = r.saw
  OBVIOUS
<1>3. m = [op |-> m.op, pc |-> m.pc, rel |-> m.rel, act |-> m.act, id |-> m.id, saw |-> m.saw] /\ m.op = r.op /\ m.pc = pc /\ m.rel = r.rel /\ m.act = r.act /\ m.id = r.id /\ m.saw = r.saw
  OBVIOUS
<1>4. proc' = [proc EXCEPT ![p] = [r EXCEPT !.pc = pc]]
  OBVIOUS
<1> HIDE DEF r
<1>5. [r EXCEPT !.pc = pc] = e
  BY <1>1, PutPc
<1> HIDE DEF e, m
<1>6. proc' = [proc EXCEPT ![p] = e]
  BY <1>4, <1>5, Zenon
<1>7. Moves(p) /\ proc'[p] = e
  BY <1>2, <1>6, SetProc
<1> QED
  BY <1>2, <1>7 DEF r, Advances

\* A step that moves on with a journal of its own.
LEMMA SetPcId ==
    ASSUME ProcShape, NEW p \in Procs, NEW pc, NEW id, proc' = [proc EXCEPT ![p].pc = pc, ![p].id = id]
    PROVE  Moves(p) /\ Becomes(p, pc, proc[p].act, id, proc[p].saw)
<1> DEFINE r == proc[p]
           e == [op |-> r.op, pc |-> pc, rel |-> r.rel, act |-> r.act, id |-> id, saw |-> r.saw]
           m == [op |-> r.op, pc |-> pc, rel |-> r.rel, act |-> r.act, id |-> r.id, saw |-> r.saw]
<1>1. r = [op |-> r.op, pc |-> r.pc, rel |-> r.rel, act |-> r.act, id |-> r.id, saw |-> r.saw]
  BY DEF ProcShape
<1>2. e = [op |-> e.op, pc |-> e.pc, rel |-> e.rel, act |-> e.act, id |-> e.id, saw |-> e.saw] /\ e.op = r.op /\ e.pc = pc /\ e.rel = r.rel /\ e.act = r.act /\ e.id = id /\ e.saw = r.saw
  OBVIOUS
<1>3. m = [op |-> m.op, pc |-> m.pc, rel |-> m.rel, act |-> m.act, id |-> m.id, saw |-> m.saw] /\ m.op = r.op /\ m.pc = pc /\ m.rel = r.rel /\ m.act = r.act /\ m.id = r.id /\ m.saw = r.saw
  OBVIOUS
<1>4. proc' = [proc EXCEPT ![p] = [[r EXCEPT !.pc = pc] EXCEPT !.id = id]]
  OBVIOUS
<1> HIDE DEF r
<1>a. [r EXCEPT !.pc = pc] = m
  BY <1>1, PutPc
<1> HIDE DEF m
<1>b. [m EXCEPT !.id = id] = [op |-> m.op, pc |-> m.pc, rel |-> m.rel, act |-> m.act, id |-> id, saw |-> m.saw]
  BY <1>3, PutId
<1>5. [m EXCEPT !.id = id] = e
  BY <1>3, <1>b, Zenon
<1> HIDE DEF e
<1>6. proc' = [proc EXCEPT ![p] = e]
  BY <1>4, <1>a, <1>5, Zenon
<1>7. Moves(p) /\ proc'[p] = e
  BY <1>2, <1>6, SetProc
<1> QED
  BY <1>2, <1>7 DEF r, Becomes

\* A step that moves on and remembers something.
LEMMA SetPcSaw ==
    ASSUME ProcShape, NEW p \in Procs, NEW pc, NEW saw, proc' = [proc EXCEPT ![p].pc = pc, ![p].saw = saw]
    PROVE  Moves(p) /\ Becomes(p, pc, proc[p].act, proc[p].id, saw)
<1> DEFINE r == proc[p]
           e == [op |-> r.op, pc |-> pc, rel |-> r.rel, act |-> r.act, id |-> r.id, saw |-> saw]
           m == [op |-> r.op, pc |-> pc, rel |-> r.rel, act |-> r.act, id |-> r.id, saw |-> r.saw]
<1>1. r = [op |-> r.op, pc |-> r.pc, rel |-> r.rel, act |-> r.act, id |-> r.id, saw |-> r.saw]
  BY DEF ProcShape
<1>2. e = [op |-> e.op, pc |-> e.pc, rel |-> e.rel, act |-> e.act, id |-> e.id, saw |-> e.saw] /\ e.op = r.op /\ e.pc = pc /\ e.rel = r.rel /\ e.act = r.act /\ e.id = r.id /\ e.saw = saw
  OBVIOUS
<1>3. m = [op |-> m.op, pc |-> m.pc, rel |-> m.rel, act |-> m.act, id |-> m.id, saw |-> m.saw] /\ m.op = r.op /\ m.pc = pc /\ m.rel = r.rel /\ m.act = r.act /\ m.id = r.id /\ m.saw = r.saw
  OBVIOUS
<1>4. proc' = [proc EXCEPT ![p] = [[r EXCEPT !.pc = pc] EXCEPT !.saw = saw]]
  OBVIOUS
<1> HIDE DEF r
<1>a. [r EXCEPT !.pc = pc] = m
  BY <1>1, PutPc
<1> HIDE DEF m
<1>b. [m EXCEPT !.saw = saw] = [op |-> m.op, pc |-> m.pc, rel |-> m.rel, act |-> m.act, id |-> m.id, saw |-> saw]
  BY <1>3, PutSaw
<1>5. [m EXCEPT !.saw = saw] = e
  BY <1>3, <1>b, Zenon
<1> HIDE DEF e
<1>6. proc' = [proc EXCEPT ![p] = e]
  BY <1>4, <1>a, <1>5, Zenon
<1>7. Moves(p) /\ proc'[p] = e
  BY <1>2, <1>6, SetProc
<1> QED
  BY <1>2, <1>7 DEF r, Becomes

\* A step that moves on and changes its variant.
LEMMA SetPcAct ==
    ASSUME ProcShape, NEW p \in Procs, NEW pc, NEW act, proc' = [proc EXCEPT ![p].pc = pc, ![p].act = act]
    PROVE  Moves(p) /\ Becomes(p, pc, act, proc[p].id, proc[p].saw)
<1> DEFINE r == proc[p]
           e == [op |-> r.op, pc |-> pc, rel |-> r.rel, act |-> act, id |-> r.id, saw |-> r.saw]
           m == [op |-> r.op, pc |-> pc, rel |-> r.rel, act |-> r.act, id |-> r.id, saw |-> r.saw]
<1>1. r = [op |-> r.op, pc |-> r.pc, rel |-> r.rel, act |-> r.act, id |-> r.id, saw |-> r.saw]
  BY DEF ProcShape
<1>2. e = [op |-> e.op, pc |-> e.pc, rel |-> e.rel, act |-> e.act, id |-> e.id, saw |-> e.saw] /\ e.op = r.op /\ e.pc = pc /\ e.rel = r.rel /\ e.act = act /\ e.id = r.id /\ e.saw = r.saw
  OBVIOUS
<1>3. m = [op |-> m.op, pc |-> m.pc, rel |-> m.rel, act |-> m.act, id |-> m.id, saw |-> m.saw] /\ m.op = r.op /\ m.pc = pc /\ m.rel = r.rel /\ m.act = r.act /\ m.id = r.id /\ m.saw = r.saw
  OBVIOUS
<1>4. proc' = [proc EXCEPT ![p] = [[r EXCEPT !.pc = pc] EXCEPT !.act = act]]
  OBVIOUS
<1> HIDE DEF r
<1>a. [r EXCEPT !.pc = pc] = m
  BY <1>1, PutPc
<1> HIDE DEF m
<1>b. [m EXCEPT !.act = act] = [op |-> m.op, pc |-> m.pc, rel |-> m.rel, act |-> act, id |-> m.id, saw |-> m.saw]
  BY <1>3, PutAct
<1>5. [m EXCEPT !.act = act] = e
  BY <1>3, <1>b, Zenon
<1> HIDE DEF e
<1>6. proc' = [proc EXCEPT ![p] = e]
  BY <1>4, <1>a, <1>5, Zenon
<1>7. Moves(p) /\ proc'[p] = e
  BY <1>2, <1>6, SetProc
<1> QED
  BY <1>2, <1>7 DEF r, Becomes

\* A step that stays where it is and remembers something.
LEMMA SetSaw ==
    ASSUME ProcShape, NEW p \in Procs, NEW saw, proc' = [proc EXCEPT ![p].saw = saw]
    PROVE  /\ Moves(p)
           /\ proc'[p].op = proc[p].op /\ proc'[p].pc = proc[p].pc /\ proc'[p].rel = proc[p].rel
           /\ proc'[p].act = proc[p].act /\ proc'[p].id = proc[p].id /\ proc'[p].saw = saw
<1> DEFINE r == proc[p]
           e == [op |-> r.op, pc |-> r.pc, rel |-> r.rel, act |-> r.act, id |-> r.id, saw |-> saw]
           m == [op |-> r.op, pc |-> r.pc, rel |-> r.rel, act |-> r.act, id |-> r.id, saw |-> saw]
<1>1. r = [op |-> r.op, pc |-> r.pc, rel |-> r.rel, act |-> r.act, id |-> r.id, saw |-> r.saw]
  BY DEF ProcShape
<1>2. e = [op |-> e.op, pc |-> e.pc, rel |-> e.rel, act |-> e.act, id |-> e.id, saw |-> e.saw] /\ e.op = r.op /\ e.pc = r.pc /\ e.rel = r.rel /\ e.act = r.act /\ e.id = r.id /\ e.saw = saw
  OBVIOUS
<1>3. m = [op |-> m.op, pc |-> m.pc, rel |-> m.rel, act |-> m.act, id |-> m.id, saw |-> m.saw] /\ m.op = r.op /\ m.pc = r.pc /\ m.rel = r.rel /\ m.act = r.act /\ m.id = r.id /\ m.saw = saw
  OBVIOUS
<1>4. proc' = [proc EXCEPT ![p] = [r EXCEPT !.saw = saw]]
  OBVIOUS
<1> HIDE DEF r
<1>5. [r EXCEPT !.saw = saw] = e
  BY <1>1, PutSaw
<1> HIDE DEF e, m
<1>6. proc' = [proc EXCEPT ![p] = e]
  BY <1>4, <1>5, Zenon
<1>7. Moves(p) /\ proc'[p] = e
  BY <1>2, <1>6, SetProc
<1> QED
  BY <1>2, <1>7 DEF r, Advances

\* A process that leaves is idle.
LEMMA SetIdle ==
    ASSUME ProcShape, NEW p \in Procs, Leave(p)
    PROVE  Moves(p) /\ proc'[p].op = "idle"
BY SetFields DEF Leave, Idle

\* The fields of a deployment journal after an update of entry i.
DepSet(i, st, res, rsv) ==
    /\ deployments' \in Seq(DeploymentJournals)
    /\ Len(deployments') = Len(deployments) /\ DOMAIN deployments' = DOMAIN deployments
    /\ deployments'[i].target = deployments[i].target /\ deployments'[i].heads = deployments[i].heads
    /\ deployments'[i].prev = deployments[i].prev
    /\ deployments'[i].status = st /\ deployments'[i].result = res
    /\ deployments'[i].resolved <=> rsv
    /\ \A j \in DOMAIN deployments \ {i} : deployments'[j] = deployments[j]

\* One entry of a journal is replaced.
LEMMA SeqUpdate ==
    ASSUME NEW S, NEW s \in Seq(S), NEW i \in DOMAIN s, NEW x \in S, NEW t, t = [s EXCEPT ![i] = x]
    PROVE  /\ t \in Seq(S) /\ Len(t) = Len(s) /\ DOMAIN t = DOMAIN s
           /\ t[i] = x /\ \A j \in DOMAIN s \ {i} : t[j] = s[j]
BY ExceptSeq

\* A deployment journal with one entry replaced.
LEMMA PutDep ==
    ASSUME deployments \in Seq(DeploymentJournals), NEW i \in DOMAIN deployments,
           NEW e \in DeploymentJournals, deployments' = [deployments EXCEPT ![i] = e],
           e.target = deployments[i].target, e.heads = deployments[i].heads,
           e.prev = deployments[i].prev
    PROVE  DepSet(i, e.status, e.result, e.resolved)
<1>1. /\ deployments' \in Seq(DeploymentJournals) /\ Len(deployments') = Len(deployments)
      /\ DOMAIN deployments' = DOMAIN deployments /\ deployments'[i] = e
      /\ \A j \in DOMAIN deployments \ {i} : deployments'[j] = deployments[j]
  BY SeqUpdate
<1> QED
  BY <1>1 DEF DepSet

\* An event is recorded in a deployment.
LEMMA DepStatus ==
    ASSUME deployments \in Seq(DeploymentJournals), NEW i \in DOMAIN deployments,
           NEW st \in DOMAIN DeployLegal,
           deployments' = [deployments EXCEPT ![i].status = st]
    PROVE  DepSet(i, st, deployments[i].result, deployments[i].resolved)
<1> DEFINE d == deployments[i]
           e == [d EXCEPT !.status = st]
<1>1. d \in DeploymentJournals
  OBVIOUS
<1>2. e \in DeploymentJournals
  BY <1>1 DEF DeploymentJournals
<1>3. /\ e.target = d.target /\ e.heads = d.heads /\ e.prev = d.prev
      /\ e.status = st /\ e.result = d.result
  BY <1>1 DEF DeploymentJournals
<1>4. e.resolved = d.resolved
  BY <1>1 DEF DeploymentJournals
<1>5. deployments' = [deployments EXCEPT ![i] = e]
  OBVIOUS
<1> HIDE DEF e
<1>6. DepSet(i, e.status, e.result, e.resolved)
  BY <1>2, <1>3, <1>5, PutDep
<1> QED
  BY <1>3, <1>4, <1>6

\* The result of a deployment is recorded.
LEMMA DepResult ==
    ASSUME deployments \in Seq(DeploymentJournals), NEW i \in DOMAIN deployments,
           NEW res \in Terminal \cup {"none"},
           deployments' = [deployments EXCEPT ![i].result = res]
    PROVE  DepSet(i, deployments[i].status, res, deployments[i].resolved)
<1> DEFINE d == deployments[i]
           e == [d EXCEPT !.result = res]
<1>1. d \in DeploymentJournals
  OBVIOUS
<1>2. e \in DeploymentJournals
  BY <1>1 DEF DeploymentJournals
<1>3. /\ e.target = d.target /\ e.heads = d.heads /\ e.prev = d.prev
      /\ e.status = d.status /\ e.result = res
  BY <1>1 DEF DeploymentJournals
<1>4. e.resolved = d.resolved
  BY <1>1 DEF DeploymentJournals
<1>5. deployments' = [deployments EXCEPT ![i] = e]
  OBVIOUS
<1> HIDE DEF e
<1>6. DepSet(i, e.status, e.result, e.resolved)
  BY <1>2, <1>3, <1>5, PutDep
<1> QED
  BY <1>3, <1>4, <1>6

\* Event and result of a deployment are recorded together.
LEMMA DepBoth ==
    ASSUME deployments \in Seq(DeploymentJournals), NEW i \in DOMAIN deployments,
           NEW st \in DOMAIN DeployLegal, NEW res \in Terminal \cup {"none"},
           deployments' = [deployments EXCEPT ![i].status = st, ![i].result = res]
    PROVE  DepSet(i, st, res, deployments[i].resolved)
<1> DEFINE d == deployments[i]
           e == [d EXCEPT !.status = st, !.result = res]
<1>1. d \in DeploymentJournals
  OBVIOUS
<1>2. e \in DeploymentJournals
  BY <1>1 DEF DeploymentJournals
<1>3. /\ e.target = d.target /\ e.heads = d.heads /\ e.prev = d.prev
      /\ e.status = st /\ e.result = res
  BY <1>1 DEF DeploymentJournals
<1>4. e.resolved = d.resolved
  BY <1>1 DEF DeploymentJournals
<1>5. deployments' = [deployments EXCEPT ![i] = e]
  OBVIOUS
<1> HIDE DEF e
<1>6. DepSet(i, e.status, e.result, e.resolved)
  BY <1>2, <1>3, <1>5, PutDep
<1> QED
  BY <1>3, <1>4, <1>6

\* A deployment is marked resolved.
LEMMA DepResolved ==
    ASSUME deployments \in Seq(DeploymentJournals), NEW i \in DOMAIN deployments,
           deployments' = [deployments EXCEPT ![i].resolved = TRUE]
    PROVE  DepSet(i, deployments[i].status, deployments[i].result, TRUE)
<1> DEFINE d == deployments[i]
           e == [d EXCEPT !.resolved = TRUE]
<1>1. d \in DeploymentJournals
  OBVIOUS
<1>2. e \in DeploymentJournals
  BY <1>1 DEF DeploymentJournals
<1>3. /\ e.target = d.target /\ e.heads = d.heads /\ e.prev = d.prev
      /\ e.status = d.status /\ e.result = d.result
  BY <1>1 DEF DeploymentJournals
<1>4. e.resolved = TRUE
  BY <1>1 DEF DeploymentJournals
<1>5. deployments' = [deployments EXCEPT ![i] = e]
  OBVIOUS
<1> HIDE DEF e
<1>6. DepSet(i, e.status, e.result, e.resolved)
  BY <1>2, <1>3, <1>5, PutDep
<1> QED
  BY <1>3, <1>4, <1>6

\* The same for a migration journal, ...
MigSet(i, st, res, rsv, hold, n) ==
    /\ migrations' \in Seq(MigrationJournals)
    /\ Len(migrations') = Len(migrations) /\ DOMAIN migrations' = DOMAIN migrations
    /\ migrations'[i].target = migrations[i].target /\ migrations'[i].from = migrations[i].from /\ migrations'[i].before = migrations[i].before /\ migrations'[i].after = migrations[i].after
    /\ migrations'[i].status = st
    /\ migrations'[i].result = res
    /\ migrations'[i].resolved <=> rsv
    /\ migrations'[i].hold = hold
    /\ migrations'[i].backup = n
    /\ \A j \in DOMAIN migrations \ {i} : migrations'[j] = migrations[j]

\* A migration journal with one entry replaced.
LEMMA PutMigSet ==
    ASSUME migrations \in Seq(MigrationJournals), NEW i \in DOMAIN migrations,
           NEW e \in MigrationJournals, migrations' = [migrations EXCEPT ![i] = e],
           e.target = migrations[i].target,
           e.from = migrations[i].from,
           e.before = migrations[i].before,
           e.after = migrations[i].after
    PROVE  MigSet(i, e.status, e.result, e.resolved, e.hold, e.backup)
<1>1. /\ migrations' \in Seq(MigrationJournals) /\ Len(migrations') = Len(migrations)
      /\ DOMAIN migrations' = DOMAIN migrations /\ migrations'[i] = e
      /\ \A j \in DOMAIN migrations \ {i} : migrations'[j] = migrations[j]
  BY SeqUpdate
<1> QED
  BY <1>1 DEF MigSet

\* A status is recorded in a migration.
LEMMA MigStatusSet ==
    ASSUME migrations \in Seq(MigrationJournals), NEW i \in DOMAIN migrations,
           NEW st \in MigStatus,
           migrations' = [migrations EXCEPT ![i].status = st]
    PROVE  MigSet(i, st, migrations[i].result, migrations[i].resolved, migrations[i].hold, migrations[i].backup)
<1> DEFINE d == migrations[i]
           e == [d EXCEPT !.status = st]
<1>1. d \in MigrationJournals
  OBVIOUS
<1>2. e \in MigrationJournals
  BY <1>1 DEF MigrationJournals
<1>3. /\ e.target = d.target /\ e.from = d.from /\ e.before = d.before /\ e.after = d.after
      /\ e.status = st /\ e.result = d.result /\ e.hold = d.hold /\ e.backup = d.backup
  BY <1>1 DEF MigrationJournals
<1>b. e.resolved = d.resolved
  BY <1>1 DEF MigrationJournals
<1>4. migrations' = [migrations EXCEPT ![i] = e]
  OBVIOUS
<1> HIDE DEF e
<1>5. MigSet(i, e.status, e.result, e.resolved, e.hold, e.backup)
  BY <1>2, <1>3, <1>4, PutMigSet
<1> QED
  BY <1>3, <1>b, <1>5

\* The result of a migration is recorded.
LEMMA MigResultSet ==
    ASSUME migrations \in Seq(MigrationJournals), NEW i \in DOMAIN migrations,
           NEW res \in {"none", "committed", "failed", "migration_requires_recovery"},
           migrations' = [migrations EXCEPT ![i].result = res]
    PROVE  MigSet(i, migrations[i].status, res, migrations[i].resolved, migrations[i].hold, migrations[i].backup)
<1> DEFINE d == migrations[i]
           e == [d EXCEPT !.result = res]
<1>1. d \in MigrationJournals
  OBVIOUS
<1>2. e \in MigrationJournals
  BY <1>1 DEF MigrationJournals
<1>3. /\ e.target = d.target /\ e.from = d.from /\ e.before = d.before /\ e.after = d.after
      /\ e.status = d.status /\ e.result = res /\ e.hold = d.hold /\ e.backup = d.backup
  BY <1>1 DEF MigrationJournals
<1>b. e.resolved = d.resolved
  BY <1>1 DEF MigrationJournals
<1>4. migrations' = [migrations EXCEPT ![i] = e]
  OBVIOUS
<1> HIDE DEF e
<1>5. MigSet(i, e.status, e.result, e.resolved, e.hold, e.backup)
  BY <1>2, <1>3, <1>4, PutMigSet
<1> QED
  BY <1>3, <1>b, <1>5

\* The hold of a migration changes.
LEMMA MigHoldSet ==
    ASSUME migrations \in Seq(MigrationJournals), NEW i \in DOMAIN migrations,
           NEW hold \in {"none", "active", "released"},
           migrations' = [migrations EXCEPT ![i].hold = hold]
    PROVE  MigSet(i, migrations[i].status, migrations[i].result, migrations[i].resolved, hold, migrations[i].backup)
<1> DEFINE d == migrations[i]
           e == [d EXCEPT !.hold = hold]
<1>1. d \in MigrationJournals
  OBVIOUS
<1>2. e \in MigrationJournals
  BY <1>1 DEF MigrationJournals
<1>3. /\ e.target = d.target /\ e.from = d.from /\ e.before = d.before /\ e.after = d.after
      /\ e.status = d.status /\ e.result = d.result /\ e.hold = hold /\ e.backup = d.backup
  BY <1>1 DEF MigrationJournals
<1>b. e.resolved = d.resolved
  BY <1>1 DEF MigrationJournals
<1>4. migrations' = [migrations EXCEPT ![i] = e]
  OBVIOUS
<1> HIDE DEF e
<1>5. MigSet(i, e.status, e.result, e.resolved, e.hold, e.backup)
  BY <1>2, <1>3, <1>4, PutMigSet
<1> QED
  BY <1>3, <1>b, <1>5

\* Status and result of a migration are recorded together.
LEMMA MigTerminalSet ==
    ASSUME migrations \in Seq(MigrationJournals), NEW i \in DOMAIN migrations,
           NEW st \in MigStatus,
           NEW res \in {"none", "committed", "failed", "migration_requires_recovery"},
           migrations' = [migrations EXCEPT ![i].status = st, ![i].result = res]
    PROVE  MigSet(i, st, res, migrations[i].resolved, migrations[i].hold, migrations[i].backup)
<1> DEFINE d == migrations[i]
           e == [d EXCEPT !.status = st, !.result = res]
<1>1. d \in MigrationJournals
  OBVIOUS
<1>2. e \in MigrationJournals
  BY <1>1 DEF MigrationJournals
<1>3. /\ e.target = d.target /\ e.from = d.from /\ e.before = d.before /\ e.after = d.after
      /\ e.status = st /\ e.result = res /\ e.hold = d.hold /\ e.backup = d.backup
  BY <1>1 DEF MigrationJournals
<1>b. e.resolved = d.resolved
  BY <1>1 DEF MigrationJournals
<1>4. migrations' = [migrations EXCEPT ![i] = e]
  OBVIOUS
<1> HIDE DEF e
<1>5. MigSet(i, e.status, e.result, e.resolved, e.hold, e.backup)
  BY <1>2, <1>3, <1>4, PutMigSet
<1> QED
  BY <1>3, <1>b, <1>5

\* A migration records its verified backup.
LEMMA MigVerifySet ==
    ASSUME migrations \in Seq(MigrationJournals), NEW i \in DOMAIN migrations,
           NEW st \in MigStatus,
           NEW n \in Nat,
           migrations' = [migrations EXCEPT ![i].status = st, ![i].backup = n]
    PROVE  MigSet(i, st, migrations[i].result, migrations[i].resolved, migrations[i].hold, n)
<1> DEFINE d == migrations[i]
           e == [d EXCEPT !.status = st, !.backup = n]
<1>1. d \in MigrationJournals
  OBVIOUS
<1>2. e \in MigrationJournals
  BY <1>1 DEF MigrationJournals
<1>3. /\ e.target = d.target /\ e.from = d.from /\ e.before = d.before /\ e.after = d.after
      /\ e.status = st /\ e.result = d.result /\ e.hold = d.hold /\ e.backup = n
  BY <1>1 DEF MigrationJournals
<1>b. e.resolved = d.resolved
  BY <1>1 DEF MigrationJournals
<1>4. migrations' = [migrations EXCEPT ![i] = e]
  OBVIOUS
<1> HIDE DEF e
<1>5. MigSet(i, e.status, e.result, e.resolved, e.hold, e.backup)
  BY <1>2, <1>3, <1>4, PutMigSet
<1> QED
  BY <1>3, <1>b, <1>5

\* A migration records its hold.
LEMMA MigHeldSet ==
    ASSUME migrations \in Seq(MigrationJournals), NEW i \in DOMAIN migrations,
           NEW st \in MigStatus,
           NEW hold \in {"none", "active", "released"},
           migrations' = [migrations EXCEPT ![i].status = st, ![i].hold = hold]
    PROVE  MigSet(i, st, migrations[i].result, migrations[i].resolved, hold, migrations[i].backup)
<1> DEFINE d == migrations[i]
           e == [d EXCEPT !.status = st, !.hold = hold]
<1>1. d \in MigrationJournals
  OBVIOUS
<1>2. e \in MigrationJournals
  BY <1>1 DEF MigrationJournals
<1>3. /\ e.target = d.target /\ e.from = d.from /\ e.before = d.before /\ e.after = d.after
      /\ e.status = st /\ e.result = d.result /\ e.hold = hold /\ e.backup = d.backup
  BY <1>1 DEF MigrationJournals
<1>b. e.resolved = d.resolved
  BY <1>1 DEF MigrationJournals
<1>4. migrations' = [migrations EXCEPT ![i] = e]
  OBVIOUS
<1> HIDE DEF e
<1>5. MigSet(i, e.status, e.result, e.resolved, e.hold, e.backup)
  BY <1>2, <1>3, <1>4, PutMigSet
<1> QED
  BY <1>3, <1>b, <1>5

\* A migration is marked resolved.
LEMMA MigResolvedSet ==
    ASSUME migrations \in Seq(MigrationJournals), NEW i \in DOMAIN migrations,
           migrations' = [migrations EXCEPT ![i].resolved = TRUE]
    PROVE  MigSet(i, migrations[i].status, migrations[i].result, TRUE, migrations[i].hold, migrations[i].backup)
<1> DEFINE d == migrations[i]
           e == [d EXCEPT !.resolved = TRUE]
<1>1. d \in MigrationJournals
  OBVIOUS
<1>2. e \in MigrationJournals
  BY <1>1 DEF MigrationJournals
<1>3. /\ e.target = d.target /\ e.from = d.from /\ e.before = d.before /\ e.after = d.after
      /\ e.status = d.status /\ e.result = d.result /\ e.hold = d.hold /\ e.backup = d.backup
  BY <1>1 DEF MigrationJournals
<1>b. e.resolved = TRUE
  BY <1>1 DEF MigrationJournals
<1>4. migrations' = [migrations EXCEPT ![i] = e]
  OBVIOUS
<1> HIDE DEF e
<1>5. MigSet(i, e.status, e.result, e.resolved, e.hold, e.backup)
  BY <1>2, <1>3, <1>4, PutMigSet
<1> QED
  BY <1>3, <1>b, <1>5

\* ... a bootstrap journal ...
BootSet(i, st, res) ==
    /\ bootstraps' \in Seq(BootstrapJournals)
    /\ Len(bootstraps') = Len(bootstraps) /\ DOMAIN bootstraps' = DOMAIN bootstraps
    /\ bootstraps'[i].target = bootstraps[i].target
    /\ bootstraps'[i].status = st
    /\ bootstraps'[i].result = res
    /\ \A j \in DOMAIN bootstraps \ {i} : bootstraps'[j] = bootstraps[j]

\* A bootstrap journal with one entry replaced.
LEMMA PutBootSet ==
    ASSUME bootstraps \in Seq(BootstrapJournals), NEW i \in DOMAIN bootstraps,
           NEW e \in BootstrapJournals, bootstraps' = [bootstraps EXCEPT ![i] = e],
           e.target = bootstraps[i].target
    PROVE  BootSet(i, e.status, e.result)
<1>1. /\ bootstraps' \in Seq(BootstrapJournals) /\ Len(bootstraps') = Len(bootstraps)
      /\ DOMAIN bootstraps' = DOMAIN bootstraps /\ bootstraps'[i] = e
      /\ \A j \in DOMAIN bootstraps \ {i} : bootstraps'[j] = bootstraps[j]
  BY SeqUpdate
<1> QED
  BY <1>1 DEF BootSet

\* A status is recorded in a bootstrap.
LEMMA BootStatusSet ==
    ASSUME bootstraps \in Seq(BootstrapJournals), NEW i \in DOMAIN bootstraps,
           NEW st \in {"none", "planned", "postgres_started", "freshness_verified", "schema_started",
               "schema_completed", "target_heads_verified", "committed", "failed",
               "requires_recovery"},
           bootstraps' = [bootstraps EXCEPT ![i].status = st]
    PROVE  BootSet(i, st, bootstraps[i].result)
<1> DEFINE d == bootstraps[i]
           e == [d EXCEPT !.status = st]
<1>1. d \in BootstrapJournals
  OBVIOUS
<1>2. e \in BootstrapJournals
  BY <1>1 DEF BootstrapJournals
<1>3. /\ e.target = d.target
      /\ e.status = st /\ e.result = d.result
  BY <1>1 DEF BootstrapJournals
<1>4. bootstraps' = [bootstraps EXCEPT ![i] = e]
  OBVIOUS
<1> HIDE DEF e
<1>5. BootSet(i, e.status, e.result)
  BY <1>2, <1>3, <1>4, PutBootSet
<1> QED
  BY <1>3, <1>5

\* The result of a bootstrap is recorded.
LEMMA BootResultSet ==
    ASSUME bootstraps \in Seq(BootstrapJournals), NEW i \in DOMAIN bootstraps,
           NEW res \in {"none", "committed", "failed", "requires_recovery"},
           bootstraps' = [bootstraps EXCEPT ![i].result = res]
    PROVE  BootSet(i, bootstraps[i].status, res)
<1> DEFINE d == bootstraps[i]
           e == [d EXCEPT !.result = res]
<1>1. d \in BootstrapJournals
  OBVIOUS
<1>2. e \in BootstrapJournals
  BY <1>1 DEF BootstrapJournals
<1>3. /\ e.target = d.target
      /\ e.status = d.status /\ e.result = res
  BY <1>1 DEF BootstrapJournals
<1>4. bootstraps' = [bootstraps EXCEPT ![i] = e]
  OBVIOUS
<1> HIDE DEF e
<1>5. BootSet(i, e.status, e.result)
  BY <1>2, <1>3, <1>4, PutBootSet
<1> QED
  BY <1>3, <1>5

\* Status and result of a bootstrap are recorded together.
LEMMA BootBothSet ==
    ASSUME bootstraps \in Seq(BootstrapJournals), NEW i \in DOMAIN bootstraps,
           NEW st \in {"none", "planned", "postgres_started", "freshness_verified", "schema_started",
               "schema_completed", "target_heads_verified", "committed", "failed",
               "requires_recovery"},
           NEW res \in {"none", "committed", "failed", "requires_recovery"},
           bootstraps' = [bootstraps EXCEPT ![i].status = st, ![i].result = res]
    PROVE  BootSet(i, st, res)
<1> DEFINE d == bootstraps[i]
           e == [d EXCEPT !.status = st, !.result = res]
<1>1. d \in BootstrapJournals
  OBVIOUS
<1>2. e \in BootstrapJournals
  BY <1>1 DEF BootstrapJournals
<1>3. /\ e.target = d.target
      /\ e.status = st /\ e.result = res
  BY <1>1 DEF BootstrapJournals
<1>4. bootstraps' = [bootstraps EXCEPT ![i] = e]
  OBVIOUS
<1> HIDE DEF e
<1>5. BootSet(i, e.status, e.result)
  BY <1>2, <1>3, <1>4, PutBootSet
<1> QED
  BY <1>3, <1>5

\* ... and the journal of a configuration rollout.
CfgSet(i, st, res) ==
    /\ configs' \in Seq(ConfigJournals)
    /\ Len(configs') = Len(configs) /\ DOMAIN configs' = DOMAIN configs
    /\ configs'[i].target = configs[i].target /\ configs'[i].old = configs[i].old
    /\ configs'[i].status = st
    /\ configs'[i].result = res
    /\ \A j \in DOMAIN configs \ {i} : configs'[j] = configs[j]

CfgStatuses ==
    {"none", "planned", "activating", "stabilizing", "committed", "failed",
     "rollback_started", "rolled_back", "rollback_failed"}
CfgResults == {"none", "committed", "failed", "rolled_back", "rollback_failed"}

\* A configuration journal with one entry replaced.
LEMMA PutCfgSet ==
    ASSUME configs \in Seq(ConfigJournals), NEW i \in DOMAIN configs,
           NEW e \in ConfigJournals, configs' = [configs EXCEPT ![i] = e],
           e.target = configs[i].target,
           e.old = configs[i].old
    PROVE  CfgSet(i, e.status, e.result)
<1>1. /\ configs' \in Seq(ConfigJournals) /\ Len(configs') = Len(configs)
      /\ DOMAIN configs' = DOMAIN configs /\ configs'[i] = e
      /\ \A j \in DOMAIN configs \ {i} : configs'[j] = configs[j]
  BY SeqUpdate
<1> QED
  BY <1>1 DEF CfgSet

\* A status is recorded in a configuration rollout.
LEMMA CfgStatusSet ==
    ASSUME configs \in Seq(ConfigJournals), NEW i \in DOMAIN configs,
           NEW st \in CfgStatuses,
           configs' = [configs EXCEPT ![i].status = st]
    PROVE  CfgSet(i, st, configs[i].result)
<1> DEFINE d == configs[i]
           e == [d EXCEPT !.status = st]
<1>1. d \in ConfigJournals
  OBVIOUS
<1>2. e \in ConfigJournals
  BY <1>1 DEF ConfigJournals, CfgStatuses, CfgResults
<1>3. /\ e.target = d.target /\ e.old = d.old
      /\ e.status = st /\ e.result = d.result
  BY <1>1 DEF ConfigJournals, CfgStatuses, CfgResults
<1>4. configs' = [configs EXCEPT ![i] = e]
  OBVIOUS
<1> HIDE DEF e
<1>5. CfgSet(i, e.status, e.result)
  BY <1>2, <1>3, <1>4, PutCfgSet
<1> QED
  BY <1>3, <1>5

\* The result of a configuration rollout is recorded.
LEMMA CfgResultSet ==
    ASSUME configs \in Seq(ConfigJournals), NEW i \in DOMAIN configs,
           NEW res \in CfgResults,
           configs' = [configs EXCEPT ![i].result = res]
    PROVE  CfgSet(i, configs[i].status, res)
<1> DEFINE d == configs[i]
           e == [d EXCEPT !.result = res]
<1>1. d \in ConfigJournals
  OBVIOUS
<1>2. e \in ConfigJournals
  BY <1>1 DEF ConfigJournals, CfgStatuses, CfgResults
<1>3. /\ e.target = d.target /\ e.old = d.old
      /\ e.status = d.status /\ e.result = res
  BY <1>1 DEF ConfigJournals, CfgStatuses, CfgResults
<1>4. configs' = [configs EXCEPT ![i] = e]
  OBVIOUS
<1> HIDE DEF e
<1>5. CfgSet(i, e.status, e.result)
  BY <1>2, <1>3, <1>4, PutCfgSet
<1> QED
  BY <1>3, <1>5

\* Status and result of a configuration rollout are recorded together.
LEMMA CfgBothSet ==
    ASSUME configs \in Seq(ConfigJournals), NEW i \in DOMAIN configs,
           NEW st \in CfgStatuses,
           NEW res \in CfgResults,
           configs' = [configs EXCEPT ![i].status = st, ![i].result = res]
    PROVE  CfgSet(i, st, res)
<1> DEFINE d == configs[i]
           e == [d EXCEPT !.status = st, !.result = res]
<1>1. d \in ConfigJournals
  OBVIOUS
<1>2. e \in ConfigJournals
  BY <1>1 DEF ConfigJournals, CfgStatuses, CfgResults
<1>3. /\ e.target = d.target /\ e.old = d.old
      /\ e.status = st /\ e.result = res
  BY <1>1 DEF ConfigJournals, CfgStatuses, CfgResults
<1>4. configs' = [configs EXCEPT ![i] = e]
  OBVIOUS
<1> HIDE DEF e
<1>5. CfgSet(i, e.status, e.result)
  BY <1>2, <1>3, <1>4, PutCfgSet
<1> QED
  BY <1>3, <1>5

-----------------------------------------------------------------------------
(* The host: what a step of one tool leaves alone *)

\* No other tool is under the rollout lock, or under the lock of the backup root.
RolloutFree(p) == \A q \in Procs \ {p} : ~ Locked(q)
BackupFree(p) == \A q \in Procs \ {p} : ~ BackupLocked(q)

\* Who has the rollout lock, or finds it free, is the only one past it.
LEMMA Alone ==
    ASSUME LockInv, NEW p \in Procs, Locked(p) \/ rolloutLock = None
    PROVE  RolloutFree(p)
BY HeadsAssumption DEF LockInv, RolloutFree

\* The same for the lock of the backup root.
LEMMA BackupAlone ==
    ASSUME LockInv, NEW p \in Procs, BackupLocked(p) \/ backupLock = None
    PROVE  BackupFree(p)
BY HeadsAssumption DEF LockInv, BackupFree

\* A process keeps its locks, takes free ones, or gives up its own.
LEMMA LocksKept ==
    ASSUME LockInv, NEW p \in Procs, Moves(p),
           rolloutLock' = rolloutLock \/ RolloutFree(p), backupLock' = backupLock \/ BackupFree(p),
           Locked(p)' => rolloutLock' = p, BackupLocked(p)' => backupLock' = p
    PROVE  LockInv'
<1> SUFFICES ASSUME NEW q \in Procs
             PROVE  (Locked(q)' => rolloutLock' = q) /\ (BackupLocked(q)' => backupLock' = q)
  BY DEF LockInv
<1>1. CASE q # p
  <2>1. (Locked(q)' <=> Locked(q)) /\ (BackupLocked(q)' <=> BackupLocked(q))
    BY <1>1 DEF Moves, Locked, BackupLocked
  <2> QED
    BY <1>1, <2>1 DEF LockInv, RolloutFree, BackupFree
<1> QED
  BY <1>1

\* A process that leaves gives back what it held.
LEMMA LocksLeft ==
    ASSUME HostTypes, LockInv, NEW p \in Procs, Leave(p)
    PROVE  LockInv'
<1>1. Moves(p) /\ proc'[p].op = "idle"
  BY SetIdle DEF HostTypes
<1>2. rolloutLock' = rolloutLock \/ RolloutFree(p)
  BY DEF Leave, LockInv, RolloutFree
<1>3. backupLock' = backupLock \/ BackupFree(p)
  BY DEF Leave, LockInv, BackupFree
<1>4. ~ Locked(p)' /\ ~ BackupLocked(p)'
  BY <1>1 DEF Locked, BackupLocked
<1> QED
  BY <1>1, <1>2, <1>3, <1>4, LocksKept

\* A step that starts no migration leaves the journals with their owners.
LEMMA OwnedKept ==
    ASSUME JournalsAreOwned, NEW p \in Procs, Moves(p),
           Migrates(p)' => Migrates(p) /\ proc'[p].id = proc[p].id
    PROVE  JournalsAreOwned'
BY DEF JournalsAreOwned, Moves, Migrates

\* Journals only grow: results are final, and a late migration stays late.
Grow ==
    /\ DOMAIN deployments \subseteq DOMAIN deployments'
    /\ \A i \in DOMAIN migrations :
         /\ i \in DOMAIN migrations'
         /\ migrations[i].result # "none" => migrations'[i].result = migrations[i].result
         /\ migrations[i].status \in Late => migrations'[i].status \in Late
\* What a journal says of its outcome is not rewritten.
ResultsKept ==
    /\ \A i \in DOMAIN deployments :
         deployments[i].result # "none" => deployments'[i].result = deployments[i].result
    /\ \A i \in DOMAIN migrations :
         migrations[i].result # "none" => migrations'[i].result = migrations[i].result
    /\ \A i \in DOMAIN bootstraps :
         bootstraps[i].result # "none" => bootstraps'[i].result = bootstraps[i].result
\* Nothing happens to the backups that prune has looked at.
PruneSafe(p) ==
    \/ BackupFree(p)
    \/ backups' = backups /\ \A n \in Nat : Held(n)' => Held(n)

\* The other tools while one is under the rollout lock.
LEMMA OthersFree ==
    ASSUME HostInv, NEW p \in Procs, Moves(p), RolloutFree(p), Grow, PruneSafe(p)
    PROVE  \A q \in Procs \ {p} : ProcOK(q)'
<1> SUFFICES ASSUME NEW q \in Procs \ {p} PROVE ProcOK(q)'
  OBVIOUS
<1>0. ProcOK(q) /\ ~ Locked(q) /\ proc'[q] = proc[q] /\ LockInv /\ HostTypes
  BY DEF HostInv, RolloutFree, Moves
<1>1. proc[q].op = "rollout" => RolloutOK(q)'
  BY <1>0 DEF ProcOK, Locked, RolloutOK
<1>2. proc[q].op = "recover" => RecoverOK(q)'
  BY <1>0 DEF ProcOK, Locked, RecoverOK, Grow
<1>3. proc[q].op = "migrate" => MigrateOK(q)'
  BY <1>0 DEF ProcOK, Locked, MigrateOK, Mig, Grow
<1>4. proc[q].op = "recover_migration" => MigrationRecoverOK(q)'
  BY <1>0 DEF ProcOK, Locked, MigrationRecoverOK, Mig, Grow
<1>5. proc[q].op = "bootstrap" => BootstrapOK(q)'
  BY <1>0 DEF ProcOK, Locked, BootstrapOK
<1>6. proc[q].op = "config" => ConfigOK(q)'
  BY <1>0 DEF ProcOK, Locked, ConfigOK
<1>7. proc[q].op = "prune" => PruneOK(q)'
  <2> SUFFICES ASSUME proc[q].op = "prune", proc[q].pc # "lock", NEW b \in proc[q].saw
               PROVE  /\ b \in backups' /\ ~ Held(b.n)' /\ b \notin Newest(backups)'
                      /\ b \notin Newest(PassedBackups)'
    BY <1>0 DEF PruneOK
  <2>1. BackupLocked(q)
    BY DEF BackupLocked
  <2>2. backups' = backups /\ \A n \in Nat : Held(n)' => Held(n)
    BY <2>1 DEF PruneSafe, BackupFree
  <2>3. /\ b \in backups /\ ~ Held(b.n) /\ b \notin Newest(backups)
        /\ b \notin Newest(PassedBackups)
    BY <1>0 DEF ProcOK, PruneOK
  <2>4. b.n \in Nat
    BY <1>0, <2>3 DEF HostTypes, Dumps
  <2>5. Newest(backups)' = Newest(backups) /\ Newest(PassedBackups)' = Newest(PassedBackups)
    BY <2>2 DEF Newest, Newer, PassedBackups
  <2> QED
    BY <2>2, <2>3, <2>4, <2>5
<1> QED
  BY <1>0, <1>1, <1>2, <1>3, <1>4, <1>5, <1>6, <1>7 DEF ProcOK

\* The other tools while one works on the backups only, or on nothing.
LEMMA OthersSame ==
    ASSUME HostInv, NEW p \in Procs, Moves(p), UNCHANGED <<hostVars, journalVars, config>>,
           UNCHANGED backupVars \/ (BackupFree(p) /\ made' \in Nat /\ made <= made')
    PROVE  \A q \in Procs \ {p} : ProcOK(q)'
<1> SUFFICES ASSUME NEW q \in Procs \ {p} PROVE ProcOK(q)'
  OBVIOUS
<1>0. ProcOK(q) /\ proc'[q] = proc[q] /\ LockInv /\ HostTypes
  BY DEF HostInv, Moves
<1>1. proc[q].op = "rollout" => RolloutOK(q)'
  BY <1>0 DEF ProcOK, RolloutOK, Dep, GatesHold, Vouched, Runs, Compatible, hostVars, journalVars
<1>2. proc[q].op = "recover" => RecoverOK(q)'
  BY <1>0 DEF ProcOK, RecoverOK, Dep, Kept, Vouched, Runs, Recoverable, hostVars, journalVars
<1>3. proc[q].op = "migrate" => MigrateOK(q)'
  <2>1. proc[q].pc = "hold" /\ proc[q].op = "migrate" => backups' = backups
    BY DEF BackupFree, BackupLocked, backupVars
  <2>2. Locked(q)' <=> Locked(q)
    BY <1>0 DEF Locked
  <2>3. made' \in Nat /\ made \in Nat /\ made <= made'
    BY <1>0 DEF HostTypes, backupVars
  <2> QED
    BY <1>0, <2>1, <2>2, <2>3 DEF ProcOK, MigrateOK, Mig, hostVars, journalVars
<1>4. proc[q].op = "recover_migration" => MigrationRecoverOK(q)'
  BY <1>0 DEF ProcOK, MigrationRecoverOK, Mig, UnresolvedMigrations, hostVars, journalVars
<1>5. proc[q].op = "bootstrap" => BootstrapOK(q)'
  BY <1>0 DEF ProcOK, BootstrapOK, hostVars, journalVars
<1>6. proc[q].op = "config" => ConfigOK(q)'
  BY <1>0 DEF ProcOK, ConfigOK, Cfg, hostVars, journalVars
<1>7. proc[q].op = "prune" => PruneOK(q)'
  <2>1. proc[q].op = "prune" /\ proc[q].pc # "lock" => backups' = backups
    BY DEF BackupFree, BackupLocked, backupVars
  <2> QED
    BY <1>0, <2>1 DEF ProcOK, PruneOK, Held, Newest, Newer, PassedBackups, journalVars
<1> QED
  BY <1>0, <1>1, <1>2, <1>3, <1>4, <1>5, <1>6, <1>7 DEF ProcOK

\* A step that changes a process and locks only.
LEMMA ProcStepKeeps ==
    ASSUME HostInv, NEW p \in Procs, Moves(p), UNCHANGED <<hostVars, journalVars, backupVars, config>>,
           rolloutLock' \in Procs \cup {None}, backupLock' \in Procs \cup {None},
           LockInv', JournalsAreOwned', ProcOK(p)'
    PROVE  HostInv' /\ ResultsKept
<1>1. HostTypes'
  BY DEF HostInv, HostTypes, Moves, hostVars, journalVars, backupVars
<1>2. SavedOK'
  BY DEF HostInv, SavedOK, OneUnresolved, LastUnresolved, DeploymentsOK, EnvelopeInv, TierInv,
         TiersMatchJournal, MigrationsOK, BaseInv, RestoreInv, BootInv, BackupsInv, Vouched, Runs,
         UnresolvedDeployments, UnresolvedMigrations, UnresolvedBootstraps, hostVars, journalVars,
         backupVars
<1>3. \A q \in Procs \ {p} : ProcOK(q)'
  BY OthersSame
<1>4. ResultsKept
  BY DEF ResultsKept, journalVars
<1> QED
  BY <1>1, <1>2, <1>3, <1>4 DEF HostInv

\* A tool that ends without a trace: refused, killed, or out of its own error path.
LEMMA LeaveKeeps ==
    ASSUME HostInv, NEW p \in Procs, Leave(p), UNCHANGED <<hostVars, journalVars, backupVars, config>>
    PROVE  HostInv' /\ ResultsKept
<1>0. HostTypes /\ LockInv /\ JournalsAreOwned /\ ProcShape
  BY DEF HostInv, HostTypes
<1>1. Moves(p) /\ proc'[p].op = "idle"
  BY <1>0, SetIdle
<1>2. LockInv'
  BY <1>0, LocksLeft
<1>3. JournalsAreOwned'
  BY <1>0, <1>1, OwnedKept DEF Migrates
<1>4. ProcOK(p)'
  BY <1>1 DEF ProcOK
<1>5. rolloutLock' \in Procs \cup {None} /\ backupLock' \in Procs \cup {None}
  BY <1>0 DEF HostTypes, Leave
<1> QED
  BY <1>1, <1>2, <1>3, <1>4, <1>5, ProcStepKeeps

\* A tool that is started and knows what it read before the lock.
LEMMA StartKeeps ==
    ASSUME HostInv, NEW p \in Procs, NEW op, NEW rel, NEW act, NEW id, NEW saw,
           Start(p, op, rel, act, id, saw), ProcOK(p)',
           UNCHANGED <<hostVars, journalVars, backupVars, config, rolloutLock, backupLock>>
    PROVE  HostInv' /\ ResultsKept
<1>0. HostTypes /\ LockInv /\ JournalsAreOwned /\ ProcShape
  BY DEF HostInv, HostTypes
<1>1. Moves(p) /\ proc'[p].pc = "lock"
  <2> DEFINE pc == "lock"
  <2>1. proc' = [proc EXCEPT ![p] = [op |-> op, pc |-> pc, rel |-> rel, act |-> act,
                                     id |-> id, saw |-> saw]]
    BY DEF Start
  <2> HIDE DEF pc
  <2>2. Moves(p) /\ proc'[p].pc = pc
    BY <1>0, <2>1, SetFields
  <2> QED
    BY <2>2 DEF pc
<1>2. LockInv'
  BY <1>0, <1>1, LocksKept DEF Locked, BackupLocked
<1>3. JournalsAreOwned'
  BY <1>0, <1>1, OwnedKept DEF Migrates
<1>5. rolloutLock' \in Procs \cup {None} /\ backupLock' \in Procs \cup {None}
  BY <1>0 DEF HostTypes
<1> QED
  BY <1>1, <1>2, <1>3, <1>5, ProcStepKeeps

\* The record of a tool that was just started.
LEMMA Started ==
    ASSUME HostInv, NEW p \in Procs, NEW op, NEW rel, NEW act, NEW id, NEW saw,
           Start(p, op, rel, act, id, saw)
    PROVE  /\ proc'[p].op = op /\ proc'[p].pc = "lock" /\ proc'[p].rel = rel
           /\ proc'[p].act = act /\ proc'[p].id = id /\ proc'[p].saw = saw
<1> DEFINE pc == "lock"
<1>1. proc' = [proc EXCEPT ![p] = [op |-> op, pc |-> pc, rel |-> rel, act |-> act,
                                   id |-> id, saw |-> saw]]
  BY DEF Start
<1> HIDE DEF pc
<1>2. ProcShape
  BY DEF HostInv, HostTypes
<1>3. p \in DOMAIN proc
  BY <1>2, Zenon DEF ProcShape
<1>4. proc'[p] = [op |-> op, pc |-> pc, rel |-> rel, act |-> act, id |-> id, saw |-> saw]
  BY <1>1, <1>3
<1> QED
  BY <1>4 DEF pc

-----------------------------------------------------------------------------
(* The host: deployments *)

\* The backend recreated runs what the environment file says.
LEMMA RecreatedType ==
    ASSUME config \in Runtimes
    PROVE  Recreated \in Runtimes /\ Recreated.running = config.env
BY DEF Runtimes, Recreated

\* The journal a rollout or a recovery works on is the unresolved one, the last.
LEMMA InHand ==
    ASSUME HostInv, NEW p \in Procs, proc[p].op \in {"rollout", "recover"}, proc[p].pc # "lock"
    PROVE  /\ proc[p].id \in DOMAIN deployments /\ proc[p].id \in UnresolvedDeployments
           /\ proc[p].id = Len(deployments) /\ Dep(p) \in DeploymentJournals
           /\ Dep(p) = deployments[proc[p].id] /\ Locked(p)
           /\ Dep(p).result \in {"none", "rollback_failed"} /\ ~ Dep(p).resolved
<1>1. ProcOK(p) /\ LastUnresolved /\ DeploymentsOK /\ deployments \in Seq(DeploymentJournals)
  BY DEF HostInv, SavedOK, HostTypes
<1>2. proc[p].id \in DOMAIN deployments
  BY <1>1 DEF ProcOK, RolloutOK, RecoverOK
<1>3. Dep(p).result \in {"none", "rollback_failed"} /\ ~ Dep(p).resolved
  BY <1>1, <1>2 DEF ProcOK, RolloutOK, RecoverOK, Recoverable, Dep, DeploymentsOK
<1>4. proc[p].id \in UnresolvedDeployments
  BY <1>2, <1>3 DEF UnresolvedDeployments, Dep
<1> QED
  BY <1>1, <1>2, <1>3, <1>4 DEF LastUnresolved, Dep, Locked

\* While the journal stays unresolved, nothing is claimed of the tiers once they are touched; ...
LEMMA StillOpen ==
    ASSUME HostInv, NEW i \in UnresolvedDeployments, NEW st, NEW res, NEW rsv \in BOOLEAN,
           DepSet(i, st, res, rsv), res = "none" \/ (res = "rollback_failed" /\ ~ rsv)
    PROVE  /\ i \in UnresolvedDeployments' /\ TiersMatchJournal'
           /\ st \notin BeforeMutation => TierInv'
<1>1. i \in DOMAIN deployments
  BY DEF UnresolvedDeployments
<1>2. i \in UnresolvedDeployments'
  BY <1>1 DEF UnresolvedDeployments, DepSet
<1>3. TiersMatchJournal'
  BY <1>2 DEF TiersMatchJournal
<1>4. st \notin BeforeMutation => TierInv'
  BY <1>2 DEF TierInv, DepSet, BeforeMutation
<1> QED
  BY <1>2, <1>3, <1>4

\* ... and what is written when it is closed must be so.
LEMMA NowClosed ==
    ASSUME HostInv, NEW i \in UnresolvedDeployments, NEW st, NEW res, NEW rsv \in BOOLEAN,
           DepSet(i, st, res, rsv), ~ (res = "none" \/ (res = "rollback_failed" /\ ~ rsv)),
           res = "committed" => app' = deployments[i].target /\ gateway' = deployments[i].target,
           res = "rolled_back" => app' = deployments[i].prev /\ gateway' = deployments[i].prev,
           current' # None /\ app' \in Releases => app' \in current'.envelope
    PROVE  TierInv' /\ TiersMatchJournal'
<1>1. i \in DOMAIN deployments /\ i = Len(deployments) /\ LastUnresolved
  BY DEF UnresolvedDeployments, HostInv, SavedOK, LastUnresolved
<1>2. TierInv'
  BY DEF TierInv
<1>3. Len(deployments') = i /\ deployments'[i].result = res
  BY <1>1 DEF DepSet
<1>4. TiersMatchJournal'
  BY <1>3 DEF TiersMatchJournal, Runs, DepSet
<1> QED
  BY <1>2, <1>4

\* A step of a rollout or a recovery under the lock, or one that takes it.
LEMMA DeployStep ==
    ASSUME HostInv, NEW p \in Procs, proc[p].op \in {"rollout", "recover"}, RolloutFree(p),
           proc[p].id \in UnresolvedDeployments, UNCHANGED rolloutOnly, Moves(p),
           \/ backupLock' = backupLock /\ rolloutLock' = p /\ proc'[p].op = proc[p].op
           \/ Leave(p),
           NEW st, NEW res, NEW rsv \in BOOLEAN, DepSet(proc[p].id, st, res, rsv),
           rsv => res = "rollback_failed",
           deployments[proc[p].id].result # "none" => res = deployments[proc[p].id].result,
           app' \in Tiers, gateway' \in Releases \cup {None}, config' \in Runtimes,
           \/ current' = current
           \/ /\ current' \in CurrentStates /\ current'.heads = live
              /\ current'.app \in current'.envelope
              /\ current # None => current.envelope \subseteq current'.envelope,
           TierInv', TiersMatchJournal', ProcOK(p)'
    PROVE  HostInv' /\ ResultsKept
<1>0. HostTypes /\ LockInv /\ JournalsAreOwned /\ SavedOK /\ ProcShape
  BY DEF HostInv, HostTypes
<1>1. proc[p].id \in DOMAIN deployments
  BY DEF UnresolvedDeployments
<1>2. RolloutFree(p)
  OBVIOUS
<1>3. HostTypes'
  <2>1. rolloutLock' \in Procs \cup {None} /\ backupLock' \in Procs \cup {None}
    BY <1>0 DEF HostTypes, Leave
  <2>2. current' \in CurrentStates \cup {None} /\ deployments' \in Seq(DeploymentJournals)
    BY <1>0 DEF HostTypes, DepSet
  <2> QED
    BY <1>0, <2>1, <2>2 DEF HostTypes, Moves, rolloutOnly
<1>4. LockInv'
  <2>1. CASE Leave(p)
    BY <1>0, <2>1, LocksLeft
  <2>2. CASE backupLock' = backupLock /\ rolloutLock' = p /\ proc'[p].op = proc[p].op
    BY <1>0, <1>1, <2>2, LocksKept DEF LockInv, BackupLocked
  <2> QED
    BY <2>1, <2>2
<1>5. JournalsAreOwned'
  <2>1. ~ Migrates(p)'
    BY <1>0, SetIdle DEF Migrates
  <2> QED
    BY <1>0, <2>1, OwnedKept
<1>6. UnresolvedMigrations' = UnresolvedMigrations /\ UnresolvedBootstraps' = UnresolvedBootstraps
  BY DEF UnresolvedMigrations, UnresolvedBootstraps, rolloutOnly
<1>7. UnresolvedDeployments' \subseteq UnresolvedDeployments
  BY <1>1 DEF UnresolvedDeployments, DepSet
<1>8. OneUnresolved' /\ LastUnresolved'
  BY <1>0, <1>6, <1>7 DEF SavedOK, OneUnresolved, LastUnresolved, DepSet
<1>9. DeploymentsOK'
  BY <1>0, <1>1 DEF SavedOK, DeploymentsOK, DepSet
<1>10. EnvelopeInv'
  <2>1. \A r : Vouched(r) => Vouched(r)'
    BY DocumentAssumption DEF Vouched
  <2>2. current' # None => current'.app \in current'.envelope
    BY <1>0 DEF SavedOK, EnvelopeInv
  <2>3. \A i \in DOMAIN deployments : deployments'[i].prev = deployments[i].prev
    BY <1>1 DEF DepSet
  <2> QED
    BY <1>0, <2>1, <2>2, <2>3 DEF SavedOK, EnvelopeInv, DepSet
<1>11. MigrationsOK' /\ RestoreInv' /\ BootInv' /\ BackupsInv'
  BY <1>0, <1>6 DEF SavedOK, MigrationsOK, RestoreInv, BootInv, BackupsInv, rolloutOnly
<1>12. BaseInv'
  BY <1>0, <1>6 DEF SavedOK, BaseInv, rolloutOnly
<1>13. Grow /\ PruneSafe(p)
  BY <1>1 DEF Grow, DepSet, PruneSafe, Held, rolloutOnly
<1>14. \A q \in Procs \ {p} : ProcOK(q)'
  BY <1>2, <1>13, OthersFree
<1>15. ResultsKept
  BY <1>1 DEF ResultsKept, DepSet, rolloutOnly
<1> QED
  BY <1>3, <1>4, <1>5, <1>8, <1>9, <1>10, <1>11, <1>12, <1>14, <1>15 DEF HostInv, SavedOK

\* A step that leaves the deployment journals alone.
LEMMA DepSame ==
    ASSUME deployments \in Seq(DeploymentJournals), NEW i \in DOMAIN deployments,
           deployments' = deployments
    PROVE  DepSet(i, deployments[i].status, deployments[i].result, deployments[i].resolved)
BY DEF DepSet

\* The document that a rollout or a recovery publishes for a journal whose gates hold.
LEMMA CommittedOK ==
    ASSUME HostTypes, NEW i \in DOMAIN deployments, GatesHold(deployments[i])
    PROVE  LET c == CommittedState(i) IN
           /\ c \in CurrentStates /\ c.heads = live /\ c.app = deployments[i].target
           /\ deployments[i].target \in c.envelope
           /\ current # None => current.envelope \subseteq c.envelope
<1> DEFINE c == CommittedState(i)
           d == deployments[i]
<1>1. d \in DeploymentJournals /\ i \in Nat
  BY DEF HostTypes
<1>2. d.target \in Releases /\ d.heads \in AllHeads
  BY <1>1 DEF DeploymentJournals
<1>3. NextStamp \in Nat
  BY DEF NextStamp, HostTypes, CurrentStates
<1>4. CASE current = None
  <2>1. c = [app |-> d.target, heads |-> d.heads, schema |-> d.target, deployment |-> i,
             migration |-> 0, envelope |-> {d.target}, stamp |-> NextStamp]
    BY <1>4 DEF CommittedState, FirstState
  <2>2. d.heads = live
    BY <1>4 DEF GatesHold
  <2> HIDE DEF c, d
  <2>3. c \in CurrentStates
    BY <1>1, <1>2, <1>3, <2>1 DEF CurrentStates
  <2> QED
    BY <1>4, <2>1, <2>2, <2>3 DEF c, d
<1>5. CASE current # None
  <2>0. current \in CurrentStates
    BY <1>5 DEF HostTypes
  <2> DEFINE env == IF SourceHeads[d.target] = current.heads
                    THEN current.envelope \union {d.target} ELSE current.envelope
  <2>1. c = [current EXCEPT !.app = d.target, !.deployment = i, !.stamp = NextStamp,
                            !.envelope = env]
    BY <1>5 DEF CommittedState, AfterApp
  <2>2. env \in SUBSET Releases /\ current.envelope \subseteq env
    BY <1>2, <2>0 DEF CurrentStates
  <2>3. live = current.heads /\ d.target \in env
    BY <1>5 DEF GatesHold, Compatible
  <2> HIDE DEF c, d, env
  <2>4. /\ c \in CurrentStates /\ c.app = d.target /\ c.envelope = env
        /\ c.heads = current.heads
    BY <1>1, <1>2, <1>3, <2>0, <2>1, <2>2 DEF CurrentStates
  <2> QED
    BY <2>2, <2>3, <2>4 DEF c, d
<1> QED
  BY <1>4, <1>5

\* Whatever is done to a deployment in hand: `app' stays, is the previous release again, or is
\* no single release.
LEMMA TierKept ==
    ASSUME HostInv, NEW i \in UnresolvedDeployments, NEW st, NEW res, NEW rsv \in BOOLEAN,
           DepSet(i, st, res, rsv), res = "none" \/ (res = "rollback_failed" /\ ~ rsv),
           st \in BeforeMutation => deployments[i].status \in BeforeMutation,
           current' = current,
           app' \in {app, None, Mixed} \/ (app' = deployments[i].prev)
    PROVE  TierInv' /\ TiersMatchJournal'
<1>1. i \in DOMAIN deployments /\ SavedOK
  BY DEF UnresolvedDeployments, HostInv
<1>2. \A j \in UnresolvedDeployments : j = i
  BY <1>1 DEF SavedOK, OneUnresolved
<1>3. i \in UnresolvedDeployments' /\ TiersMatchJournal'
  BY StillOpen
<1>4. TierInv'
  <2> SUFFICES ASSUME \A j \in UnresolvedDeployments' : deployments'[j].status \in BeforeMutation,
                      current' # None, app' \in Releases
               PROVE  app' \in current'.envelope
    BY DEF TierInv
  <2>1. deployments[i].status \in BeforeMutation
    BY <1>3 DEF DepSet
  <2>2. app \in Releases => app \in current.envelope
    BY <1>1, <1>2, <2>1 DEF SavedOK, TierInv
  <2>3. deployments[i].prev # None => deployments[i].prev \in current.envelope
    BY <1>1 DEF SavedOK, EnvelopeInv, Vouched
  <2> QED
    BY <2>2, <2>3, HeadsAssumption
<1> QED
  BY <1>3, <1>4

\* What the gates of a rollout read is under the rollout lock.
LEMMA GatesKept ==
    ASSUME NEW d, GatesHold(d), NEW e, e.heads = d.heads, e.target = d.target,
           UNCHANGED <<current, live>>
    PROVE  IF current' = None THEN e.heads = live'
           ELSE live' = current'.heads /\ Compatible(e.target, SourceHeads[e.target], current')
BY DEF GatesHold, Compatible

\* A rollout is started.
LEMMA RolloutStartKeeps ==
    ASSUME HostInv, NEW p \in Procs, NEW r \in Releases, NEW b \in BOOLEAN, RolloutStart(p, r, b)
    PROVE  HostInv' /\ ResultsKept
<1> DEFINE a == IF b THEN "bootstrap" ELSE "upgrade"
           op == "rollout"
<1>1. Start(p, op, r, a, 0, None)
  BY DEF RolloutStart
<1>2. UNCHANGED <<hostVars, journalVars, backupVars, config, rolloutLock, backupLock>>
  BY DEF RolloutStart
<1> HIDE DEF a, op
<1>3. proc'[p].op = op /\ proc'[p].pc = "lock" /\ proc'[p].rel = r
  BY <1>1, Started
<1>4. ProcOK(p)'
  BY <1>3 DEF ProcOK, RolloutOK, op
<1> QED
  BY <1>1, <1>2, <1>4, StartKeeps

\* The gates pass and the plan is written: the only unresolved journal.
LEMMA RolloutPlanKeeps ==
    ASSUME HostInv, NEW p \in Procs, RolloutPlan(p)
    PROVE  HostInv' /\ ResultsKept
<1> DEFINE e == [target |-> proc[p].rel, heads |-> live, status |-> "none",
                 prev |-> IF current = None THEN None ELSE current.app,
                 result |-> "none", resolved |-> FALSE]
           n == Len(deployments) + 1
<1>0. HostTypes /\ LockInv /\ JournalsAreOwned /\ SavedOK /\ ProcShape /\ ProcOK(p)
  BY DEF HostInv, HostTypes
<1>1. /\ At(p, "rollout", "lock") /\ rolloutLock = None /\ rolloutLock' = p
      /\ RolloutAllowed(proc[p].rel, proc[p].act = "bootstrap")
      /\ deployments' = Append(deployments, e)
      /\ proc' = [proc EXCEPT ![p].pc = "run", ![p].id = n]
      /\ UNCHANGED <<current, app, gateway, config, rolloutOnly, backupLock>>
  BY DEF RolloutPlan
<1>2. proc[p].rel \in Releases /\ proc[p].op = "rollout" /\ proc[p].pc = "lock"
  BY <1>0, <1>1 DEF ProcOK, RolloutOK, At
<1>3. ~ Blocked
  BY <1>1 DEF RolloutAllowed
<1>4. IF current = None THEN live = SourceHeads[proc[p].rel]
      ELSE live = current.heads /\ Compatible(proc[p].rel, SourceHeads[proc[p].rel], current)
  BY <1>1 DEF RolloutAllowed
<1>5. live \in AllHeads
  BY <1>0, <1>2, <1>4 DEF AllHeads, HostTypes, CurrentStates
<1>6. /\ e \in DeploymentJournals
      /\ e.status = "none" /\ e.result = "none" /\ e.target = proc[p].rel /\ e.heads = live
      /\ e.prev = IF current = None THEN None ELSE current.app
  <2>1. (IF current = None THEN None ELSE current.app) \in Releases \cup {None}
    BY <1>0 DEF HostTypes, CurrentStates
  <2>2. "none" \in DOMAIN DeployLegal
    BY DEF DeployLegal
  <2> QED
    BY <1>2, <1>5, <2>1, <2>2 DEF DeploymentJournals
<1>7. ~ e.resolved
  OBVIOUS
<1> HIDE DEF e
<1>8. /\ deployments' \in Seq(DeploymentJournals) /\ Len(deployments') = n
      /\ n \in DOMAIN deployments' /\ deployments'[n] = e /\ n \notin DOMAIN deployments
      /\ DOMAIN deployments' = DOMAIN deployments \cup {n}
      /\ \A i \in DOMAIN deployments : deployments'[i] = deployments[i]
  BY <1>0, <1>1, <1>6 DEF HostTypes
<1>m. /\ Moves(p) /\ proc'[p].op = proc[p].op /\ proc'[p].pc = "run" /\ proc'[p].rel = proc[p].rel
      /\ proc'[p].id = n
  <2> DEFINE pc == "run"
  <2>1. proc' = [proc EXCEPT ![p].pc = pc, ![p].id = n]
    BY <1>1
  <2>0. ProcShape
    BY <1>0
  <2> HIDE DEF pc, n
  <2>2. Moves(p) /\ Becomes(p, pc, proc[p].act, n, proc[p].saw)
    BY <2>0, <2>1, SetPcId
  <2> QED
    BY <2>2 DEF pc, Becomes
<1> HIDE DEF n
<1>9. RolloutFree(p)
  BY <1>0, <1>1, Alone
<1>10. HostTypes'
  BY <1>0, <1>1, <1>8, <1>m DEF HostTypes, Moves, rolloutOnly
<1>11. LockInv'
  <2>1. ~ BackupLocked(p)'
    BY <1>2, <1>m DEF BackupLocked
  <2> QED
    BY <1>0, <1>1, <1>9, <1>m, <2>1, LocksKept
<1>12. JournalsAreOwned'
  BY <1>0, <1>2, <1>m, OwnedKept DEF Migrates
<1>13. UnresolvedDeployments = {} /\ UnresolvedMigrations = {} /\ UnresolvedBootstraps = {}
  BY <1>3 DEF Blocked
<1>14. UnresolvedMigrations' = {} /\ UnresolvedBootstraps' = {}
  BY <1>1, <1>13 DEF UnresolvedMigrations, UnresolvedBootstraps, rolloutOnly
<1>15. UnresolvedDeployments' = {n}
  BY <1>6, <1>8, <1>13 DEF UnresolvedDeployments
<1>16. OneUnresolved' /\ LastUnresolved'
  BY <1>8, <1>14, <1>15 DEF OneUnresolved, LastUnresolved
<1>17. DeploymentsOK'
  BY <1>0, <1>7, <1>8 DEF SavedOK, DeploymentsOK
<1>18. EnvelopeInv'
  BY <1>0, <1>1, <1>6, <1>8 DEF SavedOK, EnvelopeInv, Vouched
<1>19. TierInv' /\ TiersMatchJournal'
  BY <1>0, <1>1, <1>13, <1>15 DEF SavedOK, TierInv, TiersMatchJournal
<1>20. MigrationsOK' /\ BaseInv' /\ RestoreInv' /\ BootInv' /\ BackupsInv'
  BY <1>0, <1>1, <1>13, <1>14
  DEF SavedOK, MigrationsOK, BaseInv, RestoreInv, BootInv, BackupsInv, rolloutOnly
<1>21. \A q \in Procs \ {p} : ProcOK(q)'
  <2>1. Grow /\ PruneSafe(p)
    BY <1>1, <1>8 DEF Grow, PruneSafe, Held, rolloutOnly
  <2> QED
    BY <1>9, <1>m, <2>1, OthersFree
<1>22. ProcOK(p)'
  <2>1. Dep(p)' = e
    BY <1>8, <1>m DEF Dep
  <2>2. GatesHold(Dep(p))'
    BY <1>1, <1>4, <1>6, <2>1 DEF GatesHold, Compatible, rolloutOnly
  <2> QED
    BY <1>2, <1>6, <1>8, <1>m, <2>1, <2>2 DEF ProcOK, RolloutOK, Going
<1>23. ResultsKept
  BY <1>1, <1>8 DEF ResultsKept, rolloutOnly
<1> QED
  BY <1>10, <1>11, <1>12, <1>16, <1>17, <1>18, <1>19, <1>20, <1>21, <1>22, <1>23 DEF HostInv, SavedOK


\* What a step of a rollout or a recovery finds when it goes on under its lock.
LEMMA DeployFacts ==
    ASSUME HostInv, NEW p \in Procs, proc[p].op \in {"rollout", "recover"}, proc[p].pc # "lock"
    PROVE  /\ RolloutFree(p) /\ rolloutLock = p /\ ProcShape /\ ProcOK(p) /\ HostTypes
           /\ proc[p].id \in UnresolvedDeployments
<1>1. Locked(p) /\ proc[p].id \in UnresolvedDeployments
  BY InHand
<1>2. LockInv /\ ProcShape /\ ProcOK(p) /\ HostTypes
  BY DEF HostInv, HostTypes
<1> QED
  BY <1>1, <1>2, Alone DEF LockInv

\* The program counter moves on.
LEMMA GotoMoves ==
    ASSUME ProcShape, NEW p \in Procs, NEW pc, Goto(p, pc)
    PROVE  Moves(p) /\ Advances(p, pc)
BY SetPc DEF Goto

\* The journal in hand after a step that does not let go of it.
LEMMA DepAfter ==
    ASSUME NEW p \in Procs, proc[p].id \in DOMAIN deployments, proc'[p].id = proc[p].id,
           NEW st, NEW res, NEW rsv, DepSet(proc[p].id, st, res, rsv)
    PROVE  /\ proc'[p].id \in DOMAIN deployments' /\ Len(deployments') = Len(deployments)
           /\ Dep(p)'.status = st /\ Dep(p)'.result = res /\ (Dep(p)'.resolved <=> rsv)
           /\ Dep(p)'.target = Dep(p).target /\ Dep(p)'.heads = Dep(p).heads
           /\ Dep(p)'.prev = Dep(p).prev
BY DEF DepSet, Dep

\* A deployment that was updated and not resolved is still the one in hand.
LEMMA OpenAfter ==
    ASSUME NEW p \in Procs, proc[p].id \in DOMAIN deployments, proc'[p].id = proc[p].id,
           NEW st, NEW res, DepSet(proc[p].id, st, res, FALSE)
    PROVE  /\ proc'[p].id \in DOMAIN deployments' /\ ~ Dep(p)'.resolved /\ Dep(p)'.result = res
           /\ Dep(p)'.target = Dep(p).target /\ Dep(p)'.prev = Dep(p).prev
BY DEF DepSet, Dep

\* Updates of an unresolved journal in hand.
LEMMA StatusSet ==
    ASSUME HostTypes, NEW i \in DOMAIN deployments, NEW st \in DOMAIN DeployLegal,
           deployments[i].result = "none", ~ deployments[i].resolved,
           deployments' = [deployments EXCEPT ![i].status = st]
    PROVE  DepSet(i, st, "none", FALSE)
<1>1. DepSet(i, st, deployments[i].result, deployments[i].resolved)
  BY DepStatus DEF HostTypes
<1> QED
  BY <1>1 DEF DepSet

\* Its result.
LEMMA ResultSet ==
    ASSUME HostTypes, NEW i \in DOMAIN deployments, NEW res \in Terminal,
           ~ deployments[i].resolved, deployments' = [deployments EXCEPT ![i].result = res]
    PROVE  DepSet(i, deployments[i].status, res, FALSE)
<1>1. DepSet(i, deployments[i].status, res, deployments[i].resolved)
  BY DepResult DEF HostTypes
<1> QED
  BY <1>1 DEF DepSet

\* Its event and its result.
LEMMA BothSet ==
    ASSUME HostTypes, NEW i \in DOMAIN deployments, NEW st \in DOMAIN DeployLegal, NEW res \in Terminal,
           ~ deployments[i].resolved,
           deployments' = [deployments EXCEPT ![i].status = st, ![i].result = res]
    PROVE  DepSet(i, st, res, FALSE)
<1>1. DepSet(i, st, res, deployments[i].resolved)
  BY DepBoth DEF HostTypes
<1> QED
  BY <1>1 DEF DepSet

\* Nothing of it.
LEMMA SameSet ==
    ASSUME HostTypes, NEW i \in DOMAIN deployments, ~ deployments[i].resolved, deployments' = deployments
    PROVE  DepSet(i, deployments[i].status, deployments[i].result, FALSE)
<1>1. DepSet(i, deployments[i].status, deployments[i].result, deployments[i].resolved)
  BY DepSame DEF HostTypes
<1> QED
  BY <1>1 DEF DepSet

\* The next event and its operation.
LEMMA RolloutAdvanceKeeps ==
    ASSUME HostInv, NEW p \in Procs, RolloutAdvance(p)
    PROVE  HostInv' /\ ResultsKept
<1> DEFINE i == proc[p].id
           d == Dep(p)
           ev == NextEvent(d)
<1>0. proc[p].op = "rollout" /\ proc[p].pc = "run"
  BY DEF RolloutAdvance, At
<1>1. /\ RolloutFree(p) /\ rolloutLock = p /\ ProcShape /\ RolloutOK(p) /\ HostTypes
      /\ i \in UnresolvedDeployments
  BY <1>0, DeployFacts DEF ProcOK
<1>2. /\ i \in DOMAIN deployments /\ i = Len(deployments) /\ d \in DeploymentJournals
      /\ d = deployments[i] /\ d.result = "none" /\ ~ d.resolved
  BY <1>0, <1>1, InHand DEF RolloutOK
<1>3. d.status \in Going /\ d.status # "stabilizing" /\ GatesHold(d)
  BY <1>0, <1>1 DEF RolloutOK, RolloutAdvance
<1>4. /\ ev \in Going /\ ev \in DOMAIN DeployLegal
      /\ ev \in BeforeMutation => ev # "activating_app" /\ d.status \in BeforeMutation
  BY <1>3 DEF NextEvent, Going, BeforeMutation, DeployLegal
<1>5. /\ deployments' = [deployments EXCEPT ![i].status = ev]
      /\ app' = (IF ev = "activating_app" THEN d.target ELSE app)
      /\ gateway' = (IF ev = "activating_gateway" THEN d.target ELSE gateway)
      /\ config' \in {Recreated, config}
      /\ UNCHANGED <<current, rolloutOnly, proc, rolloutLock, backupLock>>
  BY DEF RolloutAdvance
<1> HIDE DEF ev
<1>6. DepSet(i, ev, "none", FALSE)
  BY <1>1, <1>2, <1>4, <1>5, StatusSet
<1>7. Moves(p)
  BY <1>1, <1>5 DEF Moves, ProcShape
<1>8. TierInv' /\ TiersMatchJournal'
  <2>1. CASE ev \in BeforeMutation
    BY <1>1, <1>2, <1>4, <1>5, <1>6, <2>1, TierKept
  <2>2. CASE ev \notin BeforeMutation
    BY <1>1, <1>6, <2>2, StillOpen
  <2> QED
    BY <2>1, <2>2
<1>9. ProcOK(p)'
  <2>1. /\ proc'[p].id \in DOMAIN deployments' /\ Len(deployments') = Len(deployments)
        /\ Dep(p)'.status = ev /\ Dep(p)'.result = "none"
        /\ Dep(p)'.target = d.target /\ Dep(p)'.heads = d.heads
    BY <1>2, <1>5, <1>6, DepAfter
  <2>2. GatesHold(Dep(p))'
    BY <1>3, <1>5, <2>1 DEF GatesHold, Compatible, rolloutOnly
  <2> QED
    BY <1>0, <1>1, <1>2, <1>4, <1>5, <2>1, <2>2 DEF ProcOK, RolloutOK
<1>10. app' \in Tiers /\ gateway' \in Releases \cup {None} /\ config' \in Runtimes
  BY <1>1, <1>2, <1>5, RecreatedType DEF HostTypes, Tiers, DeploymentJournals
<1> QED
  BY <1>0, <1>1, <1>2, <1>5, <1>6, <1>7, <1>8, <1>9, <1>10, DeployStep

\* The same for a rollout ...
LEMMA RolloutFacts ==
    ASSUME HostInv, NEW p \in Procs, proc[p].op = "rollout", proc[p].pc # "lock"
    PROVE  /\ RolloutFree(p) /\ rolloutLock = p /\ ProcShape /\ RolloutOK(p) /\ HostTypes /\ SavedOK
           /\ proc[p].id \in UnresolvedDeployments
           /\ proc[p].id \in DOMAIN deployments /\ proc[p].id = Len(deployments)
           /\ Dep(p) = deployments[proc[p].id] /\ Dep(p) \in DeploymentJournals
           /\ Dep(p).result = "none" /\ ~ Dep(p).resolved
<1>1. /\ RolloutFree(p) /\ rolloutLock = p /\ ProcShape /\ ProcOK(p) /\ HostTypes
      /\ proc[p].id \in UnresolvedDeployments
  BY DeployFacts
<1>2. RolloutOK(p) /\ SavedOK
  BY <1>1 DEF ProcOK, HostInv
<1>3. /\ proc[p].id \in DOMAIN deployments /\ proc[p].id = Len(deployments)
      /\ Dep(p) \in DeploymentJournals /\ Dep(p) = deployments[proc[p].id] /\ ~ Dep(p).resolved
  BY InHand
<1> QED
  BY <1>1, <1>2, <1>3 DEF RolloutOK

\* ... and for a recovery.
LEMMA RecoverFacts ==
    ASSUME HostInv, NEW p \in Procs, proc[p].op = "recover", proc[p].pc # "lock"
    PROVE  /\ RolloutFree(p) /\ rolloutLock = p /\ ProcShape /\ RecoverOK(p) /\ HostTypes /\ SavedOK
           /\ proc[p].id \in UnresolvedDeployments
           /\ proc[p].id \in DOMAIN deployments /\ proc[p].id = Len(deployments)
           /\ Dep(p) = deployments[proc[p].id] /\ Dep(p) \in DeploymentJournals
           /\ Dep(p).result \in {"none", "rollback_failed"} /\ ~ Dep(p).resolved
<1>1. /\ RolloutFree(p) /\ rolloutLock = p /\ ProcShape /\ ProcOK(p) /\ HostTypes
      /\ proc[p].id \in UnresolvedDeployments
  BY DeployFacts
<1>2. RecoverOK(p) /\ SavedOK
  BY <1>1 DEF ProcOK, HostInv
<1> QED
  BY <1>1, <1>2, InHand

\* The tiers are healthy.
LEMMA RolloutStableKeeps ==
    ASSUME HostInv, NEW p \in Procs, RolloutStable(p)
    PROVE  HostInv' /\ ResultsKept
<1> DEFINE i == proc[p].id
           d == Dep(p)
<1>0. /\ proc[p].op = "rollout" /\ proc[p].pc = "run" /\ d.status = "stabilizing" /\ Runs(d.target)
      /\ Goto(p, "publish") /\ UNCHANGED <<hostVars, journalVars, backupVars, config, ops>>
  BY DEF RolloutStable, At
<1>1. /\ RolloutFree(p) /\ rolloutLock = p /\ ProcShape /\ RolloutOK(p) /\ HostTypes
      /\ i \in UnresolvedDeployments /\ i \in DOMAIN deployments /\ i = Len(deployments)
      /\ d = deployments[i] /\ d.result = "none" /\ ~ d.resolved
  BY <1>0, RolloutFacts
<1>2. UNCHANGED <<current, live, app, gateway, deployments, migrations, bootstraps, configs, config,
                  backups, made, ops>>
  BY <1>0 DEF hostVars, journalVars, backupVars
<1>3. Moves(p) /\ Advances(p, "publish")
  BY <1>0, <1>1, GotoMoves
<1>4. DepSet(i, d.status, "none", FALSE)
  BY <1>1, <1>2, SameSet
<1>5. TierInv' /\ TiersMatchJournal'
  BY <1>1, <1>2, <1>4, TierKept
<1>6. ProcOK(p)'
  <2>1. /\ proc'[p].id \in DOMAIN deployments' /\ Len(deployments') = Len(deployments)
        /\ Dep(p)'.status = d.status /\ Dep(p)'.result = "none"
        /\ Dep(p)'.target = d.target /\ Dep(p)'.heads = d.heads
    BY <1>1, <1>3, <1>4, DepAfter DEF Advances
  <2>2. GatesHold(Dep(p))'
    BY <1>0, <1>1, <1>2, <2>1 DEF GatesHold, Compatible, RolloutOK
  <2> QED
    BY <1>0, <1>1, <1>2, <1>3, <2>1, <2>2 DEF ProcOK, RolloutOK, Advances, Runs
<1>7. UNCHANGED rolloutOnly /\ backupLock' = backupLock /\ rolloutLock' = p
  BY <1>0, <1>1, <1>2 DEF rolloutOnly, Goto
<1> QED
  BY <1>0, <1>1, <1>2, <1>3, <1>4, <1>5, <1>6, <1>7, DeployStep DEF HostTypes, Advances

\* current.json is written.
LEMMA RolloutPublishKeeps ==
    ASSUME HostInv, NEW p \in Procs, RolloutPublish(p)
    PROVE  HostInv' /\ ResultsKept
<1> DEFINE i == proc[p].id
           d == Dep(p)
           c == CommittedState(i)
<1>0. /\ proc[p].op = "rollout" /\ proc[p].pc = "publish" /\ current' = c
      /\ Goto(p, "commit") /\ UNCHANGED <<app, gateway, deployments, config, rolloutOnly>>
  BY DEF RolloutPublish, At
<1>1. /\ RolloutFree(p) /\ rolloutLock = p /\ ProcShape /\ RolloutOK(p) /\ HostTypes
      /\ i \in UnresolvedDeployments /\ i \in DOMAIN deployments /\ i = Len(deployments)
      /\ d = deployments[i] /\ d.result = "none" /\ ~ d.resolved
  BY <1>0, RolloutFacts
<1>2. d.status = "stabilizing" /\ GatesHold(d) /\ Runs(d.target)
  BY <1>0, <1>1 DEF RolloutOK
<1>3. Moves(p) /\ Advances(p, "commit")
  BY <1>0, <1>1, GotoMoves
<1>4. DepSet(i, d.status, "none", FALSE)
  BY <1>0, <1>1, SameSet
<1>5. TierInv' /\ TiersMatchJournal'
  BY <1>1, <1>2, <1>4, StillOpen DEF BeforeMutation
<1>8. /\ c \in CurrentStates /\ c.heads = live /\ c.app = d.target /\ d.target \in c.envelope
      /\ current # None => current.envelope \subseteq c.envelope
  BY <1>1, <1>2, CommittedOK
<1> HIDE DEF c
<1>6. ProcOK(p)'
  <2>1. /\ proc'[p].id \in DOMAIN deployments' /\ Len(deployments') = Len(deployments)
        /\ Dep(p)'.result = "none" /\ Dep(p)'.target = d.target
    BY <1>1, <1>3, <1>4, DepAfter DEF Advances
  <2>2. Vouched(Dep(p).target)' /\ Runs(Dep(p).target)'
    BY <1>0, <1>2, <1>8, <2>1, DocumentAssumption DEF Vouched, Runs
  <2> QED
    BY <1>0, <1>1, <1>3, <2>1, <2>2 DEF ProcOK, RolloutOK, Advances
<1>7. backupLock' = backupLock /\ rolloutLock' = p
  BY <1>0, <1>1 DEF Goto
<1> QED
  BY <1>0, <1>1, <1>3, <1>4, <1>5, <1>6, <1>7, <1>8, DeployStep DEF HostTypes, Advances

\* The committed event ...
LEMMA RolloutCommitKeeps ==
    ASSUME HostInv, NEW p \in Procs, RolloutCommit(p)
    PROVE  HostInv' /\ ResultsKept
<1> DEFINE i == proc[p].id
           d == Dep(p)
           st == "committed"
<1>0. /\ proc[p].op = "rollout" /\ proc[p].pc = "commit"
      /\ deployments' = [deployments EXCEPT ![i].status = st]
      /\ Goto(p, "result") /\ UNCHANGED <<current, app, gateway, config, rolloutOnly>>
  BY DEF RolloutCommit, At
<1>1. /\ RolloutFree(p) /\ rolloutLock = p /\ ProcShape /\ RolloutOK(p) /\ HostTypes
      /\ i \in UnresolvedDeployments /\ i \in DOMAIN deployments /\ i = Len(deployments)
      /\ d = deployments[i] /\ d.result = "none" /\ ~ d.resolved
  BY <1>0, RolloutFacts
<1>2. Vouched(d.target) /\ Runs(d.target)
  BY <1>0, <1>1 DEF RolloutOK
<1>3. Moves(p) /\ Advances(p, "result")
  BY <1>0, <1>1, GotoMoves
<1>s. st \in DOMAIN DeployLegal /\ st \notin BeforeMutation
  BY DEF DeployLegal, Terminal, BeforeMutation
<1> HIDE DEF st
<1>4. DepSet(i, st, "none", FALSE)
  BY <1>0, <1>1, <1>s, StatusSet
<1>5. TierInv' /\ TiersMatchJournal'
  BY <1>1, <1>4, <1>s, StillOpen
<1>6. ProcOK(p)'
  <2>1. /\ proc'[p].id \in DOMAIN deployments' /\ Len(deployments') = Len(deployments)
        /\ Dep(p)'.result = "none" /\ Dep(p)'.target = d.target
    BY <1>1, <1>3, <1>4, DepAfter DEF Advances
  <2>2. Vouched(Dep(p).target)' /\ Runs(Dep(p).target)'
    BY <1>0, <1>2, <2>1 DEF Vouched, Runs
  <2> QED
    BY <1>0, <1>1, <1>3, <2>1, <2>2 DEF ProcOK, RolloutOK, Advances
<1>7. backupLock' = backupLock /\ rolloutLock' = p
  BY <1>0, <1>1 DEF Goto
<1> QED
  BY <1>0, <1>1, <1>3, <1>4, <1>5, <1>6, <1>7, DeployStep DEF HostTypes, Advances

\* ... and the result.
LEMMA RolloutResultKeeps ==
    ASSUME HostInv, NEW p \in Procs, RolloutResult(p)
    PROVE  HostInv' /\ ResultsKept
<1> DEFINE i == proc[p].id
           d == Dep(p)
           res == "committed"
<1>0. /\ proc[p].op = "rollout" /\ proc[p].pc = "result"
      /\ deployments' = [deployments EXCEPT ![i].result = res]
      /\ Leave(p) /\ UNCHANGED <<current, app, gateway, config, rolloutOnly>>
  BY DEF RolloutResult, At
<1>1. /\ RolloutFree(p) /\ rolloutLock = p /\ ProcShape /\ RolloutOK(p) /\ HostTypes
      /\ i \in UnresolvedDeployments /\ i \in DOMAIN deployments
      /\ d = deployments[i] /\ ~ d.resolved
  BY <1>0, RolloutFacts
<1>2. Vouched(d.target) /\ Runs(d.target) /\ d.result = "none"
  BY <1>0, <1>1 DEF RolloutOK
<1>3. Moves(p) /\ ProcOK(p)'
  BY <1>0, <1>1, SetIdle DEF ProcOK
<1>s. res \in Terminal /\ res # "none" /\ res # "rollback_failed" /\ res # "rolled_back"
  BY DEF Terminal
<1> HIDE DEF res
<1>4. DepSet(i, d.status, res, FALSE)
  BY <1>0, <1>1, <1>s, ResultSet
<1>5. TierInv' /\ TiersMatchJournal'
  <2>1. app' = d.target /\ gateway' = d.target
    BY <1>0, <1>2 DEF Runs
  <2>2. app' \in current'.envelope
    BY <1>0, <1>2 DEF Runs, Vouched
  <2> QED
    BY <1>1, <1>4, <1>s, <2>1, <2>2, NowClosed
<1> QED
  BY <1>0, <1>1, <1>2, <1>3, <1>4, <1>5, DeployStep DEF HostTypes

\* An error inside the try block.
LEMMA RolloutErrorKeeps ==
    ASSUME HostInv, NEW p \in Procs, RolloutError(p)
    PROVE  HostInv' /\ ResultsKept
<1> DEFINE i == proc[p].id
           d == Dep(p)
           ev == NextEvent(d)
<1>0. /\ proc[p].op = "rollout" /\ proc[p].pc \in {"run", "publish", "commit", "result"}
      /\ Goto(p, "failed") /\ config' \in {config, Recreated} /\ UNCHANGED <<current, rolloutOnly>>
  BY DEF RolloutError
<1>1. /\ RolloutFree(p) /\ rolloutLock = p /\ ProcShape /\ RolloutOK(p) /\ HostTypes /\ SavedOK
      /\ i \in UnresolvedDeployments /\ i \in DOMAIN deployments /\ i = Len(deployments)
      /\ d = deployments[i] /\ d \in DeploymentJournals /\ d.result = "none" /\ ~ d.resolved
  BY <1>0, RolloutFacts
<1>2. PICK st \in {d.status} \cup (IF proc[p].pc = "run" /\ d.status # "stabilizing" THEN {ev} ELSE {}) :
         /\ deployments' = [deployments EXCEPT ![i].status = st]
         /\ app' \in IF st = "activating_app" /\ st # d.status THEN HalfActivated(d.target) ELSE {app}
         /\ gateway' \in IF st = "activating_gateway" /\ st # d.status THEN {gateway, d.target}
                         ELSE {gateway}
  BY DEF RolloutError
<1>3. Moves(p) /\ Advances(p, "failed")
  BY <1>0, <1>1, GotoMoves
<1>s. /\ st \in DOMAIN DeployLegal
      /\ st \in BeforeMutation => d.status \in BeforeMutation /\ app' = app
  <2>1. CASE st = d.status
    BY <1>1, <1>2, <2>1 DEF DeploymentJournals
  <2>2. CASE proc[p].pc = "run" /\ d.status # "stabilizing" /\ st = ev
    <3>1. d.status \in Going
      BY <1>0, <1>1, <2>2 DEF RolloutOK
    <3> QED
      BY <1>2, <2>2, <3>1 DEF NextEvent, Going, BeforeMutation, DeployLegal
  <2> QED
    BY <1>2, <2>1, <2>2
<1> HIDE DEF ev
<1>4. DepSet(i, st, "none", FALSE)
  BY <1>1, <1>2, <1>s, StatusSet
<1>5. TierInv' /\ TiersMatchJournal'
  <2>1. CASE st \in BeforeMutation
    BY <1>0, <1>1, <1>4, <1>s, <2>1, TierKept
  <2>2. CASE st \notin BeforeMutation
    BY <1>1, <1>4, <2>2, StillOpen
  <2> QED
    BY <2>1, <2>2
<1>6. ProcOK(p)'
  <2>1. /\ proc'[p].id \in DOMAIN deployments' /\ Len(deployments') = Len(deployments)
        /\ Dep(p)'.result = "none"
    BY <1>1, <1>3, <1>4, DepAfter DEF Advances
  <2> QED
    BY <1>0, <1>1, <1>3, <2>1 DEF ProcOK, RolloutOK, Advances
<1>7. backupLock' = backupLock /\ rolloutLock' = p
  BY <1>0, <1>1 DEF Goto
<1>8. app' \in Tiers /\ gateway' \in Releases \cup {None} /\ config' \in Runtimes
  BY <1>0, <1>1, <1>2, RecreatedType DEF HostTypes, Tiers, DeploymentJournals, HalfActivated
<1> QED
  BY <1>0, <1>1, <1>3, <1>4, <1>5, <1>6, <1>7, <1>8, DeployStep DEF Advances

\* An error before the try block.
LEMMA RolloutErrorEarlyKeeps ==
    ASSUME HostInv, NEW p \in Procs, RolloutErrorEarly(p)
    PROVE  HostInv' /\ ResultsKept
BY LeaveKeeps DEF RolloutErrorEarly

\* The handler's event is refused.
LEMMA HandlerRefusedKeeps ==
    ASSUME HostInv, NEW p \in Procs, HandlerRefused(p)
    PROVE  HostInv' /\ ResultsKept
BY LeaveKeeps DEF HandlerRefused

\* A gate refuses.
LEMMA RolloutRefusedKeeps ==
    ASSUME HostInv, NEW p \in Procs, RolloutRefused(p)
    PROVE  HostInv' /\ ResultsKept
BY LeaveKeeps DEF RolloutRefused

\* Nothing was touched: terminal failed.
LEMMA RolloutFailedKeeps ==
    ASSUME HostInv, NEW p \in Procs, RolloutFailed(p)
    PROVE  HostInv' /\ ResultsKept
<1> DEFINE i == proc[p].id
           d == Dep(p)
           st == "failed"
<1>0. /\ proc[p].op = "rollout" /\ proc[p].pc = "failed" /\ d.status \in BeforeMutation
      /\ deployments' = [deployments EXCEPT ![i].status = st, ![i].result = st]
      /\ Leave(p) /\ UNCHANGED <<current, app, gateway, config, rolloutOnly>>
  BY DEF RolloutFailed, At
<1>1. /\ RolloutFree(p) /\ rolloutLock = p /\ ProcShape /\ RolloutOK(p) /\ HostTypes /\ SavedOK
      /\ i \in UnresolvedDeployments /\ i \in DOMAIN deployments /\ i = Len(deployments)
      /\ d = deployments[i] /\ d \in DeploymentJournals /\ d.result = "none" /\ ~ d.resolved
  BY <1>0, RolloutFacts
<1>3. Moves(p) /\ ProcOK(p)'
  BY <1>0, <1>1, SetIdle DEF ProcOK
<1>s. /\ st \in DOMAIN DeployLegal /\ st \in Terminal
      /\ st # "none" /\ st # "rollback_failed" /\ st # "rolled_back" /\ st # "committed"
  BY DEF DeployLegal, Terminal
<1> HIDE DEF st
<1>4. DepSet(i, st, st, FALSE)
  BY <1>0, <1>1, <1>s, BothSet
<1>5. TierInv' /\ TiersMatchJournal'
  <2>1. \A j \in UnresolvedDeployments : deployments[j].status \in BeforeMutation
    BY <1>0, <1>1 DEF SavedOK, OneUnresolved
  <2>2. current' # None /\ app' \in Releases => app' \in current'.envelope
    BY <1>0, <1>1, <2>1 DEF SavedOK, TierInv
  <2> QED
    BY <1>1, <1>4, <1>s, <2>2, NowClosed
<1> QED
  BY <1>0, <1>1, <1>3, <1>4, <1>5, DeployStep DEF HostTypes

\* The cleanup of a first rollout is announced.
LEMMA CleanupStartKeeps ==
    ASSUME HostInv, NEW p \in Procs, CleanupStart(p)
    PROVE  HostInv' /\ ResultsKept
<1> DEFINE i == proc[p].id
           d == Dep(p)
           st == "bootstrap_cleanup_started"
<1>0. /\ proc[p].op = "rollout" /\ proc[p].pc = "failed"
      /\ deployments' = [deployments EXCEPT ![i].status = st]
      /\ Goto(p, "cleanup") /\ UNCHANGED <<current, app, gateway, config, rolloutOnly>>
  BY DEF CleanupStart, At
<1>1. /\ RolloutFree(p) /\ rolloutLock = p /\ ProcShape /\ RolloutOK(p) /\ HostTypes /\ SavedOK
      /\ i \in UnresolvedDeployments /\ i \in DOMAIN deployments /\ i = Len(deployments)
      /\ d = deployments[i] /\ d \in DeploymentJournals /\ d.result = "none" /\ ~ d.resolved
  BY <1>0, RolloutFacts
<1>3. Moves(p) /\ Advances(p, "cleanup")
  BY <1>0, <1>1, GotoMoves
<1>s. st \in DOMAIN DeployLegal /\ st \notin BeforeMutation
  BY DEF DeployLegal, Terminal, BeforeMutation
<1> HIDE DEF st
<1>4. DepSet(i, st, "none", FALSE)
  BY <1>0, <1>1, <1>s, StatusSet
<1>5. TierInv' /\ TiersMatchJournal'
  BY <1>1, <1>4, <1>s, StillOpen
<1>6. ProcOK(p)'
  <2>1. /\ proc'[p].id \in DOMAIN deployments' /\ Len(deployments') = Len(deployments)
        /\ Dep(p)'.result = "none"
    BY <1>1, <1>3, <1>4, DepAfter DEF Advances
  <2> QED
    BY <1>0, <1>1, <1>3, <2>1 DEF ProcOK, RolloutOK, Advances
<1>7. backupLock' = backupLock /\ rolloutLock' = p
  BY <1>0, <1>1 DEF Goto
<1> QED
  BY <1>0, <1>1, <1>3, <1>4, <1>5, <1>6, <1>7, DeployStep DEF HostTypes, Advances

\* A rollback is announced.
LEMMA RollbackStartKeeps ==
    ASSUME HostInv, NEW p \in Procs, RollbackStart(p)
    PROVE  HostInv' /\ ResultsKept
<1> DEFINE i == proc[p].id
           d == Dep(p)
           st == "rollback_started"
<1>0. /\ proc[p].op = "rollout" /\ proc[p].pc = "failed"
      /\ deployments' = [deployments EXCEPT ![i].status = st]
      /\ Goto(p, "rollback") /\ UNCHANGED <<current, app, gateway, config, rolloutOnly>>
  BY DEF RollbackStart, At
<1>1. /\ RolloutFree(p) /\ rolloutLock = p /\ ProcShape /\ RolloutOK(p) /\ HostTypes /\ SavedOK
      /\ i \in UnresolvedDeployments /\ i \in DOMAIN deployments /\ i = Len(deployments)
      /\ d = deployments[i] /\ d \in DeploymentJournals /\ d.result = "none" /\ ~ d.resolved
  BY <1>0, RolloutFacts
<1>3. Moves(p) /\ Advances(p, "rollback")
  BY <1>0, <1>1, GotoMoves
<1>s. st \in DOMAIN DeployLegal /\ st \notin BeforeMutation
  BY DEF DeployLegal, Terminal, BeforeMutation
<1> HIDE DEF st
<1>4. DepSet(i, st, "none", FALSE)
  BY <1>0, <1>1, <1>s, StatusSet
<1>5. TierInv' /\ TiersMatchJournal'
  BY <1>1, <1>4, <1>s, StillOpen
<1>6. ProcOK(p)'
  <2>1. /\ proc'[p].id \in DOMAIN deployments' /\ Len(deployments') = Len(deployments)
        /\ Dep(p)'.result = "none"
    BY <1>1, <1>3, <1>4, DepAfter DEF Advances
  <2> QED
    BY <1>0, <1>1, <1>3, <2>1 DEF ProcOK, RolloutOK, Advances
<1>7. backupLock' = backupLock /\ rolloutLock' = p
  BY <1>0, <1>1 DEF Goto
<1> QED
  BY <1>0, <1>1, <1>3, <1>4, <1>5, <1>6, <1>7, DeployStep DEF HostTypes, Advances

\* Containers are removed, or some of them.
LEMMA CleanupRemoveKeeps ==
    ASSUME HostInv, NEW p \in Procs, CleanupRemove(p)
    PROVE  HostInv' /\ ResultsKept
<1> DEFINE i == proc[p].id
           d == Dep(p)
<1>0. /\ proc[p].op = "rollout" /\ proc[p].pc = "cleanup"
      /\ UNCHANGED <<current, deployments, config, rolloutOnly>>
      /\ app' \in {app, None} /\ gateway' \in {gateway, None}
      /\ Leave(p) \/ (Goto(p, "cleaned") /\ app' = None /\ gateway' = None)
  BY DEF CleanupRemove, At
<1>1. /\ RolloutFree(p) /\ rolloutLock = p /\ ProcShape /\ RolloutOK(p) /\ HostTypes /\ SavedOK
      /\ i \in UnresolvedDeployments /\ i \in DOMAIN deployments /\ i = Len(deployments)
      /\ d = deployments[i] /\ d \in DeploymentJournals /\ d.result = "none" /\ ~ d.resolved
  BY <1>0, RolloutFacts
<1>4. DepSet(i, d.status, "none", FALSE)
  BY <1>0, <1>1, SameSet
<1>5. TierInv' /\ TiersMatchJournal'
  BY <1>0, <1>1, <1>4, TierKept
<1>8. app' \in Tiers /\ gateway' \in Releases \cup {None} /\ config' \in Runtimes
  BY <1>0, <1>1 DEF HostTypes, Tiers
<1>2. CASE Leave(p)
  <2>1. Moves(p) /\ ProcOK(p)'
    BY <1>1, <1>2, SetIdle DEF ProcOK
  <2> QED
    BY <1>0, <1>1, <1>2, <1>4, <1>5, <1>8, <2>1, DeployStep
<1>3. CASE Goto(p, "cleaned") /\ app' = None /\ gateway' = None
  <2>1. Moves(p) /\ Advances(p, "cleaned")
    BY <1>1, <1>3, GotoMoves
  <2>2. ProcOK(p)'
    <3>1. /\ proc'[p].id \in DOMAIN deployments' /\ Len(deployments') = Len(deployments)
          /\ Dep(p)'.result = "none"
      BY <1>1, <1>4, <2>1, DepAfter DEF Advances
    <3> QED
      BY <1>0, <1>1, <1>3, <2>1, <3>1 DEF ProcOK, RolloutOK, Advances
  <2>3. backupLock' = backupLock /\ rolloutLock' = p
    BY <1>1, <1>3 DEF Goto
  <2> QED
    BY <1>0, <1>1, <1>4, <1>5, <1>8, <2>1, <2>2, <2>3, DeployStep DEF Advances
<1> QED
  BY <1>0, <1>2, <1>3

\* The first rollout has failed and left nothing.
LEMMA CleanupPublishKeeps ==
    ASSUME HostInv, NEW p \in Procs, CleanupPublish(p)
    PROVE  HostInv' /\ ResultsKept
<1> DEFINE i == proc[p].id
           d == Dep(p)
           st == "failed"
<1>0. /\ proc[p].op = "rollout" /\ proc[p].pc = "cleaned"
      /\ deployments' = [deployments EXCEPT ![i].status = st, ![i].result = st]
      /\ Leave(p) /\ UNCHANGED <<current, app, gateway, config, rolloutOnly>>
  BY DEF CleanupPublish, At
<1>1. /\ RolloutFree(p) /\ rolloutLock = p /\ ProcShape /\ RolloutOK(p) /\ HostTypes /\ SavedOK
      /\ i \in UnresolvedDeployments /\ i \in DOMAIN deployments /\ i = Len(deployments)
      /\ d = deployments[i] /\ d \in DeploymentJournals /\ d.result = "none" /\ ~ d.resolved
  BY <1>0, RolloutFacts
<1>3. Moves(p) /\ ProcOK(p)'
  BY <1>0, <1>1, SetIdle DEF ProcOK
<1>s. /\ st \in DOMAIN DeployLegal /\ st \in Terminal
      /\ st # "none" /\ st # "rollback_failed" /\ st # "rolled_back" /\ st # "committed"
  BY DEF DeployLegal, Terminal
<1> HIDE DEF st
<1>4. DepSet(i, st, st, FALSE)
  BY <1>0, <1>1, <1>s, BothSet
<1>5. TierInv' /\ TiersMatchJournal'
  <2>1. app' \notin Releases
    BY <1>0, <1>1, HeadsAssumption DEF RolloutOK
  <2> QED
    BY <1>1, <1>4, <1>s, <2>1, NowClosed
<1> QED
  BY <1>0, <1>1, <1>3, <1>4, <1>5, DeployStep DEF HostTypes

\* The application tier goes back.
LEMMA RollbackAppKeeps ==
    ASSUME HostInv, NEW p \in Procs, RollbackApp(p)
    PROVE  HostInv' /\ ResultsKept
<1> DEFINE i == proc[p].id
           d == Dep(p)
<1>0. /\ proc[p].op = "rollout" /\ proc[p].pc = "rollback" /\ d.prev # None
      /\ app' = d.prev /\ Goto(p, "rollback_gateway") /\ config' = Recreated
      /\ UNCHANGED <<current, gateway, deployments, rolloutOnly>>
  BY DEF RollbackApp, At, RollbackAllowed
<1>1. /\ RolloutFree(p) /\ rolloutLock = p /\ ProcShape /\ RolloutOK(p) /\ HostTypes /\ SavedOK
      /\ i \in UnresolvedDeployments /\ i \in DOMAIN deployments /\ i = Len(deployments)
      /\ d = deployments[i] /\ d \in DeploymentJournals /\ d.result = "none" /\ ~ d.resolved
  BY <1>0, RolloutFacts
<1>3. Moves(p) /\ Advances(p, "rollback_gateway")
  BY <1>0, <1>1, GotoMoves
<1>4. DepSet(i, d.status, "none", FALSE)
  BY <1>0, <1>1, SameSet
<1>5. TierInv' /\ TiersMatchJournal'
  BY <1>0, <1>1, <1>4, TierKept
<1>6. ProcOK(p)'
  <2>1. /\ proc'[p].id \in DOMAIN deployments' /\ Len(deployments') = Len(deployments)
        /\ Dep(p)'.result = "none" /\ Dep(p)'.prev = d.prev
    BY <1>1, <1>3, <1>4, DepAfter DEF Advances
  <2> QED
    BY <1>0, <1>1, <1>3, <2>1 DEF ProcOK, RolloutOK, Advances
<1>7. backupLock' = backupLock /\ rolloutLock' = p
  BY <1>0, <1>1 DEF Goto
<1>8. app' \in Tiers /\ gateway' \in Releases \cup {None} /\ config' \in Runtimes
  BY <1>0, <1>1, RecreatedType DEF HostTypes, Tiers, DeploymentJournals
<1> QED
  BY <1>0, <1>1, <1>3, <1>4, <1>5, <1>6, <1>7, <1>8, DeployStep DEF Advances

\* The gateway goes back.
LEMMA RollbackGatewayKeeps ==
    ASSUME HostInv, NEW p \in Procs, RollbackGateway(p)
    PROVE  HostInv' /\ ResultsKept
<1> DEFINE i == proc[p].id
           d == Dep(p)
           st == "rolled_back"
<1>0. /\ proc[p].op = "rollout" /\ proc[p].pc = "rollback_gateway"
      /\ gateway' = d.prev /\ deployments' = [deployments EXCEPT ![i].status = st]
      /\ Goto(p, "rollback_result") /\ config' = Recreated
      /\ UNCHANGED <<current, app, rolloutOnly>>
  BY DEF RollbackGateway, At
<1>1. /\ RolloutFree(p) /\ rolloutLock = p /\ ProcShape /\ RolloutOK(p) /\ HostTypes /\ SavedOK
      /\ i \in UnresolvedDeployments /\ i \in DOMAIN deployments /\ i = Len(deployments)
      /\ d = deployments[i] /\ d \in DeploymentJournals /\ d.result = "none" /\ ~ d.resolved
  BY <1>0, RolloutFacts
<1>2. d.prev # None /\ app = d.prev
  BY <1>0, <1>1 DEF RolloutOK
<1>3. Moves(p) /\ Advances(p, "rollback_result")
  BY <1>0, <1>1, GotoMoves
<1>s. st \in DOMAIN DeployLegal /\ st \notin BeforeMutation
  BY DEF DeployLegal, Terminal, BeforeMutation
<1> HIDE DEF st
<1>4. DepSet(i, st, "none", FALSE)
  BY <1>0, <1>1, <1>s, StatusSet
<1>5. TierInv' /\ TiersMatchJournal'
  BY <1>1, <1>4, <1>s, StillOpen
<1>6. ProcOK(p)'
  <2>1. /\ proc'[p].id \in DOMAIN deployments' /\ Len(deployments') = Len(deployments)
        /\ Dep(p)'.result = "none" /\ Dep(p)'.prev = d.prev
    BY <1>1, <1>3, <1>4, DepAfter DEF Advances
  <2> QED
    BY <1>0, <1>1, <1>2, <1>3, <2>1 DEF ProcOK, RolloutOK, Advances, Runs
<1>7. backupLock' = backupLock /\ rolloutLock' = p
  BY <1>0, <1>1 DEF Goto
<1>8. app' \in Tiers /\ gateway' \in Releases \cup {None} /\ config' \in Runtimes
  BY <1>0, <1>1, RecreatedType DEF HostTypes, Tiers, DeploymentJournals
<1> QED
  BY <1>0, <1>1, <1>3, <1>4, <1>5, <1>6, <1>7, <1>8, DeployStep DEF Advances

\* The rollback is recorded.
LEMMA RollbackResultKeeps ==
    ASSUME HostInv, NEW p \in Procs, RollbackResult(p)
    PROVE  HostInv' /\ ResultsKept
<1> DEFINE i == proc[p].id
           d == Dep(p)
           res == "rolled_back"
<1>0. /\ proc[p].op = "rollout" /\ proc[p].pc = "rollback_result"
      /\ deployments' = [deployments EXCEPT ![i].result = res]
      /\ Leave(p) /\ UNCHANGED <<current, app, gateway, config, rolloutOnly>>
  BY DEF RollbackResult, At
<1>1. /\ RolloutFree(p) /\ rolloutLock = p /\ ProcShape /\ RolloutOK(p) /\ HostTypes /\ SavedOK
      /\ i \in UnresolvedDeployments /\ i \in DOMAIN deployments /\ i = Len(deployments)
      /\ d = deployments[i] /\ d \in DeploymentJournals /\ d.result = "none" /\ ~ d.resolved
  BY <1>0, RolloutFacts
<1>3. Moves(p) /\ ProcOK(p)'
  BY <1>0, <1>1, SetIdle DEF ProcOK
<1>2. d.prev # None /\ app = d.prev /\ gateway = d.prev /\ Vouched(d.prev)
  BY <1>0, <1>1 DEF RolloutOK, Runs, SavedOK, EnvelopeInv
<1>s. res \in Terminal /\ res # "none" /\ res # "rollback_failed" /\ res # "committed"
  BY DEF Terminal
<1> HIDE DEF res
<1>4. DepSet(i, d.status, res, FALSE)
  BY <1>0, <1>1, <1>s, ResultSet
<1>5. TierInv' /\ TiersMatchJournal'
  <2>1. app' = d.prev /\ gateway' = d.prev /\ app' \in current'.envelope
    BY <1>0, <1>2 DEF Vouched
  <2> QED
    BY <1>1, <1>4, <1>s, <2>1, NowClosed
<1> QED
  BY <1>0, <1>1, <1>3, <1>4, <1>5, DeployStep DEF HostTypes

\* The rollback fails, or its gate refuses.
LEMMA RollbackErrorKeeps ==
    ASSUME HostInv, NEW p \in Procs, RollbackError(p)
    PROVE  HostInv' /\ ResultsKept
<1> DEFINE i == proc[p].id
           d == Dep(p)
<1>0. /\ proc[p].op = "rollout" /\ proc[p].pc \in {"rollback", "rollback_gateway", "rollback_result"}
      /\ Goto(p, "rollback_failed") /\ config' \in {config, Recreated}
      /\ UNCHANGED <<current, deployments, rolloutOnly>>
      /\ app' \in {app, d.prev, Mixed} /\ gateway' \in {gateway, d.prev}
  BY DEF RollbackError, HalfActivated
<1>1. /\ RolloutFree(p) /\ rolloutLock = p /\ ProcShape /\ RolloutOK(p) /\ HostTypes /\ SavedOK
      /\ i \in UnresolvedDeployments /\ i \in DOMAIN deployments /\ i = Len(deployments)
      /\ d = deployments[i] /\ d \in DeploymentJournals /\ d.result = "none" /\ ~ d.resolved
  BY <1>0, RolloutFacts
<1>3. Moves(p) /\ Advances(p, "rollback_failed")
  BY <1>0, <1>1, GotoMoves
<1>4. DepSet(i, d.status, "none", FALSE)
  BY <1>0, <1>1, SameSet
<1>5. TierInv' /\ TiersMatchJournal'
  BY <1>0, <1>1, <1>4, TierKept
<1>6. ProcOK(p)'
  <2>1. /\ proc'[p].id \in DOMAIN deployments' /\ Len(deployments') = Len(deployments)
        /\ Dep(p)'.result = "none"
    BY <1>1, <1>3, <1>4, DepAfter DEF Advances
  <2> QED
    BY <1>0, <1>1, <1>3, <2>1 DEF ProcOK, RolloutOK, Advances
<1>7. backupLock' = backupLock /\ rolloutLock' = p
  BY <1>0, <1>1 DEF Goto
<1>8. app' \in Tiers /\ gateway' \in Releases \cup {None} /\ config' \in Runtimes
  BY <1>0, <1>1, RecreatedType DEF HostTypes, Tiers, DeploymentJournals
<1> QED
  BY <1>0, <1>1, <1>3, <1>4, <1>5, <1>6, <1>7, <1>8, DeployStep DEF Advances

\* The failed rollback is recorded where the journal allows it.
LEMMA RollbackFailedKeeps ==
    ASSUME HostInv, NEW p \in Procs, RollbackFailed(p)
    PROVE  HostInv' /\ ResultsKept
<1> DEFINE i == proc[p].id
           d == Dep(p)
           st == "rollback_failed"
<1>0. /\ proc[p].op = "rollout" /\ proc[p].pc = "rollback_failed"
      /\ \/ deployments' = [deployments EXCEPT ![i].status = st, ![i].result = st]
         \/ deployments' = deployments
      /\ Leave(p) /\ UNCHANGED <<current, app, gateway, config, rolloutOnly>>
  BY DEF RollbackFailed, At
<1>1. /\ RolloutFree(p) /\ rolloutLock = p /\ ProcShape /\ RolloutOK(p) /\ HostTypes /\ SavedOK
      /\ i \in UnresolvedDeployments /\ i \in DOMAIN deployments /\ i = Len(deployments)
      /\ d = deployments[i] /\ d \in DeploymentJournals /\ d.result = "none" /\ ~ d.resolved
  BY <1>0, RolloutFacts
<1>3. Moves(p) /\ ProcOK(p)'
  BY <1>0, <1>1, SetIdle DEF ProcOK
<1>s. st \in DOMAIN DeployLegal /\ st \in Terminal /\ st = "rollback_failed" /\ st \notin BeforeMutation
  BY DEF DeployLegal, Terminal, BeforeMutation
<1> HIDE DEF st
<1>2. CASE deployments' = deployments
  <2>1. UNCHANGED <<hostVars, journalVars, backupVars, config>>
    BY <1>0, <1>2 DEF hostVars, journalVars, backupVars, rolloutOnly
  <2> QED
    BY <1>0, <2>1, LeaveKeeps
<1>4. CASE deployments' = [deployments EXCEPT ![i].status = st, ![i].result = st]
  <2>1. DepSet(i, st, st, FALSE)
    BY <1>1, <1>4, <1>s, BothSet
  <2>2. TierInv' /\ TiersMatchJournal'
    BY <1>1, <1>s, <2>1, StillOpen
  <2> QED
    BY <1>0, <1>1, <1>3, <1>s, <2>1, <2>2, DeployStep DEF HostTypes
<1> QED
  BY <1>0, <1>2, <1>4

\* A recovery is started on a journal there is.
LEMMA RecoverStartKeeps ==
    ASSUME HostInv, NEW p \in Procs, NEW id \in DOMAIN deployments,
           NEW a \in {"accept_target", "rollback"}, RecoverStart(p, id, a)
    PROVE  HostInv' /\ ResultsKept
<1> DEFINE op == "recover"
<1>1. Start(p, op, None, a, id, None)
  BY DEF RecoverStart
<1>2. UNCHANGED <<hostVars, journalVars, backupVars, config, rolloutLock, backupLock>>
  BY DEF RecoverStart
<1> HIDE DEF op
<1>3. proc'[p].op = op /\ proc'[p].pc = "lock" /\ proc'[p].act = a /\ proc'[p].id = id
  BY <1>1, Started
<1>4. ProcOK(p)'
  BY <1>2, <1>3 DEF ProcOK, RecoverOK, op, journalVars
<1> QED
  BY <1>1, <1>2, <1>4, StartKeeps

\* A recovery takes the lock and finds the journal still open.
LEMMA RecoverBeginKeeps ==
    ASSUME HostInv, NEW p \in Procs, RecoverBegin(p)
    PROVE  HostInv' /\ ResultsKept
<1> DEFINE i == proc[p].id
           d == Dep(p)
           st == IF d.result = "none" /\ "stabilizing" \in DeployLegal[d.status] THEN "stabilizing" ELSE d.status
<1>0. /\ proc[p].op = "recover" /\ proc[p].pc = "lock" /\ rolloutLock = None /\ rolloutLock' = p
      /\ Recoverable(d) /\ proc' = [proc EXCEPT ![p].pc = proc[p].act]
      /\ deployments' = IF d.result = "none" /\ "stabilizing" \in DeployLegal[d.status]
                        THEN [deployments EXCEPT ![i].status = "stabilizing"] ELSE deployments
      /\ UNCHANGED <<current, app, gateway, config, rolloutOnly, backupLock>>
  BY DEF RecoverBegin, At
<1>1. /\ ProcShape /\ RecoverOK(p) /\ HostTypes /\ SavedOK /\ LockInv
      /\ i \in DOMAIN deployments /\ proc[p].act \in {"accept_target", "rollback"}
      /\ d = deployments[i] /\ d \in DeploymentJournals
  BY <1>0 DEF HostInv, ProcOK, HostTypes, RecoverOK, Dep
<1>2. i \in UnresolvedDeployments /\ d.result \in {"none", "rollback_failed"} /\ ~ d.resolved
  BY <1>0, <1>1 DEF UnresolvedDeployments, Recoverable, SavedOK, DeploymentsOK
<1>3. Moves(p) /\ Advances(p, proc[p].act)
  BY <1>0, <1>1, SetPc
<1>4. DepSet(i, st, d.result, FALSE)
  <2>1. CASE d.result = "none" /\ "stabilizing" \in DeployLegal[d.status]
    <3>1. st \in DOMAIN DeployLegal /\ deployments' = [deployments EXCEPT ![i].status = st]
      BY <1>0, <2>1 DEF DeployLegal
    <3> HIDE DEF st
    <3> QED
      BY <1>1, <1>2, <2>1, <3>1, StatusSet
  <2>2. CASE ~ (d.result = "none" /\ "stabilizing" \in DeployLegal[d.status])
    BY <1>0, <1>1, <1>2, <2>2, SameSet
  <2> QED
    BY <2>1, <2>2
<1>s. st \in BeforeMutation => d.status \in BeforeMutation
  BY DEF BeforeMutation
<1> HIDE DEF st
<1>5. TierInv' /\ TiersMatchJournal'
  BY <1>0, <1>1, <1>2, <1>4, <1>s, TierKept
<1>6. ProcOK(p)'
  <2>1. /\ proc'[p].id \in DOMAIN deployments'
        /\ Dep(p)'.result = d.result /\ ~ Dep(p)'.resolved
    BY ZenonT(40), <1>1, <1>3, <1>4, OpenAfter DEF Advances
  <2>2. Recoverable(Dep(p))'
    BY <1>2, <2>1 DEF Recoverable
  <2> QED
    BY <1>0, <1>1, <1>3, <2>1, <2>2 DEF ProcOK, RecoverOK, Advances
<1>7. RolloutFree(p)
  BY <1>0, <1>1, Alone
<1> QED
  BY <1>0, <1>1, <1>2, <1>3, <1>4, <1>5, <1>6, <1>7, DeployStep DEF HostTypes, Advances

\* The recovery is refused.
LEMMA RecoverRefusedKeeps ==
    ASSUME HostInv, NEW p \in Procs, RecoverRefused(p)
    PROVE  HostInv' /\ ResultsKept
BY LeaveKeeps DEF RecoverRefused

\* The target runs and is accepted.
LEMMA RecoverAcceptKeeps ==
    ASSUME HostInv, NEW p \in Procs, RecoverAccept(p)
    PROVE  HostInv' /\ ResultsKept
<1> DEFINE i == proc[p].id
           d == Dep(p)
           c == CommittedState(i)
<1>0. /\ proc[p].op = "recover" /\ proc[p].pc = "accept_target" /\ AcceptAllowed(d) /\ current' = c
      /\ Goto(p, "resolve") /\ UNCHANGED <<app, gateway, deployments, config, rolloutOnly>>
  BY DEF RecoverAccept, At
<1>1. /\ RolloutFree(p) /\ rolloutLock = p /\ ProcShape /\ RecoverOK(p) /\ HostTypes /\ SavedOK
      /\ i \in UnresolvedDeployments /\ i \in DOMAIN deployments /\ i = Len(deployments)
      /\ d = deployments[i] /\ d \in DeploymentJournals /\ ~ d.resolved
      /\ d.result \in {"none", "rollback_failed"}
  BY <1>0, RecoverFacts
<1>2. GatesHold(d) /\ Runs(d.target) /\ proc[p].act = "accept_target"
  BY <1>0, <1>1 DEF GatesHold, AcceptAllowed, RecoverOK
<1>3. Moves(p) /\ Advances(p, "resolve")
  BY <1>0, <1>1, GotoMoves
<1>4. DepSet(i, d.status, d.result, FALSE)
  BY <1>0, <1>1, SameSet
<1>8. /\ c \in CurrentStates /\ c.heads = live /\ c.app = d.target /\ d.target \in c.envelope
      /\ current # None => current.envelope \subseteq c.envelope
  BY <1>1, <1>2, CommittedOK
<1> HIDE DEF c
<1>5. TierInv' /\ TiersMatchJournal'
  <2>1. TiersMatchJournal'
    BY <1>1, <1>4, StillOpen
  <2>2. app' \in current'.envelope
    BY <1>0, <1>2, <1>8 DEF Runs
  <2> QED
    BY <2>1, <2>2 DEF TierInv
<1>6. ProcOK(p)'
  <2>1. /\ proc'[p].id \in DOMAIN deployments' /\ Dep(p)'.target = d.target
        /\ Dep(p)'.result = d.result /\ ~ Dep(p)'.resolved
    BY <1>1, <1>3, <1>4, OpenAfter DEF Advances
  <2>2. Kept(p)' = d.target /\ d.target \in Releases /\ Recoverable(Dep(p))'
    BY <1>1, <1>2, <1>3, <2>1 DEF Kept, Advances, DeploymentJournals, Recoverable
  <2>3. Vouched(Kept(p))' /\ Runs(Kept(p))' /\ Kept(p)' # None
    BY <1>0, <1>2, <1>8, <2>2, DocumentAssumption, HeadsAssumption DEF Vouched, Runs
  <2> QED
    BY <1>0, <1>1, <1>3, <2>1, <2>2, <2>3 DEF ProcOK, RecoverOK, Advances
<1>7. backupLock' = backupLock /\ rolloutLock' = p
  BY <1>0, <1>1 DEF Goto
<1> QED
  BY <1>0, <1>1, <1>3, <1>4, <1>5, <1>6, <1>7, <1>8, DeployStep DEF HostTypes, Advances

\* The recovery puts the application tier back.
LEMMA RecoverRollbackAppKeeps ==
    ASSUME HostInv, NEW p \in Procs, RecoverRollbackApp(p)
    PROVE  HostInv' /\ ResultsKept
<1> DEFINE i == proc[p].id
           d == Dep(p)
<1>0. /\ proc[p].op = "recover" /\ proc[p].pc = "rollback" /\ d.prev # None
      /\ app' = d.prev /\ Goto(p, "rollback_gateway") /\ config' = Recreated
      /\ UNCHANGED <<current, gateway, deployments, rolloutOnly>>
  BY DEF RecoverRollbackApp, At, RollbackAllowed
<1>1. /\ RolloutFree(p) /\ rolloutLock = p /\ ProcShape /\ RecoverOK(p) /\ HostTypes /\ SavedOK
      /\ i \in UnresolvedDeployments /\ i \in DOMAIN deployments /\ i = Len(deployments)
      /\ d = deployments[i] /\ d \in DeploymentJournals /\ ~ d.resolved
      /\ d.result \in {"none", "rollback_failed"}
  BY <1>0, RecoverFacts
<1>3. Moves(p) /\ Advances(p, "rollback_gateway")
  BY <1>0, <1>1, GotoMoves
<1>4. DepSet(i, d.status, d.result, FALSE)
  BY <1>0, <1>1, SameSet
<1>5. TierInv' /\ TiersMatchJournal'
  BY <1>0, <1>1, <1>4, TierKept
<1>6. ProcOK(p)'
  <2>1. /\ proc'[p].id \in DOMAIN deployments' /\ Dep(p)'.prev = d.prev
        /\ Dep(p)'.result = d.result /\ ~ Dep(p)'.resolved
    BY <1>1, <1>3, <1>4, OpenAfter DEF Advances
  <2>2. Recoverable(Dep(p))'
    BY <1>1, <2>1 DEF Recoverable
  <2>3. Vouched(d.prev)
    BY <1>0, <1>1 DEF SavedOK, EnvelopeInv
  <2>4. Vouched(Dep(p).prev)'
    BY <1>0, <2>1, <2>3 DEF Vouched
  <2> QED
    BY <1>0, <1>1, <1>3, <2>1, <2>2, <2>4 DEF ProcOK, RecoverOK, Advances
<1>7. backupLock' = backupLock /\ rolloutLock' = p
  BY <1>0, <1>1 DEF Goto
<1>8. app' \in Tiers /\ gateway' \in Releases \cup {None} /\ config' \in Runtimes
  BY <1>0, <1>1, RecreatedType DEF HostTypes, Tiers, DeploymentJournals
<1> QED
  BY <1>0, <1>1, <1>3, <1>4, <1>5, <1>6, <1>7, <1>8, DeployStep DEF Advances

\* The recovery puts the gateway back.
LEMMA RecoverRollbackGatewayKeeps ==
    ASSUME HostInv, NEW p \in Procs, RecoverRollbackGateway(p)
    PROVE  HostInv' /\ ResultsKept
<1> DEFINE i == proc[p].id
           d == Dep(p)
<1>0. /\ proc[p].op = "recover" /\ proc[p].pc = "rollback_gateway"
      /\ gateway' = d.prev /\ Goto(p, "rollback_publish") /\ config' = Recreated
      /\ UNCHANGED <<current, app, deployments, rolloutOnly>>
  BY DEF RecoverRollbackGateway, At
<1>1. /\ RolloutFree(p) /\ rolloutLock = p /\ ProcShape /\ RecoverOK(p) /\ HostTypes /\ SavedOK
      /\ i \in UnresolvedDeployments /\ i \in DOMAIN deployments /\ i = Len(deployments)
      /\ d = deployments[i] /\ d \in DeploymentJournals /\ ~ d.resolved
      /\ d.result \in {"none", "rollback_failed"}
  BY <1>0, RecoverFacts
<1>2. proc[p].act = "rollback" /\ d.prev # None /\ app = d.prev /\ Vouched(d.prev)
  BY <1>0, <1>1 DEF RecoverOK
<1>3. Moves(p) /\ Advances(p, "rollback_publish")
  BY <1>0, <1>1, GotoMoves
<1>4. DepSet(i, d.status, d.result, FALSE)
  BY <1>0, <1>1, SameSet
<1>5. TierInv' /\ TiersMatchJournal'
  BY <1>0, <1>1, <1>4, TierKept
<1>6. ProcOK(p)'
  <2>1. /\ proc'[p].id \in DOMAIN deployments' /\ Dep(p)'.prev = d.prev
        /\ Dep(p)'.result = d.result /\ ~ Dep(p)'.resolved
    BY <1>1, <1>3, <1>4, OpenAfter DEF Advances
  <2>2. Recoverable(Dep(p))'
    BY <1>1, <2>1 DEF Recoverable
  <2>4. Vouched(Dep(p).prev)'
    BY <1>0, <1>2, <2>1 DEF Vouched
  <2> QED
    BY <1>0, <1>1, <1>2, <1>3, <2>1, <2>2, <2>4 DEF ProcOK, RecoverOK, Advances
<1>7. backupLock' = backupLock /\ rolloutLock' = p
  BY <1>0, <1>1 DEF Goto
<1>8. app' \in Tiers /\ gateway' \in Releases \cup {None} /\ config' \in Runtimes
  BY <1>0, <1>1, RecreatedType DEF HostTypes, Tiers, DeploymentJournals
<1> QED
  BY <1>0, <1>1, <1>3, <1>4, <1>5, <1>6, <1>7, <1>8, DeployStep DEF Advances

\* The recovery names the previous release in current.json.
LEMMA RecoverRollbackPublishKeeps ==
    ASSUME HostInv, NEW p \in Procs, RecoverRollbackPublish(p)
    PROVE  HostInv' /\ ResultsKept
<1> DEFINE i == proc[p].id
           d == Dep(p)
<1>0. /\ proc[p].op = "recover" /\ proc[p].pc = "rollback_publish"
      /\ \/ current' = current
         \/ current' = [current EXCEPT !.app = d.prev, !.stamp = NextStamp, !.deployment = i]
      /\ Goto(p, "resolve") /\ UNCHANGED <<app, gateway, deployments, config, rolloutOnly>>
  BY DEF RecoverRollbackPublish, At
<1>1. /\ RolloutFree(p) /\ rolloutLock = p /\ ProcShape /\ RecoverOK(p) /\ HostTypes /\ SavedOK
      /\ i \in UnresolvedDeployments /\ i \in DOMAIN deployments /\ i = Len(deployments)
      /\ d = deployments[i] /\ d \in DeploymentJournals /\ ~ d.resolved
      /\ d.result \in {"none", "rollback_failed"}
  BY <1>0, RecoverFacts
<1>2. /\ proc[p].act = "rollback" /\ d.prev # None /\ app = d.prev /\ gateway = d.prev /\ Vouched(d.prev)
  BY <1>0, <1>1 DEF RecoverOK
<1>3. Moves(p) /\ Advances(p, "resolve")
  BY <1>0, <1>1, GotoMoves
<1>4. DepSet(i, d.status, d.result, FALSE)
  BY <1>0, <1>1, SameSet
<1>8. /\ current' \in CurrentStates /\ current'.heads = live /\ current'.app \in current'.envelope
      /\ current # None /\ current'.envelope = current.envelope
  <2>1. current \in CurrentStates /\ d.prev \in Releases /\ d.prev \in current.envelope /\ current # None
    BY <1>1, <1>2 DEF Vouched, HostTypes, DeploymentJournals
  <2>2. current.heads = live
    <3>1. UnresolvedMigrations = {}
      BY <1>1 DEF SavedOK, OneUnresolved
    <3> QED
      BY <1>1, <2>1, <3>1 DEF SavedOK, BaseInv
  <2>3. NextStamp \in Nat /\ i \in Nat
    BY <1>1, <2>1 DEF NextStamp, CurrentStates, HostTypes
  <2>4. current.app \in current.envelope
    BY <1>1, <2>1 DEF SavedOK, EnvelopeInv
  <2>5. CASE current' = [current EXCEPT !.app = d.prev, !.stamp = NextStamp, !.deployment = i]
    <3> HIDE DEF i, d
    <3>1. /\ current' \in CurrentStates /\ current'.app = d.prev /\ current'.heads = current.heads
          /\ current'.envelope = current.envelope
      BY <2>1, <2>3, <2>5 DEF CurrentStates
    <3> QED
      BY <2>1, <2>2, <3>1
  <2> QED
    BY <1>0, <2>1, <2>2, <2>4, <2>5
<1>5. TierInv' /\ TiersMatchJournal'
  <2>1. TiersMatchJournal'
    BY <1>1, <1>4, StillOpen
  <2>2. app' \in current'.envelope
    BY <1>0, <1>2, <1>8 DEF Vouched
  <2> QED
    BY <2>1, <2>2 DEF TierInv
<1>6. ProcOK(p)'
  <2>1. /\ proc'[p].id \in DOMAIN deployments' /\ Dep(p)'.prev = d.prev
        /\ Dep(p)'.result = d.result /\ ~ Dep(p)'.resolved
    BY <1>1, <1>3, <1>4, OpenAfter DEF Advances
  <2>2. Kept(p)' = d.prev /\ Recoverable(Dep(p))'
    BY <1>1, <1>2, <1>3, <2>1 DEF Kept, Advances, Recoverable
  <2>3. Vouched(Kept(p))' /\ Runs(Kept(p))' /\ Kept(p)' # None
    BY <1>0, <1>2, <1>8, <2>2, DocumentAssumption DEF Vouched, Runs
  <2> QED
    BY <1>0, <1>1, <1>3, <2>1, <2>2, <2>3 DEF ProcOK, RecoverOK, Advances
<1>7. backupLock' = backupLock /\ rolloutLock' = p
  BY <1>0, <1>1 DEF Goto
<1> QED
  BY <1>0, <1>1, <1>3, <1>4, <1>5, <1>6, <1>7, <1>8, DeployStep DEF HostTypes, Advances

\* The recovery is recorded where the journal allows it.
LEMMA RecoverResolveKeeps ==
    ASSUME HostInv, NEW p \in Procs, RecoverResolve(p)
    PROVE  HostInv' /\ ResultsKept
<1> DEFINE i == proc[p].id
           d == Dep(p)
           st == RecoveredStatus(p)
<1>0. /\ proc[p].op = "recover" /\ proc[p].pc = "resolve"
      /\ UNCHANGED <<current, app, gateway, config, rolloutOnly>>
      /\ \/ d.result = "rollback_failed" /\ deployments' = [deployments EXCEPT ![i].resolved = TRUE] /\ Leave(p)
         \/ /\ d.result # "rollback_failed" /\ deployments' = [deployments EXCEPT ![i].status = st]
            /\ Goto(p, "result")
         \/ deployments' = deployments /\ Leave(p)
  BY DEF RecoverResolve, At
<1>1. /\ RolloutFree(p) /\ rolloutLock = p /\ ProcShape /\ RecoverOK(p) /\ HostTypes /\ SavedOK
      /\ i \in UnresolvedDeployments /\ i \in DOMAIN deployments /\ i = Len(deployments)
      /\ d = deployments[i] /\ d \in DeploymentJournals /\ ~ d.resolved
      /\ d.result \in {"none", "rollback_failed"}
  BY <1>0, RecoverFacts
<1>2. Kept(p) # None /\ Vouched(Kept(p)) /\ Runs(Kept(p))
  BY <1>0, <1>1 DEF RecoverOK
<1>3. CASE deployments' = deployments /\ Leave(p)
  <2>1. UNCHANGED <<hostVars, journalVars, backupVars, config>>
    BY <1>0, <1>3 DEF hostVars, journalVars, backupVars, rolloutOnly
  <2> QED
    BY <1>3, <2>1, LeaveKeeps
<1>4. CASE d.result = "rollback_failed" /\ deployments' = [deployments EXCEPT ![i].resolved = TRUE] /\ Leave(p)
  <2>1. DepSet(i, d.status, d.result, TRUE)
    BY <1>1, <1>4, DepResolved DEF HostTypes
  <2>2. current' # None /\ app' \in Releases => app' \in current'.envelope
    BY <1>0, <1>2 DEF Vouched, Runs
  <2>3. TierInv' /\ TiersMatchJournal'
    BY <1>1, <1>4, <2>1, <2>2, NowClosed
  <2>4. Moves(p) /\ ProcOK(p)'
    BY <1>1, <1>4, SetIdle DEF ProcOK
  <2> QED
    BY <1>0, <1>1, <1>4, <2>1, <2>3, <2>4, DeployStep DEF HostTypes
<1>5. CASE d.result # "rollback_failed" /\ deployments' = [deployments EXCEPT ![i].status = st] /\ Goto(p, "result")
  <2>1. st \in DOMAIN DeployLegal /\ st \notin BeforeMutation /\ d.result = "none"
    BY <1>1, <1>5 DEF DeployLegal, Terminal, BeforeMutation, RecoveredStatus
  <2> HIDE DEF st
  <2>2. DepSet(i, st, "none", FALSE)
    BY <1>1, <1>5, <2>1, StatusSet
  <2>3. TierInv' /\ TiersMatchJournal'
    BY <1>1, <2>1, <2>2, StillOpen
  <2>4. Moves(p) /\ Advances(p, "result")
    BY <1>1, <1>5, GotoMoves
  <2>5. ProcOK(p)'
    <3>1. /\ proc'[p].id \in DOMAIN deployments' /\ Dep(p)'.prev = d.prev /\ Dep(p)'.target = d.target
          /\ Dep(p)'.result = "none"
      BY <1>1, <2>2, <2>4, DepAfter DEF Advances
    <3>2. Kept(p)' = Kept(p) /\ Recoverable(Dep(p))'
      BY <2>4, <3>1 DEF Kept, Advances, Recoverable
    <3>3. Vouched(Kept(p))' /\ Runs(Kept(p))'
      BY <1>0, <1>2, <3>2 DEF Vouched, Runs
    <3> QED
      BY <1>0, <1>1, <1>2, <2>4, <3>1, <3>2, <3>3 DEF ProcOK, RecoverOK, Advances
  <2>6. backupLock' = backupLock /\ rolloutLock' = p
    BY <1>1, <1>5 DEF Goto
  <2> QED
    BY <1>0, <1>1, <2>1, <2>2, <2>3, <2>4, <2>5, <2>6, DeployStep DEF HostTypes, Advances
<1> QED
  BY <1>0, <1>3, <1>4, <1>5

\* The result of the recovery.
LEMMA RecoverResultKeeps ==
    ASSUME HostInv, NEW p \in Procs, RecoverResult(p)
    PROVE  HostInv' /\ ResultsKept
<1> DEFINE i == proc[p].id
           d == Dep(p)
           res == RecoveredStatus(p)
<1>0. /\ proc[p].op = "recover" /\ proc[p].pc = "result"
      /\ deployments' = [deployments EXCEPT ![i].result = res]
      /\ Leave(p) /\ UNCHANGED <<current, app, gateway, config, rolloutOnly>>
  BY DEF RecoverResult, At
<1>1. /\ RolloutFree(p) /\ rolloutLock = p /\ ProcShape /\ RecoverOK(p) /\ HostTypes /\ SavedOK
      /\ i \in UnresolvedDeployments /\ i \in DOMAIN deployments /\ i = Len(deployments)
      /\ d = deployments[i] /\ d \in DeploymentJournals /\ ~ d.resolved
      /\ d.result \in {"none", "rollback_failed"}
  BY <1>0, RecoverFacts
<1>3. Moves(p) /\ ProcOK(p)'
  BY <1>0, <1>1, SetIdle DEF ProcOK
<1>2. Vouched(Kept(p)) /\ Runs(Kept(p)) /\ d.result = "none"
  BY <1>0, <1>1 DEF RecoverOK
<1>s. /\ res \in Terminal /\ res # "none" /\ res # "rollback_failed"
      /\ res = "committed" => Kept(p) = d.target
      /\ res = "rolled_back" => Kept(p) = d.prev
  BY DEF Terminal, RecoveredStatus, Kept
<1> HIDE DEF res
<1>4. DepSet(i, d.status, res, FALSE)
  BY <1>0, <1>1, <1>s, ResultSet
<1>5. TierInv' /\ TiersMatchJournal'
  <2>1. app' = Kept(p) /\ gateway' = Kept(p) /\ app' \in current'.envelope
    BY <1>0, <1>2 DEF Runs, Vouched
  <2> QED
    BY <1>1, <1>4, <1>s, <2>1, NowClosed
<1> QED
  BY <1>0, <1>1, <1>2, <1>3, <1>4, <1>5, DeployStep DEF HostTypes

\* The recovery fails or is refused.
LEMMA RecoverErrorKeeps ==
    ASSUME HostInv, NEW p \in Procs, RecoverError(p)
    PROVE  HostInv' /\ ResultsKept
<1> DEFINE i == proc[p].id
           d == Dep(p)
<1>0. /\ proc[p].op = "recover" /\ proc[p].pc # "lock"
      /\ Leave(p) /\ config' \in {config, Recreated}
      /\ UNCHANGED <<current, deployments, rolloutOnly>>
      /\ app' \in {app, d.prev, Mixed} /\ gateway' \in {gateway, d.prev}
  BY DEF RecoverError, HalfActivated
<1>1. /\ RolloutFree(p) /\ rolloutLock = p /\ ProcShape /\ RecoverOK(p) /\ HostTypes /\ SavedOK
      /\ i \in UnresolvedDeployments /\ i \in DOMAIN deployments /\ i = Len(deployments)
      /\ d = deployments[i] /\ d \in DeploymentJournals /\ ~ d.resolved
      /\ d.result \in {"none", "rollback_failed"}
  BY <1>0, RecoverFacts
<1>3. Moves(p) /\ ProcOK(p)'
  BY <1>0, <1>1, SetIdle DEF ProcOK
<1>4. DepSet(i, d.status, d.result, FALSE)
  BY <1>0, <1>1, SameSet
<1>5. TierInv' /\ TiersMatchJournal'
  BY <1>0, <1>1, <1>4, TierKept
<1>8. app' \in Tiers /\ gateway' \in Releases \cup {None} /\ config' \in Runtimes
  BY <1>0, <1>1, RecreatedType DEF HostTypes, Tiers, DeploymentJournals
<1> QED
  BY <1>0, <1>1, <1>3, <1>4, <1>5, <1>8, DeployStep
=============================================================================
