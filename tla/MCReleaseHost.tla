--------------------------- MODULE MCReleaseHost ---------------------------
(***************************************************************************)
(* The tools of a deployment host on small instances: the release tools    *)
(* and the journals they share, the steps inside the backup commands, and  *)
(* the runner of external commands.  A behaviour is one of the three,      *)
(* chosen in its first state.                                              *)
(*                                                                         *)
(* Three releases: r2 keeps the schema of r1, r3 brings a new one.         *)
(***************************************************************************)
EXTENDS ReleaseHost, BackupVault, BoundedProcess

CONSTANTS r1, r2, r3, h1, h2

MCSourceHeads == [r \in Releases |-> IF r = r3 THEN h2 ELSE h1]
MCTransitions == {<<h1, h2>>}

VARIABLE part   \* which of the three this behaviour is

allVars == <<vars, vaultVars, processVars, part>>

\* One initial state is enough for a part that does not run.
MCInit ==
    /\ Init /\ VaultInit /\ ProcessInit
    /\ part \in {"host", "vault", "process"}
    /\ part # "host" => current = None
    /\ part # "process" => ~ leader.deaf /\ ~ heir.deaf /\ heir.holds = {}

Host(A) == part = "host" /\ A /\ UNCHANGED <<vaultVars, processVars, part>>

Vault(A) == part = "vault" /\ A /\ UNCHANGED <<vars, processVars, part>>

Process(A) == part = "process" /\ A /\ UNCHANGED <<vars, vaultVars, part>>

\* All sessions that the bound allows have been closed, or the call is over.
Over ==
    /\ \/ part = "vault" /\ session = Closed /\ sessions = MaxSessions
       \/ part = "process" /\ caller.pc = "done"
    /\ UNCHANGED allVars

MCNext == Host(Next) \/ Vault(VaultNext) \/ Process(ProcessNext) \/ Over

\* The operating system runs the processes and the threads there are, ends what
\* was killed, and time passes.
Fairness ==
    /\ WF_allVars(Host(Running) \/ Vault(VaultStep) \/ Process(CallerStep))
    /\ WF_allVars(Process(KernelStep))
    /\ WF_allVars(Process(DeadlinePasses))

MCSpec == MCInit /\ [][MCNext]_allVars /\ Fairness

\* There is a way back from a migration in doubt: its backup is kept, and what
\* the backup root says of a backup is true.
WayBackIsKept == RestorePointKept /\ VaultIsSound

\* What a tool is told beforehand, and what it is told of a command it ran,
\* is what happens.
AnswersAreHonest == PlanIsHonest /\ ReportIsHonest

\* Every release tool and every backup session that is started ends, with both
\* locks given back: no order of locks, no refused gate and no failing check
\* leaves one waiting.  A bounded command returns, whatever its process group
\* does with its pipes and with SIGTERM.
EverythingReturns ==
    []<>(/\ \A p \in Procs : proc[p] = Idle
         /\ session = Closed
         /\ part = "process" => caller.pc = "done")
=============================================================================
