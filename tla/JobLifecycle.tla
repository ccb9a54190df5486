---------------------------- MODULE JobLifecycle ----------------------------
(***************************************************************************)
(* What a job queue of FetchNow promises its client about one job: the     *)
(* edges of _ALLOWED_TRANSITIONS together with the attempt budget.  Both   *)
(* the inspection queue and the download queue are shown to implement it.  *)
(***************************************************************************)
EXTENDS Integers

CONSTANTS Jobs,    \* job ids
          Budget   \* attempts a job may be charged for

VARIABLES phase,   \* where the job is
          tries    \* attempts charged so far

Phases == {"absent", "waiting", "running", "succeeded", "failed", "gone"}

Init ==
    /\ phase = [j \in Jobs |-> "absent"]
    /\ tries = [j \in Jobs |-> 0]

\* From phase p with n attempts charged to phase q with m attempts charged.
Submit(p, n, q, m) == p = "absent" /\ q = "waiting" /\ m = 0
Start(p, n, q, m) == p = "waiting" /\ q = "running" /\ n < Budget /\ m = n + 1
Retry(p, n, q, m) == p = "running" /\ q = "waiting" /\ n < Budget /\ m = n
GiveBack(p, n, q, m) == p = "running" /\ q = "waiting" /\ n <= Budget /\ m = n - 1
Settle(p, n, q, m) == p = "running" /\ q \in {"succeeded", "failed"} /\ m = n
Discard(p, n, q, m) == p \notin {"absent", "gone"} /\ q = "gone" /\ m = n

Move(p, n, q, m) ==
    \/ Submit(p, n, q, m)
    \/ Start(p, n, q, m)
    \/ Retry(p, n, q, m)
    \/ GiveBack(p, n, q, m)
    \/ Settle(p, n, q, m)
    \/ Discard(p, n, q, m)

\* One transaction may move several jobs, each along one edge.
Next ==
    /\ DOMAIN phase' = Jobs
    /\ DOMAIN tries' = Jobs
    /\ \A j \in Jobs :
          \/ phase'[j] = phase[j] /\ tries'[j] = tries[j]
          \/ Move(phase[j], tries[j], phase'[j], tries'[j])

Spec == Init /\ [][Next]_<<phase, tries>>
=============================================================================
