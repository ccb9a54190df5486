----------------------------- MODULE MCProgress -----------------------------
(***************************************************************************)
(* What must eventually happen to a download, on small instances: its job, *)
(* the ledger of its deliveries, and the artifact directory.  A behaviour  *)
(* is one of the three, chosen in its first state.                         *)
(***************************************************************************)
EXTENDS DownloadJobs

CONSTANTS Grace, MaxPass, MaxCopy, SweepLimit, MaxClaims, StoreTime,   \* ArtifactStore
          Responses, Size, MaxActive, MaxFragments, LedgerTime         \* DeliveryAccounting

VARIABLES part,                                                        \* which of the three
          storeClock, storeRow, disk, exec, pass, storeFaults,         \* ArtifactStore
          ledgerClock, job, slot, reservation, active, closed, stream, sent

storeVars == <<storeClock, storeRow, disk, exec, pass, storeFaults>>
ledgerVars == <<ledgerClock, job, slot, reservation, active, closed, stream, sent>>
allVars == <<vars, storeVars, ledgerVars, part>>

Store == INSTANCE ArtifactStore WITH
    MaxTime <- StoreTime, clock <- storeClock, row <- storeRow, faults <- storeFaults

Ledger == INSTANCE DeliveryAccounting WITH MaxTime <- LedgerTime, clock <- ledgerClock

MCInit == Init /\ Store!Init /\ Ledger!Init /\ part \in {"jobs", "store", "ledger"}

OfJobs(A) == part = "jobs" /\ A /\ UNCHANGED <<storeVars, ledgerVars, part>>

OfStore(A) == part = "store" /\ A /\ UNCHANGED <<vars, ledgerVars, part>>

OfLedger(A) == part = "ledger" /\ A /\ UNCHANGED <<vars, storeVars, part>>

MCNext == OfJobs(Next) \/ OfStore(Store!Next) \/ OfLedger(Ledger!Next)

\* The fairness of the three specifications.
MCSpec ==
    /\ MCInit /\ [][MCNext]_allVars
    /\ WF_allVars(OfJobs(Tick)) /\ WF_allVars(OfJobs(Hygiene))
    /\ \A j \in Jobs : WF_allVars(OfJobs(EndDelivery(j)))
    /\ WF_allVars(OfStore(Store!Tick))
    /\ \A w \in Workers :
         /\ WF_allVars(OfStore(Store!HygieneStep(w)))
         /\ WF_allVars(OfStore(Store!FinishCopy(w) \/ Store!Cleanup(w)))
    /\ WF_allVars(OfLedger(Ledger!Tick)) /\ WF_allVars(OfLedger(Ledger!Expire))

\* Whatever a download begins is settled in the end: a cancelled job is over and no
\* slot stays reserved, whatever the executor does; what crashes leave on disk is swept;
\* and deliveries defer the expiry of a job without preventing it, since an attempt that
\* nobody renews goes stale and a range is finite (expire_due_jobs).
EverythingSettles ==
    []<>(/\ JobsAreSettled /\ Store!OrphansAreSwept
         /\ part = "ledger" => Ledger!LedgerOver)
=============================================================================
