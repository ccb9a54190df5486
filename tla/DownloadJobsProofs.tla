------------------------- MODULE DownloadJobsProofs -------------------------
(***************************************************************************)
(* Machine-checked safety of DownloadJobs for any number of jobs and       *)
(* workers and any lease, TTL, budget and mode.  Every statement of the    *)
(* repository is shown once to be a good change of a row (GoodStep): it    *)
(* keeps the row's invariant and moves the row only in ways the action     *)
(* properties and the lifecycle allow.  The steps of the system are then   *)
(* shown to change rows by these statements only.                          *)
(***************************************************************************)
EXTENDS DownloadJobs, SequenceTheorems, TLAPS

\* What holds of a row r whose claims were given the fences iss: the CHECK
\* constraints, the slot, the budget and the fence of the artifact.
RowInv(r, iss) ==
    /\ r \in Rows
    /\ (r.state = "downloading") <=> (r.owner # NoWorker)
    /\ (r.state = "downloading") <=> (r.lease # Null)
    /\ (r.state = "ready") <=> (r.artifact # Null)
    /\ (r.state = "failed") <=> (r.error # "none")
    /\ (r.stage \in ActiveStages) <=> (r.state = "downloading")
    /\ r.state = "queued" => r.stage \in WaitingStages
    /\ r.state \in {"ready", "failed"} => r.stage = r.state
    /\ r.state = "expired" => r.stage \in {"expired", "cancelled"}
    /\ r.cancel = "no" => r.stage # "cancelled"
    /\ r.cancel = "yes" => r.state = "downloading" \/ StoredCancelled(r)
    /\ r.percent # Null => r.stage \in PercentStages
    /\ r.state \in {"queued", "downloading"} => r.slot \in {"none", "reserved"}
    /\ r.state = "failed" => r.slot \in {"none", "released"}
    /\ r.state = "expired" => r.slot # "reserved"
    /\ r.state = "ready" /\ r.slot \in {"released", "expired"} => r.tier = "premium"
    /\ r.attempt <= MaxAttempts
    /\ r.state = "downloading" => r.attempt > 0
    /\ r.state = "absent" => iss = {} /\ r.attempt = 0 /\ r.slot = "none"
    /\ \A f \in iss : f <= r.fence
    /\ r.state = "ready" => r.artifact \in iss /\ \A f \in iss : f <= r.artifact

\* An edge of the lifecycle, in the states of the table.
Edge(r, s) ==
    \/ s.state = r.state /\ s.attempt = r.attempt
    \/ r.state = "absent" /\ s.state = "queued" /\ s.attempt = 0
    \/ /\ r.state = "queued" /\ s.state = "downloading"
       /\ r.attempt < MaxAttempts /\ s.attempt = r.attempt + 1
    \/ /\ r.state = "downloading" /\ s.state = "queued"
       /\ \/ r.attempt < MaxAttempts /\ s.attempt = r.attempt
          \/ r.attempt <= MaxAttempts /\ s.attempt = r.attempt - 1
    \/ /\ r.state = "downloading" /\ s.state \in {"ready", "failed"}
       /\ s.attempt = r.attempt
    \/ /\ r.state \notin {"absent", "expired"} /\ s.state = "expired"
       /\ s.attempt = r.attempt

\* Neither the stage nor the percent of a stage goes backwards.
Onward(r, s) ==
    \/ Rank(s.stage) > Rank(r.stage)
    \/ s.stage = r.stage /\ s.percent >= r.percent

\* What a step may do to a row; delivering says that its job is in live.
Moves(r, s, delivering) ==
    /\ Edge(r, s)
    /\ r.state # "absent" => s.expires = r.expires
    /\ r.cancel = "yes" => \/ s.state = "expired"
                           \/ s.state = "downloading" /\ s.cancel = "yes"
    /\ /\ r.state = "downloading" /\ s.state = "downloading"
       /\ s.fence = r.fence
       => Onward(r, s)
    /\ delivering /\ r.state = "ready" /\ r.slot = "reserved"
       => s.artifact = r.artifact

\* A claim that outlives the step keeps its owner, its fence and its attempt.
KeepsClaim(r, s) ==
    s.state = "downloading" =>
        \/ /\ r.state = "downloading" /\ s.attempt = r.attempt
           /\ s.owner = r.owner /\ s.fence = r.fence
        \/ s.fence > r.fence

GoodStep(r, s, iss, delivering) ==
    RowInv(s, iss) /\ Moves(r, s, delivering) /\ KeepsClaim(r, s)

-----------------------------------------------------------------------------
(* The statements of the repository, each on a row in the state its WHERE  *)
(* clause asks for.                                                        *)

USE DEF RowInv, GoodStep, Moves, KeepsClaim, Edge, Onward, Rows, States, Slots,
        ActiveStages, WaitingStages, TerminalStages, PercentStages, Null,
        StoredCancelled, Unleased, Freed

\* A job that was never requested.
LEMMA AbsentRowInv == RowInv(AbsentRow, {})
  BY DownloadAssumption DEF AbsentRow

\* enqueue: a new row, with a slot or without.
LEMMA NewGood ==
    ASSUME clock \in Nat, NEW r, RowInv(r, {}), r.state = "absent", r.cancel = "no",
           NEW life \in Nat, NEW tier \in {"free", "premium"},
           NEW slot \in {"none", "reserved"}, NEW d
    PROVE  GoodStep(r, NewRow(life, tier, slot), {}, d)
  <1> DEFINE at == clock + life
             s == NewRow(life, tier, slot)
  <1>1. at \in Nat
    OBVIOUS
  <1>2. s = [AbsentRow EXCEPT !.state = "queued", !.available = clock,
                              !.created = clock, !.expires = at,
                              !.slot = slot, !.tier = tier]
    BY DEF NewRow
  <1> HIDE DEF at, s
  <1>3. /\ s \in Rows /\ s.state = "queued" /\ s.stage = "queued" /\ s.percent = Null
        /\ s.owner = NoWorker /\ s.lease = Null /\ s.artifact = Null
        /\ s.error = "none" /\ s.cancel = "no" /\ s.attempt = 0 /\ s.slot = slot
    BY <1>1, <1>2, DownloadAssumption DEF AbsentRow
  <1>4. GoodStep(r, s, {}, d)
    BY <1>3, DownloadAssumption
  <1> QED
    BY <1>4 DEF s

\* claim_next: the new fence is above every fence issued before.
LEMMA ClaimedGood ==
    ASSUME clock \in Nat, NEW r, NEW iss, RowInv(r, iss), iss \in SUBSET Nat,
           r.state = "queued", r.cancel = "no", r.attempt < MaxAttempts,
           NEW w \in Workers, NEW d
    PROVE  /\ GoodStep(r, ClaimedRow(r, w), iss \cup {r.fence + 1}, d)
           /\ ClaimedRow(r, w).fence = r.fence + 1
           /\ ClaimedRow(r, w).state = "downloading"
           /\ ClaimedRow(r, w).owner = w
  <1> DEFINE l == clock + LeaseTicks
             f == r.fence + 1
             a == r.attempt + 1
             s == ClaimedRow(r, w)
  <1>1. l \in Nat /\ f \in Nat /\ a \in Nat /\ f > r.fence /\ a > 0 /\ a <= MaxAttempts
    BY DownloadAssumption
  <1>2. s = [r EXCEPT !.state = "downloading", !.stage = "inspecting",
                      !.percent = Null, !.owner = w, !.lease = l,
                      !.fence = f, !.attempt = a]
    BY DEF ClaimedRow
  <1>3. a = r.attempt + 1 /\ r.fence \in Nat
    OBVIOUS
  <1> HIDE DEF l, f, a, s
  <1>4. s \in Rows
    BY <1>1, <1>2
  <1>5. /\ s.state = "downloading" /\ s.stage = "inspecting" /\ s.percent = Null
        /\ s.owner = w /\ s.lease = l /\ s.fence = f /\ s.attempt = a
        /\ s.expires = r.expires /\ s.cancel = r.cancel
        /\ s.artifact = r.artifact /\ s.error = r.error /\ s.slot = r.slot
        /\ s.tier = r.tier
    BY <1>2
  <1>6. RowInv(s, iss \cup {f})
    BY <1>1, <1>3, <1>4, <1>5, DownloadAssumption
  <1>7. GoodStep(r, s, iss \cup {f}, d)
    BY <1>1, <1>3, <1>5, <1>6, DownloadAssumption
  <1> QED
    BY <1>5, <1>7 DEF s, f

\* renew_lease.
LEMMA RenewedGood ==
    ASSUME clock \in Nat, NEW r, NEW iss, RowInv(r, iss), r.state = "downloading", NEW d
    PROVE  GoodStep(r, [r EXCEPT !.lease = clock + LeaseTicks], iss, d)
  <1> DEFINE l == clock + LeaseTicks
  <1>1. l \in Nat
    BY DownloadAssumption
  <1> HIDE DEF l
  <1>2. GoodStep(r, [r EXCEPT !.lease = l], iss, d)
    BY <1>1, DownloadAssumption
  <1> QED
    BY <1>2 DEF l

\* request_cancel on a running job.
LEMMA FlaggedGood ==
    ASSUME NEW r, NEW iss, RowInv(r, iss), r.state = "downloading", NEW d
    PROVE  GoodStep(r, [r EXCEPT !.cancel = "yes"], iss, d)
  BY DownloadAssumption

\* set_progress_stage along an edge of progress._ALLOWED.
LEMMA StagedGood ==
    ASSUME NEW r, NEW iss, RowInv(r, iss), r.state = "downloading",
           NEW stage \in ActiveStages, Allowed(r.stage, stage), NEW d
    PROVE  GoodStep(r, StagedRow(r, stage), iss, d)
  <1> DEFINE p == IF r.stage # stage THEN Null ELSE r.percent
             s == StagedRow(r, stage)
  <1>1. s = [r EXCEPT !.stage = stage, !.percent = p]
    BY DEF StagedRow
  <1>2. /\ p \in Nat \cup {Null}
        /\ p # Null => stage = r.stage /\ stage \in PercentStages
        /\ stage = r.stage => p = r.percent
    OBVIOUS
  <1>3. stage = r.stage \/ Rank(stage) > Rank(r.stage)
    BY DEF Allowed, Rank
  <1>4. r.percent <= r.percent
    OBVIOUS
  <1> HIDE DEF p, s
  <1>5. GoodStep(r, s, iss, d)
    BY <1>1, <1>2, <1>3, <1>4, DownloadAssumption
  <1> QED
    BY <1>5 DEF s

\* set_progress_percent.
LEMMA PercentGood ==
    ASSUME NEW r, NEW iss, RowInv(r, iss), r.state = "downloading",
           r.stage \in PercentStages, NEW p \in Nat, p > r.percent, NEW d
    PROVE  GoodStep(r, [r EXCEPT !.percent = p], iss, d)
  BY DownloadAssumption

\* complete_ready by the owner of the row.
LEMMA ReadyGood ==
    ASSUME NEW r, NEW iss, RowInv(r, iss), r.state = "downloading", r.cancel = "no",
           r.fence \in iss, NEW d
    PROVE  GoodStep(r, ReadyRow(r, r.fence), iss, d)
  <1> DEFINE q == IF Compatibility THEN Freed(r.slot, "consumed") ELSE r.slot
             f == r.fence
             s == ReadyRow(r, f)
  <1>1. q \in {"none", "reserved", "consumed"} /\ f \in Nat /\ f \in iss
        /\ \A g \in iss : g <= f
    OBVIOUS
  <1>2. s = [Unleased(r) EXCEPT !.state = "ready", !.stage = "ready",
                                !.artifact = f, !.error = "none", !.slot = q]
    BY DEF ReadyRow
  <1> HIDE DEF q, f, s
  <1>3. /\ s \in Rows /\ s.state = "ready" /\ s.stage = "ready" /\ s.artifact = f
        /\ s.owner = NoWorker /\ s.lease = Null /\ s.percent = Null
        /\ s.error = "none" /\ s.slot = q /\ s.cancel = "no"
        /\ s.attempt = r.attempt /\ s.fence = r.fence /\ s.expires = r.expires
    BY <1>1, <1>2
  <1>4. GoodStep(r, s, iss, d)
    BY <1>1, <1>3, DownloadAssumption
  <1> QED
    BY <1>4 DEF s, f

\* fail_permanent.
LEMMA FailedGood ==
    ASSUME NEW r, NEW iss, RowInv(r, iss), r.state = "downloading", r.cancel = "no",
           NEW d
    PROVE  GoodStep(r, FailedRow(r), iss, d)
  <1> DEFINE s == FailedRow(r)
             q == Freed(r.slot, "released")
  <1>1. s = [Unleased(r) EXCEPT !.state = "failed", !.stage = "failed",
                                !.artifact = Null, !.error = "code", !.slot = q]
    BY DEF FailedRow
  <1>2. q \in {"none", "released"}
    OBVIOUS
  <1> HIDE DEF s, q
  <1>3. /\ s \in Rows /\ s.state = "failed" /\ s.stage = "failed"
        /\ s.artifact = Null /\ s.error = "code" /\ s.slot = q
        /\ s.owner = NoWorker /\ s.lease = Null /\ s.percent = Null
        /\ s.cancel = "no" /\ s.attempt = r.attempt /\ s.fence = r.fence
        /\ s.expires = r.expires
    BY <1>1, <1>2
  <1>4. GoodStep(r, s, iss, d)
    BY <1>2, <1>3, DownloadAssumption
  <1> QED
    BY <1>4 DEF s

\* fail_retry with an attempt left.
LEMMA RetriedGood ==
    ASSUME clock \in Nat, NEW r, NEW iss, RowInv(r, iss), r.state = "downloading",
           r.cancel = "no", r.attempt < MaxAttempts, NEW d
    PROVE  GoodStep(r, RetriedRow(r), iss, d)
  <1> DEFINE at == clock + Backoff
             s == RetriedRow(r)
  <1>1. at \in Nat
    BY DownloadAssumption
  <1>2. s = [Unleased(r) EXCEPT !.state = "queued", !.stage = "retrying",
                                !.error = "none", !.available = at]
    BY DEF RetriedRow
  <1> HIDE DEF at, s
  <1>3. GoodStep(r, s, iss, d)
    BY <1>1, <1>2, DownloadAssumption
  <1> QED
    BY <1>3 DEF s

\* release_to_queued: the attempt is refunded.
LEMMA ReleasedGood ==
    ASSUME clock \in Nat, NEW r, NEW iss, RowInv(r, iss), r.state = "downloading",
           r.cancel = "no", NEW d
    PROVE  GoodStep(r, ReleasedRow(r), iss, d)
  <1> DEFINE a == r.attempt - 1
             s == ReleasedRow(r)
  <1>1. a \in Nat /\ a <= MaxAttempts /\ a = r.attempt - 1 /\ r.attempt > 0
    BY DownloadAssumption
  <1>2. s = [Unleased(r) EXCEPT !.state = "queued", !.stage = "queued",
                                !.attempt = a, !.available = clock]
    BY <1>1 DEF ReleasedRow
  <1> HIDE DEF a, s
  <1>3. GoodStep(r, s, iss, d)
    BY <1>1, <1>2, DownloadAssumption
  <1> QED
    BY <1>3 DEF s

\* What a cancelled row looks like.
LEMMA CancelledFields ==
    ASSUME NEW r \in Rows, r.slot \in {"none", "reserved"}
    PROVE  /\ CancelledRow(r) \in Rows
           /\ CancelledRow(r).state = "expired" /\ CancelledRow(r).stage = "cancelled"
           /\ CancelledRow(r).artifact = Null /\ CancelledRow(r).error = "none"
           /\ CancelledRow(r).slot # "reserved" /\ CancelledRow(r).owner = NoWorker
           /\ CancelledRow(r).lease = Null /\ CancelledRow(r).percent = Null
           /\ CancelledRow(r).cancel = r.cancel /\ CancelledRow(r).attempt = r.attempt
           /\ CancelledRow(r).fence = r.fence /\ CancelledRow(r).expires = r.expires
  <1> DEFINE q == Freed(r.slot, "released")
             s == CancelledRow(r)
  <1>1. s = [Unleased(r) EXCEPT !.state = "expired", !.stage = "cancelled",
                                !.artifact = Null, !.error = "none", !.slot = q]
    BY DEF CancelledRow
  <1>2. q \in {"none", "released"}
    OBVIOUS
  <1> HIDE DEF q, s
  <1>3. /\ s \in Rows /\ s.state = "expired" /\ s.stage = "cancelled"
        /\ s.artifact = Null /\ s.error = "none" /\ s.slot = q
        /\ s.owner = NoWorker /\ s.lease = Null /\ s.percent = Null
        /\ s.cancel = r.cancel /\ s.attempt = r.attempt /\ s.fence = r.fence
        /\ s.expires = r.expires
    BY <1>1, <1>2
  <1> QED
    BY <1>2, <1>3 DEF s

\* _apply_stored_cancel, by the executor or at once on a queued job.
LEMMA CancelledGood ==
    ASSUME NEW r, NEW iss, RowInv(r, iss), NEW d
    PROVE  /\ r.state = "downloading" /\ r.cancel = "yes"
              => GoodStep(r, CancelledRow(r), iss, d)
           /\ r.state = "queued"
              => GoodStep(r, CancelledRow([r EXCEPT !.cancel = "yes"]), iss, d)
  <1>1. ASSUME r.state = "downloading", r.cancel = "yes"
        PROVE  GoodStep(r, CancelledRow(r), iss, d)
    <2> DEFINE s == CancelledRow(r)
    <2> HIDE DEF s
    <2>1. GoodStep(r, s, iss, d)
      BY <1>1, CancelledFields, DownloadAssumption DEF s
    <2> QED
      BY <2>1 DEF s
  <1>2. ASSUME r.state = "queued"
        PROVE  GoodStep(r, CancelledRow([r EXCEPT !.cancel = "yes"]), iss, d)
    <2> DEFINE q == [r EXCEPT !.cancel = "yes"]
               s == CancelledRow(q)
    <2>1. /\ q \in Rows /\ q.slot \in {"none", "reserved"} /\ q.cancel = "yes"
          /\ q.attempt = r.attempt /\ q.fence = r.fence /\ q.expires = r.expires
      BY <1>2
    <2> HIDE DEF q, s
    <2>2. GoodStep(r, s, iss, d)
      BY <1>2, <2>1, CancelledFields, DownloadAssumption DEF s
    <2> QED
      BY <2>2 DEF s, q
  <1> QED
    BY <1>1, <1>2

\* A row that has moved its fence is as good as one that has not.
LEMMA FenceMoved ==
    ASSUME NEW r, NEW s, NEW iss, NEW d, GoodStep(r, s, iss, d), iss \in SUBSET Nat,
           s.state \notin {"ready", "downloading"}, NEW f \in Nat, f > s.fence,
           NEW at \in Nat
    PROVE  GoodStep(r, [s EXCEPT !.fence = f, !.available = at], iss, d)
  <1> DEFINE u == [s EXCEPT !.fence = f, !.available = at]
  <1>1. /\ u \in Rows /\ u.fence = f
        /\ u.state = s.state /\ u.stage = s.stage /\ u.percent = s.percent
        /\ u.cancel = s.cancel /\ u.attempt = s.attempt /\ u.owner = s.owner
        /\ u.lease = s.lease /\ u.expires = s.expires /\ u.artifact = s.artifact
        /\ u.error = s.error /\ u.slot = s.slot /\ u.tier = s.tier
    OBVIOUS
  <1>2. \A g \in iss : g <= f
    OBVIOUS
  <1> HIDE DEF u
  <1>3. RowInv(u, iss)
    BY <1>1, <1>2, DownloadAssumption
  <1>4. Moves(r, u, d) /\ KeepsClaim(r, u)
    BY <1>1
  <1>5. GoodStep(r, u, iss, d)
    BY <1>3, <1>4
  <1> QED
    BY <1>5 DEF u

\* reclaim_expired_leases: the fence moves, so the executor is fenced off.
LEMMA ReclaimedGood ==
    ASSUME clock \in Nat, NEW r, NEW iss, RowInv(r, iss), iss \in SUBSET Nat,
           r.state = "downloading", NEW d
    PROVE  GoodStep(r, ReclaimedRow(r), iss, d)
  <1> DEFINE f == r.fence + 1
             s == ReclaimedRow(r)
  <1>1. f \in Nat /\ f > r.fence
    OBVIOUS
  <1> HIDE DEF s
  <1>2. CASE r.cancel = "yes"
    <2> DEFINE c == CancelledRow(r)
    <2>1. GoodStep(r, c, iss, d)
      <3> HIDE DEF GoodStep, RowInv
      <3> QED
        BY <1>2, CancelledGood
    <2>2. c \in Rows /\ c.fence = r.fence /\ c.state = "expired"
      BY CancelledFields
    <2>3. s = [c EXCEPT !.fence = f]
      BY <1>2 DEF ReclaimedRow, s
    <2> HIDE DEF c, f
    <2>4. s = [c EXCEPT !.fence = f, !.available = c.available]
      BY <1>1, <2>2, <2>3
    <2>5. c.available \in Nat
      BY <2>2
    <2> HIDE DEF GoodStep, RowInv
    <2>6. GoodStep(r, s, iss, d)
      BY <1>1, <2>1, <2>2, <2>4, <2>5, FenceMoved
    <2> QED
      BY <2>6 DEF s
  <1>3. CASE r.cancel # "yes" /\ Exhausted(r)
    <2> DEFINE c == FailedRow(r)
    <2>0. r.cancel = "no"
      BY <1>3
    <2>1. GoodStep(r, c, iss, d)
      <3> HIDE DEF GoodStep, RowInv
      <3> QED
        BY <2>0, FailedGood
    <2>2. c.fence = r.fence /\ c.state = "failed"
      BY DEF FailedRow
    <2>3. s = [c EXCEPT !.fence = f, !.available = clock]
      BY <1>3 DEF ReclaimedRow, s
    <2> HIDE DEF c, f, GoodStep, RowInv
    <2>4. GoodStep(r, s, iss, d)
      BY <1>1, <2>1, <2>2, <2>3, FenceMoved
    <2> QED
      BY <2>4 DEF s
  <1>4. CASE r.cancel # "yes" /\ ~Exhausted(r)
    <2>1. s = [Unleased(r) EXCEPT !.state = "queued", !.stage = "retrying",
                                  !.fence = f, !.available = clock]
      BY <1>4 DEF ReclaimedRow, s
    <2>2. r.attempt < MaxAttempts /\ \A g \in iss : g <= f
      BY <1>1, <1>4, DownloadAssumption DEF Exhausted
    <2> HIDE DEF f
    <2>3. GoodStep(r, s, iss, d)
      BY <1>1, <1>4, <2>1, <2>2, DownloadAssumption
    <2> QED
      BY <2>3 DEF s
  <1> QED
    BY <1>2, <1>3, <1>4

\* expire_due_jobs, unless a delivery defers it.
LEMMA ExpiredGood ==
    ASSUME NEW r, NEW iss, RowInv(r, iss), iss \in SUBSET Nat, r.state # "absent",
           NEW d, ~(d /\ r.state = "ready" /\ r.slot = "reserved")
    PROVE  GoodStep(r, ExpiredRow(r), iss, d)
  <1> DEFINE f == r.fence + 1
             q == Freed(r.slot, "expired")
             s == ExpiredRow(r)
  <1>1. f \in Nat /\ \A g \in iss : g <= f
    OBVIOUS
  <1>2. q \in Slots /\ q # "reserved"
    OBVIOUS
  <1>3. s = [Unleased(r) EXCEPT !.state = "expired", !.stage = "expired",
                !.cancel = "no", !.artifact = Null, !.error = "none",
                !.fence = f, !.slot = q]
    BY DEF ExpiredRow
  <1> HIDE DEF f, q, s
  <1>4. s \in Rows
    BY <1>1, <1>2, <1>3
  <1>5. /\ s.state = "expired" /\ s.stage = "expired"
        /\ s.artifact = Null /\ s.error = "none" /\ s.slot = q
        /\ s.owner = NoWorker /\ s.lease = Null /\ s.percent = Null
        /\ s.cancel = "no" /\ s.attempt = r.attempt /\ s.fence = f
        /\ s.expires = r.expires
    BY <1>3
  <1>6. GoodStep(r, s, iss, d)
    BY <1>1, <1>2, <1>4, <1>5, DownloadAssumption
  <1> QED
    BY <1>6 DEF s

\* Promotion, and the consumption of a delivered slot.
LEMMA SettledSlotGood ==
    ASSUME NEW r, NEW iss, RowInv(r, iss), r.state = "ready", NEW d
    PROVE  /\ r.slot \in {"none", "reserved", "consumed"} =>
                GoodStep(r, [r EXCEPT !.tier = "premium",
                                      !.slot = Freed(@, "released")], iss, d)
           /\ r.slot = "reserved" =>
                GoodStep(r, [r EXCEPT !.slot = "consumed"], iss, d)
  <1>1. ASSUME r.slot \in {"none", "reserved", "consumed"}
        PROVE  GoodStep(r, [r EXCEPT !.tier = "premium",
                                     !.slot = Freed(@, "released")], iss, d)
    <2> DEFINE q == Freed(r.slot, "released")
    <2>1. q \in Slots
      BY <1>1
    <2> HIDE DEF q
    <2>2. GoodStep(r, [r EXCEPT !.tier = "premium", !.slot = q], iss, d)
      BY <2>1, DownloadAssumption
    <2> QED
      BY <2>2 DEF q
  <1>2. r.slot = "reserved" => GoodStep(r, [r EXCEPT !.slot = "consumed"], iss, d)
    BY DownloadAssumption
  <1> QED
    BY <1>1, <1>2

\* A statement that does not match the row leaves it as it was.
LEMMA SameGood ==
    ASSUME NEW r, NEW iss, RowInv(r, iss), NEW d
    PROVE  GoodStep(r, r, iss, d)
  BY DownloadAssumption

HIDE DEF RowInv, GoodStep, Moves, KeepsClaim, Edge, Onward, Rows, States, Slots,
         ActiveStages, WaitingStages, TerminalStages, PercentStages, Null,
         StoredCancelled, Unleased, Freed

-----------------------------------------------------------------------------
(* The plans of execute.                                                   *)

\* A plan is a sequence of at most six stages.
LEMMA PlanIsSeq ==
    ASSUME NEW p \in Plans
    PROVE  p \in Seq(ActiveStages) /\ Len(p) \in Nat /\ 1 <= Len(p) /\ Len(p) <= 6
  <1>1. CASE p = Muxed
    <2>1. Muxed \in Seq(ActiveStages)
      BY DEF Muxed, ActiveStages, PercentStages
    <2>2. Len(Muxed) = 6
      BY DEF Muxed
    <2> QED
      BY <1>1, <2>1, <2>2
  <1>2. CASE \E kind \in PercentStages : p = Direct(kind)
    <2>1. PICK kind \in PercentStages : p = Direct(kind)
      BY <1>2
    <2>2. p \in Seq(ActiveStages) /\ Len(p) = 3
      BY <2>1 DEF Direct, ActiveStages
    <2> QED
      BY <2>2
  <1> QED
    BY <1>1, <1>2 DEF Plans, PercentStages

\* Every end of a plan is something left of it.
LEMMA RestsOfPlans ==
    ASSUME NEW p \in Plans, NEW k \in 1..7
    PROVE  SubSeq(p, k, Len(p)) \in Rests
  BY DEF Rests

\* A whole plan is left when nothing of it was done.
LEMMA WholePlan ==
    ASSUME NEW plan \in Plans
    PROVE  plan \in Rests /\ plan # <<>>
  <1>1. SubSeq(plan, 1, Len(plan)) = plan
    BY PlanIsSeq, SubSeqFull
  <1>2. SubSeq(plan, 1, Len(plan)) \in Rests
    <2>1. 1 \in 1..7
      OBVIOUS
    <2> QED
      BY <2>1, RestsOfPlans, Zenon
  <1>3. plan # <<>>
    BY PlanIsSeq
  <1> QED
    BY <1>1, <1>2, <1>3, Zenon

\* What is left of a plan after its first stage is left of a plan too.
LEMMA RestOfPlan ==
    ASSUME NEW todo \in Rests, todo # <<>>
    PROVE  todo[1] \in ActiveStages /\ Tail(todo) \in Rests
  <1>1. PICK p \in Plans, i \in 1..7 : todo = SubSeq(p, i, Len(p))
    BY DEF Rests
  <1>2. p \in Seq(ActiveStages) /\ Len(p) \in Nat /\ Len(p) <= 6
    BY PlanIsSeq, Zenon
  <1>3. i <= Len(p)
    BY <1>1, <1>2
  <1>4. todo[1] = p[i] /\ p[i] \in ActiveStages
    BY <1>1, <1>2, <1>3
  <1>5. Tail(todo) = SubSeq(p, i + 1, Len(p)) /\ i + 1 \in 1..7
    BY <1>1, <1>2, <1>3
  <1> QED
    BY <1>4, <1>5, RestsOfPlans

-----------------------------------------------------------------------------
(* The inductive invariant of the system.                                  *)

\* A task carries a fence some claim of its job was given; what fail_retry
\* read of the row holds while the task owns it; a stage is left to do.
TaskInv(t) ==
    /\ t.fence \in issued[t.job]
    /\ t.pc = "requeue" /\ Owned(t) => row[t.job].attempt < MaxAttempts
    /\ t.pc \in {"advance", "work"} => t.todo # <<>>

IInv ==
    /\ TypeOK
    /\ \A j \in Jobs : RowInv(row[j], issued[j])
    /\ \A t \in tasks : TaskInv(t)
    /\ \A j \in live : row[j].state \in {"ready", "expired"}

\* The tasks a step leaves are old ones or in order.
TasksOK == \A t \in tasks' : t \in tasks \/ (t \in Tasks /\ TaskInv(t)')

\* What every step is shown to do.
StepOK ==
    /\ IInv'
    /\ clock' >= clock
    /\ \A j \in Jobs : Moves(row[j], row'[j], j \in live)

\* The invariant holds initially.
LEMMA InitIInv == Init => IInv
  <1> SUFFICES ASSUME Init PROVE IInv
    OBVIOUS
  <1>1. \A j \in Jobs : RowInv(row[j], issued[j])
    BY AbsentRowInv DEF Init
  <1>2. TypeOK
    BY <1>1 DEF Init, TypeOK, RowInv
  <1> QED
    BY <1>1, <1>2 DEF Init, IInv

\* A step that changes rows by good steps only, and whose new tasks are in
\* order, is in order.
LEMMA GoodRowsOK ==
    ASSUME IInv, clock' \in Nat, clock' >= clock, faults' \in Nat,
           issued' \in [Jobs -> SUBSET Nat],
           row' = [j \in Jobs |-> row'[j]],
           \A j \in Jobs : /\ issued[j] \subseteq issued'[j]
                           /\ GoodStep(row[j], row'[j], issued'[j], j \in live),
           live' \subseteq Jobs,
           \A j \in live' : j \in live \/ row'[j].state \in {"ready", "expired"},
           TasksOK
    PROVE  StepOK
  <1>1. \A j \in Jobs : RowInv(row'[j], issued'[j])
    BY DEF GoodStep
  <1>2. TypeOK'
    <2>1. row' \in [Jobs -> Rows]
      BY <1>1 DEF RowInv
    <2>2. tasks' \in SUBSET Tasks
      BY DEF IInv, TypeOK, TasksOK
    <2> QED
      BY <2>1, <2>2 DEF TypeOK
  <1>3. ASSUME NEW t \in tasks
        PROVE  TaskInv(t)'
    <2>1. t \in Tasks /\ t.job \in Jobs /\ t.fence \in Nat /\ TaskInv(t)
      BY DEF IInv, TypeOK, Tasks
    <2> DEFINE r == row[t.job]
               s == row'[t.job]
    <2>2. /\ RowInv(r, issued[t.job]) /\ RowInv(s, issued'[t.job])
          /\ KeepsClaim(r, s)
      BY <1>1, <2>1 DEF IInv, GoodStep
    <2>3. r.fence \in Nat /\ s.fence \in Nat /\ t.fence <= r.fence
      BY <2>1, <2>2 DEF RowInv, Rows, TaskInv
    <2>4. t.fence \in issued'[t.job]
      BY <2>1 DEF TaskInv
    <2>5. t.pc = "requeue" /\ Owned(t)' => s.attempt < MaxAttempts
      <3> SUFFICES ASSUME t.pc = "requeue", s.state = "downloading",
                          s.owner = t.w, s.fence = t.fence
                   PROVE  s.attempt < MaxAttempts
        BY DEF Owned
      <3>1. ~(s.fence > r.fence)
        BY <2>3
      <3>2. /\ r.state = "downloading" /\ s.attempt = r.attempt
            /\ r.owner = t.w /\ r.fence = t.fence
        BY <2>2, <3>1 DEF KeepsClaim
      <3> QED
        BY <2>1, <3>2 DEF TaskInv, Owned
    <2> QED
      BY <2>1, <2>4, <2>5 DEF TaskInv
  <1>4. ASSUME NEW j \in live'
        PROVE  row'[j].state \in {"ready", "expired"}
    <2>1. CASE row[j].state \in {"ready", "expired"}
      BY <2>1 DEF GoodStep, Moves, Edge
    <2> QED
      BY <2>1 DEF IInv
  <1>5. IInv'
    BY <1>1, <1>2, <1>3, <1>4 DEF IInv, TasksOK
  <1> QED
    BY <1>5 DEF StepOK, GoodStep

\* A step that changes no row.
LEMMA NoRowOK ==
    ASSUME IInv, clock' \in Nat, clock' >= clock, faults' \in Nat,
           UNCHANGED <<row, issued>>,
           live' \subseteq Jobs,
           \A j \in live' : j \in live \/ row'[j].state \in {"ready", "expired"},
           TasksOK
    PROVE  StepOK
  <1>1. \A j \in Jobs : GoodStep(row[j], row'[j], issued'[j], j \in live)
    BY SameGood DEF IInv
  <1>2. row' = [j \in Jobs |-> row'[j]] /\ issued' \in [Jobs -> SUBSET Nat]
    BY DEF IInv, TypeOK
  <1> QED
    BY <1>1, <1>2, GoodRowsOK

\* A step that writes the row of one job.
LEMMA OneRowOK ==
    ASSUME IInv, NEW j \in Jobs, NEW s,
           GoodStep(row[j], s, issued[j], j \in live),
           row' = [row EXCEPT ![j] = s],
           UNCHANGED <<clock, live, issued>>, faults' \in Nat,
           TasksOK
    PROVE  StepOK
  <1>1. /\ row \in [Jobs -> Rows] /\ clock \in Nat /\ live \subseteq Jobs
        /\ issued \in [Jobs -> SUBSET Nat]
    BY DEF IInv, TypeOK
  <1>2. ASSUME NEW k \in Jobs
        PROVE  GoodStep(row[k], row'[k], issued[k], k \in live)
    <2>1. CASE k = j
      BY <1>1, <2>1
    <2>2. CASE k # j
      <3>1. row'[k] = row[k] /\ RowInv(row[k], issued[k])
        BY <1>1, <2>2 DEF IInv
      <3> QED
        BY <3>1, SameGood
    <2> QED
      BY <2>1, <2>2
  <1>3. row' = [k \in Jobs |-> row'[k]]
    BY <1>1
  <1>4. clock' \in Nat /\ clock' >= clock
    BY <1>1
  <1> QED
    BY <1>1, <1>2, <1>3, <1>4, GoodRowsOK

-----------------------------------------------------------------------------
(* Steps of an executor.                                                   *)

\* What is known of a task and of the row of its job.
LEMMA TaskFacts ==
    ASSUME IInv, NEW t \in tasks
    PROVE  /\ t \in Tasks /\ t.job \in Jobs /\ TaskInv(t)
           /\ t.todo \in Rests /\ t.pc \in BodyPcs \cup HandlerPcs
           /\ row[t.job] \in Rows /\ RowInv(row[t.job], issued[t.job])
           /\ clock \in Nat /\ faults \in Nat /\ live \subseteq Jobs
           /\ issued[t.job] \in SUBSET Nat
  BY DEF IInv, TypeOK, Tasks

\* A task that moves on, except to the write of fail_retry, is in order.
LEMMA MoveTaskOK ==
    ASSUME IInv, NEW t \in tasks, NEW pc \in BodyPcs \cup HandlerPcs,
           MoveTask(t, pc), UNCHANGED issued,
           pc = "requeue" => row'[t.job].attempt < MaxAttempts,
           pc \in {"advance", "work"} => t.todo # <<>>
    PROVE  TasksOK
  <1> DEFINE v == [t EXCEPT !.pc = pc]
  <1>1. /\ v \in Tasks /\ v.fence = t.fence /\ v.job = t.job /\ v.pc = pc
        /\ v.todo = t.todo
    BY TaskFacts DEF Tasks
  <1>2. \A u \in tasks' : u \in tasks \/ u = v
    BY DEF MoveTask
  <1> HIDE DEF v
  <1>3. TaskInv(v)'
    BY <1>1, TaskFacts DEF TaskInv
  <1> QED
    BY <1>1, <1>2, <1>3 DEF TasksOK

\* A task that ends leaves the others.
LEMMA EndTaskOK ==
    ASSUME NEW t \in tasks, EndTask(t)
    PROVE  TasksOK
  BY DEF EndTask, TasksOK

\* A step of an executor that writes no row.
LEMMA NoWriteOK ==
    ASSUME IInv, TasksOK, faults' \in Nat, UNCHANGED <<clock, row, live, issued>>
    PROVE  StepOK
  <1>1. clock' \in Nat /\ clock' >= clock /\ live' \subseteq Jobs
    BY DEF IInv, TypeOK
  <1> QED
    BY <1>1, NoRowOK

\* A statement of an executor: if it is good on the row it matches, the step
\* is in order whether it matches or not.
LEMMA FencedWriteOK ==
    ASSUME IInv, NEW t \in tasks, NEW s, NEW match \in BOOLEAN,
           match => GoodStep(row[t.job], s, issued[t.job], t.job \in live),
           row' = IF match THEN [row EXCEPT ![t.job] = s] ELSE row,
           EndTask(t), UNCHANGED <<clock, live, faults, issued>>
    PROVE  StepOK
  <1>1. t.job \in Jobs /\ faults' \in Nat /\ TasksOK
    BY TaskFacts, EndTaskOK
  <1>2. CASE match
    BY <1>1, <1>2, OneRowOK
  <1>3. CASE ~match
    BY <1>1, <1>3, NoWriteOK
  <1> QED
    BY <1>2, <1>3

\* Verifying the lease, between two stages and while a subprocess runs.
LEMMA CheckOK ==
    ASSUME IInv, NEW t \in tasks, Check(t) \/ Watch(t)
    PROVE  StepOK
  <1>1. faults' \in Nat /\ UNCHANGED <<clock, live, issued>> /\ t.job \in Jobs
    BY TaskFacts DEF Check, Watch
  <1>2. CASE EndTask(t) /\ UNCHANGED row
    BY <1>1, <1>2, EndTaskOK, NoWriteOK
  <1>3. CASE MoveTask(t, "cancel") /\ UNCHANGED row
    <2>1. TasksOK
      BY <1>1, <1>3, MoveTaskOK DEF HandlerPcs
    <2> QED
      BY <1>1, <1>3, <2>1, NoWriteOK
  <1>4. CASE /\ Fenced(t)
             /\ SetRow(t.job, [row[t.job] EXCEPT !.lease = clock + LeaseTicks])
             /\ \/ UNCHANGED tasks
                \/ MoveTask(t, IF t.todo = <<>> THEN "complete" ELSE "advance")
    <2>1. GoodStep(row[t.job], [row[t.job] EXCEPT !.lease = clock + LeaseTicks],
                   issued[t.job], t.job \in live)
      BY <1>4, TaskFacts, RenewedGood DEF Fenced, Leased, Owned
    <2>2. CASE UNCHANGED tasks
      <3>1. TasksOK
        BY <2>2 DEF TasksOK
      <3> QED
        BY <1>1, <1>4, <2>1, <3>1, OneRowOK DEF SetRow
    <2>3. CASE MoveTask(t, IF t.todo = <<>> THEN "complete" ELSE "advance")
      <3>1. TasksOK
        BY <1>1, <2>3, MoveTaskOK DEF BodyPcs
      <3> QED
        BY <1>1, <1>4, <2>1, <3>1, OneRowOK DEF SetRow
    <2> QED
      BY <1>4, <2>2, <2>3
  <1> QED
    BY <1>2, <1>3, <1>4 DEF Check, Watch

\* Recording a stage.
LEMMA AdvanceOK ==
    ASSUME IInv, NEW t \in tasks, Advance(t)
    PROVE  StepOK
  <1>1. /\ faults' \in Nat /\ UNCHANGED <<clock, live, issued>> /\ t.job \in Jobs
        /\ t.todo # <<>> /\ t.todo \in Rests
    BY TaskFacts DEF Advance, TaskInv
  <1>2. CASE MoveTask(t, "work") /\ UNCHANGED row
    <2>1. TasksOK
      BY <1>1, <1>2, MoveTaskOK DEF BodyPcs
    <2> QED
      BY <1>1, <1>2, <2>1, NoWriteOK
  <1>3. CASE MoveTask(t, "retry") /\ UNCHANGED row
    <2>1. TasksOK
      BY <1>1, <1>3, MoveTaskOK DEF HandlerPcs
    <2> QED
      BY <1>1, <1>3, <2>1, NoWriteOK
  <1>4. CASE /\ Owned(t) /\ Allowed(row[t.job].stage, t.todo[1])
             /\ SetRow(t.job, StagedRow(row[t.job], t.todo[1]))
             /\ MoveTask(t, "work")
    <2>1. TasksOK
      BY <1>1, <1>4, MoveTaskOK DEF BodyPcs
    <2>2. GoodStep(row[t.job], StagedRow(row[t.job], t.todo[1]), issued[t.job],
                   t.job \in live)
      BY <1>1, <1>4, TaskFacts, RestOfPlan, StagedGood DEF Owned
    <2> QED
      BY <1>1, <1>4, <2>1, <2>2, OneRowOK DEF SetRow
  <1> QED
    BY <1>2, <1>3, <1>4 DEF Advance

\* The end of a stage's work.
LEMMA WorkEndsOK ==
    ASSUME IInv, NEW t \in tasks, WorkEnds(t)
    PROVE  StepOK
  <1>1. /\ faults' \in Nat /\ UNCHANGED <<clock, row, live, issued>>
        /\ t.todo # <<>> /\ t.todo \in Rests
    BY TaskFacts DEF WorkEnds, TaskInv
  <1>2. TasksOK
    <2>1. CASE MoveTask(t, "retry") \/ MoveTask(t, "permanent")
      BY <1>1, <2>1, MoveTaskOK DEF HandlerPcs
    <2>2. CASE tasks' = (tasks \ {t}) \cup {[t EXCEPT !.pc = "check", !.todo = Tail(@)]}
      <3> DEFINE rest == Tail(t.todo)
                 v == [t EXCEPT !.pc = "check", !.todo = rest]
      <3>1. rest \in Rests
        BY <1>1, RestOfPlan
      <3>2. \A u \in tasks' : u \in tasks \/ u = v
        BY <2>2
      <3> HIDE DEF rest
      <3>3. v \in Tasks /\ v.fence = t.fence /\ v.job = t.job /\ v.pc = "check"
        BY <3>1, TaskFacts DEF Tasks, BodyPcs
      <3> HIDE DEF v
      <3>4. TaskInv(v)'
        BY <1>1, <3>3, TaskFacts DEF TaskInv
      <3> QED
        BY <3>2, <3>3, <3>4 DEF TasksOK
    <2> QED
      BY <2>1, <2>2 DEF WorkEnds
  <1> QED
    BY <1>1, <1>2, NoWriteOK

\* Recording a percent.
LEMMA PercentOK ==
    ASSUME IInv, NEW t \in tasks, Percent(t)
    PROVE  StepOK
  <1>1. PICK p \in 0..MaxPercent :
          /\ p > row[t.job].percent
          /\ SetRow(t.job, [row[t.job] EXCEPT !.percent = p])
    BY DEF Percent, Advances
  <1>2. p \in Nat /\ TasksOK
    BY DownloadAssumption DEF TasksOK, Percent
  <1>3. GoodStep(row[t.job], [row[t.job] EXCEPT !.percent = p], issued[t.job],
                 t.job \in live)
    BY <1>1, <1>2, TaskFacts, PercentGood DEF Percent, Fenced, Leased, Owned
  <1>4. /\ faults' \in Nat /\ UNCHANGED <<clock, live, issued>> /\ t.job \in Jobs
    BY TaskFacts DEF Percent
  <1> QED
    BY <1>1, <1>2, <1>3, <1>4, OneRowOK DEF SetRow

\* The executor is interrupted.
LEMMA InterruptOK ==
    ASSUME IInv, NEW t \in tasks, Interrupt(t), UNCHANGED issued
    PROVE  TasksOK
  <1>1. CASE MoveTask(t, "release")
    BY <1>1, MoveTaskOK DEF HandlerPcs
  <1>2. CASE EndTask(t)
    BY <1>2, EndTaskOK
  <1> QED
    BY <1>1, <1>2 DEF Interrupt

\* The heartbeat of a claim.
LEMMA HeartbeatOK ==
    ASSUME IInv, NEW t \in tasks, Heartbeat(t)
    PROVE  StepOK
  <1>1. faults' \in Nat /\ UNCHANGED <<clock, live, issued>> /\ t.job \in Jobs
    BY TaskFacts DEF Heartbeat
  <1>2. CASE /\ Leased(t)
             /\ SetRow(t.job, [row[t.job] EXCEPT !.lease = clock + LeaseTicks])
             /\ UNCHANGED tasks
    <2>1. GoodStep(row[t.job], [row[t.job] EXCEPT !.lease = clock + LeaseTicks],
                   issued[t.job], t.job \in live)
      BY <1>2, TaskFacts, RenewedGood DEF Leased, Owned
    <2>2. TasksOK
      BY <1>2 DEF TasksOK
    <2> QED
      BY <1>1, <1>2, <2>1, <2>2, OneRowOK DEF SetRow
  <1>3. CASE Interrupt(t) /\ UNCHANGED row
    BY <1>1, <1>3, InterruptOK, NoWriteOK
  <1> QED
    BY <1>2, <1>3 DEF Heartbeat

\* The handlers that end a claim.
LEMMA HandlerOK ==
    ASSUME IInv, NEW t \in tasks,
           \/ CompleteReady(t) \/ FailPermanent(t) \/ FailRetryWrite(t)
           \/ CompleteCancelled(t) \/ Release(t)
    PROVE  StepOK
  <1> DEFINE r == row[t.job]
             iss == issued[t.job]
             d == t.job \in live
  <1>1. /\ RowInv(r, iss) /\ clock \in Nat /\ TaskInv(t) /\ t.job \in Jobs
        /\ faults \in Nat
    BY TaskFacts
  <1>2. Fenced(t) => /\ r.state = "downloading" /\ r.cancel = "no"
                     /\ r.fence = t.fence /\ r.fence \in iss /\ Owned(t)
    BY <1>1 DEF Fenced, Leased, Owned, TaskInv
  <1>3. CASE CompleteReady(t)
    <2>1. CASE Fenced(t) /\ SetRow(t.job, ReadyRow(r, t.fence)) /\ EndTask(t)
      <3>1. GoodStep(r, ReadyRow(r, t.fence), iss, d)
        BY <1>1, <1>2, <2>1, ReadyGood
      <3>2. TasksOK /\ faults' \in Nat /\ UNCHANGED <<clock, live, issued>>
        BY <1>1, <1>3, <2>1, EndTaskOK DEF CompleteReady
      <3> QED
        BY <1>1, <2>1, <3>1, <3>2, OneRowOK DEF SetRow
    <2>2. CASE MoveTask(t, "cancel") /\ UNCHANGED row
      <3>1. faults' \in Nat /\ UNCHANGED <<clock, live, issued>>
        BY <1>1, <1>3 DEF CompleteReady
      <3>2. TasksOK
        BY <2>2, <3>1, MoveTaskOK DEF HandlerPcs
      <3> QED
        BY <2>2, <3>1, <3>2, NoWriteOK
    <2> QED
      BY <1>3, <2>1, <2>2 DEF CompleteReady
  <1>4. CASE FailPermanent(t)
    <2>1. Fenced(t) => GoodStep(r, FailedRow(r), iss, d)
      BY <1>1, <1>2, FailedGood
    <2>2. row' = IF Fenced(t) THEN [row EXCEPT ![t.job] = FailedRow(r)] ELSE row
      BY <1>4 DEF FailPermanent
    <2>3. EndTask(t) /\ UNCHANGED <<clock, live, faults, issued>>
      BY <1>4 DEF FailPermanent
    <2>4. Fenced(t) \in BOOLEAN
      BY DEF Fenced
    <2> QED
      BY <2>1, <2>2, <2>3, <2>4, FencedWriteOK
  <1>5. CASE FailRetryWrite(t)
    <2>1. Fenced(t) => GoodStep(r, RetriedRow(r), iss, d)
      BY <1>1, <1>2, <1>5, RetriedGood DEF TaskInv, FailRetryWrite
    <2>2. row' = IF Fenced(t) THEN [row EXCEPT ![t.job] = RetriedRow(r)] ELSE row
      BY <1>5 DEF FailRetryWrite
    <2>3. EndTask(t) /\ UNCHANGED <<clock, live, faults, issued>>
      BY <1>5 DEF FailRetryWrite
    <2>4. Fenced(t) \in BOOLEAN
      BY DEF Fenced
    <2> QED
      BY <2>1, <2>2, <2>3, <2>4, FencedWriteOK
  <1>6. CASE CompleteCancelled(t)
    <2> DEFINE match == Owned(t) /\ row[t.job].cancel = "yes"
    <2>1. match => GoodStep(r, CancelledRow(r), iss, d)
      BY <1>1, CancelledGood DEF Owned
    <2>2. row' = IF match THEN [row EXCEPT ![t.job] = CancelledRow(r)] ELSE row
      BY <1>6 DEF CompleteCancelled
    <2>3. EndTask(t) /\ UNCHANGED <<clock, live, faults, issued>>
      BY <1>6 DEF CompleteCancelled
    <2>4. match \in BOOLEAN
      OBVIOUS
    <2> HIDE DEF match
    <2> QED
      BY <2>1, <2>2, <2>3, <2>4, FencedWriteOK
  <1>7. CASE Release(t)
    <2>1. Fenced(t) => GoodStep(r, ReleasedRow(r), iss, d)
      BY <1>1, <1>2, ReleasedGood
    <2>2. row' = IF Fenced(t) THEN [row EXCEPT ![t.job] = ReleasedRow(r)] ELSE row
      BY <1>7 DEF Release
    <2>3. EndTask(t) /\ UNCHANGED <<clock, live, faults, issued>>
      BY <1>7 DEF Release
    <2>4. Fenced(t) \in BOOLEAN
      BY DEF Fenced
    <2> QED
      BY <2>1, <2>2, <2>3, <2>4, FencedWriteOK
  <1> QED
    BY <1>3, <1>4, <1>5, <1>6, <1>7

\* The read of fail_retry: the budget it sees is the one its write may use.
LEMMA FailRetryReadOK ==
    ASSUME IInv, NEW t \in tasks, FailRetryRead(t)
    PROVE  StepOK
  <1>1. faults' \in Nat /\ UNCHANGED <<clock, row, live, issued>>
        /\ row[t.job] \in Rows
    BY TaskFacts DEF FailRetryRead
  <1>2. CASE EndTask(t)
    BY <1>1, <1>2, EndTaskOK, NoWriteOK
  <1>3. CASE MoveTask(t, "cancel") \/ MoveTask(t, "permanent")
    <2>1. TasksOK
      BY <1>1, <1>3, MoveTaskOK DEF HandlerPcs
    <2> QED
      BY <1>1, <2>1, NoWriteOK
  <1>4. CASE MoveTask(t, "requeue") /\ ~Exhausted(row[t.job])
    <2>1. row'[t.job].attempt < MaxAttempts
      BY <1>1, <1>4, DownloadAssumption DEF Exhausted, Rows
    <2>2. TasksOK
      BY <1>1, <1>4, <2>1, MoveTaskOK DEF HandlerPcs
    <2> QED
      BY <1>1, <2>2, NoWriteOK
  <1> QED
    BY <1>2, <1>3, <1>4 DEF FailRetryRead

\* Errors of the database, stops and crashes.
LEMMA FaultOK ==
    ASSUME IInv, NEW t \in tasks, DatabaseFault(t) \/ Interrupted(t) \/ Crash(t)
    PROVE  StepOK
  <1>1. faults' \in Nat /\ UNCHANGED <<clock, row, live, issued>>
    BY TaskFacts DEF DatabaseFault, Interrupted, Crash, Fault
  <1>2. TasksOK
    <2>1. CASE EndTask(t)
      BY <2>1, EndTaskOK
    <2>2. CASE MoveTask(t, "retry")
      BY <1>1, <2>2, MoveTaskOK DEF HandlerPcs
    <2>3. CASE t.pc = "advance" /\ MoveTask(t, "work")
      BY <1>1, <2>3, TaskFacts, MoveTaskOK DEF BodyPcs, TaskInv
    <2>4. CASE Interrupt(t)
      BY <1>1, <2>4, InterruptOK
    <2> QED
      BY <2>1, <2>2, <2>3, <2>4 DEF DatabaseFault, Interrupted, Crash
  <1> QED
    BY <1>1, <1>2, NoWriteOK

\* Every step of an executor is in order.
LEMMA TaskStepOK ==
    ASSUME IInv, NEW t \in tasks, TaskStep(t)
    PROVE  StepOK
  BY CheckOK, AdvanceOK, WorkEndsOK, PercentOK, HeartbeatOK, HandlerOK,
     FailRetryReadOK, FaultOK DEF TaskStep

-----------------------------------------------------------------------------
(* Steps of the API, the delivery, the poll and the reconciler.            *)

\* A new job was never claimed, so its row may be built from nothing.
LEMMA CreateOK ==
    ASSUME IInv, NEW j \in Jobs, Create(j)
    PROVE  StepOK
  <1>1. PICK life \in 1..TtlTicks, tier \in {"free", "premium"},
             slot \in {"none", "reserved"} : SetRow(j, NewRow(life, tier, slot))
    BY DEF Create
  <1>2. /\ RowInv(row[j], issued[j]) /\ row[j].state = "absent" /\ clock \in Nat
        /\ faults' \in Nat /\ UNCHANGED <<clock, live, issued>> /\ life \in Nat
    BY DownloadAssumption DEF Create, IInv, TypeOK
  <1>3. issued[j] = {} /\ row[j].cancel = "no"
    BY <1>2 DEF RowInv, StoredCancelled, Rows
  <1>4. GoodStep(row[j], NewRow(life, tier, slot), issued[j], j \in live)
    BY <1>2, <1>3, NewGood
  <1>5. TasksOK
    BY DEF Create, TasksOK
  <1> QED
    BY <1>1, <1>2, <1>4, <1>5, OneRowOK DEF SetRow

\* request_cancel.
LEMMA RequestCancelOK ==
    ASSUME IInv, NEW j \in Jobs, RequestCancel(j)
    PROVE  StepOK
  <1>1. RowInv(row[j], issued[j]) /\ faults' \in Nat
    BY DEF IInv, TypeOK, RequestCancel
  <1>2. GoodStep(row[j], CancelRequested(row[j]), issued[j], j \in live)
    BY <1>1, CancelledGood, FlaggedGood, SameGood DEF CancelRequested
  <1>3. TasksOK
    BY DEF RequestCancel, TasksOK
  <1> QED
    BY <1>1, <1>2, <1>3, OneRowOK DEF RequestCancel, SetRow

\* Promotion.
LEMMA PromoteOK ==
    ASSUME IInv, NEW j \in Jobs, Promote(j)
    PROVE  StepOK
  <1> DEFINE s == [row[j] EXCEPT !.tier = "premium", !.slot = Freed(@, "released")]
  <1>1. RowInv(row[j], issued[j]) /\ faults' \in Nat
        /\ UNCHANGED <<clock, live, issued>>
    BY DEF IInv, TypeOK, Promote
  <1>2. row' = [row EXCEPT ![j] = s]
    BY DEF Promote, SetRow
  <1>3. GoodStep(row[j], s, issued[j], j \in live)
    BY <1>1, SettledSlotGood DEF Promote
  <1>4. TasksOK
    BY DEF Promote, TasksOK
  <1> HIDE DEF s
  <1> QED
    BY <1>1, <1>2, <1>3, <1>4, OneRowOK

\* A delivery begins, is paid for, ends.
LEMMA DeliveryOK ==
    ASSUME IInv, NEW j \in Jobs,
           BeginDelivery(j) \/ ConsumeDelivered(j) \/ EndDelivery(j)
    PROVE  StepOK
  <1>1. /\ RowInv(row[j], issued[j]) /\ faults' \in Nat /\ clock' \in Nat
        /\ clock' >= clock /\ live \subseteq Jobs /\ UNCHANGED <<clock, issued>>
    BY DEF IInv, TypeOK, BeginDelivery, ConsumeDelivered, EndDelivery
  <1>2. TasksOK
    BY DEF TasksOK, BeginDelivery, ConsumeDelivered, EndDelivery
  <1>3. CASE BeginDelivery(j)
    BY <1>1, <1>2, <1>3, NoRowOK DEF BeginDelivery
  <1>4. CASE EndDelivery(j)
    BY <1>1, <1>2, <1>4, NoRowOK DEF EndDelivery
  <1>5. CASE ConsumeDelivered(j)
    <2>1. row[j].state = "ready"
      BY <1>1, <1>5 DEF ConsumeDelivered, IInv, RowInv
    <2>2. GoodStep(row[j], [row[j] EXCEPT !.slot = "consumed"], issued[j], j \in live)
      BY <1>1, <1>5, <2>1, SettledSlotGood DEF ConsumeDelivered
    <2> QED
      BY <1>1, <1>2, <1>5, <2>2, OneRowOK DEF ConsumeDelivered, SetRow
  <1> QED
    BY <1>3, <1>4, <1>5

\* The poll reclaims and expires.
LEMMA HygieneOK ==
    ASSUME IInv, Hygiene
    PROVE  StepOK
  <1>1. /\ faults' \in Nat /\ clock' \in Nat /\ clock' >= clock /\ live' \subseteq Jobs
        /\ issued' \in [Jobs -> SUBSET Nat] /\ UNCHANGED <<live, issued>>
    BY DEF IInv, TypeOK, Hygiene
  <1>2. TasksOK
    BY DEF TasksOK, Hygiene
  <1>3. ASSUME NEW j \in Jobs
        PROVE  GoodStep(row[j], row'[j], issued[j], j \in live)
    <2>1. /\ RowInv(row[j], issued[j]) /\ clock \in Nat /\ issued[j] \in SUBSET Nat
      BY DEF IInv, TypeOK
    <2>2. CASE LeaseExpired(row[j])
      <3>1. row'[j] = ReclaimedRow(row[j])
        BY <2>2 DEF Hygiene
      <3> QED
        BY <2>1, <2>2, <3>1, ReclaimedGood DEF LeaseExpired
    <2>3. CASE ~LeaseExpired(row[j]) /\ Due(row[j]) /\ ~Deferred(j)
      <3>1. row'[j] = ExpiredRow(row[j])
        BY <2>3 DEF Hygiene
      <3>2. row[j].state # "absent"
        BY <2>3 DEF Due, StoredCancelled
      <3>3. ~(j \in live /\ row[j].state = "ready" /\ row[j].slot = "reserved")
        BY <2>3 DEF Deferred
      <3> QED
        BY <2>1, <3>1, <3>2, <3>3, ExpiredGood
    <2>4. CASE ~LeaseExpired(row[j]) /\ ~(Due(row[j]) /\ ~Deferred(j))
      <3>1. row'[j] = row[j]
        BY <2>4 DEF Hygiene
      <3> QED
        BY <2>1, <3>1, SameGood
    <2> QED
      BY <2>2, <2>3, <2>4
  <1>4. row' = [j \in Jobs |-> row'[j]]
    BY DEF Hygiene
  <1> QED
    BY <1>1, <1>2, <1>3, <1>4, GoodRowsOK

\* The reconciler repairs nothing that the invariant excludes.
LEMMA ReconcileOK ==
    ASSUME IInv, Reconcile
    PROVE  StepOK
  <1>1. /\ faults' \in Nat /\ clock' \in Nat /\ clock' >= clock /\ live' \subseteq Jobs
        /\ issued' \in [Jobs -> SUBSET Nat] /\ UNCHANGED <<live, issued>>
    BY DEF IInv, TypeOK, Reconcile
  <1>2. TasksOK
    BY DEF TasksOK, Reconcile
  <1>3. ASSUME NEW j \in Jobs
        PROVE  GoodStep(row[j], row'[j], issued[j], j \in live)
    <2>1. /\ RowInv(row[j], issued[j]) /\ clock \in Nat /\ issued[j] \in SUBSET Nat
      BY DEF IInv, TypeOK
    <2>2. row[j].slot = "reserved" => row[j].state \notin {"failed", "expired"}
      BY <2>1 DEF RowInv
    <2>3. CASE row[j].slot = "reserved" /\ row[j].state = "ready" /\ Compatibility
      <3>1. row'[j] = [row[j] EXCEPT !.slot = "consumed"]
        BY <2>3 DEF Reconcile
      <3>2. GoodStep(row[j], [row[j] EXCEPT !.slot = "consumed"], issued[j], j \in live)
        BY <2>1, <2>3, SettledSlotGood
      <3> QED
        BY <3>1, <3>2
    <2>4. CASE /\ row[j].slot = "reserved" /\ row[j].state # "ready"
               /\ row[j].expires <= clock /\ row[j].state # "absent"
      <3>1. row'[j] = ExpiredRow(row[j])
        BY <2>2, <2>4 DEF Reconcile
      <3> QED
        BY <2>1, <2>4, <3>1, ExpiredGood
    <2>5. CASE row'[j] = row[j]
      BY <2>1, <2>5, SameGood
    <2>6. row[j].state = "absent" => row[j].slot = "none"
      BY <2>1 DEF RowInv
    <2> QED
      BY <2>2, <2>3, <2>4, <2>5, <2>6 DEF Reconcile
  <1>4. row' = [j \in Jobs |-> row'[j]]
    BY DEF Reconcile
  <1> QED
    BY <1>1, <1>2, <1>3, <1>4, GoodRowsOK

\* A claim: the new task carries a fence nobody else holds.
LEMMA ClaimOK ==
    ASSUME IInv, NEW w \in Workers, Claim(w)
    PROVE  StepOK
  <1>1. PICK j \in Jobs, plan \in Plans :
          /\ Claimable(row[j])
          /\ SetRow(j, ClaimedRow(row[j], w))
          /\ tasks' = tasks \cup {[w |-> w, job |-> j, fence |-> row'[j].fence,
                                   pc |-> "check", todo |-> plan]}
          /\ issued' = [issued EXCEPT ![j] = @ \cup {row'[j].fence}]
    BY DEF Claim
  <1> DEFINE r == row[j]
             s == ClaimedRow(r, w)
  <1>2. /\ RowInv(r, issued[j]) /\ clock \in Nat /\ issued \in [Jobs -> SUBSET Nat]
        /\ row \in [Jobs -> Rows] /\ live \subseteq Jobs /\ faults' \in Nat
        /\ UNCHANGED <<clock, live>>
    BY DEF IInv, TypeOK, Claim
  <1>3. r.state = "queued" /\ r.cancel = "no" /\ r.attempt < MaxAttempts
    BY <1>1 DEF Claimable
  <1>4. /\ GoodStep(r, s, issued[j] \cup {r.fence + 1}, j \in live)
        /\ s.fence = r.fence + 1
    BY <1>2, <1>3, ClaimedGood
  <1>5. row'[j] = s /\ \A k \in Jobs : k # j => row'[k] = row[k]
    BY <1>1, <1>2 DEF SetRow
  <1>6. r.fence + 1 \in Nat
    BY <1>2 DEF RowInv, Rows
  <1>7. /\ issued' \in [Jobs -> SUBSET Nat]
        /\ issued'[j] = issued[j] \cup {r.fence + 1}
        /\ \A k \in Jobs : k # j => issued'[k] = issued[k]
    BY <1>1, <1>2, <1>4, <1>5, <1>6
  <1>8. ASSUME NEW k \in Jobs
        PROVE  /\ issued[k] \subseteq issued'[k]
               /\ GoodStep(row[k], row'[k], issued'[k], k \in live)
    <2>1. CASE k = j
      BY <1>4, <1>5, <1>7, <2>1
    <2>2. CASE k # j
      BY <1>5, <1>7, <2>2, SameGood DEF IInv
    <2> QED
      BY <2>1, <2>2
  <1>9. TasksOK
    <2> SUFFICES ASSUME NEW u \in tasks', u \notin tasks
                 PROVE  u \in Tasks /\ TaskInv(u)'
      BY DEF TasksOK
    <2>1. u = [w |-> w, job |-> j, fence |-> r.fence + 1, pc |-> "check", todo |-> plan]
      BY <1>1, <1>4, <1>5
    <2>2. u.fence = r.fence + 1 /\ u.job = j /\ u.pc = "check" /\ u \in Tasks
      BY <1>6, <2>1, WholePlan DEF Tasks, BodyPcs
    <2>3. TaskInv(u)'
      BY <1>7, <2>2 DEF TaskInv
    <2> QED
      BY <2>2, <2>3
  <1>10. row' = [k \in Jobs |-> row'[k]]
    BY <1>1, <1>2 DEF SetRow
  <1>11. clock' \in Nat /\ clock' >= clock /\ \A k \in live' : k \in live
    BY <1>2
  <1> QED
    BY <1>2, <1>7, <1>8, <1>9, <1>10, <1>11, GoodRowsOK

\* Every step is in order: one case per disjunct of Next.
LEMMA NextOK ==
    ASSUME IInv, [Next]_vars
    PROVE  StepOK
  <1>1. CASE Tick
    BY <1>1, NoRowOK DEF Tick, IInv, TypeOK, TasksOK
  <1>2. CASE UNCHANGED vars
    BY <1>2, NoRowOK DEF vars, IInv, TypeOK, TasksOK
  <1>3. ASSUME NEW j \in Jobs, JobStep(j) PROVE StepOK
    BY <1>3, CreateOK, RequestCancelOK, PromoteOK, DeliveryOK DEF JobStep
  <1> QED
    BY <1>1, <1>2, <1>3, HygieneOK, ReconcileOK, ClaimOK, TaskStepOK DEF Next

-----------------------------------------------------------------------------
(* Theorems.                                                               *)

\* The inductive invariant holds in every reachable state.
THEOREM Invariance == Spec => []IInv
  <1>1. IInv /\ [Next]_vars => IInv'
    BY NextOK DEF StepOK
  <1> QED
    BY <1>1, InitIInv, PTL DEF Spec

\* No statement of the repository, of the API, a poll or a stalled executor, ever
\* breaks the check constraints of media_download_jobs; see WellFormed.
THEOREM RowsAreWellFormed == Spec => []WellFormed
  <1>1. IInv => WellFormed
    BY DEF IInv, RowInv, WellFormed, CheckConstraints
  <1> QED
    BY <1>1, Invariance, PTL

\* The quota slot follows its job; see SlotFollowsJob.
THEOREM SlotSafety == Spec => []SlotFollowsJob
  <1>1. IInv => SlotFollowsJob
    BY DEF IInv, RowInv, SlotFollowsJob
  <1> QED
    BY <1>1, Invariance, PTL

\* An artifact comes from the last claim; see ArtifactFromLastClaim.
THEOREM ArtifactSafety == Spec => []ArtifactFromLastClaim
  <1>1. IInv => ArtifactFromLastClaim
    BY DEF IInv, RowInv, ArtifactFromLastClaim
  <1> QED
    BY <1>1, Invariance, PTL

\* A cancel request is never lost; see CancelSticks.
THEOREM CancelIsKept == Spec => CancelSticks
  <1>1. IInv /\ [Next]_vars =>
          \A j \in Jobs :
             row[j].cancel = "yes" =>
                \/ row'[j].state = "expired"
                \/ row'[j].state = "downloading" /\ row'[j].cancel = "yes"
    BY NextOK DEF StepOK, Moves
  <1> QED
    BY <1>1, Invariance, PTL DEF Spec, CancelSticks

\* A delivery keeps its artifact; see DeliveryKeepsArtifact.
THEOREM DeliveredArtifactStays == Spec => DeliveryKeepsArtifact
  <1>1. IInv /\ [Next]_vars =>
          \A j \in Jobs :
             /\ j \in live
             /\ row[j].state = "ready" /\ row[j].slot = "reserved"
             => row'[j].artifact = row[j].artifact
    BY NextOK DEF StepOK, Moves
  <1> QED
    BY <1>1, Invariance, PTL DEF Spec, DeliveryKeepsArtifact

\* A view that shows a waiting or a running job shows the state of the row,
\* and the TTL is not over; one that shows a job that is over shows that it is.
LEMMA ViewFacts ==
    ASSUME NEW r \in Rows, clock \in Nat
    PROVE  /\ View(r) \in {"queued", "downloading"}
                 => r.state = View(r) /\ ~(r.expires <= clock)
           /\ View(r) \in {"ready", "failed", "cancelled", "expired"}
                 => \/ r.expires <= clock
                    \/ r.state \in {"ready", "failed", "expired"}
  BY DEF View, Rows, States, StoredCancelled

\* What the client sees only moves forward; see ShownMovesForward.
THEOREM ShownIsMonotone == Spec => ShownMovesForward
  <1>1. IInv /\ [Next]_vars =>
          \A j \in Jobs :
             /\ row[j].state = "downloading"
             /\ row'[j].state = "downloading"
             /\ row'[j].fence = row[j].fence
             => \/ Rank(row'[j].stage) > Rank(row[j].stage)
                \/ /\ row'[j].stage = row[j].stage
                   /\ row'[j].percent >= row[j].percent
    BY NextOK DEF StepOK, Moves, Onward
  <1>2. ASSUME IInv, [Next]_vars
        PROVE  \A j \in Jobs :
                 /\ row[j].state # "absent"
                 /\ View(row[j]) \in {"ready", "failed", "cancelled", "expired"}
                 => View(row[j])' \notin {"queued", "downloading"}
    <2> SUFFICES ASSUME NEW j \in Jobs, row[j].state # "absent",
                        View(row[j]) \in {"ready", "failed", "cancelled", "expired"},
                        View(row[j])' \in {"queued", "downloading"}
                 PROVE  FALSE
      OBVIOUS
    <2>1. StepOK
      BY <1>2, NextOK
    <2>2. /\ row[j] \in Rows /\ row'[j] \in Rows /\ clock \in Nat /\ clock' \in Nat
          /\ clock' >= clock /\ Moves(row[j], row'[j], j \in live)
      BY <1>2, <2>1 DEF StepOK, IInv, TypeOK
    <2>3. \/ row[j].expires <= clock
          \/ row[j].state \in {"ready", "failed", "expired"}
      BY <2>2, ViewFacts
    <2>4. row'[j].state \in {"queued", "downloading"} /\ ~(row'[j].expires <= clock')
      BY <2>2 DEF View, Rows, States, StoredCancelled
    <2>5. row[j].expires \in Nat /\ row'[j].expires = row[j].expires
      BY <2>2 DEF Rows, Moves
    <2>6. row[j].state \in {"ready", "failed", "expired"}
      BY <2>2, <2>3, <2>4, <2>5
    <2> QED
      BY <2>2, <2>4, <2>6 DEF Moves, Edge
  <1> QED
    BY <1>1, <1>2, Invariance, PTL
       DEF Spec, ShownMovesForward, ProgressNeverRewinds, OverIsOver

\* The download queue implements JobLifecycle; see ImplementsLifecycle.
THEOREM Refinement == Spec => ImplementsLifecycle
  <1>1. Init => Lifecycle!Init
    BY DEF Init, Lifecycle!Init, AbsentRow, PhaseOf
  <1>2. ASSUME NEW r, NEW s, Edge(r, s), r \in Rows
        PROVE  \/ PhaseOf(s.state) = PhaseOf(r.state) /\ s.attempt = r.attempt
               \/ Lifecycle!Move(PhaseOf(r.state), r.attempt,
                                 PhaseOf(s.state), s.attempt)
    BY <1>2 DEF Edge, PhaseOf, Rows, States, Lifecycle!Move, Lifecycle!Submit,
                Lifecycle!Start, Lifecycle!Retry, Lifecycle!GiveBack,
                Lifecycle!Settle, Lifecycle!Discard
  <1>3. ASSUME IInv, [Next]_vars
        PROVE  [Lifecycle!Next]_<<[j \in Jobs |-> PhaseOf(row[j].state)],
                                  [j \in Jobs |-> row[j].attempt]>>
    <2>1. \A j \in Jobs : Edge(row[j], row'[j]) /\ row[j] \in Rows
      BY <1>3, NextOK DEF StepOK, Moves, IInv, TypeOK
    <2> QED
      BY <1>2, <2>1 DEF Lifecycle!Next
  <1> QED
    BY <1>1, <1>3, Invariance, PTL DEF Spec, ImplementsLifecycle, Lifecycle!Spec
=============================================================================
