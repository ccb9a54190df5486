------------------------- MODULE DeliveryAccounting -------------------------
(***************************************************************************)
(* The range ledger of one Free download: a quota slot is consumed only    *)
(* when the byte ranges served for the artifact add up to all of it.       *)
(*                                                                         *)
(* Responses stream concurrently.  Each begins an attempt (a ledger row)   *)
(* in one transaction, checkpoints it while bytes flow and finalizes it    *)
(* when the stream ends; a response may die in between, its row stays      *)
(* until its lease is stale.  The ledger transactions lock identity, job   *)
(* and entry first, so each is one atomic step.                            *)
(***************************************************************************)
EXTENDS IntervalUnion

CONSTANTS Responses,    \* HTTP responses, each with its attempt id
          Size,         \* artifact_bytes
          LeaseTicks,   \* DELIVERY_ATTEMPT_LEASE_SECONDS
          TtlTicks,     \* expires_at of the job
          MaxActive,    \* MAX_ACTIVE_ATTEMPTS
          MaxFragments, \* MAX_CLOSED_FRAGMENTS
          MaxTime       \* bound: the clock stops here

ASSUME LedgerAssumption ==
    /\ Size \in Nat \ {0}
    /\ LeaseTicks \in Nat \ {0}
    /\ TtlTicks \in Nat \ {0}
    /\ MaxActive \in Nat \ {0}
    /\ MaxFragments \in Nat \ {0}
    /\ MaxTime \in Nat

VARIABLES clock,        \* clock_timestamp() of the database
          job,          \* public_state of the job
          slot,         \* state of the quota entry
          reservation,  \* reservation_expires_at of the entry
          active,       \* active ledger rows by response
          closed,       \* closed ledger rows: served intervals
          stream,       \* the responses
          sent          \* history: bytes handed to the client

vars == <<clock, job, slot, reservation, active, closed, stream, sent>>

-----------------------------------------------------------------------------
(* Ledger rows.                                                            *)

None == [start |-> 0, end |-> 0, served |-> 0, lease |-> -1]

IsActive(a) == active[a] # None
ActiveRows == {a \in Responses : IsActive(a)}
Served(r) == <<r.start, r.served>>

\* _close_stale keeps the rows whose lease is still live.
Stale(a) == IsActive(a) /\ active[a].lease <= clock

\* What closing the rows adds to the closed intervals: a row that served
\* nothing is deleted.
Evidence(rows) == {iv \in {Served(active[a]) : a \in rows} : iv[2] > iv[1]}

\* Mutant: compaction keeps the first fragment only.
CompactToFirst(ivs) ==
    LET union == NormalizeIntervals(ivs)
    IN  IF union = <<>> THEN {} ELSE {union[1]}

\* _compact_closed: the closed rows are replaced by their union.
Compacted(ivs) == ToSet(NormalizeIntervals(ivs))

\* _closed_intervals over all rows: a served prefix counts while active.
Coverage(rows, ivs) == NormalizeIntervals(ivs \cup Evidence(rows))

\* Mutant: a contiguous prefix is taken for the whole artifact.
PrefixIsComplete(coverage) == Len(coverage) = 1

Complete(coverage) == coverage = <<<<0, Size>>>>

\* The attempts whose lease is live (has_live_attempt_locked).
LiveRows == {a \in ActiveRows : active[a].lease > clock}

Largest(S) == CHOOSE x \in S : \A y \in S : y <= x

Closed(pc) == [pc |-> pc, end |-> 0, at |-> 0]

Init ==
    /\ clock = 0
    /\ job = "ready"
    /\ slot = "reserved"
    /\ reservation = TtlTicks
    /\ active = [a \in Responses |-> None]
    /\ closed = {}
    /\ stream = [a \in Responses |-> Closed("idle")]
    /\ sent = {}

Tick ==
    /\ clock < MaxTime
    /\ clock' = clock + 1
    /\ UNCHANGED <<job, slot, reservation, active, closed, stream, sent>>

\* The first byte an attempt could still serve.
FirstByte(r) == <<r.start, r.start + 1>>

\* begin, accepted: stale attempts are closed and the ledger compacted; the
\* bounds on active attempts and on fragments hold with the new one.
Begin(a, start, end) ==
    LET gone == {b \in ActiveRows : Stale(b)}
        kept == ActiveRows \ gone
        fresh == [start |-> start, end |-> end, served |-> start,
                  lease |-> clock + LeaseTicks]
        union == Compacted(closed \cup Evidence(gone))
    IN  /\ stream[a].pc = "idle"
        /\ job = "ready" /\ TtlTicks > clock /\ slot = "reserved"
        /\ Cardinality(union) <= MaxFragments
        /\ Cardinality(kept) < MaxActive
        /\ Len(NormalizeIntervals(union \cup Evidence(kept)
                  \cup {FirstByte(active[b]) : b \in kept}
                  \cup {FirstByte(fresh)})) <= MaxFragments
        /\ active' = [b \in Responses |-> IF b = a THEN fresh
                                          ELSE IF b \in gone THEN None
                                          ELSE active[b]]
        /\ closed' = union
        /\ reservation' = Largest({reservation, fresh.lease})
        /\ stream' = [stream EXCEPT ![a] = [pc |-> "sending", end |-> end,
                                            at |-> start]]
        /\ UNCHANGED <<clock, job, slot, sent>>

\* body() yields one chunk.
Send(a) ==
    /\ stream[a].pc = "sending" /\ stream[a].at < stream[a].end
    /\ stream' = [stream EXCEPT ![a].at = @ + 1]
    /\ sent' = sent \cup {stream[a].at}
    /\ UNCHANGED <<clock, job, slot, reservation, active, closed>>

\* _consume_if_complete on the rows after the change.
ConsumeIfComplete(rows, ivs) ==
    slot' = IF slot = "reserved" /\ Complete(Coverage(rows, ivs))
            THEN "consumed" ELSE slot

\* checkpoint, after more bytes were sent, of a still active attempt of a
\* ready job; the attempt may be stale.
Checkpoint(a) ==
    /\ stream[a].pc = "sending" /\ stream[a].at > active[a].served
    /\ IsActive(a) /\ job = "ready" /\ slot \in {"reserved", "consumed"}
    /\ active' = [active EXCEPT ![a].served = stream[a].at,
                                ![a].lease = clock + LeaseTicks]
    /\ slot' = IF slot = "reserved"
                  /\ Complete(Coverage(ActiveRows \ {a},
                              closed \cup {<<active[a].start, stream[a].at>>}))
               THEN "consumed" ELSE slot
    /\ reservation' = IF slot = "reserved"
                      THEN Largest({reservation, clock + LeaseTicks})
                      ELSE reservation
    /\ UNCHANGED <<clock, job, closed, stream, sent>>

\* A checkpoint of an attempt that was closed as stale, or of a job that is
\* over, raises: the stream ends.  So does a disconnect or the last byte.  A
\* disconnect at the yield leaves one chunk handed out but not observed.
StreamEnds(a) ==
    /\ stream[a].pc = "sending"
    /\ stream' = [stream EXCEPT ![a].pc = "finalizing"]
    /\ \E at \in {stream[a].at, stream[a].at + 1} :
          /\ at <= stream[a].end
          /\ sent' = sent \cup stream[a].at..(at - 1)
    /\ UNCHANGED <<clock, job, slot, reservation, active, closed>>

\* Mutant: the reservation falls back to the TTL of the job.
ReservationReset(rest) == TtlTicks

\* The reservation of an entry that stays reserved when an attempt ends.
ReservationAfter(rest) == Largest({TtlTicks} \cup {active[b].lease : b \in rest})

\* finalize commits: the attempt is closed at what was observed.
Finalize(a) ==
    LET ivs == closed \cup {iv \in {<<active[a].start, stream[a].at>>} : iv[2] > iv[1]}
        rest == ActiveRows \ {a}
    IN  /\ stream[a].pc = "finalizing"
        /\ IsActive(a) /\ job = "ready" /\ slot \in {"reserved", "consumed"}
        /\ Cardinality(Compacted(ivs)) <= MaxFragments
        /\ active' = [active EXCEPT ![a] = None]
        /\ closed' = Compacted(ivs)
        /\ ConsumeIfComplete(rest, Compacted(ivs))
        /\ reservation' = IF slot' = "reserved"
                          THEN ReservationAfter(rest) ELSE reservation
        /\ stream' = [stream EXCEPT ![a] = Closed("done")]
        /\ UNCHANGED <<clock, job, sent>>

\* finalize is a duplicate, raises, times out, or the process is gone: the
\* failure is logged and the row is left as it is.
FinalizeFails(a) ==
    /\ stream[a].pc = "finalizing"
    /\ stream' = [stream EXCEPT ![a] = Closed("done")]
    /\ UNCHANGED <<clock, job, slot, reservation, active, closed, sent>>

\* What reconcile_locked leaves of the ledger.
StaleRows == {b \in ActiveRows : Stale(b)}
Reconciled == Compacted(closed \cup Evidence(StaleRows))
DropStale == active' = [b \in Responses |-> IF b \in StaleRows THEN None ELSE active[b]]

\* QuotaReconciler.run; a ledger that cannot be compacted raises and the whole
\* pass is rolled back.
Reconcile ==
    /\ job = "ready" /\ slot = "reserved"
    /\ Cardinality(Reconciled) <= MaxFragments
    /\ DropStale
    /\ closed' = Reconciled
    /\ ConsumeIfComplete(ActiveRows \ StaleRows, Reconciled)
    /\ UNCHANGED <<clock, job, reservation, stream, sent>>

\* expire_due_jobs.  A reserved slot is reconciled first, and a live attempt
\* defers the expiry (what is left is Reconcile); a terminal one is kept.
Expire ==
    /\ job = "ready" /\ TtlTicks <= clock
    /\ job' = "expired"
    /\ \/ /\ slot = "reserved"
          /\ Cardinality(Reconciled) <= MaxFragments
          /\ LiveRows = {} \/ Complete(Coverage(LiveRows, Reconciled))
          /\ DropStale
          /\ closed' = Reconciled
          /\ slot' = IF Complete(Coverage(LiveRows, Reconciled))
                     THEN "consumed" ELSE "expired"
       \/ slot # "reserved" /\ UNCHANGED <<slot, active, closed>>
    /\ UNCHANGED <<clock, reservation, stream, sent>>

\* DownloadPremiumUpgradeService.upgrade: refused while an attempt is live;
\* stale attempts are closed without compaction.
Promote ==
    /\ job = "ready" /\ TtlTicks > clock /\ slot = "reserved"
    /\ LiveRows = {}
    /\ DropStale
    /\ closed' = closed \cup Evidence(StaleRows)
    /\ slot' = IF Complete(Coverage({}, closed')) THEN "consumed" ELSE "released"
    /\ UNCHANGED <<clock, job, reservation, stream, sent>>

ResponseStep(a) ==
    \/ \E start \in 0..(Size - 1) : \E end \in (start + 1)..Size : Begin(a, start, end)
    \/ Send(a)
    \/ Checkpoint(a)
    \/ StreamEnds(a)
    \/ Finalize(a)
    \/ FinalizeFails(a)

Next ==
    \/ Tick
    \/ Reconcile
    \/ Expire
    \/ Promote
    \/ \E a \in Responses : ResponseStep(a)

Spec == Init /\ [][Next]_vars

\* Time passes and the worker's hygiene runs.  A response need not make
\* progress, but it cannot checkpoint for ever either: its range is finite.
FairSpec == Spec /\ WF_vars(Tick) /\ WF_vars(Expire)

-----------------------------------------------------------------------------
(* Properties.                                                             *)

Attempts == [start : 0..Size, end : 0..Size, served : 0..Size, lease : Int]

\* Every variable has its type, and an attempt never serves past its range.
TypeOK ==
    /\ clock \in 0..MaxTime
    /\ job \in {"ready", "expired"}
    /\ slot \in {"reserved", "consumed", "released", "expired"}
    /\ reservation \in Nat
    /\ active \in [Responses -> Attempts]
    /\ \A a \in Responses : active[a].served \in active[a].start..active[a].end
    /\ closed \in SUBSET ((0..Size) \X (0..Size))
    /\ stream \in [Responses -> [pc : {"idle", "sending", "finalizing", "done"},
                                 end : 0..Size, at : 0..Size]]
    /\ sent \in SUBSET (0..(Size - 1))

\* The bytes the ledger says were served.
Covered == BytesOf(closed \cup Evidence(ActiveRows))

\* The ledger never claims a byte that was not handed to the client, so a
\* slot is consumed only after the whole artifact was: by whatever mix of
\* ranges, checkpoints, lost responses and stale attempts.
LedgerIsHonest ==
    /\ Covered \subseteq sent
    /\ slot = "consumed" => 0..(Size - 1) \subseteq sent

\* Evidence is never lost: closing stale attempts, compaction and concurrent
\* finalization keep every byte that was recorded.
CoverageNeverShrinks == [][Covered \subseteq Covered']_vars

\* Recorded delivery of the whole artifact is charged in the transaction that
\* records the last byte: no complete ledger waits with a reserved slot.
FullCoverageIsCharged ==
    job = "ready" /\ slot = "reserved" => Covered # 0..(Size - 1)

\* A reservation outlives the leases of its attempts and the job: status_locked
\* stops counting a reservation past its expiry, which would admit one
\* download too many while this one is still being delivered.
ReservationOutlivesLeases ==
    slot = "reserved" =>
        /\ reservation >= TtlTicks
        /\ \A a \in ActiveRows : active[a].lease <= reservation

\* The comment in begin: reserving the first byte of every active response
\* "keeps future concurrent finalization within the durable fragment bound".
FinalizeStaysWithinBound ==
    \A a \in ActiveRows : stream[a].pc = "finalizing" =>
        Len(NormalizeIntervals(closed \cup {<<active[a].start, stream[a].at>>}))
            <= MaxFragments

\* The job is expired (leases past the end of modelled time are left out).
LedgerOver == job = "expired" \/ \E a \in Responses : active[a].lease > MaxTime

\* The slot follows the ledger: it is charged when the last byte is recorded, and until
\* then its reservation is not over before the deliveries are.
SlotFollowsTheLedger == FullCoverageIsCharged /\ ReservationOutlivesLeases
=============================================================================
