------------------------------ MODULE Commerce ------------------------------
(***************************************************************************)
(* What an anonymous client may download and what it paid for: the Free    *)
(* quota (quota/service, repository, reconcile), the payment orders and    *)
(* their provider callbacks (payments/), the Premium entitlements they     *)
(* buy (premium/) and the promotion of a finished Free download            *)
(* (downloads/promote).                                                    *)
(*                                                                         *)
(* Every handler is one transaction that holds the client's row, so it is  *)
(* one step.  A handler that reads database_now() and only then waits for  *)
(* that row works with an old `now`, at most MaxLag ticks behind the       *)
(* clock.  A payment callback is two steps, its unlocked read and its      *)
(* locked write, and the provider may repeat it at any time.               *)
(*                                                                         *)
(* The life of a download job and the byte ledger of a delivery are the    *)
(* modules DownloadJobs and DeliveryAccounting; here a job keeps only what *)
(* the quota reads of it, and a delivery is begun, covers the file or not, *)
(* and ends.                                                               *)
(***************************************************************************)
EXTENDS Integers, FiniteSets

CONSTANTS Clients,      \* identities that can be minted, one per cookie
          Downloads,    \* download jobs, one per (media job, format)
          Orders,       \* idempotency keys of payment orders
          NoOne,
          Limit,        \* free_download_limit
          Window,       \* free_download_window_seconds
          Retention,    \* free_download_quota_retention_seconds
          ClientTTL,    \* anonymous_client_ttl_seconds
          ArtifactTTL,       \* media_download_artifact_ttl_seconds
          OrderTTL,     \* robokassa_order_ttl_seconds
          Duration,     \* entitlement_duration_seconds
          MaxLag,       \* bound: ticks between database_now() and its use
          LastTick       \* bound: the clock stops here

\* NULL is no client and no row; the relations Settings enforces between the
\* periods.
ASSUME CommerceAssumption ==
    /\ NoOne \notin Clients
    /\ NoOne \notin [client : Clients, starts : Nat, expires : Nat]
    /\ {Limit, Window, ArtifactTTL, OrderTTL, Duration} \subseteq Nat \ {0}
    /\ Retention \in Nat /\ Window < Retention
    /\ ClientTTL \in Nat /\ Window < ClientTTL
    /\ MaxLag \in Nat /\ LastTick \in Nat

VARIABLES dbNow,        \* clock_timestamp() of the database
          clients,      \* anonymous_clients: NoOne or the row's expires_at
          cookie,       \* the client the browser's cookie names
          jobs,         \* media_download_jobs
          entries,      \* free_download_quota_entries
          orders,       \* payment_orders
          entitlements, \* premium_entitlements, by source order
          callbacks     \* callbacks past their unlocked read, per order

quotaVars == <<jobs, entries>>
paymentVars == <<orders, entitlements, callbacks>>
commerceVars == <<dbNow, clients, cookie, quotaVars, paymentVars>>

Absent == [state |-> "absent"]

\* `since` is when the Premium tier was granted, `lease` whether a delivery
\* is running, `covered` whether the delivered bytes cover the artifact.
Jobs == [state : {"queued", "ready", "failed", "expired"}, tier : {"free", "premium"},
         owner : Clients \cup {NoOne}, since : Nat, expires : Nat,
         lease : BOOLEAN, covered : BOOLEAN]

\* `at` is consumed_at or released_at.
Entries == [state : {"reserved", "consumed", "released", "expired"},
            client : Clients, expires : Nat, at : Nat]

PaymentOrders == [state : {"pending", "paid", "expired"}, client : Clients,
                  expires : Nat, paidAt : Nat, legacy : BOOLEAN]

Premiums == [client : Clients, starts : Nat, expires : Nat]

\* An order paid before entitlements existed, with the client that paid it.
LegacyOrder(c) == [state |-> "paid", client |-> c, expires |-> OrderTTL,
                   paidAt |-> 0, legacy |-> TRUE]

CommerceInit ==
    /\ dbNow = 0
    /\ jobs = [d \in Downloads |-> Absent]
    /\ entries = [d \in Downloads |-> Absent]
    /\ entitlements = [o \in Orders |-> NoOne]
    /\ callbacks = [o \in Orders |-> 0]
    /\ \/ /\ clients = [c \in Clients |-> NoOne] /\ cookie = NoOne
          /\ orders = [o \in Orders |-> Absent]
       \/ \E c \in Clients, o \in Orders :
            /\ clients = [x \in Clients |-> IF x = c THEN ClientTTL ELSE NoOne]
            /\ cookie = c
            /\ orders = [x \in Orders |-> IF x = o THEN LegacyOrder(c) ELSE Absent]

-----------------------------------------------------------------------------
(* Identities *)

\* A `now` read before the handler waited for the client's row.
Nows == {n \in 0..dbNow : dbNow - n <= MaxLag}

\* lock_client(require_active_at = now), get_active_client_by_hash.
Active(c, now) == c # NoOne /\ clients[c] # NoOne /\ clients[c] > now

TimePasses ==
    /\ dbNow < LastTick
    /\ dbNow' = dbNow + 1
    /\ UNCHANGED <<clients, cookie, quotaVars, paymentVars>>

\* An active cookie is answered from its row; any other value is never
\* adopted, and a new identity is minted.  A deleted row's id is not reused.
BootstrapIdentity(c) ==
    /\ ~ Active(cookie, dbNow)
    /\ clients[c] = NoOne
    /\ cookie # c
    /\ \A d \in Downloads : jobs[d] # Absent => jobs[d].owner # c
    /\ clients' = [clients EXCEPT ![c] = dbNow + ClientTTL]
    /\ cookie' = c
    /\ UNCHANGED <<dbNow, quotaVars, paymentVars>>

-----------------------------------------------------------------------------
(* Premium entitlements and the Free quota *)

\* get_active_for_client, with its own clock read.
PremiumAt(c, t) ==
    \E o \in Orders : /\ entitlements[o] # NoOne
                      /\ entitlements[o].client = c
                      /\ entitlements[o].starts <= t /\ t < entitlements[o].expires

EntriesOf(c) == {d \in Downloads : entries[d] # Absent /\ entries[d].client = c}

\* status_locked: the successes inside the rolling window that ends at now.
Used(c, now) == {d \in EntriesOf(c) : /\ entries[d].state = "consumed"
                                      /\ entries[d].at > now - Window
                                      /\ entries[d].at <= now}

\* status_locked: the reservations that have not lapsed at now.  A running
\* delivery keeps its reservation ahead of its lease (ReservationOutlivesLeases
\* of DeliveryAccounting).
Reserved(c, now) == {d \in EntriesOf(c) : /\ entries[d].state = "reserved"
                                          /\ entries[d].expires > now \/ jobs[d].lease}

\* downloads_remaining counts the successes only.
RemainingIgnoresReserved(c, now) == Limit > Cardinality(Used(c, now))

\* downloads_remaining >= 1.
Remaining(c, now) ==
    Limit > Cardinality(Used(c, now)) + Cardinality(Reserved(c, now))

\* The (used - limit)-th oldest counted success: the one whose leaving the
\* window brings the count below the limit.
Releasing(c, now) ==
    CHOOSE d \in Used(c, now) :
        LET older == {e \in Used(c, now) : entries[e].at < entries[d].at}
            upto  == {e \in Used(c, now) : entries[e].at <= entries[d].at}
            offset == Cardinality(Used(c, now)) - Limit
        IN  Cardinality(older) <= offset /\ offset < Cardinality(upto)

\* reset_at, published only when the successes alone exhaust the limit.
ResetAt(c, now) == entries[Releasing(c, now)].at + Window

NewJob(tier, c, expires) ==
    [state |-> "queued", tier |-> tier, owner |-> c,
     since |-> IF tier = "premium" THEN dbNow ELSE 0,
     expires |-> expires, lease |-> FALSE, covered |-> FALSE]

\* DownloadJobService.create of a new row: admit_locked, then the media kind
\* is checked against the policy, in one transaction with the row: a Free job
\* is always NORMAL_VIDEO.  A refusal of either kind rolls everything back.
\* `now` is read before lock_client; the entitlement is looked up with the
\* clock of that moment.
Admit(d, now) ==
    /\ jobs[d] = Absent
    /\ Active(cookie, now)
    /\ \/ /\ PremiumAt(cookie, dbNow)
          /\ jobs' = [jobs EXCEPT ![d] = NewJob("premium", cookie, now + ArtifactTTL)]
          /\ UNCHANGED entries
       \/ /\ ~ PremiumAt(cookie, dbNow)
          /\ Remaining(cookie, now)
          /\ jobs' = [jobs EXCEPT ![d] = NewJob("free", NoOne, now + ArtifactTTL)]
          /\ entries' = [entries EXCEPT ![d] =
                [state |-> "reserved", client |-> cookie,
                 expires |-> now + ArtifactTTL, at |-> 0]]
    /\ UNCHANGED <<dbNow, clients, cookie, paymentVars>>

\* consume_locked and release_locked change a reserved entry only.
Settle(d, state, now) ==
    IF entries[d] # Absent /\ entries[d].state = "reserved"
    THEN [entries[d] EXCEPT !.state = state, !.at = now]
    ELSE entries[d]

-----------------------------------------------------------------------------
(* What the worker and the delivery service do to the job and its entry     *)

\* complete_ready keeps the reservation until bytes are delivered;
\* fail_permanent releases it.
WorkerFinishes(d, outcome) ==
    /\ jobs[d] # Absent /\ jobs[d].state = "queued"
    /\ jobs' = [jobs EXCEPT ![d].state = outcome]
    /\ entries' = IF outcome = "failed"
                  THEN [entries EXCEPT ![d] = Settle(d, "released", dbNow)]
                  ELSE entries
    /\ UNCHANGED <<dbNow, clients, cookie, paymentVars>>

\* begin: a delivery of a READY, unexpired Free artifact takes a lease.
DeliveryBegins(d) ==
    /\ jobs[d] # Absent /\ jobs[d].state = "ready" /\ dbNow < jobs[d].expires
    /\ jobs[d].tier = "free" /\ ~ jobs[d].lease
    /\ jobs' = [jobs EXCEPT ![d].lease = TRUE]
    /\ UNCHANGED <<dbNow, clients, cookie, entries, paymentVars>>

\* The stream reaches the end of the file; the process may die before finalize.
DeliveryCovers(d) ==
    /\ jobs[d] # Absent /\ jobs[d].lease /\ ~ jobs[d].covered
    /\ jobs' = [jobs EXCEPT ![d].covered = TRUE]
    /\ UNCHANGED <<dbNow, clients, cookie, entries, paymentVars>>

\* finalize consumes the entry of a covered artifact (require_unexpired is
\* False here); a lease that ran out is closed without it.
DeliveryEnds(d, finalized) ==
    /\ jobs[d] # Absent /\ jobs[d].lease
    /\ jobs' = [jobs EXCEPT ![d].lease = FALSE]
    /\ entries' = IF finalized /\ jobs[d].covered
                  THEN [entries EXCEPT ![d] = Settle(d, "consumed", dbNow)]
                  ELSE entries
    /\ UNCHANGED <<dbNow, clients, cookie, paymentVars>>

\* The entry of an expired job without the look at what was delivered.
ExpiredEntryUnread(d) == Settle(d, "expired", dbNow)

\* reconcile_locked first: full coverage is charged, never given back.
ExpiredEntry(d) ==
    Settle(d, IF jobs[d].covered THEN "consumed" ELSE "expired", dbNow)

\* expire_due_jobs for one job; a live delivery of a job that is not yet
\* charged defers it.
ExpireDue(d) ==
    /\ jobs[d] # Absent /\ jobs[d].state \in {"queued", "ready", "failed"}
    /\ jobs[d].expires <= dbNow
    /\ jobs[d].lease => jobs[d].covered \/ entries[d].state = "consumed"
    /\ jobs' = [jobs EXCEPT ![d].state = "expired", ![d].lease = FALSE]
    /\ entries' = [entries EXCEPT ![d] = ExpiredEntry(d)]
    /\ UNCHANGED <<dbNow, clients, cookie, paymentVars>>

\* _apply_quota_rule: a complete Free delivery is charged, any other
\* reservation is given back.
PromotedEntry(d, now) ==
    Settle(d, IF jobs[d].covered THEN "consumed" ELSE "released", now)

\* upgrade: locks the client and the job, and needs an active entitlement and
\* no live delivery.  A job that is Premium already is answered unchanged,
\* another identity's job not at all.
Upgrade(d, now) ==
    /\ Active(cookie, now)
    /\ jobs[d] # Absent /\ jobs[d].state = "ready" /\ jobs[d].expires > now
    /\ jobs[d].tier = "free"
    /\ PremiumAt(cookie, dbNow)
    /\ d \in EntriesOf(cookie)
    /\ ~ jobs[d].lease
    /\ entries[d].state \in {"reserved", "consumed"}
    /\ entries' = [entries EXCEPT ![d] = PromotedEntry(d, now)]
    /\ jobs' = [jobs EXCEPT ![d].tier = "premium", ![d].owner = cookie,
                            ![d].since = dbNow]
    /\ UNCHANGED <<dbNow, clients, cookie, paymentVars>>

-----------------------------------------------------------------------------
(* QuotaReconciler.run: one transaction, committed only at its end          *)

\* The repair of one reserved entry from its job's state.
Repaired(d, now) ==
    LET j == jobs[d]
        lapsed == /\ j.state = "queued"
                  /\ entries[d].expires <= now /\ j.expires <= now
    IN  CASE entries[d] = Absent -> Absent
          [] j.state = "ready" /\ j.covered -> Settle(d, "consumed", now)
          [] j.state = "failed"  -> Settle(d, "released", now)
          [] j.state = "expired" -> Settle(d, "expired", now)
          [] lapsed              -> Settle(d, "expired", now)
          [] OTHER               -> entries[d]

\* The job of a lapsed reservation is expired with it.
RepairedJob(d, now) ==
    IF /\ entries[d] # Absent /\ entries[d].state = "reserved"
       /\ jobs[d].state = "queued"
       /\ entries[d].expires <= now /\ jobs[d].expires <= now
    THEN [jobs[d] EXCEPT !.state = "expired"]
    ELSE jobs[d]

\* delete_terminal_entries_before, re-checked under the client's row.
Prunable(e, now) == e # Absent /\ e.state # "reserved" /\ e.at <= now - Retention

Referenced(c) == \E o \in Orders : orders[o] # Absent /\ orders[o].client = c

\* delete_expired_clients_without_entries looks at the quota entries only.
\* payment_orders and premium_entitlements reference the row with ON DELETE
\* RESTRICT: when one does, the DELETE fails and the transaction is lost.
ReconcileQuota(now) ==
    LET repaired == [d \in Downloads |-> Repaired(d, now)]
        kept == [d \in Downloads |->
                    IF Prunable(repaired[d], now) THEN Absent ELSE repaired[d]]
        deletable == {c \in Clients :
                        /\ clients[c] # NoOne /\ clients[c] <= now
                        /\ \A d \in Downloads : kept[d] # Absent => kept[d].client # c}
    IN  /\ \A c \in deletable : ~ Referenced(c)
        /\ entries' = kept
        /\ jobs' = [d \in Downloads |-> RepairedJob(d, now)]
        /\ clients' = [c \in Clients |-> IF c \in deletable THEN NoOne ELSE clients[c]]
        /\ UNCHANGED <<dbNow, cookie, paymentVars>>

-----------------------------------------------------------------------------
(* Payment orders *)

\* create_order: create_or_get and mark_pending in one transaction.  A replay
\* of the key finds the row: the form again while it is pending, an error
\* once it is paid or expired.
CreateOrder(o) ==
    /\ Active(cookie, dbNow)
    /\ orders[o] = Absent
    /\ orders' = [orders EXCEPT ![o] =
          [state |-> "pending", client |-> cookie, expires |-> dbNow + OrderTTL,
           paidAt |-> 0, legacy |-> FALSE]]
    /\ UNCHANGED <<dbNow, clients, cookie, quotaVars, entitlements, callbacks>>

\* _validate_callback_snapshot; an authentic callback carries the order's own
\* amount and signature, any other is refused before it.
Acceptable(o) == orders[o] # Absent /\ orders[o].state \in {"pending", "paid"}

\* accept_callback up to lock_by_invoice_id: the unlocked read.  The customer
\* may pay, and the provider may call back, at any time after the order was
\* made; at most two callbacks of an order are in the service at once.
CallbackReads(o) ==
    /\ Acceptable(o) /\ callbacks[o] < 2
    /\ callbacks' = [callbacks EXCEPT ![o] = @ + 1]
    /\ UNCHANGED <<dbNow, clients, cookie, quotaVars, orders, entitlements>>

\* The window an order that was paid at paidAt buys.
PaidWindow(o, paidAt) ==
    [client |-> orders[o].client, starts |-> paidAt, expires |-> paidAt + Duration]

\* ensure_for_paid_order: the existing row, or a window that starts at paid_at.
Ensured(o, paidAt) ==
    IF entitlements[o] # NoOne THEN entitlements[o] ELSE PaidWindow(o, paidAt)

\* mark_paid: an order that is paid already keeps its paid_at.
PaidAt(o) == IF orders[o].state = "paid" THEN orders[o].paidAt ELSE dbNow

\* The payment is committed and the entitlement left to a later step.
CallbackWritesOrderOnly(o) ==
    /\ callbacks[o] > 0
    /\ callbacks' = [callbacks EXCEPT ![o] = @ - 1]
    /\ orders' = IF Acceptable(o)
                 THEN [orders EXCEPT ![o].state = "paid", ![o].paidAt = PaidAt(o)]
                 ELSE orders
    /\ UNCHANGED <<dbNow, clients, cookie, quotaVars, entitlements>>

\* The rest of accept_callback: the row is locked, re-read and validated
\* again.
CallbackWrites(o) ==
    /\ callbacks[o] > 0
    /\ callbacks' = [callbacks EXCEPT ![o] = @ - 1]
    /\ \/ /\ Acceptable(o)
          /\ orders' = [orders EXCEPT ![o].state = "paid", ![o].paidAt = PaidAt(o)]
          /\ entitlements' = [entitlements EXCEPT ![o] = Ensured(o, PaidAt(o))]
       \/ /\ ~ Acceptable(o)
          /\ UNCHANGED <<orders, entitlements>>
    /\ UNCHANGED <<dbNow, clients, cookie, quotaVars>>

\* expire_unpaid
ExpireUnpaid ==
    LET due == {o \in Orders : /\ orders[o] # Absent /\ orders[o].state = "pending"
                               /\ orders[o].expires <= dbNow}
    IN  /\ due # {}
        /\ orders' = [o \in Orders |-> IF o \in due THEN [orders[o] EXCEPT !.state = "expired"]
                                                    ELSE orders[o]]
        /\ UNCHANGED <<dbNow, clients, cookie, quotaVars, entitlements, callbacks>>

\* reconcile_paid_orders_without_entitlement
ReconcilePaid ==
    LET missing == {o \in Orders : /\ orders[o] # Absent /\ orders[o].state = "paid"
                                   /\ entitlements[o] = NoOne}
    IN  /\ missing # {}
        /\ entitlements' = [o \in Orders |-> IF o \in missing
                                             THEN Ensured(o, orders[o].paidAt)
                                             ELSE entitlements[o]]
        /\ UNCHANGED <<dbNow, clients, cookie, quotaVars, orders, callbacks>>

-----------------------------------------------------------------------------
CallbackStep(o) == CallbackReads(o) \/ CallbackWrites(o)

Hygiene == \E now \in Nows : ReconcileQuota(now)

Expiry == \E d \in Downloads : ExpireDue(d)

CommerceNext ==
    \/ TimePasses
    \/ \E c \in Clients : BootstrapIdentity(c)
    \/ \E d \in Downloads :
         \/ \E now \in Nows : Admit(d, now) \/ Upgrade(d, now)
         \/ \E outcome \in {"ready", "failed"} : WorkerFinishes(d, outcome)
         \/ DeliveryBegins(d)
         \/ DeliveryCovers(d)
         \/ \E finalized \in BOOLEAN : DeliveryEnds(d, finalized)
    \/ Expiry
    \/ Hygiene
    \/ \E o \in Orders : CreateOrder(o) \/ CallbackStep(o)
    \/ ExpireUnpaid
    \/ ReconcilePaid

CommerceSpec == CommerceInit /\ [][CommerceNext]_commerceVars

-----------------------------------------------------------------------------
(* Properties *)

\* Types; an order and an entitlement belong to a client that was minted.
CommerceTypeOK ==
    /\ dbNow \in 0..LastTick
    /\ clients \in [Clients -> Nat \cup {NoOne}]
    /\ cookie \in Clients \cup {NoOne}
    /\ \A d \in Downloads : jobs[d] = Absent \/ jobs[d] \in Jobs
    /\ \A d \in Downloads : entries[d] = Absent \/ entries[d] \in Entries
    /\ \A o \in Orders : orders[o] = Absent \/ orders[o] \in PaymentOrders
    /\ \A o \in Orders : entitlements[o] = NoOne \/ entitlements[o] \in Premiums
    /\ callbacks \in [Orders -> 0..2]

\* However admissions interleave and however old their `now` is, a client
\* never holds more live reservations than free_download_limit.
ReservationsWithinLimit ==
    \A c \in Clients : Cardinality(Reserved(c, dbNow)) <= Limit

\* What the documentation promises: the successes of a rolling window never
\* exceed the limit, whatever runs in parallel.  admit_locked reads its clock
\* before it waits for the client's row: a success committed during the wait
\* is later than that clock, so it is counted neither as a success nor as a
\* reservation.
SuccessesWithinLimit ==
    \A c \in Clients : Cardinality(Used(c, dbNow)) <= Limit

\* The reset time a client is shown is kept: when the clock reaches it, the
\* successes counted now leave room for one more, and one tick before it they
\* do not.
ResetIsHonest ==
    \A c \in Clients :
        Cardinality(Used(c, dbNow)) >= Limit =>
            LET left(t) == {d \in Used(c, dbNow) : entries[d].at > t - Window}
                reset == ResetAt(c, dbNow)
            IN  /\ Cardinality(left(reset)) < Limit
                /\ Cardinality(left(reset - 1)) >= Limit

\* A payment buys exactly one entitlement, for the client that ordered it and
\* for the 24 hours after paid_at, however often and however concurrently its
\* callback arrives; nothing else is entitled.
PaymentBuysOneEntitlement ==
    \A o \in Orders :
        /\ entitlements[o] # NoOne =>
             /\ orders[o].state = "paid"
             /\ entitlements[o] = [client |-> orders[o].client,
                                   starts |-> orders[o].paidAt,
                                   expires |-> orders[o].paidAt + Duration]
        /\ orders[o] # Absent /\ orders[o].state = "paid" /\ ~ orders[o].legacy =>
             entitlements[o] # NoOne

\* A job has the Premium tier only if an entitlement of its owner was active
\* at the moment the tier was given, at admission or at promotion.
PremiumWasPaidFor ==
    \A d \in Downloads :
        jobs[d] # Absent /\ jobs[d].tier = "premium" =>
            \E o \in Orders :
                /\ entitlements[o] # NoOne /\ entitlements[o].client = jobs[d].owner
                /\ entitlements[o].starts <= jobs[d].since
                /\ jobs[d].since < entitlements[o].expires

\* A Premium download holds no Free slot, and a Free slot is spent on it only
\* if the whole file had been delivered before the promotion.
PremiumHoldsNoSlot ==
    \A d \in Downloads :
        jobs[d] # Absent /\ jobs[d].tier = "premium" /\ entries[d] # Absent =>
            \/ entries[d].state = "released"
            \/ entries[d].state = "consumed" /\ jobs[d].covered

\* A Free slot is never given back for a file that was delivered completely,
\* whichever of finalize, promotion, expiry and reconciliation comes first.
FullDeliveryIsKept ==
    \A d \in Downloads :
        jobs[d] # Absent /\ jobs[d].covered /\ entries[d] # Absent =>
            entries[d].state \in {"reserved", "consumed"}

\* A READY Free download still holds or has spent its slot, so the pass that
\* quarantines READY jobs with a terminal entry has nothing to quarantine:
\* promotion, expiry, failure and repair never leave such a job behind.
ReadyFreeKeepsItsSlot ==
    \A d \in Downloads :
        jobs[d] # Absent /\ entries[d] # Absent =>
            (jobs[d].state = "ready" /\ jobs[d].tier = "free" =>
                entries[d].state \in {"reserved", "consumed"})

\* Retention never forgets a success the rolling window still counts.
RetentionKeepsTheWindow ==
    [][\A c \in Clients :
         Used(c, dbNow) \subseteq {d \in Downloads : entries'[d] # Absent}]_commerceVars

\* A paid or expired order and an entitlement are never changed again.
SettledOrdersStay ==
    [][\A o \in Orders :
         /\ orders[o] # Absent /\ orders[o].state \in {"paid", "expired"} =>
              orders'[o] = orders[o]
         /\ entitlements[o] # NoOne => entitlements'[o] = entitlements[o]]_commerceVars

\* The Premium tier follows the money: one entitlement per payment, no Premium
\* download without one.
PremiumIsPaidFor == PaymentBuysOneEntitlement /\ PremiumWasPaidFor

\* The slot of a download follows its delivery and its tier, in whatever order finalize,
\* promotion, expiry and reconciliation come.
SlotFollowsTheDownload == PremiumHoldsNoSlot /\ FullDeliveryIsKept /\ ReadyFreeKeepsItsSlot
=============================================================================
